CONSTANTS
  MaxJobs = 2
  MaxTasks = 1
  TaskBudget = 2
  NoJob = 0
SPECIFICATION Spec
INVARIANT ErrorNotForgotten

CONSTANTS
  MaxJobs = 3
  MaxTasks = 2
  TaskBudget = 3
  NoJob = 0
SPECIFICATION FairSpec
INVARIANTS
  DesignatorsNameNewest
  NoOrphanTask
  ReportIsFinalStatus
PROPERTIES
  ImplementsTable
  FinishedJobsLeave
  WaitReturns

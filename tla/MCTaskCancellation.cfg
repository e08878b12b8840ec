CONSTANTS
  Tasks <- MCTasks
  Processes <- MCProcesses
  Lines <- MCLines
SPECIFICATION MCSpec
INVARIANT ProcessesSupervised
PROPERTIES ImplementsSupervision CascadeCompletes
CHECK_DEADLOCK FALSE

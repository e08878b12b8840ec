SPECIFICATION Spec
CONSTANTS
  MaxCommands = 12
  Programs <- MCPrograms
  Options <- MCWithoutErrexit
  Directories <- MCDirectories
  PatternInputs <- MCNone
  PathInputs <- MCNone
  WordInputs <- MCNone
PROPERTY StageRequestsContained
CHECK_DEADLOCK FALSE

CONSTANTS
  MaxNesting = 2
  MaxFunctionCallDepth = 1
  Signals = {"DEBUG", "ERR", "EXIT"}
SPECIFICATION Spec
INVARIANTS CommandScopesReverted
CHECK_DEADLOCK FALSE

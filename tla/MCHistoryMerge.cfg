CONSTANTS
  Sessions = {s1, s2}
  Shapes <- MCShapes
  MaxCommands = 2
  MaxLines = 3
  HistSize = 2
SPECIFICATION Spec
INVARIANT RecordsRoundTrip
CHECK_DEADLOCK FALSE

CONSTANTS
  MaxProducers = 1
  MaxDepth = 2
  Lists = FALSE
SPECIFICATION ProgramSpec
INVARIANT CancelledWithItsConsumer
CHECK_DEADLOCK FALSE

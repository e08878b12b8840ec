CONSTANTS
  Producers = 3
  MaxProducers = 2
  MaxDepth = 2
  Lists = TRUE
SPECIFICATION MCSpec
INVARIANTS NoneOutlives AnswerIsTrue KeptOnce AloneCancelledWithItsConsumer
PROPERTIES CutOffOnlyWhenUnread WaitAnswered WaitsEnd
CHECK_DEADLOCK FALSE

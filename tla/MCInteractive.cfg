CONSTANTS
  Sessions = {s1, s2}
  Shapes <- MCShapes
  MaxCommands = 2
  MaxLines = 2
  HistSize = 1
  Characters = {"a", "w", " ", "/", "$", ">", "^", "C"}
  Typed = {"a", "w"}
  WideChars = {"w"}
  HistoryEntries <- MCEntries
  CandidateLists <- MCLists
  Prompt <- MCPrompt
  ContinuationPrompt <- MCContinuationPrompt
  Width = 9
  Height = 3
  MaxWidth = 3
  MAX_RESTARTS = 1
  CommandNames <- MCCommandNames
  Arguments <- MCArguments
  OptionChanges <- MCOptionChanges
  MaxSpecs = 2
SYMMETRY SessionSymmetry
SPECIFICATION MCSpec
INVARIANTS EntriesCurrent RecordsWhole ReadsFailOnlyAtTheBottom PrintedSpecificationsRestore
PROPERTIES SavedMeansWritten NeverTorn KeysKeepTheScreen
CHECK_DEADLOCK FALSE

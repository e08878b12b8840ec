SPECIFICATION MCSpec
CONSTANTS
  MaxCommands = 12
  Programs <- MCPrograms
  Options <- MCOptions
  Directories <- MCDirectories
  PatternInputs <- MCPatternInputs
  PathInputs <- MCPathInputs
  WordInputs <- MCWordInputs
  MaxNesting = 8
  UsizeModulus = 16
  MaxBraceDepth = 4
  MaxBraceResults = 400
  MaxNumber = 100
  Sources <- MCSources
  QuoteInputs <- MCQuoteInputs
  BraceInputs <- MCBraceInputs
  ExportedFunctions <- MCFunctions
PROPERTY ErrexitAtUntestedFailures
PROPERTY LoopsLeftExactly
PROPERTY PatternsMatchAsWritten
PROPERTY SplitWhereIFSSays
PROPERTY QuotedWordsAreInert
PROPERTY SourcesReadAsWritten
PROPERTY QuotedTextReadsBack
PROPERTY BracesExpandAsWritten
PROPERTY ExportedFunctionsReadBack
CHECK_DEADLOCK FALSE

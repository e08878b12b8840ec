CONSTANTS
  MaxNesting = 3
  MaxFunctionCallDepth = 2
  Signals = {"DEBUG", "ERR", "EXIT"}
  FirstFd = 1
  MaxFd = 3
  SubstitutionFd = 2
  MaxDepth = 2
  MaxFdChanges = 3
  Names <- MCNames
  Elements <- MCElements
  Literals <- MCLiterals
  Subscripts <- MCSubscripts
  Started <- MCStarted
  MAX_NAMEREF_DEPTH = 3
  MaxScopes = 4
  MaxVariableChanges = 2
  MaxStack = 2
  Directories <- MCDirectories
  SearchPaths <- MCSearchPaths
  ProcessDir <- MCProcessDir
  Home <- MCHome
  Targets <- MCTargets
  Pinned <- MCPinned
  Characters <- MCCharacters
  OptionStrings <- MCOptionStrings
  ArgumentLists <- MCArgumentLists
  Indices <- MCIndices
SPECIFICATION MCSpec
INVARIANTS CallsAccounted UnmaskedSeenAsInOneTable CountsEntries PlacesAgree FoundAsPathSays
PROPERTIES ReadonlyKept LocalsHide OptionsReadInTurn
CHECK_DEADLOCK FALSE

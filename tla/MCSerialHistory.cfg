SPECIFICATION FairSpec
CONSTANTS
  NULL = NULL
  Undefined = Undefined
  Char = {"a"}
  Keys = {"a", "up", "down", "delete", "enter"}
  Ahead = 1
  Buffer = {"buf"}
  Size <- ShortLines
  Extent = 3
  Zeroed = {"buf"}
  BUFFER_LIST_MAX = 3
  Uninit = {0, 1}
  Terminals = {"prompt", "slow"}
INVARIANTS HistoryWellFormed CursorInLine
PROPERTY EnterReturns

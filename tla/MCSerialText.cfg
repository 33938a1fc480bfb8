SPECIFICATION FairSpec
CONSTANTS
  NULL = NULL
  Undefined = Undefined
  Char = {"a"}
  Keys = {"a", "up", "down", "enter"}
  Ahead = 2
  Buffer = {"buf"}
  Size <- EqualSizes
  Extent = 6
  Zeroed = {"buf"}
  BUFFER_LIST_MAX = 3
  Uninit = {0, 2}
  Terminals = {"prompt"}
PROPERTY HistoryText

SPECIFICATION Spec
CONSTANTS
  NULL = NULL
  Undefined = Undefined
  Char = {"a", "b"}
  Keys = {"a", "b", "left", "right", "backspace", "delete", "enter"}
  Capacity = 4
  Ahead = 2
  Buffer = {"buf"}
  Size <- OneSize
  Extent = 6
  Zeroed = {"buf"}
  BUFFER_LIST_MAX = 2
  Uninit = {0, 2}
  Terminals = {"prompt"}
INVARIANTS TypeOK InLine LineTerminated
PROPERTIES OneSided Implements

SPECIFICATION ClientsSpec
CONSTANTS
  NULL = NULL
  HeapSize = 33
  MCBSize = 2
  PcbSize = 2
  NameSizes = {1, 2}
  NodeSize = 1
  BUFFER_LIST_MAX = 2
  UserSizes = {0, 2, 99}
  Sizes = {0, 1, 2, 99}
INVARIANTS
  TypeOK Layout Coalesced
  ListsAgree NoLeak ShowsEveryBlock
PROPERTY
  Implements

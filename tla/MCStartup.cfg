SPECIFICATION FairStartup
CONSTANTS
  None = None
  Lines = {0, 4, 8}
  NULL = NULL
  PAGE_SIZE = 4
  Entries = 4
  Slack = 8
  HeapPage = 40
  HeapPages = 3
  Machines <- SomeMachines
  Sizes = {2, 3, 5}
INVARIANTS NoStray AllocationsApart MemoryMapped
PROPERTY StartsUp

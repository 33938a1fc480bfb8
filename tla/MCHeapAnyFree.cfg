SPECIFICATION HeapSpec
CONSTANTS
  NULL = NULL
  HeapSize = 14
  MCBSize = 2
  Sizes = {0, 1, 3}
PROPERTY
  FreeChecked

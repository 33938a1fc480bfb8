SPECIFICATION Spec
CONSTANTS
  NULL = NULL
  Inputs <- AllInputs
  Starts <- RealStarts
  MaxTicks = 3
  TicksDuring = {TRUE, FALSE}
INVARIANTS  ReadCurrent SetShown

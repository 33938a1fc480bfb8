SPECIFICATION Spec
CONSTANTS
  NULL = NULL
  Comhand = Comhand
  Idle = Idle
  p1 = p1
  p2 = p2
  p3 = p3
  PCB = {Comhand, Idle, p1, p2, p3}
  Priority = {0, 3, 6, 9}
  Entered = {0, 6, 10}
  R3 <- TwoR3
  Name <- AllNames
  LongName = {"Process_1", "Process_2"}
  Offers <- AnyFunction
SYMMETRY Slots
INVARIANTS
  TypeOK
  QueuesWellFormed
  ContextsApart
PROPERTIES
  ContextKept
  Implements

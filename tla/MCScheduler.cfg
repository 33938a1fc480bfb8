SPECIFICATION Spec
CONSTANTS
  NULL = NULL
  Comhand = Comhand
  Idle = Idle
  p1 = p1
  p2 = p2
  p3 = p3
  PCB = {Comhand, Idle, p1, p2, p3}
  Priority <- MCPriority
SYMMETRY Slots
INVARIANTS
  TypeOK
  Placement
  ReadySorted
  SystemReady
PROPERTY
  KmainLast

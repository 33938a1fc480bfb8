SPECIFICATION FairSpec
CONSTANTS
  NULL = NULL
  Comhand = Comhand
  Idle = Idle
  p1 = p1
  p2 = p2
  p3 = p3
  PCB = {Comhand, Idle, p1, p2, p3}
  Priority = {0, 3, 6, 9}
  Entered = {0, 6}
  R3 <- TwoR3
  Name <- SomeNames
  LongName = {"Process_1"}
  Offers <- ShippedOnly
PROPERTIES
  IdleLast
  NoStarvation
  ShutdownHalts

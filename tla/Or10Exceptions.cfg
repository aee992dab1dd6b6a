SPECIFICATION Spec
CONSTANTS
  AddrCount = 3
  Vector <- MCVector
  Program <- ExceptionProgram
  DebugOps <- NoOps
  RunningOps <- NoOps
  TimerSize = 1
  MaxShift = 2
  MulDelay = 1
  HasPic = TRUE
  NoRequest = NoRequest
INVARIANTS
  TypeOK
  RegisterFilePortFree
PROPERTIES
  WishboneStable
  ImplementsOr1kArch

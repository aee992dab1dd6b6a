SPECIFICATION Spec
CONSTANTS
  AddrCount = 3
  Vector <- MCVector
  Program <- DebuggedProgram
  DebugOps <- StalledOps
  RunningOps <- AnyTimeOps
  TimerSize = 1
  MaxShift = 2
  MulDelay = 1
  HasPic = TRUE
  NoRequest = NoRequest
PROPERTIES
  StalledCpuIsFrozen
  SingleStepIsExact
  ImplementsOr1kArch

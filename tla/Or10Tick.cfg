SPECIFICATION LiveSpec
CONSTANTS
  AddrCount = 3
  Vector <- MCVector
  Program <- TickProgram
  DebugOps <- TickOps
  RunningOps <- PollOps
  TimerSize = 2
  MaxShift = 2
  MulDelay = 1
  HasPic = FALSE
  NoRequest = NoRequest
PROPERTIES
  TickIsRecorded
  DebugIsAnswered
  InterruptIsServed

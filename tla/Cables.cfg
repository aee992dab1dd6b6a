SPECIFICATION FairSpec
CONSTANTS
  Drivers <- AllDrivers
  Calls <- ManyCalls
  NoCall = NoCall
  ByteBits = 2
  WordBytes = 2
  MaxWrite = 2
  MaxRead = 3
  Retries = 2
CHECK_DEADLOCK FALSE
INVARIANT
  UnseenFailures
PROPERTIES
  ImplementsJtagCable
  CallsReturn

SPECIFICATION FairSpec
CONSTANTS
  MasterCount = 2
  Slaves = {"s0", "s1", "s2"}
  DefaultSlave = "s0"
  Unused = {"s2"}
  Slow = {"s1"}
  Address = {"ram", "beyond", "uart", "unused"}
  SlaveOf <- MCSlaveOf
  InBounds = {"ram", "uart"}
  Lane = {"high", "low"}
  Byte = {0, 1}
  Offered <- MCOffered
  None = None
INVARIANTS
  TypeOK
  SlavesAnswerWhenAsked
PROPERTIES
  ImplementsAtomicBus
  EveryMasterServed

SPECIFICATION FairSpec
CONSTANTS
    a1 = a1  a2 = a2  a3 = a3
    Address <- ThreeAddresses
    Disabled = Disabled
    SlotCount = 2
INVARIANTS TypeOK StoppedMeansStalled CopiesAreExact InsertedIsArmed CpuIsReleased AssertionsHold
PROPERTY StopsReachGdb

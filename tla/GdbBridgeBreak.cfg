SPECIFICATION Spec
CONSTANTS
    a1 = a1  a2 = a2  a3 = a3
    Address <- TwoAddresses
    Disabled = Disabled
    SlotCount = 2
PROPERTY BreakIsHandled

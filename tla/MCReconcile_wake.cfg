SPECIFICATION FairSpec
CONSTANTS
    Loop = Loop
    c1 = c1
    None = None
    Callers <- NoCaller
    NTables = 3
    Derived = {2, 3}
    Silent = {3}
    NDrivers = 1
    InMemory <- NoneInMemory
    MaxBackoff = 1
    MaxGen = 3
    MaxDerived = 1
    MaxFaults = 1
    MaxCrashes = 0
INVARIANTS
    NoLostWakeup
PROPERTIES
    Converges

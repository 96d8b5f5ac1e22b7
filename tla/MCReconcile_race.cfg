SPECIFICATION Spec
CONSTANTS
    Loop = Loop
    c1 = c1
    None = None
    Callers <- OneCaller
    NTables = 2
    Derived = {}
    Silent = {}
    NDrivers = 2
    InMemory <- LastInMemory
    MaxBackoff = 1
    MaxGen = 1
    MaxDerived = 1
    MaxFaults = 2
    MaxCrashes = 1
INVARIANTS
    SnapshotCommitted
    TruthfulWhenQuiet
    ApplyNowCoversEarlierWrites
PROPERTIES
    NeverGoesBack
    ImplementsGateway

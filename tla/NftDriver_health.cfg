SPECIFICATION FairSpec
CONSTANTS
    Rulesets = {r1, r2}
    Missing = Missing
    NFam = 2
    MaxDup = 2
    MaxFaults = 2
    MaxDrift = 1
INVARIANTS
    HealthyMeansLoaded
    GoodMeansRouted
PROPERTIES
    TableComesBack

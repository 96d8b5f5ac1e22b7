SPECIFICATION FairSpec
CONSTANTS
    Nodes = {1, 2, 3}
    Configs <- MCConfigs
    MaxIfaces = 2
    None = None
    MaxWrites = 4
    MaxFaults = 1
INVARIANTS
    OwnTunnel
    
PROPERTY
    TunnelsConverge

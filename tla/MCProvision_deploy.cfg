SPECIFICATION Spec
CONSTANTS
    Hosts = {h1}
    Kinds = {wg, vless}
    Workers = {w1, w2}
    None = None
    Gone = Gone
    Edited = Edited
    Cleaned = Cleaned
    MaxConcurrent = 1
    RegisterLimit = 2
    ProbeLimit = 2
    MaxDeploys = 3
    MaxOps = 1
    MaxFaults = 1
SYMMETRY Symmetry
INVARIANTS
    OneJobPerHost
    NodeReachesServer
    OneNodePerService
    NoGhostDeploying
CHECK_DEADLOCK FALSE

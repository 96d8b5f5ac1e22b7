SPECIFICATION Spec
CONSTANTS
    config = config
    proxy = proxy
    CNList = CNList
    Files <- AllFiles
    Contents = {v1, v2}
    Empty = Empty
    Nil = Nil
    UpDuringApply = FALSE
    MaxUnitFaults = 2
SYMMETRY Perms
INVARIANTS
    HealthyNeverStale

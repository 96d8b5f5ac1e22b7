SPECIFICATION Spec
CONSTANTS
    Xray = Xray
    Binaries = {Xray}
    Releases = {v3}
    Uploads = {v2}
    Bundle = v1
    Bad = {v3}
    None = None
    MaxTasks = 3
    MaxFaults = 2
    MaxCrashes = 1
INVARIANTS
    InstalledIsWhole
    FailedInstallKeepsOld
    RunsInstalled
PROPERTIES
    NothingIsLost
CHECK_DEADLOCK FALSE

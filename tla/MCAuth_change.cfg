SPECIFICATION Spec
CONSTANTS
    Requests = {r1, r2}
    IPs = {ip}
    Sessions = {s1, s2}
    Tokens = {t1}
    None = None
    Idle = 2
    Absolute = 2
    DelayAfter = 1
    LockAfter = 2
    MaxPasswords = 2
    MaxRequests = 4
    MaxFaults = 1
INVARIANTS
    BootstrapReadable
    CredentialsDie
    AttemptsBounded
    SessionLifetime
SYMMETRY Symm
CHECK_DEADLOCK FALSE

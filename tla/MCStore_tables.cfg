SPECIFICATION Spec
CONSTANTS
    n1 = n1  n2 = n2  n3 = n3  n4 = n4
    g1 = g1  g2 = g2
    s1 = s1  s2 = s2  s3 = s3  s4 = s4
    r1 = r1  r2 = r2  r3 = r3
    k1 = k1  c1 = c1
    q1 = q1  q2 = q2
    None = None
    NodeIds = {n1, n2, n3, n4}
    GroupIds = {g1, g2}
    SetIds = {s1, s2, s3, s4}
    RuleIds = {r1, r2, r3}
    Devices = {k1}
    DeviceActions = {"reject"}
    Cidrs = {c1}
    Requests = {q1, q2}
    Kinds <- MCKinds
    Starts <- MCStarts
    NodeInputs <- MCNodeInputs
    GroupInputs <- MCGroupInputs
    SetInputs <- MCSetInputs
    RuleInputs <- MCRuleInputs
    NetInputs <- MCNetInputs
    DnsInputs <- MCDnsInputs
    Backups <- MCBackups
    Retention = 3
    MaxGen = 4
INVARIANTS
    OnlyRacesInvalidate
    TargetsExist
    StrictFailsClosed
    BuiltinFirst

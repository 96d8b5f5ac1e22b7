SPECIFICATION Spec
CONSTANTS
    Tags = {t1, t2}
    Versions = {v1, v2}
    Absent = Absent
    Structs = {s1, s2}
    RuleLists = {r1, r2}
    NoConfig = NoConfig
    MaxUnitFaults = 1
SYMMETRY Perms
INVARIANTS
    RunsWhatIsGood

SPECIFICATION Spec
CONSTANTS
    Keys = {k1}
    Values = {v1}
    Flags = {0, 1}
    Absent = Absent
    Procs = {p1, p2}
    MaxIndex = 2
    MaxFaults = 2
    MaxCrashes = 2
SYMMETRY Symmetry
INVARIANTS
    TypeOK
    IndexBounded
    VersionUnique
    CASExclusive
    SettledAgree
PROPERTIES
    VersionsAdvance
    CASNoLostUpdate

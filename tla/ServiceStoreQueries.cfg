SPECIFICATION Spec
CONSTANTS
    Names = {s1, s2}
    Tags = {t1}
    MetaKeys = {m1}
    MetaValues = {x1, x2}
    Absent = Absent
    Clients = {c1}
    Filters <- AllFilters
    Second = 1
    TTL = 1
    MaxNow = 3
    MaxIndex = 2
    MaxFaults = 0
    MaxCrashes = 0
SYMMETRY Symmetry
INVARIANTS
    TypeOK
    IndexesMirror
    QueriesExact
PROPERTIES
    QueryMissesNothing

SPECIFICATION Spec
CONSTANTS
    Keys = {k1}
    Values = {v1}
    Flags = {0, 1}
    Nodes = {n1, n2}
    Clients = {c1}
    Absent = Absent
    UseCAS = TRUE
    MaxBatch = 1
    MaxLog = 4
    MaxSnapshots = 0
    MaxRestarts = 1
SYMMETRY Symmetry
INVARIANTS
    TypeOK
    ReplicasAgree
    OutcomesAgree
PROPERTIES
    CASNoLostUpdate

SPECIFICATION Spec
CONSTANTS
    Keys = {k1, k2}
    Values = {v1}
    Flags = {0, 1}
    Nodes = {n1, n2}
    Clients = {}
    Absent = Absent
    UseCAS = FALSE
    MaxBatch = 2
    MaxLog = 3
    MaxSnapshots = 1
    MaxRestarts = 1
SYMMETRY Symmetry
CHECK_DEADLOCK FALSE
INVARIANTS
    ContentsAgree
    ReplicaSound

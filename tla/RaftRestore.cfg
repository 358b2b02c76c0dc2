SPECIFICATION Spec
CONSTANTS
    Keys = {k1}
    Values = {v1}
    Flags = {0}
    Nodes = {n1, n2}
    Clients = {c1}
    Absent = Absent
    UseCAS = TRUE
    MaxBatch = 1
    MaxLog = 4
    MaxSnapshots = 1
    MaxRestarts = 1
SYMMETRY Symmetry
INVARIANTS
    OutcomesAgree

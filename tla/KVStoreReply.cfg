SPECIFICATION Spec
CONSTANTS
    Keys = {k1, k2}
    Values = {v1}
    Flags = {0}
    Absent = Absent
    Procs = {p1, p2}
    MaxIndex = 2
    MaxFaults = 0
    MaxCrashes = 0
PROPERTIES
    ReplyOwnIndex

SPECIFICATION FairSpec
CONSTANTS
    Names = {s1}
    Tags = {}
    MetaKeys = {}
    MetaValues = {}
    Absent = Absent
    Clients = {c1}
    Filters <- NoFilters
    Second = 2
    TTL = 2
    MaxNow = 6
    MaxIndex = 3
    MaxFaults = 2
    MaxCrashes = 2
INVARIANTS
    RestartKeepsLive
PROPERTIES
    CASNoLostUpdate
    EntriesAdvance
    ExpiryIsFinal

SPECIFICATION FairSpec
CONSTANTS
    Items = {x1}
    Jobs = {1, 2}
    MaxChanges = 2
    NoData = NoData
    NoLoad = NoLoad
    NoJob = NoJob
    NoItem = NoItem
INVARIANTS
    TypeOK
    OwnWritesShown
PROPERTIES
    SecretKept
    SkeletonEnds

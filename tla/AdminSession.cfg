SPECIFICATION FairSpec
CONSTANTS
    Users = {u1}
    Tabs = {"t1", "t2"}
    Calls <- OneEach
    TabOf <- TabOfPair
    MaxTokens = 2
    NoUser = NoUser
    NoToken = NoToken
INVARIANTS
    TypeOK
    SentAtMostTwice
    SessionWhole
    ForcedOutExcused
PROPERTIES
    SignedOutStays
    CallsSettle

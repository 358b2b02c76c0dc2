SPECIFICATION FairSpec
CONSTANTS
    Users = {u1}
    Tabs = {"t1"}
    Calls <- OneOnly
    TabOf <- TabOfPair
    MaxTokens = 2
    NoUser = NoUser
    NoToken = NoToken
INVARIANTS
    SignedOutHasNoTokens

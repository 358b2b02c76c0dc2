SPECIFICATION FairSpec
CONSTANTS
    Users = {u1, u2}
    Pages <- AllPages
    Channels <- AllChannels
    ChannelsOf <- Subscribed
    Sockets = {s1, s2, s3}
    Home = "dashboard"
    Fragile = {"kv", "health"}
    NoUser = NoUser
    NoPage = NoPage
    NoSocket = NoSocket
INVARIANTS
    TypeOK
    OneConnection
    IndicatorTrue
PROPERTIES
    ImplementsLink

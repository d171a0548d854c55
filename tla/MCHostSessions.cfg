CONSTANTS
    Hosts = {h1}
    Sessions = {0, 1, 2, 3, 4, 5}
    Generations = {0, 1, 2, 3, 4, 5}
    LockLag = 0
    MaxTime = 0
    Ops = {reset_failed}
    Plans = {p1}
    Ttl = 1
    NoPlan = NoPlan
    NoAuthority = NoAuthority
    Keys = {reset_failed}
    ObsTtl = 1
    MaxHostSets = 1
    MaxActionable = 1
    MaxRequests = 7
    NoSet = NoSet
    Calls = {c1, c2, c3}
    MaxGen = 5
    Free = Free
    NoHost = NoHost
    NoOp = NoOp
    Listings = {"logs"}
    ReadLimit = 4
SPECIFICATION ObservedSpec
INVARIANTS
    ConnectedIsCurrent
    RefreshingIsOwned
    SftpBelongsToSession
    BaselineIsCurrent
PROPERTIES
    CommandsReturn
CHECK_DEADLOCK FALSE

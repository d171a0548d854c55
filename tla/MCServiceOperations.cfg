CONSTANTS
    Hosts = {h1}
    Sessions = {0, 1, 2, 3, 4, 5}
    Generations = {0, 1, 2, 3, 4, 5}
    LockLag = 0
    MaxTime = 1
    Ops = {"reset_failed", "try_restart"}
    Plans = {p1, p2}
    Ttl = 1
    NoPlan = NoPlan
    NoAuthority = NoAuthority
    Keys = {"reset_failed", "try_restart"}
    ObsTtl = 1
    MaxHostSets = 1
    MaxActionable = 2
    MaxRequests = 6
    NoSet = NoSet
    Calls = {c1, c2}
    MaxGen = 5
    Free = Free
    NoHost = NoHost
    NoOp = NoOp
    Observable <- RunningOrFailed
    ServiceLimit = 1
SPECIFICATION ServiceSpec
INVARIANTS
    IndexConsistent
    AuthorityIsCurrent
    ObservationIsCurrent
    ExecutesOnBoundSession
    DispatchedAtMostOnce
PROPERTIES
    ImplementsOneShot
SYMMETRY Alike
CHECK_DEADLOCK FALSE

CONSTANTS
    Sessions = {"s1"}
    HostOf <- MCHostOf
    Dests = {"d"}
    GlobalActive = 2
    HostActive = 2
    JobCap = 2
    HistoryCap = 1
    MaxJob = 3
    MaxDrops = 1
CHECK_DEADLOCK FALSE
SPECIFICATION TransfersSpec
INVARIANTS
    DestinationExclusive
    QuiescedIsQuiet

CONSTANTS
    Sessions = {"s1", "s2"}
    HostOf <- MCHostOf
    Dests = {"d"}
    GlobalActive = 1
    HostActive = 1
    JobCap = 2
    HistoryCap = 1
    MaxJob = 2
    MaxDrops = 0
CHECK_DEADLOCK FALSE
SPECIFICATION TransfersSpec
PROPERTIES
    JobsEnd

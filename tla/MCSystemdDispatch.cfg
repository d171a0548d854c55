CONSTANTS
    Ops = {"reset_failed", "try_restart", "reload", "start"}
    OutputLimit = 1
    MaxWire = 3
SPECIFICATION Spec
INVARIANTS
    OutcomeTruthful
PROPERTIES
    DispatchReturns
CHECK_DEADLOCK FALSE

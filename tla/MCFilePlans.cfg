CONSTANTS
    Calls = {c1, c2}
    Paths = {"a"}
    PlanCap = 1
    PlanLifetime = 1
    DocumentLifetime = 2
    MaxTime = 2
    MaxSession = 2
    MaxPlan = 2
    MaxDocument = 2
SYMMETRY CallSymmetry
CHECK_DEADLOCK FALSE
SPECIFICATION FilePlansSpec
INVARIANTS
    OneSavePerDocument
    ReservationHasOwner
    RevokedStaysRevoked

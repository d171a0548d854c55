CONSTANTS
    Hosts = {h1, h2}
    Nothing = Nothing
    Pickers = {p1, p2}
    GrantIds = {g1, g2, g3}
    GrantCap = 2
    MaxSession = 2
SPECIFICATION GrantsSpec
INVARIANTS
    DisconnectedHasNoGrant
CHECK_DEADLOCK FALSE

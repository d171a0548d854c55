CONSTANTS
    Hosts = {h1, h2}
    Nothing = Nothing
    Endpoints = {e1, e2}
    Credentials = {i1, i2}
    VaultKeys = {v1, v2}
    Calls = {c1}
    ServerKeys = {k1, k2, k3}
    Attempts = {a1}
    Pickers = {p1, p2}
    GrantIds = {g1}
    GrantCap = 1
    MaxSession = 2
SPECIFICATION StateSpec
SYMMETRY Alike
INVARIANTS
    RecordsMatchSecrets
    OneVaultKey
    ConnectedIsTrusted
    GrantAccountedFor
PROPERTIES
    PinChangesAsShown
CHECK_DEADLOCK FALSE

CONSTANTS
    Calls = {c1, c2}
    Versions = {"v1", "v2"}
    InstallSupported = TRUE
    ArtifactLimit = 1
    MaxGeneration = 2
SPECIFICATION UpdateSpec
INVARIANTS
    InstallsAnnouncedVersion
    ClosedForGood
    CloserIsWoken
PROPERTIES
    NotBusyForEver

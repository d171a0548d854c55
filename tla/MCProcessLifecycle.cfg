CONSTANTS
    Calls = {c1, c2, c3}
    Versions = {"v1"}
    InstallSupported = TRUE
    ArtifactLimit = 1
    MaxGeneration = 2
    ActiveMax = 2
SPECIFICATION ProcessSpec
INVARIANTS
    DrainedIsQuiet
    CleanupRunsAlone
    DrainsAreWoken
PROPERTIES
    ExitAttemptEnds
CHECK_DEADLOCK FALSE

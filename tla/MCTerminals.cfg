CONSTANTS
    Chunk = 2
    Queue = 2
    Batch = 2
    MaxBytes = 3
    MaxData = 3
    MaxConn = 1
CHECK_DEADLOCK FALSE
SPECIFICATION TerminalsSpec
INVARIANTS
    OutputInOrder
    
    ChannelHasOwner
PROPERTIES
    TerminalEnds

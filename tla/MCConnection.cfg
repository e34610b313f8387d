SPECIFICATION ConnSpec
CONSTANTS
    Bodies <- MCBodies
    HdrSize = 4
    DataSize = 3
    PeekSize = 2
    HdrMaxes <- MCHdrMaxes
    ReadSizes = {2}
    MaxSockets = 2
    MaxCalls = 2
INVARIANTS
    ConnTypes
    Conserved
    HttpWhole
PROPERTIES
    ReadsReturn
CHECK_DEADLOCK FALSE

SPECIFICATION StreamSpec
CONSTANTS
    IvSize = 1
    DigestSize = 2
    ReadSize = 5
    Capacity = 2
    MaxFile = 7
    MaxFaults = 2
INVARIANTS
    StreamTypes
    Delivered
PROPERTIES
    StreamEnds
CHECK_DEADLOCK FALSE

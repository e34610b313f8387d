SPECIFICATION Spec
CONSTANTS
    Clients = {"ann", "ben", "cid"}
    Known = {"ann", "cid"}
    Trusting = {"ann", "ben"}
    Files = {"song", "plan", "key"}
    Kind <- MCKind
    Wants <- MCWants
    None = none
    MaxGets = 2
    MaxFaults = 1
INVARIANTS
    TypeOK
    
    SealedForOwner
PROPERTIES
    GetsAnswered
CHECK_DEADLOCK FALSE

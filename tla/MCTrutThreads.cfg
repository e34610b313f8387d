SPECIFICATION Spec
CONSTANTS
    Hosts = {"h1"}
    Searches = {"s1"}
    Gets = {"g1", "g2"}
    None = none
    Killed = killed
    MaxPackets = 1
INVARIANTS
    TypeOK
    UsedAlive
PROPERTIES
    UserReturns
CHECK_DEADLOCK FALSE

SPECIFICATION Spec
CONSTANTS
    Peers = {p1, p2}
    MaxJoins = 3
    MaxRestarts = 1
INVARIANTS
    TypeOK
    Agreement
    NoSilence
PROPERTY
    JoinAnswered
CHECK_DEADLOCK FALSE

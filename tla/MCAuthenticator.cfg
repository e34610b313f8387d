SPECIFICATION Spec
CONSTANTS
    Threads = {t1, t2}
    None = none
    Nonces = {n1, n2}
    Junk = junk
    Peers = {p1, p2}
    Keyed = {p1}
    Contexts = {c1, c2}
    Lifetimes = {1, 2}
    MaxTime = 3
    Period = 100
    Word = 1000
SYMMETRY Symmetry
INVARIANTS
    TypeOK
    OneTime
    InTime
PROPERTIES
    ScanPurges
    TicketsRefined
CHECK_DEADLOCK FALSE

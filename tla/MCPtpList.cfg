SPECIFICATION FairSpec
CONSTANTS
    Threads = {t1, t2}
    Entries = {e1, e2, e3}
    Sentinel = head
    None = none
    MaxCalls = 3
INVARIANTS
    TypeOK
    EachYieldsAll
    LinksInverse
PROPERTIES
    CallsReturn
    ListRefined
CHECK_DEADLOCK FALSE

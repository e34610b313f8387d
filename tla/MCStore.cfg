SPECIFICATION Spec
CONSTANTS
    Ptrs = {a1, a2, a3}
    Bodies = {b1, b2}
    Labels = {keydata}
    KeyLabels = {keydata}
    None = none
    Absent = absent
    Torn = torn
    MaxEntries = 3
    MaxCalls = 5
    Wanted = {"SECRET"}
SYMMETRY Symmetry
INVARIANTS
    TypeOK
    KeyMatches
    LoadRestores
    FindExact
CHECK_DEADLOCK FALSE

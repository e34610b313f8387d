SPECIFICATION Spec
CONSTANTS
    Threads = {main, peer}
    Main = main
    Cells = {a1, a2, a3}
    Names = {n1, n2}
    Listed = {n1}
    Deep = {n2}
    Patterns <- SomePatterns
    Dirs = {d1}
    None = none
    MaxCalls = 4
SYMMETRY Symmetry
INVARIANTS
    TypeOK
    CountsRight
    SearchExact
CHECK_DEADLOCK FALSE

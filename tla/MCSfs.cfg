SPECIFICATION Spec
CONSTANTS
    Procs = {1, 2, 3}
    Identity <- MCIdentity
    Host <- MCHost
    Issuer <- MCIssuer
    Known <- MCKnown
    Sharers = {1, 2}
    Files = {"f", "g"}
    MaxCommands = 3
    MaxFaults = 1
INVARIANTS
    TypeOK
    KeysAgree
    OneKeyEach
    GetRight
PROPERTIES
    CommandsEnd
CHECK_DEADLOCK FALSE

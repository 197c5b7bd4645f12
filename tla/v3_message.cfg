SPECIFICATION ASpec
CONSTANTS
    TARGET = 20
    Passwords <- MCPasswords
    EngineIds = {"eng"}
    NoPriv = NoPriv
    Requests <- MCRequests
    EngineIdLen <- MCEngineIdLen
    HostEngineId = "host"
    Times <- MCTimes
    Salts = {1, 2}
    None = None
INVARIANTS
    StreamExact
    ReceiverVerifies
    TrapRecovered
    FlagsTell
PROPERTIES
    Derived
CHECK_DEADLOCK FALSE

CONSTANTS
    Proc = {"a", "b"}
    Port <- MCPort
    Ephemeral <- MCEphemeral
    Requests <- MCRequests
    CapNetRaw = {"a"}
    CapNetBind = {"b"}
    Agent = {"lan", "lo"}
    PathMtu <- MCPathMtu
    OpenErrno = {"EMFILE"}
    SendErrno = {"EPERM", "ENETUNREACH", "ENOBUFS"}
    RawSupported = TRUE
    Free = Free
    Foreign = Foreign
SPECIFICATION BuildSpec
INVARIANTS
    TypeOK
    CopiesWithinBudget
    CopiesIdentical
    LengthsExact
    VerdictOfBuild
    MtuVerdict
    LastErrorDecides
    PortsReleased
PROPERTIES
    UsageBlamesPort
    ImplementsTrapSend

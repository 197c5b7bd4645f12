CONSTANTS
    Proc = {"a", "b"}
    Port <- MCPort
    Ephemeral <- MCEphemeral
    Requests <- MCFewRequests
    CapNetRaw = {"a"}
    CapNetBind = {}
    Agent <- MCAgent
    PathMtu <- MCPathMtu
    OpenErrno = {"EMFILE"}
    SendErrno = {"ENOBUFS"}
    RawSupported = FALSE
    Free = Free
    Foreign = Foreign
    Probe = Probe
    Addr <- MCAddr
    NoAddr = NoAddr
    CliChoices <- MCFewChoices
SPECIFICATION TrapSpec
INVARIANTS
    LookupReleased
PROPERTIES
    UsageBlamesOthers
    ImplementsTransport

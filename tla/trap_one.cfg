CONSTANTS
    Proc = {"a"}
    Port <- MCPort
    Ephemeral <- MCEphemeral
    Requests <- MCRequests
    CapNetRaw = {"a"}
    CapNetBind = {}
    Agent <- MCAgent
    PathMtu <- MCPathMtu
    OpenErrno = {"EMFILE"}
    SendErrno = {"EPERM", "ENOBUFS"}
    RawSupported = TRUE
    Free = Free
    Foreign = Foreign
    Probe = Probe
    Addr <- MCAddr
    NoAddr = NoAddr
    CliChoices <- MCChoices
SPECIFICATION FairTrapSpec
INVARIANTS
    ExitStatus
    SocketsOnlyWhenNeeded
    AgentAddrCoherent
PROPERTIES
    InvocationEnds

SPECIFICATION ASpec
CONSTANTS
    SECOND = 8
    CENTI = 2
    U32_MAX = 16
    HALF = 128
    Scales <- MCScales
    Seconds <- MCSeconds
    Uptimes <- MCUptimes
    Platforms = {"linux", "macos", "other"}
    Commands <- MCCommands
    I32 <- MCI32
    U32 <- MCU32
    U64 <- MCU64
    MAX_BIT_POSITION = 20
    HostUptimes = {0, 255}
    Char <- MCChar
    MAX_HEX = 6
    MIN_ENGINE_ID = 2
    MAX_ENGINE_ID = 2
    MAC_OCTETS = 2
    Word <- MCWord
    Ports = {"1620"}
    MAX_AGENT = 5
    V4 = {"a4", "b4"}
    V6 = {"c6"}
    MAX_ADDRS = 3
INVARIANTS
    TripletsDecide
    ReadAsTyped
    UptimeExact
    DigitsDecide
    SameOctets
    DestinationAsRead
CHECK_DEADLOCK FALSE

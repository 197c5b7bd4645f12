CONSTANTS
    Proc = {"a", "b"}
    Iface = {"ath0", "docker0", "eth0"}
    Excluded = {"docker0"}
    Physical = {"eth0"}
    Alphabet <- MCAlphabet
    Mac = {"m1", "m2"}
    Zero = Zero
    Malformed = Malformed
    Gone = Gone
    SysClassNet = TRUE
SPECIFICATION FairSpec
INVARIANTS
    PrimaryInterface
    StableEngineId
PROPERTIES
    Resolves

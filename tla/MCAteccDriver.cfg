SPECIFICATION FairSpec
CONSTANTS
    Digests = {"d1", "d2"}
    Keys = {"k1", "k2"}
    Peers = {"p1", "p2"}
    None = None
    RxRetries = 2
    MaxPolls = 1
    MaxExec = 3
    MaxFaults = 2
INVARIANTS
    SignatureIsOfDigest
    SecretIsOfKey
    VerdictIsOfDigest
PROPERTIES
    CallsReturn
    Recovers

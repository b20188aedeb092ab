SPECIFICATION Spec
CONSTANTS
    Digests = {"d1", "d2"}
    Keys = {"k1", "k2"}
    Peers = {"p"}
    None = None
    RxRetries = 2
    MaxPolls = 1
    MaxExec = 3
    MaxFaults = 0
INVARIANTS
    GoodBusSucceeds

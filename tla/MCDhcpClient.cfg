SPECIFICATION FairSpec
CONSTANTS
    s1 = s1
    s2 = s2
    a1 = a1
    a2 = a2
    Servers = {s1, s2}
    Addrs = {a1, a2}
    Owner <- MCOwner
    TakenSets <- MCTakenSets
    Xids = {0, 1, 2, 3, 4, 5}
    Nobody = Nobody
    InitDelays = {0, 1}
    RetryDelays = {2}
    RequestMaxRc = 2
    ProbeNum = 1
    ProbeDelay = 1
    MinDelay = 1
    T1 = 2
    T2 = 4
    LeaseTime = 7
    MaxDelay = 9
    MessageLife = 2
INVARIANTS
    LeaseHeld
    AddressIsUnique
PROPERTIES
    AddressObtained

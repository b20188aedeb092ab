SPECIFICATION Spec
CONSTANTS
    SeqSpace = 32
    Mss = 1
    TxBufferSize = 2
    RxBufferSize = 3
    MaxRetries = 2
    MaxSackBlocks = 4
    SynQueueSize = 4
    ClientIss = 31
    ServerIss = 0
    Units <- ThreeUnits
    Readers = {"server"}
    WriteSizes = {3}
    ReadSizes = {2}
    Hows = {"BOTH"}
    MaxFaults = 2
    Weight <- TwoLossesOrOneOther
INVARIANTS
    TypeOK
    NoLostWakeup
    AckedIsKept
    InFlightIsQueued
    ResendsWhatWasWritten
    GivenUpOnlyAfterLosses
PROPERTIES
    ImplementsService
CHECK_DEADLOCK FALSE

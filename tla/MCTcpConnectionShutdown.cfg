SPECIFICATION Spec
CONSTANTS
    SeqSpace = 32
    Mss = 1
    TxBufferSize = 2
    RxBufferSize = 1
    MaxRetries = 2
    MaxSackBlocks = 4
    SynQueueSize = 4
    ClientIss = 31
    ServerIss = 0
    Units <- TwoUnits
    Readers = {"server"}
    WriteSizes = {2}
    ReadSizes = {1}
    Hows = {"BOTH"}
    MaxFaults = 0
    Weight <- NoFault
INVARIANTS
    FinBehindData
CHECK_DEADLOCK FALSE

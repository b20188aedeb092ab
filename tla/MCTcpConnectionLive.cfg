SPECIFICATION FairSpec
CONSTANTS
    SeqSpace = 32
    Mss = 1
    TxBufferSize = 1
    RxBufferSize = 1
    MaxRetries = 2
    MaxSackBlocks = 4
    SynQueueSize = 4
    ClientIss = 31
    ServerIss = 0
    Units <- TwoUnits
    Readers = {"server"}
    WriteSizes = {2}
    ReadSizes = {1}
    Hows = {"BOTH", "RECEIVE"}
    MaxFaults = 1
    Weight <- AnyFault
PROPERTIES
    CallsReturn
CHECK_DEADLOCK FALSE

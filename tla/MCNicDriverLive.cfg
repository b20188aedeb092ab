SPECIFICATION FairSpec
CONSTANTS
    TxCount = 2
    RxCount = 3
    MaxLen = 2
    MaxEvents = 3
PROPERTIES
    ImplementsService
    ServesForever
    SendersReturn
    LinkFollows
    FlapNoticed

SPECIFICATION FairAppSpec
CONSTANTS
    IdSpace = 3
    Units = 2
    Msgs = {"online", "pressed", "released"}
    NoMsg = NoMsg
    CloseOnError = TRUE
    MaxFaults = 2
    MaxPresses = 1
    MaxLedMsgs = 1
INVARIANTS
    AppTypeOK
    ProtocolRespected
    ConnectedIsReal
    ButtonDelivered
    LedAcksConserved
PROPERTIES
    Recovers
    LedMessagesAcked

SPECIFICATION FairAppSpec
CONSTANTS
    IdSpace = 3
    Units = 2
    Msgs = {"online", "pressed", "released"}
    NoMsg = NoMsg
    CloseOnError = TRUE
    MaxFaults = 1
    MaxPresses = 0
    MaxLedMsgs = 1
PROPERTIES
    KeepAliveServed

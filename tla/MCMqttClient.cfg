SPECIFICATION Spec
CONSTANTS
    IdSpace = 3
    Units = 2
    Msgs = {m1}
    NoMsg = NoMsg
    CloseOnError = TRUE
INVARIANTS
    TypeOK
    Framing
    AcksKept
    SuccessIsEarned
    NoLeak
    SilentAfterDisconnect

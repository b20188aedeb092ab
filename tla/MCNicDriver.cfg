SPECIFICATION Spec
CONSTANTS
    TxCount = 2
    RxCount = 2
    MaxLen = 1
    MaxEvents = 4
INVARIANTS
    TxWakeup
    RxWakeup

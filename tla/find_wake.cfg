SPECIFICATION Spec
PROPERTY SyncWakesWaiter
CONSTANTS
    Threads = {"app"}
    Chans = {"rx"}
    Dir <- TxRxDir
    Type <- TxRxType
    Uses <- TxRxUses
    Waits <- TxRxWaits
    RtSignals = {SIGRTMIN}
    NoSignal = NoSignal
    NULL = NULL
    Garbage = Garbage
    MaxCookie = 2

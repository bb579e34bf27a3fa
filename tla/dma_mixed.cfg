SPECIFICATION Spec
INVARIANT NoDmaAfterReturn
INVARIANT NoGarbageRead
INVARIANT NotifiedAsAsked
PROPERTY SuccessIsReal
CONSTANTS
    Threads = {"app"}
    Chans = {"tx"}
    Dir <- TxRxDir
    Type <- VideoType
    Uses <- TxRxUses
    Waits <- MixedWaits
    RtSignals = {SIGRTMIN}
    NoSignal = NoSignal
    NULL = NULL
    Garbage = Garbage
    MaxCookie = 3

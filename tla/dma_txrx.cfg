SPECIFICATION Spec
INVARIANT TypeOK
INVARIANT NoDmaAfterReturn
INVARIANT NotifiedAsAsked
PROPERTY ImplementsService
PROPERTY SuccessIsReal
PROPERTY OnlyTransmitLegsStayBehind
PROPERTY CallsReturn
CONSTANTS
    Threads = {"app"}
    Chans = {"tx", "rx"}
    Dir <- TxRxDir
    Type <- TxRxType
    Uses <- TxRxUses
    Waits <- TxRxWaits
    RtSignals = {SIGRTMIN}
    NoSignal = NoSignal
    NULL = NULL
    Garbage = Garbage
    MaxCookie = 2

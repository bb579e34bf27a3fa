SPECIFICATION Spec
CONSTANTS
    Chans <- ThreeChans
    Callbacks = {f, g}
    NULL = NULL
    Drains = TRUE
    Reinit = "never"
    MaxTransfers = 2
INVARIANTS TypeOK ArraysAreTheChannels TablesAreAlive
PROPERTY CallbackGetsItsData
CHECK_DEADLOCK FALSE

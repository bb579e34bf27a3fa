SPECIFICATION Spec
CONSTANTS
    Chans <- ThreeChans
    Callbacks = {f, g}
    NULL = NULL
    Drains = TRUE
    Reinit = "destroyed"
    MaxTransfers = 2
INVARIANT ArraysAreTheChannels
CHECK_DEADLOCK FALSE

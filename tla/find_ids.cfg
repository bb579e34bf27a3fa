SPECIFICATION Spec
CONSTANTS
    Ids <- TwoIds
    MaxChans = 1
INVARIANT CallbackDataExists
CHECK_DEADLOCK FALSE

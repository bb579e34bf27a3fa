SPECIFICATION BringUpSpec
CONSTANTS
    n1 = n1
    Nodes <- OneNodeSet
    NumChans = 2
    NULL = NULL
    Ids <- TwoIds
    MaxChans = 2
INVARIANTS BringUpTypeOK GivesOnlyHeld OnlyParseFailureLeaks OpenFileValid OnlyUnbindingStrandsFiles AcceptsGoodTrees CountsAreTheChannels

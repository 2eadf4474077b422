CONSTANTS
    MaxConns = 2
    MaxQueue = 1
    MaxTurns = 1
    AppCalls = {}
SPECIFICATION FairSpec
PROPERTY AnsweredUnlessHasty
CHECK_DEADLOCK FALSE

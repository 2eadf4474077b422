CONSTANTS
    MaxConns = 2
    MaxQueue = 2
    MaxTurns = 1
    AppCalls = {}
SPECIFICATION Spec
INVARIANT Disconnected
CHECK_DEADLOCK FALSE

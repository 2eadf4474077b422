CONSTANTS
    MaxConns = 2
    MaxQueue = 1
    MaxTurns = 1
    AppCalls = {"close", "abort"}
SPECIFICATION Spec
INVARIANT PcbSound
INVARIANT Reachable
INVARIANT DisconnectedUnlessEarly
INVARIANT OneConnection
INVARIANT SilentAfterDisconnect
VIEW StateView
CHECK_DEADLOCK FALSE

CONSTANTS
    TcpTimeout = 1
    ReconnectInterval = 1
    PingInterval = 2
    PongTimeout = 1
    DisconnectTimeoutCount = 2
    Modes = {{"ssl"}, {"socketio"}}
    MaxTrouble = 2
SPECIFICATION Spec
PROPERTY DropNeedsMisses

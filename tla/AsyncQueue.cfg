CONSTANTS
    Clients = {c1, c2}
    QueueLength = 3
    LwipEvents = {"RECV", "CONNECTED"}
    MaxEvents = 4
SPECIFICATION FairSpec
INVARIANT Conservation
INVARIANT OrderKeptWhenAlone
PROPERTY RotationClears
PROPERTY EveryPacketFreed
CHECK_DEADLOCK FALSE

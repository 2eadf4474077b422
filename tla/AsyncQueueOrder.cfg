CONSTANTS
    Clients = {c1, c2}
    QueueLength = 32
    LwipEvents = {"RECV"}
    MaxEvents = 5
SPECIFICATION Spec
INVARIANT OrderKept
CHECK_DEADLOCK FALSE

CONSTANTS
    Esc = 3
    Base = 3
    MaxData = 7
    Keys <- MCKeys
    Incoming <- MCIncoming
    Outgoing <- MCOutgoing
    BigHeap = {TRUE, FALSE}
    MaxFrames = 2
    MaxTrouble = 1
SPECIFICATION Spec
INVARIANT PayloadKept
INVARIANT ReadInOrder
INVARIANT ServerReads

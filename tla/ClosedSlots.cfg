CONSTANTS
    NumSlots = 3
    Pcbs = {p1, p2, p3}
    Tasks = {service}
    MaxAccepts = 4
    MaxOutgoing = 1
SYMMETRY Symmetry
SPECIFICATION Spec
INVARIANT SlotExclusive
INVARIANT SlotAccounting
PROPERTY ReuseOldest
PROPERTY GuardCoversFin
INVARIANT SlotsSound
CHECK_DEADLOCK FALSE

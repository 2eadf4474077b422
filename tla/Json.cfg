CONSTANTS
    n1 = n1
    n2 = n2
    n3 = n3
    n4 = n4
    k1 = k1
    Keys <- MCKeys
    Vals <- MCVals
    Hash <- MCHash
    DefaultSize = 1
    IntMax = 4
    MaxFailures = 1
    EMPTY = "EMPTY"
    FREED = "FREED"
    Elems <- MCElems
    Junk = "Junk"
    ListSize = 1
    SizeMax = 7
    PtrSize = 2
    BufferSize = 3
    Slack = 2
    BufferMax = 12
    I32Max = 3
    NumberMax = 7
    Doubles <- MCDoubles
    Texts <- MCTexts
    Nodes <- MCNodes
    TreeKeys <- MCTreeKeys
    MaxTree = 3
    MaxCopied = 2
    MaxLength = 2
    MaxHeld = 1
    MaxData = 1
    MaxDepth = 3
    TextMax = 15
    UnitDigits = 2
    Unit <- MCUnit
    Alphabets <- MCAlphabets
    Null = "Null"
SYMMETRY Symmetry
SPECIFICATION JsonSpec
INVARIANT TableSound
INVARIANT LimitsKept
INVARIANT OwnershipExact
INVARIANT CopiesEqual
INVARIANT SameValueRead
INVARIANT RoundTrip
PROPERTY ImplementsMap
PROPERTY SequencesKept
PROPERTY ClosedOnSuccess
CHECK_DEADLOCK FALSE

CONSTANTS
    a = a
    b = b
    x = x
    v1 = v1
    v2 = v2
    v3 = v3
    Names = {a, b, x}
    Values = {v1, v2, v3}
    Firmware <- MCFirmware
    Factory <- MCFactory
    AppParams <- MCAppParams
    MaxSize = 3
    FirstFiles <- MCFirstFiles
    Requests <- MCRequests
    ReadErrors = TRUE
SPECIFICATION Spec
PROPERTY ImplementsStore
PROPERTY SaveTellsTruth
PROPERTY StoredOnceSurvives
PROPERTY SettlesAfterSave
INVARIANT MemorySound
PROPERTY UpdatesGuarded

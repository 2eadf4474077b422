CONSTANTS
    a = a
    b = b
    x = x
    v1 = v1
    v2 = v2
    v3 = v3
    Names = {a, b, x}
    Values = {v1, v2, v3}
    Firmware <- MCFirmware
    Factory <- MCFactory
    AppParams <- MCAppParams
    MaxSize = 4
    FirstFiles <- MCOnlyNoFile
    Requests <- MCNoRequests
    ReadErrors = FALSE
SPECIFICATION Spec
PROPERTY StoredSurvives

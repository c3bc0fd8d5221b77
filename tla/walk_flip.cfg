SPECIFICATION Spec
CONSTANTS
    Steps <- OptionalSteps
    Kind <- Optional
    Within <- OptionalWithin
    Reads <- OptionalReads
    TakesA <- OptionalSplit
    Timeout <- OneTick
    Awaits <- OpenThenClick
    EventTypes = {"opened", "clicked"}
    Emissions = {}
    TypeOf <- ByName
    MaxRetries = 1
    MaxChanges = 1
    MaxManual = 0
    MaxFaults = 0
    MaxCrashes = 0
PROPERTIES InDocumentOrder
CHECK_DEADLOCK FALSE

SPECIFICATION FairSpec
CONSTANTS
    Steps <- JourneySteps
    Kind <- Journey
    Within <- JourneyWithin
    Reads <- JourneyReads
    TakesA <- JourneySplit
    Timeout <- OneTick
    Awaits <- OpenThenClick
    EventTypes = {"opened", "clicked"}
    Emissions = {"e1", "e2"}
    TypeOf <- ByName
    MaxRetries = 1
    MaxChanges = 1
    MaxManual = 1
    MaxFaults = 1
    MaxCrashes = 1
INVARIANTS
    OneSideOnRecord
    HappenedWasMatched
PROPERTIES
    NoWaitCutShort
    ResumesWhereItStopped
    WaitEnds
CHECK_DEADLOCK FALSE

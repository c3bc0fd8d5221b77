SPECIFICATION FairSpec
CONSTANTS
    Contacts = {1, 2}
    Segments = {g}
    Jobs = {j1}
    Feeders = {f1, f2}
    PageSize = 2
    BackfillMayFail = FALSE
    MaxFaults = 1
    MaxCrashes = 1
    MaxChurn = 1
    MaxToggles = 1
    MaxMishaps = 1
INVARIANTS
    EnrolledOnce
    NobodySkipped
    DrainedMeansEnrolled
    CountIsBacked
PROPERTIES
    ImplementsOnceFeed
    FeedingEnds
CHECK_DEADLOCK FALSE

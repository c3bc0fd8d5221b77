SPECIFICATION FairSpec
CONSTANTS
    Addresses = {a1, a2}
    Senders = {s1}
    Requests = {c1}
    MaxAttempts = 2
    MaxLaunches = 1
    MaxPreviews = 0
    Batch = 2
    MaxCrashes = 1
    MaxErrors = 1
    MaxLost = 0
    MaxDays = 1
    LongPauses = FALSE
    MayOptOut = {}
    MaxEdits = 0
    MaxPauses = 1
    MaxFailures = 0
    Removable = FALSE
INVARIANTS
    SentWasDelivered
    SentMeansDrained
    RemainderHeldUntilDecided
    NoDoubleDelivery
PROPERTIES
    ImplementsMailing
    SendingEnds
CHECK_DEADLOCK FALSE

SPECIFICATION Spec
CONSTANTS
    Addresses = {a1}
    Senders = {s1}
    Requests = {c1}
    MaxAttempts = 2
    MaxLaunches = 1
    MaxPreviews = 0
    Batch = 1
    MaxCrashes = 0
    MaxErrors = 1
    MaxLost = 0
    MaxDays = 1
    LongPauses = TRUE
    MayOptOut = {}
    MaxEdits = 0
    MaxPauses = 1
    MaxFailures = 0
    Removable = FALSE
INVARIANTS
    NoDoubleDelivery
CHECK_DEADLOCK FALSE

SPECIFICATION Spec
CONSTANTS
    Addresses = {a1}
    Senders = {s1}
    Requests = {c1, c2}
    MaxAttempts = 2
    MaxLaunches = 1
    MaxPreviews = 1
    Batch = 2
    MaxCrashes = 0
    MaxErrors = 0
    MaxLost = 0
    MaxDays = 0
    LongPauses = FALSE
    MayOptOut = {}
    MaxEdits = 0
    MaxPauses = 0
    MaxFailures = 0
    Removable = FALSE
INVARIANTS
    NoDoubleDelivery
CHECK_DEADLOCK FALSE

SPECIFICATION Spec
CONSTANTS
    Addresses = {a1}
    Senders = {s1}
    Requests = {c1, c2}
    MaxAttempts = 2
    MaxLaunches = 2
    MaxPreviews = 1
    Batch = 2
    MaxCrashes = 0
    MaxErrors = 0
    MaxLost = 1
    MaxDays = 0
    LongPauses = FALSE
    MayOptOut = {a1}
    MaxEdits = 1
    MaxPauses = 0
    MaxFailures = 1
    Removable = TRUE
SYMMETRY Symmetry
INVARIANTS
    OneLauncher
PROPERTIES
    OptOutHonored
CHECK_DEADLOCK FALSE

SPECIFICATION FairSpec
CONSTANTS
    Instances = {i1}
    Slots = {s1}
    Runs = {r1, r2}
    Plan <- EveryKind
    QueueCap = 2
    MaxRetries = 1
    Backoff <- RisingBackoff
    DelayTicks = 1
    SweepGrace = 1
    Skew = 1
    None = None
    MaxExecs = 8
    MaxMishaps = 1
INVARIANTS
    NoOrphan
    WaitingMatchesLog
PROPERTIES
    EventuallySettled
    NoReexecution
    DelayHonored
    ImplementsDurableRun
CHECK_DEADLOCK FALSE

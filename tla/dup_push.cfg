SPECIFICATION Spec
CONSTANTS
    Instances = {i1}
    Slots = {s1, s2}
    Runs = {r1}
    Plan <- OneAction
    QueueCap = 2
    MaxRetries = 1
    Backoff <- RisingBackoff
    DelayTicks = 1
    SweepGrace = 1
    Skew = 0
    None = None
    MaxExecs = 8
    MaxMishaps = 0
PROPERTIES
    NoReexecution
CHECK_DEADLOCK FALSE

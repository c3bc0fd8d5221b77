SPECIFICATION FairSpec
CONSTANTS
    open = open
    delivered = delivered
    complaint1 = complaint1
    complaint2 = complaint2
    soft1 = soft1
    soft2 = soft2
    unsubscribe = unsubscribe
    NoEvent = NoEvent
    Events = {open, delivered, complaint1, complaint2, soft1, soft2, unsubscribe}
    KindOf <- Kind
    DeliveredOf <- Delivered
    Drains = {d1, d2}
    Batch = 2
    MaxAttempts = 2
    TripAt = 2
    MaxReceived = 2
    MaxFaults = 1
INVARIANTS
    DoneMeansSuppressed
    SoftCountBacked
    BreakerTrips
    PrefetchStartsNothing
    FailedMeansTried
PROPERTIES
    EventSettles
CHECK_DEADLOCK FALSE

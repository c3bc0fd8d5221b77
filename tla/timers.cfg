SPECIFICATION FairSpec
CONSTANTS
    hourly = hourly
    nightly = nightly
    onDay = onDay
    Schedules = {hourly, nightly}
    DateFields = {onDay}
    Occurs <- TwoCrons
    Offset <- OneOffset
    Records = {1}
    TestLeads = {}
    Dates = {1}
    ScanLimit = 2
    Requests = {q1}
    Writes = {w1}
    MaxTime = 1
    MaxFaults = 1
INVARIANTS
    ScheduleArmed
    DatesCovered
PROPERTIES
    DueIsSettled
    ScheduleGoesOn
CHECK_DEADLOCK FALSE

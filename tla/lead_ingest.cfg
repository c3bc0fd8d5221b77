SPECIFICATION FairSpec
CONSTANTS
    Keys = {k1}
    Leads = {l1}
    p1 = p1
    People = {p1}
    Who <- OnePerson
    Emailed = {p1}
    Clients = {c1}
    Drains = {w1}
    Importers = {i1}
    Batch = 2
    MaxAttempts = 2
    MaxFaults = 1
    MaxDeaths = 1
    MaxRequests = 2
    MaxImports = 1
    MaxRetries = 1
    MaxToggles = 1
INVARIANTS
    AnsweredIsWritten
    ImportsStayQuiet
    PoisonEnds
PROPERTIES
    DeliverySettles
CHECK_DEADLOCK FALSE

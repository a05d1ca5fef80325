SPECIFICATION ProgressSpec
CONSTANTS
    s1 = s1
    s2 = s2
    here = here
    there = there
    a = a
    b = b
    endpoint_capacity = 2
    event_capacity = 2
    invoke_capacity = 1
    timer_capacity = 2
    cancel_capacity = 1
    Sessions = {s1, s2}
    LocationOf <- TwoLocations
    Addresses = {here, there}
    InvokeIds = {there}
    SendIds = {a, b}
    Delays = {1}
    MaxU32 = 1
    MaxU64 = 2
    MaxTime = 1
    MaxBatch = 1
    NoSession = NoSession
    NoId = NoId
    Explored = {"family", "timers"}
PROPERTIES
    CloseQuiesces
    RouterProgress

SPECIFICATION Spec
CONSTANTS
    s1 = s1
    s2 = s2
    here = here
    there = there
    endpoint_capacity = 1
    event_capacity = 2
    invoke_capacity = 0
    timer_capacity = 2
    cancel_capacity = 1
    Sessions = {s1}
    LocationOf <- TwoLocations
    Addresses = {here}
    InvokeIds = {}
    SendIds = {a, b}
    Delays = {1}
    MaxU32 = 1
    MaxU64 = 2
    MaxTime = 1
    MaxBatch = 1
    NoSession = NoSession
    NoId = NoId
    a = a
    b = b
INVARIANTS
    LedgerExact
    LedgerSound
PROPERTIES
    LedgerSteps
    ImplementsLedger

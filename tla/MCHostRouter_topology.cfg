SPECIFICATION Spec
CONSTANTS
    s1 = s1
    s2 = s2
    here = here
    there = there
    a = a
    b = b
    endpoint_capacity = 2
    event_capacity = 1
    invoke_capacity = 1
    timer_capacity = 0
    cancel_capacity = 0
    Sessions = {s1, s2}
    LocationOf <- TwoLocations
    Addresses = {here, there}
    InvokeIds = {there}
    SendIds = {}
    Delays = {}
    MaxU32 = 2
    MaxU64 = 1
    MaxTime = 0
    MaxBatch = 1
    NoSession = NoSession
    NoId = NoId
INVARIANTS
    TablesSound
    ParentForest
PROPERTIES
    QuiescenceIsStable

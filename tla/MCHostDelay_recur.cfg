SPECIFICATION DelaySpec
CONSTANTS
    s1 = s1
    here = here
    a = a
    b = b
    endpoint_capacity = 1
    event_capacity = 2
    invoke_capacity = 0
    timer_capacity = 2
    cancel_capacity = 2
    Sessions = {s1}
    LocationOf <- OneLocation
    Addresses = {here}
    InvokeIds = {}
    SendIds = {a}
    Delays = {1}
    MaxU32 = 1
    MaxU64 = 2
    MaxTime = 2
    MaxBatch = 1
    NoSession = NoSession
    NoId = NoId
    delayed_send_capacity = 1
    prepared_effect_capacity = 2
    ids_recur = TRUE
INVARIANTS
    RegistryMatchesLedger
CHECK_DEADLOCK FALSE

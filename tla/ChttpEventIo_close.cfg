SPECIFICATION FairSpec
CONSTANTS
    Bindings = {"b1"}
    egress_capacity = 2
    endpoint_capacity = 1
    SendIds = {"s1"}
    MaxDelay = 1
    MaxTime = 1
    MaxSends = 2
PROPERTIES
    ClosedBindingDrains
CHECK_DEADLOCK FALSE

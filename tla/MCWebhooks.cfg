SPECIFICATION FairSpec
CONSTANTS
    e1 = e1
    Endpoint = {e1}
    Delivery = {d1, d2}
    Target <- OneTarget
    Retries = 2
    Threshold = 2
    Batch = 1
    MaxFault = 2
INVARIANT PausedInTime
PROPERTIES ImplementsOutbox EverySettled
CHECK_DEADLOCK FALSE

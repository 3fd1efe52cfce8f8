\* Two producers, a closing thread and a closing delegate, limit reached. Packets run out.
CONSTANTS
    Producer = {p1, p2}
    Closer = {c1}
    Nobody = Nobody
    Limit = 2
    Guarded = TRUE
    MaxPackets = 6
SPECIFICATION FairSpec
CHECK_DEADLOCK FALSE
INVARIANT NoCallbackAfterDelete
PROPERTY ImplementsFifo EventuallyDispatched

\* One client at a time. The programs end.
CONSTANTS
    Who = {"turn", "tcp", "symple"}
    TurnPeer = {p1}
    Grant = 2
    InitialLife = 3
    MaxReq = 4
    MaxData = 2
    MaxAge = 3
    RelayPeer = {p1, p2}
    Control = ctl
    Talkers = {p1}
    MaxPeerSends = 2
    MaxClientSends = 1
    Buddy = {b1}
    Me = me
    MaxConns = 3
    MaxTold = 2
SPECIFICATION ClientsSpec
CHECK_DEADLOCK FALSE
INVARIANT TurnClientSound RelayFaithful SessionIsolated
PROPERTY ClientsSettle

\* The TURN client alone: its allocation runs out at the server.
CONSTANTS
    Who = {"turn"}
    TurnPeer = {p1}
    Grant = 2
    InitialLife = 4
    MaxReq = 5
    MaxData = 1
    MaxAge = 4
    RelayPeer = {p1, p2}
    Control = ctl
    Talkers = {p1}
    MaxPeerSends = 2
    MaxClientSends = 1
    Buddy = {b1}
    Me = me
    MaxConns = 3
    MaxTold = 2
SPECIFICATION ClientsSpec
CHECK_DEADLOCK FALSE
PROPERTY RefreshedBeforeExpiry

\* Two clients that use the same port, a local peer and one that needs a permission.
CONSTANTS
    Host = {h1, h2}
    Port = {1}
    Peer = {p1, p2}
    Local = {p2}
    MaxLife = 3
    DefaultLife = 2
    PermLife = 2
    MaxPerms = 1
    Limits = {0, 3}
    Lifetimes = {0, 1, 9}
    Sizes = {1, 2}
    CpuPerTick = {0, 1, 3}
SPECIFICATION FairSpec
CHECK_DEADLOCK FALSE
INVARIANT QuotaKept OnlyPermitted
PROPERTY PromiseKept AllocationEnds

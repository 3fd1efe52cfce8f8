\* close(), reset(), attach() and start() while a packet waits for _procMutex.
CONSTANTS
    c1 = c1 c2 = c2 s1 = s1 s2 = s2 p1 = p1 p2 = p2
    Controller = {c1}
    Source = {s1}
    Proc = {p1, p2}
    Nobody = Nobody
    Order <- OrderDefault
    Owned = {p1, p2}
    Synced = {s1}
    Joins = {}
    InitProcs = {p1}
    InitSources = {s1}
    InitOpts <- Defaults
    Calls = {"start", "close", "reset", "modify"}
    Packets = {"plain"}
    Throwers = {}
    MaxCalls <- Calls51
SPECIFICATION Spec
CHECK_DEADLOCK FALSE
INVARIANT ChainAlive

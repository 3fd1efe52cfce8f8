\* Every call, every packet, anyone may throw, the source joins its thread.
\* Calls run out and threads may block for good: an exception handled under _procMutex.
CONSTANTS
    c1 = c1 c2 = c2 s1 = s1 s2 = s2 p1 = p1 p2 = p2
    Controller = {c1}
    Source = {s1}
    Proc = {p1}
    Nobody = Nobody
    Order <- OrderDefault
    Owned = {p1}
    Synced = {s1}
    Joins = {s1}
    InitProcs = {p1}
    InitSources = {s1}
    InitOpts <- EitherOpt
    Calls = {"start", "stop", "close", "pause", "resume", "lock", "reset", "modify", "write"}
    Packets = {"plain", "nomodify", "final"}
    Throwers = {"setup", "processor", "delegate"}
    MaxCalls <- Calls22
SPECIFICATION FairSpec
CHECK_DEADLOCK FALSE
INVARIANT OneThreadInAdapters AdaptersConverge
PROPERTY StopReturns

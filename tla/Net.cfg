\* One layer at a time. The programs end.
CONSTANTS
    CliSends = 1
    SrvSends = 2
    Eof = 9
    MaxSend = 2
    Receiver = {r1, r2}
    MaxDepth = 2
    MaxAdds = 3
    MaxContexts = 3 MaxSockCalls = 3 Period = {0, 2} Horizon = 4 MaxTimerCalls = 3 MaxProcCalls = 4 MaxLines = 2
    PacketType = {t1, t2} Slot = {k1, k2} MaxStream = 2 MaxPacketCalls = 3
    IntWidth = 3 MaxSets = 3 MaxChunks = 3
SPECIFICATION NetSpec
CHECK_DEADLOCK FALSE
INVARIANT StreamFaithful CallbacksOrdered DestroyedWhenIdle TlsSound LayersSound
PROPERTY ConnectionsSettle

\* A transaction on a socket and one on a socket.io client. All of them end.
CONSTANTS
    t1 = t1 t2 = t2 t3 = t3
    Tx = {t1, t2}
    NoTx = NoTx
    Retries <- NetRetries
    OverNet = {t1}
    MaxSends = 2
SPECIFICATION FairSpec
CHECK_DEADLOCK FALSE
INVARIANT AnsweredOnce FailsOutOfAttempts NoPacketAfterDelete
PROPERTY SentIsDeleted

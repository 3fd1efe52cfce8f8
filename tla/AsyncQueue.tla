----------------------------- MODULE AsyncQueue -----------------------------
(***************************************************************************)
(* AsyncPacketQueue (base/include/scy/packetqueue.h) on top of AsyncQueue  *)
(* and RunnableQueue (base/include/scy/queue.h): packets pushed by source  *)
(* threads are dispatched by a thread of the queue's own (the worker).     *)
(* When the stream is Closed or in Error, close() flushes the queue from   *)
(* the thread that delivers the state change, cancels, and joins the       *)
(* worker.  process() and close() both run under the stream's _procMutex,  *)
(* whose owner is lock.                                                    *)
(***************************************************************************)
EXTENDS Integers, Sequences, Functions

CONSTANTS
    Producer,    \* threads calling process()
    Nobody,
    Limit,       \* _limit
    MaxPackets,  \* bound: packets pushed
    MaxCloses    \* bound: state changes that close the queue (Error, Closed)

ASSUME AsyncQueueAssumption ==
    /\ Nobody \notin Producer \cup {"closer"} /\ "closer" \notin Producer
    /\ Limit \in Nat \ {0} /\ MaxPackets \in Nat /\ MaxCloses \in Nat

VARIABLES
    queue,      \* _queue
    pushed,     \* packets pushed so far
    cancelled,  \* the flag set by cancel()
    lock,       \* owner of PacketStream::_procMutex
    pc,         \* pc[p]: idle or push
    worker,     \* what the queue's thread is doing
    popped,     \* the packet the worker has popped, 0 if none
    closer,     \* what the closing thread is doing
    front,      \* the packet flush() is looking at, 0 if none
    closes,     \* calls of close() so far
    joined,     \* the worker has been joined
    last,       \* the last packet dispatched (auxiliary)
    outs,       \* outs[i]: times packet i was dispatched (auxiliary)
    purged,     \* packets purged at the limit (auxiliary)
    broken      \* front() or pop() of an empty deque, or a second join(): undefined

Packet == 1..MaxPackets
workVars == <<worker, popped>>
closeVars == <<closer, front, closes, joined>>
auxVars == <<last, outs, purged>>
vars == <<queue, pushed, cancelled, lock, pc, workVars, closeVars, auxVars, broken>>

TypeOK ==
    /\ queue \in Seq(Packet)
    /\ pushed \in 0..MaxPackets
    /\ cancelled \in BOOLEAN /\ joined \in BOOLEAN /\ broken \in BOOLEAN
    /\ lock \in Producer \cup {"closer", Nobody}
    /\ pc \in [Producer -> {"idle", "push"}]
    /\ worker \in {"test", "pop", "dispatch", "exited"}
    /\ popped \in 0..MaxPackets
    /\ closer \in {"idle", "flush", "front", "dispatch", "pop", "cancel", "join"}
    /\ front \in 0..MaxPackets
    /\ closes \in 0..MaxCloses
    /\ last \in 0..MaxPackets
    /\ outs \in [Packet -> Nat]
    /\ purged \subseteq Packet

Init ==
    /\ queue = <<>> /\ pushed = 0 /\ cancelled = FALSE
    /\ lock = Nobody
    /\ pc = [p \in Producer |-> "idle"]
    /\ worker = "test" /\ popped = 0
    /\ closer = "idle" /\ front = 0 /\ closes = 0 /\ joined = FALSE
    /\ last = 0 /\ outs = [i \in Packet |-> 0] /\ purged = {}
    /\ broken = FALSE

-----------------------------------------------------------------------------
(* Faulty variants, used to show that the properties can fail.             *)

PopNewest ==
    /\ worker = "pop" /\ ~broken
    /\ IF queue = <<>>
       THEN worker' = "test" /\ UNCHANGED <<queue, popped>>
       ELSE /\ worker' = "dispatch"
            /\ popped' = queue[Len(queue)]
            /\ queue' = SubSeq(queue, 1, Len(queue) - 1)
    /\ UNCHANGED <<pushed, cancelled, lock, pc, closeVars, auxVars, broken>>

DropWhenFull(p) ==
    /\ pc[p] = "push" /\ ~broken
    /\ pushed' = pushed + 1
    /\ queue' = IF Len(queue) < Limit THEN Append(queue, pushed + 1) ELSE queue
    /\ pc' = [pc EXCEPT ![p] = "idle"]
    /\ lock' = Nobody
    /\ UNCHANGED <<cancelled, workVars, closeVars, auxVars, broken>>

-----------------------------------------------------------------------------
(* Producers.                                                              *)

\* process(packet): a cancelled queue refuses it (and asserts).
Process(p) ==
    /\ pc[p] = "idle" /\ ~cancelled /\ ~broken
    /\ pushed < MaxPackets /\ lock = Nobody
    /\ lock' = p
    /\ pc' = [pc EXCEPT ![p] = "push"]
    /\ UNCHANGED <<queue, pushed, cancelled, workVars, closeVars, auxVars, broken>>

\* RunnableQueue::push(): purge from the front while at the limit, then append.
Push(p) ==
    /\ pc[p] = "push" /\ ~broken
    /\ LET n == IF Len(queue) < Limit THEN 0 ELSE Len(queue) - Limit + 1
       IN  /\ queue' = Append(SubSeq(queue, n + 1, Len(queue)), pushed + 1)
           /\ purged' = purged \cup {queue[i] : i \in 1..n}
    /\ pushed' = pushed + 1
    /\ pc' = [pc EXCEPT ![p] = "idle"]
    /\ lock' = Nobody
    /\ UNCHANGED <<cancelled, workVars, closeVars, last, outs, broken>>

-----------------------------------------------------------------------------
(* The worker: run() without a timeout.                                    *)

\* while (!cancelled())
WorkerTest ==
    /\ worker = "test" /\ ~broken
    /\ worker' = IF cancelled THEN "exited" ELSE "pop"
    /\ UNCHANGED <<queue, pushed, cancelled, lock, pc, popped, closeVars, auxVars, broken>>

\* popNext(), under RunnableQueue::_mutex.
PopNext ==
    /\ worker = "pop" /\ ~broken
    /\ IF queue = <<>>
       THEN worker' = "test" /\ UNCHANGED <<queue, popped>>
       ELSE worker' = "dispatch" /\ popped' = Head(queue) /\ queue' = Tail(queue)
    /\ UNCHANGED <<pushed, cancelled, lock, pc, closeVars, auxVars, broken>>

\* dispatch(): emit, unless cancelled in the meantime.
Emit(i) ==
    /\ last' = IF cancelled THEN last ELSE i
    /\ outs' = IF cancelled THEN outs ELSE [outs EXCEPT ![i] = @ + 1]
    /\ UNCHANGED purged

WorkerDispatch ==
    /\ worker = "dispatch" /\ ~broken
    /\ Emit(popped)
    /\ popped' = 0
    /\ worker' = "test"
    /\ UNCHANGED <<queue, pushed, cancelled, lock, pc, closeVars, broken>>

-----------------------------------------------------------------------------
(* close(), called by onStreamStateChange(Error) and (Closed).             *)

Close ==
    /\ closer = "idle" /\ closes < MaxCloses /\ lock = Nobody /\ ~broken
    /\ lock' = "closer"
    /\ closes' = closes + 1
    /\ closer' = "flush"
    /\ UNCHANGED <<queue, pushed, cancelled, pc, workVars, front, joined, auxVars, broken>>

\* flush(): while (!empty()) { front(); dispatch; pop(); delete }.  It does not
\* take RunnableQueue::_mutex, so the worker may pop in between.
FlushTest ==
    /\ closer = "flush" /\ ~broken
    /\ closer' = IF queue = <<>> THEN "cancel" ELSE "front"
    /\ UNCHANGED <<queue, pushed, cancelled, lock, pc, workVars, front, closes, joined, auxVars, broken>>

FlushFront ==
    /\ closer = "front" /\ ~broken
    /\ broken' = (queue = <<>>)
    /\ front' = IF queue = <<>> THEN 0 ELSE Head(queue)
    /\ closer' = "dispatch"
    /\ UNCHANGED <<queue, pushed, cancelled, lock, pc, workVars, closes, joined, auxVars>>

FlushDispatch ==
    /\ closer = "dispatch" /\ ~broken
    /\ Emit(front)
    /\ closer' = "pop"
    /\ UNCHANGED <<queue, pushed, cancelled, lock, pc, workVars, front, closes, joined, broken>>

FlushPop ==
    /\ closer = "pop" /\ ~broken
    /\ broken' = (queue = <<>>)
    /\ queue' = IF queue = <<>> THEN queue ELSE Tail(queue)
    /\ front' = 0
    /\ closer' = "flush"
    /\ UNCHANGED <<pushed, cancelled, lock, pc, workVars, closes, joined, auxVars>>

CloseCancels ==
    /\ closer = "cancel" /\ ~broken
    /\ cancelled' = TRUE
    /\ closer' = "join"
    /\ UNCHANGED <<queue, pushed, lock, pc, workVars, front, closes, joined, auxVars, broken>>

\* _thread.join(): a thread can be joined once.
Join ==
    /\ closer = "join" /\ worker = "exited" /\ ~broken
    /\ broken' = joined
    /\ joined' = TRUE
    /\ lock' = Nobody
    /\ closer' = "idle"
    /\ UNCHANGED <<queue, pushed, cancelled, pc, workVars, front, closes, auxVars>>

Worker == WorkerTest \/ PopNext \/ WorkerDispatch
CloseStep == FlushTest \/ FlushFront \/ FlushDispatch \/ FlushPop \/ CloseCancels \/ Join

Next ==
    \/ \E p \in Producer : Process(p) \/ Push(p)
    \/ Worker
    \/ Close \/ CloseStep

Spec == Init /\ [][Next]_vars

\* Threads inside a call run, and the worker runs.
FairSpec ==
    /\ Spec
    /\ WF_vars(Worker)
    /\ WF_vars(CloseStep)
    /\ \A p \in Producer : WF_vars(Push(p))

-----------------------------------------------------------------------------
(* Properties.                                                             *)

\* As long as nobody closes it, the queue delivers in order and at most once.
Fifo == INSTANCE LossyFifo
          WITH waiting <- Range(queue) \cup (IF popped = 0 THEN {} ELSE {popped})
FifoWhileOpen ==
    Fifo!Init /\ [][closes' = 0 => Fifo!Next]_<<pushed, queue, popped, last>>

\* While the queue is open, a packet that is neither purged nor waiting in the
\* queue or in the worker's hands has been dispatched exactly once: purging at
\* the limit, which races popNext(), accounts for every packet not delivered.
EveryPacketAccounted ==
    closes = 0 =>
        \A i \in 1..pushed :
            LET held == i \in Range(queue) \/ i = popped
            IN  outs[i] = IF held \/ i \in purged THEN 0 ELSE 1

\* close() returns, or has met an empty deque or a joined thread: the worker it
\* joins sees the cancellation and exits, for it never waits for the mutex that
\* close() is called under.
CloseReturns == (closer = "flush") ~> (closer = "idle" \/ broken)

=============================================================================

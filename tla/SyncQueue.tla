------------------------------ MODULE SyncQueue ------------------------------
(***************************************************************************)
(* SyncPacketQueue (base/include/scy/packetqueue.h) on top of SyncQueue    *)
(* and RunnableQueue (base/include/scy/queue.h) and of the Synchronizer    *)
(* (base/include/scy/synchronizer.h): packets pushed by any thread are     *)
(* dispatched by the event loop.                                           *)
(*                                                                         *)
(* push() and popNext() are critical sections of RunnableQueue::_mutex.    *)
(* post() is uv_async_send(): it wakes the loop, and requests made before  *)
(* the callback runs are coalesced.  Inside a PacketStream, process() and  *)
(* the state change that cancels the queue both run under the stream's     *)
(* _procMutex, whose owner is lock; behind another queue (Guarded = FALSE) *)
(* process() runs without it.                                              *)
(***************************************************************************)
EXTENDS Integers, Sequences, Functions

CONSTANTS
    Producer,     \* threads calling process()
    Closer,       \* threads closing the stream (the loop may close it too)
    Nobody,
    Limit,        \* _limit
    Guarded,      \* process() runs under _procMutex
    MaxPackets    \* bound: packets pushed

ASSUME SyncQueueAssumption ==
    /\ Nobody \notin Producer \cup Closer \cup {"loop"}
    /\ Producer \cap Closer = {}
    /\ Limit \in Nat \ {0}
    /\ Guarded \in BOOLEAN
    /\ MaxPackets \in Nat

VARIABLES
    queue,          \* _queue
    pushed,         \* packets pushed so far
    cancelled,      \* Runnable's flag, read by process(), run() and dispatch()
    syncCancelled,  \* the Synchronizer's flag, read by its callback
    posted,         \* a wake-up is pending
    armed,          \* the handle's data still points to the callback
    closed,         \* uv_close() was called on the handle
    lock,           \* owner of PacketStream::_procMutex
    pc,             \* pc[t], t a producer or a closer
    loop,           \* what the event loop is doing
    current,        \* the packet popped by the loop, 0 if none
    last,           \* the last packet emitted (auxiliary)
    expired,        \* a dispatch has run out of its _timeout (auxiliary)
    crashed         \* the callback ran without its data

prodVars == <<queue, pushed, posted, lock, pc>>
loopVars == <<loop, current, last, expired, armed, crashed>>
vars == <<prodVars, loopVars, cancelled, syncCancelled, closed>>

TypeOK ==
    /\ queue \in Seq(1..MaxPackets)
    /\ pushed \in 0..MaxPackets
    /\ {cancelled, syncCancelled, posted, armed, closed, expired, crashed} \subseteq BOOLEAN
    /\ lock \in Producer \cup Closer \cup {"loop", Nobody}
    /\ pc \in [Producer \cup Closer -> {"idle", "push", "post", "cancel2", "done"}]
    /\ loop \in {"idle", "test", "pop", "dispatch", "emitted", "cancel2"}
    /\ current \in 0..MaxPackets
    /\ last \in 0..MaxPackets

Init ==
    /\ queue = <<>> /\ pushed = 0
    /\ cancelled = FALSE /\ syncCancelled = FALSE
    /\ posted = FALSE /\ armed = TRUE /\ closed = FALSE
    /\ lock = Nobody
    /\ pc = [t \in Producer \cup Closer |-> "idle"]
    /\ loop = "idle" /\ current = 0
    /\ last = 0 /\ expired = FALSE /\ crashed = FALSE

-----------------------------------------------------------------------------
(* Faulty variants, used to show that the properties can fail.             *)

DeliverOnePerPost ==
    /\ loop = "emitted"
    /\ loop' = "idle"
    /\ UNCHANGED <<prodVars, current, last, expired, armed, crashed,
                   cancelled, syncCancelled, closed>>

PushFront(p) ==
    /\ pc[p] = "push"
    /\ pushed' = pushed + 1
    /\ queue' = <<pushed + 1>> \o queue
    /\ pc' = [pc EXCEPT ![p] = "post"]
    /\ UNCHANGED <<posted, lock, loopVars, cancelled, syncCancelled, closed>>

PushUnchecked(p) ==
    /\ pc[p] = "idle" /\ ~crashed /\ ~closed
    /\ pushed < MaxPackets
    /\ Guarded => lock = Nobody
    /\ lock' = IF Guarded THEN p ELSE lock
    /\ pc' = [pc EXCEPT ![p] = "push"]
    /\ UNCHANGED <<queue, pushed, posted, loopVars, cancelled, syncCancelled, closed>>

-----------------------------------------------------------------------------
(* Producers.                                                              *)

\* process(packet): a cancelled queue refuses it (and asserts).
Process(p) ==
    /\ pc[p] = "idle" /\ ~cancelled /\ ~crashed /\ ~closed
    /\ pushed < MaxPackets
    /\ Guarded => lock = Nobody
    /\ lock' = IF Guarded THEN p ELSE lock
    /\ pc' = [pc EXCEPT ![p] = "push"]
    /\ UNCHANGED <<queue, pushed, posted, loopVars, cancelled, syncCancelled, closed>>

\* RunnableQueue::push(): purge from the front while at the limit, then append.
Purged(q) == IF Len(q) < Limit THEN q ELSE SubSeq(q, Len(q) - Limit + 2, Len(q))

Push(p) ==
    /\ pc[p] = "push"
    /\ pushed' = pushed + 1
    /\ queue' = Append(Purged(queue), pushed + 1)
    /\ pc' = [pc EXCEPT ![p] = "post"]
    /\ UNCHANGED <<posted, lock, loopVars, cancelled, syncCancelled, closed>>

\* Synchronizer::post(), and return.
Post(p) ==
    /\ pc[p] = "post"
    /\ posted' = TRUE
    /\ pc' = [pc EXCEPT ![p] = "idle"]
    /\ lock' = IF Guarded THEN Nobody ELSE lock
    /\ UNCHANGED <<queue, pushed, loopVars, cancelled, syncCancelled, closed>>

-----------------------------------------------------------------------------
(* Closing: onStreamStateChange(Closed or Error) calls SyncQueue::cancel(), *)
(* from a closer's thread or from the loop, inside a delegate.  The tid of  *)
(* the Synchronizer's context is never set, so the comparison with the      *)
(* current thread fails and cancel() never closes the handle itself.        *)

Cancel(c) ==
    /\ pc[c] = "idle" /\ lock = Nobody /\ ~crashed
    /\ lock' = c
    /\ cancelled' = TRUE
    /\ pc' = [pc EXCEPT ![c] = "cancel2"]
    /\ UNCHANGED <<queue, pushed, posted, loopVars, syncCancelled, closed>>

CancelSync(c) ==
    /\ pc[c] = "cancel2"
    /\ syncCancelled' = TRUE
    /\ lock' = Nobody
    /\ pc' = [pc EXCEPT ![c] = "done"]
    /\ UNCHANGED <<queue, pushed, posted, loopVars, cancelled, closed>>

LoopCancel ==
    /\ loop = "emitted" /\ lock = Nobody
    /\ lock' = "loop"
    /\ cancelled' = TRUE
    /\ loop' = "cancel2"
    /\ UNCHANGED <<queue, pushed, posted, pc, current, last, expired, armed, crashed,
                   syncCancelled, closed>>

LoopCancelSync ==
    /\ loop = "cancel2"
    /\ syncCancelled' = TRUE
    /\ lock' = Nobody
    /\ loop' = "test"
    /\ UNCHANGED <<queue, pushed, posted, pc, current, last, expired, armed, crashed,
                   cancelled, closed>>

\* ~SyncQueue on the loop thread, once the stream is closed and nobody uses it:
\* Synchronizer::close() posts and closes the handle, ~RunnableQueue clears.
Destroy ==
    /\ syncCancelled /\ lock = Nobody /\ loop = "idle" /\ ~closed /\ ~crashed
    /\ \A t \in Producer \cup Closer : pc[t] \in {"idle", "done"}
    /\ posted' = TRUE /\ closed' = TRUE
    /\ queue' = <<>>
    /\ UNCHANGED <<pushed, lock, pc, loopVars, cancelled, syncCancelled>>

-----------------------------------------------------------------------------
(* The event loop.                                                         *)

\* The async callback: run(), or once cancelled drop the handle's data.
Callback ==
    /\ posted /\ ~closed /\ ~crashed /\ loop = "idle"
    /\ posted' = FALSE
    /\ crashed' = ~armed
    /\ armed' = (armed /\ ~syncCancelled)
    /\ loop' = IF armed /\ ~syncCancelled THEN "test" ELSE "idle"
    /\ UNCHANGED <<queue, pushed, lock, pc, current, last, expired,
                   cancelled, syncCancelled, closed>>

\* runTimeout(): !cancelled() && elapsed < _timeout && dispatchNext().
Test ==
    /\ loop = "test"
    /\ \/ loop' = (IF cancelled THEN "idle" ELSE "pop") /\ UNCHANGED expired
       \/ ~cancelled /\ loop' = "idle" /\ expired' = TRUE
    /\ UNCHANGED <<prodVars, current, last, armed, crashed,
                   cancelled, syncCancelled, closed>>

PopNext ==
    /\ loop = "pop"
    /\ IF queue = <<>>
       THEN loop' = "idle" /\ UNCHANGED <<queue, current>>
       ELSE loop' = "dispatch" /\ current' = Head(queue) /\ queue' = Tail(queue)
    /\ UNCHANGED <<pushed, posted, lock, pc, last, expired, armed, crashed,
                   cancelled, syncCancelled, closed>>

\* SyncPacketQueue::dispatch(): emit, unless cancelled in the meantime.
Dispatch ==
    /\ loop = "dispatch"
    /\ last' = IF cancelled THEN last ELSE current
    /\ loop' = IF cancelled THEN "test" ELSE "emitted"
    /\ current' = 0
    /\ UNCHANGED <<prodVars, expired, armed, crashed, cancelled, syncCancelled, closed>>

Delivered ==
    /\ loop = "emitted"
    /\ loop' = "test"
    /\ UNCHANGED <<prodVars, current, last, expired, armed, crashed,
                   cancelled, syncCancelled, closed>>

Loop == Callback \/ Test \/ PopNext \/ Dispatch \/ Delivered \/ LoopCancelSync

Next ==
    \/ \E p \in Producer : Process(p) \/ Push(p) \/ Post(p)
    \/ \E c \in Closer : Cancel(c) \/ CancelSync(c)
    \/ Loop \/ LoopCancel \/ Destroy

Spec == Init /\ [][Next]_vars

\* The loop and the threads inside a call run; nobody has to push or close.
FairSpec ==
    /\ Spec
    /\ WF_vars(Loop)
    /\ \A p \in Producer : WF_vars(Push(p) \/ Post(p))
    /\ \A c \in Closer : WF_vars(CancelSync(c))

-----------------------------------------------------------------------------
(* Properties.                                                             *)

\* Packets reach the delegates in the order they were pushed and at most once,
\* across purging, coalesced wake-ups, cancellation and destruction.
Fifo == INSTANCE LossyFifo
          WITH waiting <- Range(queue) \cup (IF current = 0 THEN {} ELSE {current})
ImplementsFifo == Fifo!Spec

\* The callback deletes its own closure when it finds the queue cancelled; no
\* wake-up reaches it afterwards.
NoCallbackAfterDelete == ~crashed

\* No wake-up is lost: a packet in the queue leaves it, unless the queue is
\* cancelled or a dispatch ran out of its timeout, although a post made while
\* the loop is draining the queue may be coalesced with an earlier one.
EventuallyDispatched ==
    \A i \in 1..MaxPackets :
        (i \in Range(queue)) ~> (i \notin Range(queue) \/ cancelled \/ expired)
=============================================================================

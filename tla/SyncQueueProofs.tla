-------------------------- MODULE SyncQueueProofs --------------------------
(***************************************************************************)
(* Proofs about SyncQueue: the deleted callback is never run again, and    *)
(* the queue implements LossyFifo, for any number of producers, closers    *)
(* and packets and any limit.                                              *)
(***************************************************************************)
EXTENDS SyncQueue, SequenceTheorems, TLAPS

\* Under _procMutex no producer is between its test of cancelled and its post()
\* once the queue is cancelled, so whoever finds the callback's data deleted
\* finds no wake-up pending either.
WakeInv ==
    /\ pc \in [Producer \cup Closer -> {"idle", "push", "post", "cancel2", "done"}]
    /\ \A p \in Producer : pc[p] \in {"push", "post"} => lock = p /\ ~cancelled
    /\ \A p \in Producer : pc[p] \notin {"cancel2", "done"}
    /\ \A c \in Closer : pc[c] \notin {"push", "post"}
    /\ \A c \in Closer : pc[c] = "cancel2" => cancelled
    /\ loop = "cancel2" => cancelled
    /\ syncCancelled => cancelled
    /\ ~armed => syncCancelled /\ (closed \/ ~posted)
    /\ armed \in BOOLEAN /\ syncCancelled \in BOOLEAN /\ closed \in BOOLEAN
    /\ posted \in BOOLEAN /\ cancelled \in BOOLEAN
    /\ ~crashed

\* Inside a PacketStream the event loop never runs the callback after the
\* callback has deleted its own closure.
THEOREM CallbackAlive ==
    ASSUME Guarded
    PROVE  Spec => []NoCallbackAfterDelete
<1>1. Init => WakeInv
  BY DEF Init, WakeInv
<1>2. WakeInv /\ [Next]_vars => WakeInv'
  <2> SUFFICES ASSUME WakeInv, [Next]_vars PROVE WakeInv'
    OBVIOUS
  <2> USE SyncQueueAssumption DEF WakeInv, prodVars, loopVars
  <2>1. ASSUME NEW p \in Producer, Process(p) \/ Push(p) \/ Post(p) PROVE WakeInv'
    <3>1. CASE Process(p)
      BY <3>1 DEF Process
    <3>2. CASE Push(p)
      BY <3>2 DEF Push
    <3>3. CASE Post(p)
      BY <3>3 DEF Post
    <3> QED
      BY <2>1, <3>1, <3>2, <3>3
  <2>2. ASSUME NEW c \in Closer, Cancel(c) \/ CancelSync(c) PROVE WakeInv'
    <3>1. CASE Cancel(c)
      BY <3>1 DEF Cancel
    <3>2. CASE CancelSync(c)
      BY <3>2 DEF CancelSync
    <3> QED
      BY <2>2, <3>1, <3>2
  <2>3. CASE Callback
    BY <2>3 DEF Callback
  <2>4. CASE Test \/ PopNext \/ Dispatch \/ Delivered
    BY <2>4 DEF Test, PopNext, Dispatch, Delivered
  <2>5. CASE LoopCancel
    BY <2>5 DEF LoopCancel
  <2>6. CASE LoopCancelSync
    BY <2>6 DEF LoopCancelSync
  <2>7. CASE Destroy
    BY <2>7 DEF Destroy
  <2>8. CASE UNCHANGED vars
    BY <2>8 DEF vars
  <2> QED
    BY <2>1, <2>2, <2>3, <2>4, <2>5, <2>6, <2>7, <2>8 DEF Next, Loop
<1>3. WakeInv => NoCallbackAfterDelete
  BY DEF WakeInv, NoCallbackAfterDelete
<1> QED
  BY <1>1, <1>2, <1>3, PTL DEF Spec

-----------------------------------------------------------------------------

\* The queue holds increasing packet numbers, all later than the packet the
\* loop has popped and none later than the last one pushed.
OrderInv ==
    /\ queue \in Seq(Nat) /\ pushed \in Nat /\ current \in Nat
    /\ loop \in {"idle", "test", "pop", "dispatch", "emitted", "cancel2"}
    /\ loop # "dispatch" => current = 0
    /\ loop = "dispatch" => current # 0
    /\ current <= pushed
    /\ \A i \in 1..Len(queue) : current < queue[i] /\ queue[i] <= pushed
    /\ \A i, j \in 1..Len(queue) : i < j => queue[i] < queue[j]

\* The packets of LossyFifo!waiting.
Waiting == Range(queue) \cup (IF current = 0 THEN {} ELSE {current})

\* The library's facts on SubSeq and Append, for sequences of packet numbers.
LEMMA SubSeqFacts ==
    ASSUME NEW q, NEW m \in Int, NEW n \in Int, \A i \in m..n : q[i] \in Nat
    PROVE  /\ SubSeq(q, m, n) \in Seq(Nat)
           /\ Len(SubSeq(q, m, n)) = IF m <= n THEN n - m + 1 ELSE 0
           /\ \A i \in 1..(n - m + 1) : SubSeq(q, m, n)[i] = q[m + i - 1]
  BY SubSeqProperties

\* The same for Append: its length, and its elements.
LEMMA AppendFacts ==
    ASSUME NEW q \in Seq(Nat), NEW e \in Nat
    PROVE  /\ Append(q, e) \in Seq(Nat) /\ Len(Append(q, e)) = Len(q) + 1
           /\ \A i \in 1..Len(q) : Append(q, e)[i] = q[i]
           /\ Append(q, e)[Len(q) + 1] = e
  BY AppendProperties

\* The purge in push() keeps the newest packets: a suffix of the queue.
LEMMA PurgedFacts ==
    ASSUME NEW q \in Seq(Nat)
    PROVE  /\ Purged(q) \in Seq(Nat)
           /\ Len(Purged(q)) <= Len(q)
           /\ \A i \in 1..Len(Purged(q)) :
                 Purged(q)[i] = q[i + Len(q) - Len(Purged(q))]
<1>1. CASE Len(q) < Limit
  BY <1>1 DEF Purged
<1>2. CASE ~(Len(q) < Limit)
  <2> DEFINE m == Len(q) - Limit + 2
  <2>1. Len(q) \in Nat /\ Limit \in Nat \ {0} /\ m \in Nat /\ m >= 2 /\ m <= Len(q) + 1
    BY <1>2, SyncQueueAssumption, LenProperties
  <2>2. Purged(q) = SubSeq(q, m, Len(q))
    BY <1>2 DEF Purged
  <2> HIDE DEF m
  <2>3. /\ SubSeq(q, m, Len(q)) \in Seq(Nat)
        /\ Len(SubSeq(q, m, Len(q))) = IF m <= Len(q) THEN Len(q) - m + 1 ELSE 0
        /\ \A i \in 1..(Len(q) - m + 1) : SubSeq(q, m, Len(q))[i] = q[m + i - 1]
    <3>1. \A i \in m..Len(q) : q[i] \in Nat
      BY <2>1, ElementOfSeq
    <3>2. m \in Int /\ Len(q) \in Int
      BY <2>1
    <3> QED
      BY <3>1, <3>2, SubSeqFacts, Zenon
  <2>4. Len(Purged(q)) = Len(q) - m + 1
    BY <2>1, <2>2, <2>3
  <2>5. ASSUME NEW i \in 1..Len(Purged(q))
        PROVE  Purged(q)[i] = q[i + Len(q) - Len(Purged(q))]
    <3>1. i + Len(q) - Len(Purged(q)) = m + i - 1
      BY <2>1, <2>4
    <3> QED
      BY <2>1, <2>2, <2>3, <2>4, <3>1
  <2>6. Purged(q) \in Seq(Nat) /\ Len(Purged(q)) <= Len(q)
    BY <2>1, <2>2, <2>3, <2>4
  <2> QED
    BY <2>5, <2>6, Zenon
<1> QED
  BY <1>1, <1>2

\* push(): the queue stays ordered and keeps a part of what it held.
LEMMA PushStep ==
    ASSUME OrderInv, NEW p \in Producer, Push(p)
    PROVE  OrderInv' /\ Fifo!Push
<1> DEFINE q == Purged(queue)
<1> DEFINE k == Len(queue) - Len(q)
<1>1. /\ q \in Seq(Nat) /\ Len(q) \in Nat /\ Len(queue) \in Nat /\ k \in Nat
      /\ \A i \in 1..Len(q) : i + k \in 1..Len(queue) /\ q[i] = queue[i + k]
  <2>1. q \in Seq(Nat) /\ Len(q) <= Len(queue) /\ Len(queue) \in Nat /\ Len(q) \in Nat
    BY PurgedFacts, LenProperties DEF OrderInv
  <2>2. \A i \in 1..Len(q) : q[i] = queue[i + Len(queue) - Len(q)]
    BY PurgedFacts DEF OrderInv
  <2>3. \A i \in 1..Len(q) : i + k \in 1..Len(queue) /\ i + Len(queue) - Len(q) = i + k
    BY <2>1
  <2>4. k \in Nat
    BY <2>1
  <2> HIDE DEF q, k
  <2>5. \A i \in 1..Len(q) : i + k \in 1..Len(queue) /\ q[i] = queue[i + k]
    BY <2>2, <2>3, Zenon
  <2> QED
    BY <2>1, <2>4, <2>5, Zenon
<1>2. /\ queue' \in Seq(Nat) /\ Len(queue') = Len(q) + 1
      /\ \A i \in 1..Len(q) : queue'[i] = q[i]
      /\ queue'[Len(q) + 1] = pushed + 1
  <2>1. queue' = Append(q, pushed + 1) /\ pushed + 1 \in Nat
    BY DEF Push, OrderInv
  <2> HIDE DEF q
  <2> QED
    BY <1>1, <2>1, AppendFacts, Zenon
<1> HIDE DEF q, k
<1>3. pushed' = pushed + 1 /\ current' = current /\ loop' = loop /\ last' = last
  BY DEF Push, loopVars
<1>4. ASSUME NEW i \in 1..Len(queue')
      PROVE  current < queue'[i] /\ queue'[i] <= pushed + 1
  <2>0. current \in Nat /\ pushed \in Nat /\ current <= pushed
    BY DEF OrderInv
  <2>1. CASE i = Len(q) + 1
    BY <1>2, <2>0, <2>1
  <2>2. CASE i # Len(q) + 1
    <3>0. Len(q) \in Nat /\ Len(queue') = Len(q) + 1
      BY <1>1, <1>2, Zenon
    <3>1. i \in 1..Len(q)
      BY <2>2, <3>0
    <3>2. queue'[i] = queue[i + k] /\ i + k \in 1..Len(queue)
      BY <1>1, <1>2, <3>1
    <3>3. current < queue[i + k] /\ queue[i + k] <= pushed /\ queue[i + k] \in Nat
      BY <3>2, ElementOfSeq DEF OrderInv
    <3> QED
      BY <2>0, <3>2, <3>3
  <2> QED
    BY <2>1, <2>2
<1>5. ASSUME NEW i \in 1..Len(queue'), NEW j \in 1..Len(queue'), i < j
      PROVE  queue'[i] < queue'[j]
  <2>1. CASE j = Len(q) + 1
    <3>0. Len(q) \in Nat /\ Len(queue') = Len(q) + 1
      BY <1>1, <1>2, Zenon
    <3>1. i \in 1..Len(q)
      BY <1>5, <2>1, <3>0
    <3>2. queue'[i] = queue[i + k] /\ i + k \in 1..Len(queue)
      BY <1>1, <1>2, <3>1
    <3>3. queue[i + k] <= pushed /\ queue[i + k] \in Nat /\ pushed \in Nat
      BY <3>2, ElementOfSeq DEF OrderInv
    <3> QED
      BY <1>2, <2>1, <3>2, <3>3
  <2>2. CASE j # Len(q) + 1
    <3>0. Len(q) \in Nat /\ k \in Nat /\ Len(queue') = Len(q) + 1
      BY <1>1, <1>2, Zenon
    <3>1. i \in 1..Len(q) /\ j \in 1..Len(q) /\ i + k < j + k
      BY <1>5, <2>2, <3>0
    <3> QED
      BY <1>1, <1>2, <3>1 DEF OrderInv
  <2> QED
    BY <2>1, <2>2
<1>6. OrderInv'
  BY <1>2, <1>3, <1>4, <1>5 DEF OrderInv
<1>7. Range(queue') = {q[i] : i \in 1..Len(q)} \cup {pushed + 1}
  <2>1. DOMAIN queue' = 1..(Len(q) + 1)
    BY <1>2, LenProperties
  <2>2. \A i \in 1..(Len(q) + 1) : i \in 1..Len(q) \/ i = Len(q) + 1
    BY <1>1
  <2>3. 1..Len(q) \subseteq 1..(Len(q) + 1) /\ Len(q) + 1 \in 1..(Len(q) + 1)
    BY <1>1
  <2>4. Range(queue') = {queue'[i] : i \in 1..(Len(q) + 1)}
    BY <2>1 DEF Range
  <2> QED
    BY <1>2, <2>2, <2>3, <2>4, Zenon
<1>8. {q[i] : i \in 1..Len(q)} \subseteq Range(queue)
  <2>1. DOMAIN queue = 1..Len(queue)
    BY LenProperties DEF OrderInv
  <2> QED
    BY <1>1, <2>1 DEF Range
<1>9. Fifo!Push
  <2> DEFINE kept == {q[i] : i \in 1..Len(q)} \cup (IF current = 0 THEN {} ELSE {current})
  <2>1. kept \in SUBSET Waiting
    BY <1>8 DEF Waiting
  <2>2. Waiting' = kept \cup {pushed + 1}
    BY <1>3, <1>7 DEF Waiting
  <2> HIDE DEF kept
  <2> QED
    BY <1>3, <2>1, <2>2 DEF Fifo!Push, Waiting
<1> QED
  BY <1>6, <1>9

\* popNext(): the popped packet is still waiting, ahead of the others.
LEMMA PopStep ==
    ASSUME OrderInv, PopNext
    PROVE  OrderInv' /\ UNCHANGED <<pushed, Waiting, last>>
<1>1. CASE queue = <<>>
  BY <1>1 DEF PopNext, OrderInv, Waiting
<1>2. CASE queue # <<>>
  <2>1. /\ queue' = Tail(queue) /\ current' = Head(queue) /\ loop' = "dispatch"
        /\ UNCHANGED <<pushed, last>> /\ current = 0
    BY <1>2 DEF PopNext, OrderInv
  <2>2. /\ queue' \in Seq(Nat) /\ Len(queue) \in Nat \ {0} /\ Len(queue') = Len(queue) - 1
        /\ \A i \in 1..Len(queue') : queue'[i] = queue[i + 1]
        /\ current' = queue[1] /\ current' \in Nat
    BY <1>2, <2>1, HeadTailProperties, EmptySeq DEF OrderInv
  <2>3. /\ 1 \in 1..Len(queue)
        /\ \A i \in 1..Len(queue') : i + 1 \in 1..Len(queue) /\ 1 < i + 1
    BY <2>2
  <2>4. OrderInv'
    BY <2>1, <2>2, <2>3 DEF OrderInv
  <2>5. Range(queue) = {queue[i] : i \in 1..Len(queue)} /\ Range(queue') = {queue'[i] : i \in 1..Len(queue')}
    BY <2>2, LenProperties DEF Range, OrderInv
  <2>6. \A i \in 1..Len(queue) : i = 1 \/ (i - 1 \in 1..Len(queue') /\ queue'[i - 1] = queue[i])
    BY <2>2
  <2>7. Range(queue) = Range(queue') \cup {current'}
    BY <2>2, <2>3, <2>5, <2>6
  <2>8. current' # 0
    BY <2>1, <2>2, <2>3 DEF OrderInv
  <2> QED
    BY <2>1, <2>4, <2>7, <2>8 DEF Waiting
<1> QED
  BY <1>1, <1>2

\* dispatch(): the packet delivered, or dropped if the queue is cancelled, is the
\* first one waiting.
LEMMA DispatchStep ==
    ASSUME OrderInv, Dispatch
    PROVE  OrderInv' /\ (Fifo!Deliver \/ Fifo!Drop)
<1>1. /\ current # 0 /\ current' = 0 /\ UNCHANGED <<queue, pushed>>
      /\ loop' \in {"test", "emitted"}
  BY DEF Dispatch, OrderInv, prodVars
<1>2. \A j \in Range(queue) : current < j
  BY LenProperties DEF OrderInv, Range
<1>3. Waiting = Range(queue) \cup {current} /\ Waiting' = Range(queue)
  BY <1>1 DEF Waiting
<1>4. Waiting' = Waiting \ {current} /\ current \in Waiting /\ \A j \in Waiting : current <= j
  <2>1. Range(queue) \subseteq Nat /\ current \in Nat
    BY LenProperties DEF OrderInv, Range
  <2> QED
    BY <1>2, <1>3, <2>1
<1>5. OrderInv'
  BY <1>1 DEF OrderInv
<1>6. CASE cancelled
  <2>1. last' = last
    BY <1>6 DEF Dispatch
  <2>2. Waiting' \in SUBSET Waiting
    BY <1>4
  <2> QED
    BY <1>1, <1>5, <2>1, <2>2 DEF Fifo!Drop, Waiting
<1>7. CASE ~cancelled
  <2>1. last' = current
    BY <1>7 DEF Dispatch
  <2> QED
    BY <1>1, <1>4, <1>5, <2>1 DEF Fifo!Deliver, Waiting
<1> QED
  BY <1>5, <1>6, <1>7

\* Every behaviour of the synchronized queue is one of the abstract queue.
THEOREM SyncQueueImplementsFifo == Spec => ImplementsFifo
<1>1. Init => OrderInv /\ Fifo!Init
  BY DEF Init, OrderInv, Fifo!Init, Range
<1>2. OrderInv /\ [Next]_vars => OrderInv' /\ [Fifo!Next]_<<pushed, Waiting, last>>
  <2> SUFFICES ASSUME OrderInv, [Next]_vars
               PROVE  OrderInv' /\ [Fifo!Next]_<<pushed, Waiting, last>>
    OBVIOUS
  <2>1. ASSUME NEW p \in Producer, Push(p)
        PROVE  OrderInv' /\ Fifo!Next
    BY <2>1, PushStep DEF Fifo!Next
  <2>2. CASE PopNext
    BY <2>2, PopStep
  <2>3. CASE Dispatch
    BY <2>3, DispatchStep DEF Fifo!Next
  <2>4. CASE Destroy
    <3>1. queue' = <<>> /\ UNCHANGED <<pushed, current, last, loop>> /\ current = 0
      BY <2>4 DEF Destroy, OrderInv, loopVars
    <3>2. OrderInv'
      BY <3>1 DEF OrderInv
    <3>3. Waiting' = {}
      BY <3>1 DEF Waiting, Range
    <3>4. Fifo!Drop
      BY <3>1, <3>3 DEF Fifo!Drop, Waiting
    <3> QED
      BY <3>2, <3>4 DEF Fifo!Next
  <2>5. ASSUME UNCHANGED <<queue, pushed, current, last>>,
               loop' = loop \/ (loop # "dispatch" /\ loop' \in {"idle", "test", "pop", "cancel2"})
        PROVE  OrderInv' /\ UNCHANGED <<pushed, Waiting, last>>
    BY <2>5 DEF OrderInv, Waiting
  <2>6. ASSUME NEW p \in Producer, Process(p) \/ Post(p)
        PROVE  OrderInv' /\ UNCHANGED <<pushed, Waiting, last>>
    BY <2>5, <2>6 DEF Process, Post, loopVars
  <2>7. ASSUME NEW c \in Closer, Cancel(c) \/ CancelSync(c)
        PROVE  OrderInv' /\ UNCHANGED <<pushed, Waiting, last>>
    BY <2>5, <2>7 DEF Cancel, CancelSync, loopVars
  <2>8. CASE Callback \/ Test \/ Delivered \/ LoopCancel \/ LoopCancelSync
    BY <2>5, <2>8 DEF Callback, Test, Delivered, LoopCancel, LoopCancelSync, prodVars
  <2>9. CASE UNCHANGED vars
    BY <2>5, <2>9 DEF vars, prodVars, loopVars
  <2> QED
    BY <2>1, <2>2, <2>3, <2>4, <2>6, <2>7, <2>8, <2>9 DEF Next, Loop
<1>3. Waiting = Range(queue) \cup (IF current = 0 THEN {} ELSE {current})
  BY DEF Waiting
<1> QED
  BY <1>1, <1>2, <1>3, PTL DEF Spec, ImplementsFifo, Fifo!Spec, Waiting
=============================================================================

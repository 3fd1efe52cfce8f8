-------------------------- MODULE AsyncQueueProofs --------------------------
(***************************************************************************)
(* Proofs about services that share no state.  AsyncQueue: its types,      *)
(* and, for any number of producers and packets and any limit, that as     *)
(* long as nobody closes it the queue is first in, first out and accounts  *)
(* for every packet.  TimedManager, for any threads, keys and items, and   *)
(* WebrtcPeers, for any peers: what they own is deleted once, and by then  *)
(* it has left their maps.  MediaCapture, for any callers: what they may   *)
(* count on from the thread of the capture.  WebrtcMedia, for any frame    *)
(* size and packet times: audio, video and recording.  LogWriter, for any  *)
(* names and levels and any rotation: the order and fate of messages.      *)
(***************************************************************************)
EXTENDS AsyncQueue, TimedManager, LogWriter, WebrtcPeers, MediaCapture, WebrtcMedia, SequenceTheorems, TLAPS

-----------------------------------------------------------------------------
(* Types.                                                                  *)

\* A thread between its test of cancelled and its push holds _procMutex, so no
\* other thread has pushed since it saw room for a packet; and a thread in
\* close() holds it too.
LockInv ==
    /\ \A p \in Producer : pc[p] = "push" => lock = p /\ pushed < MaxPackets
    /\ closer # "idle" => lock = "closer"

\* The library's facts on SubSeq and Append, for sequences of packets.
LEMMA SubSeqFacts ==
    ASSUME NEW q \in Seq(Packet), NEW n \in 0..Len(q)
    PROVE  /\ SubSeq(q, n + 1, Len(q)) \in Seq(Packet)
           /\ Len(SubSeq(q, n + 1, Len(q))) = Len(q) - n
           /\ \A i \in 1..(Len(q) - n) : SubSeq(q, n + 1, Len(q))[i] = q[i + n]
<1>1. Len(q) \in Nat /\ n \in Nat /\ n + 1 \in Int /\ Len(q) \in Int
  BY LenProperties
<1>2. \A i \in (n + 1)..Len(q) : q[i] \in Packet
  BY <1>1, ElementOfSeq
<1>3. /\ SubSeq(q, n + 1, Len(q)) \in Seq(Packet)
      /\ Len(SubSeq(q, n + 1, Len(q))) = IF n + 1 <= Len(q) THEN Len(q) - (n + 1) + 1 ELSE 0
      /\ \A i \in 1..(Len(q) - (n + 1) + 1) : SubSeq(q, n + 1, Len(q))[i] = q[(n + 1) + i - 1]
  BY <1>1, <1>2, SubSeqProperties
<1> QED
  BY <1>1, <1>3

LEMMA AppendFacts ==
    ASSUME NEW q \in Seq(Packet), NEW e \in Packet
    PROVE  /\ Append(q, e) \in Seq(Packet) /\ Len(Append(q, e)) = Len(q) + 1
           /\ \A i \in 1..Len(q) : Append(q, e)[i] = q[i]
           /\ Append(q, e)[Len(q) + 1] = e
  BY AppendProperties

\* How many packets push() purges.
Excess == IF Len(queue) < Limit THEN 0 ELSE Len(queue) - Limit + 1

\* push(): the new queue is the old one without its oldest packets, and the new
\* packet at the end.
LEMMA PushedQueue ==
    ASSUME TypeOK, LockInv, NEW p \in Producer, Push(p)
    PROVE  /\ Excess \in Nat /\ Len(queue) \in Nat /\ Excess <= Len(queue)
           /\ pushed + 1 \in Packet /\ pushed' = pushed + 1
           /\ queue' \in Seq(Packet) /\ Len(queue') = Len(queue) - Excess + 1
           /\ \A i \in 1..(Len(queue) - Excess) : queue'[i] = queue[i + Excess]
           /\ queue'[Len(queue) - Excess + 1] = pushed + 1
           /\ purged' = purged \cup {queue[i] : i \in 1..Excess}
<1> DEFINE q == SubSeq(queue, Excess + 1, Len(queue))
<1>1. Excess \in Nat /\ Len(queue) \in Nat /\ Excess <= Len(queue) /\ Excess \in 0..Len(queue)
  BY AsyncQueueAssumption, LenProperties DEF TypeOK, Excess
<1>2. pushed + 1 \in Packet /\ pushed' = pushed + 1
  BY AsyncQueueAssumption DEF TypeOK, LockInv, Push, Packet
<1>3. /\ queue' = Append(q, pushed + 1)
      /\ purged' = purged \cup {queue[i] : i \in 1..Excess}
  BY DEF Push, Excess
<1>4. /\ q \in Seq(Packet) /\ Len(q) = Len(queue) - Excess
      /\ \A i \in 1..(Len(queue) - Excess) : q[i] = queue[i + Excess]
  BY <1>1, SubSeqFacts DEF TypeOK
<1> HIDE DEF q
<1>5. /\ queue' \in Seq(Packet) /\ Len(queue') = Len(q) + 1
      /\ \A i \in 1..Len(q) : queue'[i] = q[i]
      /\ queue'[Len(q) + 1] = pushed + 1
  BY <1>2, <1>3, <1>4, AppendFacts
<1> QED
  BY <1>1, <1>2, <1>3, <1>4, <1>5

\* What Tail() leaves of a queue that is not empty.
LEMMA TailFacts ==
    ASSUME TypeOK, queue # <<>>
    PROVE  /\ Len(queue) \in Nat \ {0} /\ Head(queue) = queue[1] /\ queue[1] \in Packet
           /\ Tail(queue) \in Seq(Packet) /\ Len(Tail(queue)) = Len(queue) - 1
           /\ \A i \in 1..(Len(queue) - 1) : Tail(queue)[i] = queue[i + 1]
  BY HeadTailProperties, EmptySeq DEF TypeOK

\* dispatch() counts one packet, or none.
LEMMA EmitTypes ==
    ASSUME TypeOK, NEW i \in 0..MaxPackets, Emit(i)
    PROVE  last' \in 0..MaxPackets /\ outs' \in [Packet -> Nat] /\ purged' = purged
<1>1. CASE cancelled
  BY <1>1 DEF TypeOK, Emit
<1>2. CASE ~cancelled
  <2>1. /\ last' = i /\ purged' = purged
        /\ outs' = [j \in Packet |-> IF j = i THEN outs[j] + 1 ELSE outs[j]]
    BY <1>2 DEF TypeOK, Emit
  <2>2. \A j \in Packet : outs[j] \in Nat
    BY DEF TypeOK
  <2> QED
    BY <2>1, <2>2
<1> QED
  BY <1>1, <1>2

LEMMA TypeStep == TypeOK /\ LockInv /\ [Next]_vars => TypeOK' /\ LockInv'
<1> SUFFICES ASSUME TypeOK, LockInv, [Next]_vars PROVE TypeOK' /\ LockInv'
  OBVIOUS
<1> USE AsyncQueueAssumption DEF workVars, closeVars, auxVars
<1>0. Packet \subseteq 0..MaxPackets /\ (queue # <<>> => Head(queue) \in 0..MaxPackets)
  BY TailFacts DEF Packet
<1>1. ASSUME NEW p \in Producer, Process(p) PROVE TypeOK' /\ LockInv'
  BY <1>1 DEF Process, TypeOK, LockInv
<1>2. ASSUME NEW p \in Producer, Push(p) PROVE TypeOK' /\ LockInv'
  <2>1. \A i \in 1..Excess : queue[i] \in Packet
    BY <1>2, PushedQueue, ElementOfSeq DEF TypeOK
  <2>2. queue' \in Seq(Packet) /\ pushed' \in 0..MaxPackets /\ purged' \subseteq Packet
    <3>1. /\ queue' \in Seq(Packet) /\ pushed' \in Packet
          /\ purged' = purged \cup {queue[i] : i \in 1..Excess}
      BY <1>2, PushedQueue
    <3> QED
      BY <1>0, <2>1, <3>1 DEF TypeOK
  <2>3. TypeOK'
    BY <1>2, <2>2 DEF Push, TypeOK
  <2>4. LockInv'
    BY <1>2 DEF Push, TypeOK, LockInv
  <2> QED
    BY <2>3, <2>4
<1>3. CASE WorkerTest
  BY <1>3 DEF WorkerTest, TypeOK, LockInv
<1>4. CASE PopNext
  BY <1>0, <1>4, TailFacts DEF PopNext, TypeOK, LockInv
<1>5. CASE WorkerDispatch
  <2>1. last' \in 0..MaxPackets /\ outs' \in [Packet -> Nat] /\ purged' = purged
    BY <1>5, EmitTypes DEF WorkerDispatch, TypeOK
  <2> QED
    BY <1>5, <2>1 DEF WorkerDispatch, TypeOK, LockInv
<1>6. CASE Close
  BY <1>6 DEF Close, TypeOK, LockInv
<1>7. CASE FlushTest
  BY <1>7 DEF FlushTest, TypeOK, LockInv
<1>8. CASE FlushFront
  BY <1>0, <1>8 DEF FlushFront, TypeOK, LockInv
<1>9. CASE FlushDispatch
  <2>1. last' \in 0..MaxPackets /\ outs' \in [Packet -> Nat] /\ purged' = purged
    BY <1>9, EmitTypes DEF FlushDispatch, TypeOK
  <2> QED
    BY <1>9, <2>1 DEF FlushDispatch, TypeOK, LockInv
<1>10. CASE FlushPop
  BY <1>10, TailFacts DEF FlushPop, TypeOK, LockInv
<1>11. CASE CloseCancels
  BY <1>11 DEF CloseCancels, TypeOK, LockInv
<1>12. CASE Join
  BY <1>12 DEF Join, TypeOK, LockInv
<1>13. CASE UNCHANGED vars
  BY <1>13 DEF vars, TypeOK, LockInv
<1> QED
  BY <1>1, <1>2, <1>3, <1>4, <1>5, <1>6, <1>7, <1>8, <1>9, <1>10, <1>11, <1>12, <1>13
     DEF Next, Worker, CloseStep

-----------------------------------------------------------------------------
(* While the queue is open.                                                *)

\* The queue holds increasing packet numbers, all later than the packet the
\* worker has popped and none later than the last one pushed.
OrderInv ==
    /\ popped # 0 <=> worker = "dispatch"
    /\ popped <= pushed
    /\ \A i \in 1..Len(queue) : popped < queue[i] /\ queue[i] <= pushed
    /\ \A i, j \in 1..Len(queue) : i < j => queue[i] < queue[j]

\* A packet purged is neither waiting nor popped, and none is counted before it
\* is pushed.
AccountInv ==
    /\ \A i \in 1..Len(queue) : queue[i] \notin purged
    /\ popped \notin purged
    /\ \A i \in purged : i <= pushed
    /\ \A i \in Packet : i > pushed => outs[i] = 0
    /\ EveryPacketAccounted

\* close() has not been called.
OpenInv ==
    closes = 0 => closer = "idle" /\ ~cancelled /\ OrderInv /\ AccountInv

\* The packets of LossyFifo!waiting.
Waiting == Range(queue) \cup (IF popped = 0 THEN {} ELSE {popped})

LEMMA RangeOfQueue ==
    ASSUME NEW q \in Seq(Packet)
    PROVE  Range(q) = {q[i] : i \in 1..Len(q)}
  BY LenProperties DEF Range

\* push() keeps the order, and the packets it purges are accounted for.
LEMMA PushStep ==
    ASSUME TypeOK, LockInv, closes = 0, closer = "idle", ~cancelled, OrderInv, AccountInv,
           NEW p \in Producer, Push(p)
    PROVE  OrderInv' /\ AccountInv' /\ Fifo!Push
<1> DEFINE n == Excess
<1> DEFINE k == Len(queue) - n
<1>1. /\ n \in Nat /\ Len(queue) \in Nat /\ k \in Nat /\ n + k = Len(queue)
      /\ pushed + 1 \in Packet /\ pushed' = pushed + 1
      /\ queue' \in Seq(Packet) /\ Len(queue') = k + 1
      /\ \A i \in 1..k : queue'[i] = queue[i + n]
      /\ queue'[k + 1] = pushed + 1
      /\ purged' = purged \cup {queue[i] : i \in 1..n}
  BY PushedQueue
<1>2. UNCHANGED <<popped, worker, closes, last, outs>>
  BY DEF Push, workVars, closeVars
<1>3. \A i \in 1..Len(queue) : queue[i] \in Packet /\ queue[i] \in Nat
  <2>1. \A i \in 1..Len(queue) : queue[i] \in Packet
    BY ElementOfSeq DEF TypeOK
  <2> QED
    BY <2>1 DEF Packet
<1> HIDE DEF n, k
<1>4. pushed \in Nat /\ popped \in Nat /\ popped <= pushed
  BY DEF TypeOK, OrderInv
<1>5. \A i \in 1..k : i + n \in 1..Len(queue)
  BY <1>1
<1>6. \A i \in 1..n : i \in 1..Len(queue)
  BY <1>1
<1>7. \A i \in 1..Len(queue') : i \in 1..k \/ i = k + 1
  BY <1>1
<1>8. OrderInv'
  <2>1. ASSUME NEW i \in 1..Len(queue')
        PROVE  popped < queue'[i] /\ queue'[i] <= pushed + 1
    <3>1. CASE i \in 1..k
      <4>1. queue'[i] = queue[i + n] /\ i + n \in 1..Len(queue)
        BY <1>1, <1>5, <3>1
      <4>2. popped < queue[i + n] /\ queue[i + n] <= pushed /\ queue[i + n] \in Nat
        BY <1>3, <4>1 DEF OrderInv
      <4> QED
        BY <1>4, <4>1, <4>2
    <3>2. CASE i = k + 1
      BY <1>1, <1>4, <3>2
    <3> QED
      BY <1>7, <3>1, <3>2
  <2>2. ASSUME NEW i \in 1..Len(queue'), NEW j \in 1..Len(queue'), i < j
        PROVE  queue'[i] < queue'[j]
    <3>1. i \in 1..k
      BY <1>1, <2>2
    <3>2. queue'[i] = queue[i + n] /\ i + n \in 1..Len(queue)
      BY <1>1, <1>5, <3>1
    <3>3. CASE j \in 1..k
      <4>1. queue'[j] = queue[j + n] /\ j + n \in 1..Len(queue) /\ i + n < j + n
        BY <1>1, <1>5, <2>2, <3>3
      <4> QED
        BY <3>2, <4>1 DEF OrderInv
    <3>4. CASE j = k + 1
      <4>1. queue[i + n] <= pushed /\ queue[i + n] \in Nat
        BY <1>3, <3>2 DEF OrderInv
      <4> QED
        BY <1>1, <1>4, <3>2, <3>4, <4>1
    <3> QED
      BY <1>7, <3>3, <3>4
  <2> QED
    BY <1>1, <1>2, <1>4, <2>1, <2>2 DEF OrderInv
<1>9. /\ Range(queue) = {queue[i] : i \in 1..Len(queue)}
      /\ Range(queue') = {queue[i + n] : i \in 1..k} \cup {pushed + 1}
  <2>1. Range(queue') = {queue'[i] : i \in 1..Len(queue')}
    BY <1>1, RangeOfQueue
  <2>2. 1..k \subseteq 1..Len(queue') /\ k + 1 \in 1..Len(queue')
    BY <1>1
  <2> QED
    <3>1. {queue'[i] : i \in 1..Len(queue')} = {queue'[i] : i \in 1..k} \cup {queue'[k + 1]}
      BY <1>7, <2>2
    <3>2. {queue'[i] : i \in 1..k} = {queue[i + n] : i \in 1..k}
      BY <1>1
    <3>3. Range(queue) = {queue[i] : i \in 1..Len(queue)}
      BY RangeOfQueue DEF TypeOK
    <3> QED
      BY <1>1, <2>1, <3>1, <3>2, <3>3
<1>10. \A i \in 1..Len(queue) : i \in 1..n \/ (i - n \in 1..k /\ i = (i - n) + n)
  BY <1>1
<1>11. {queue[i + n] : i \in 1..k} \subseteq Range(queue)
  BY <1>5, <1>9
<1>12. Range(queue) = {queue[i] : i \in 1..n} \cup {queue[i + n] : i \in 1..k}
  <2>1. ASSUME NEW i \in 1..Len(queue)
        PROVE  queue[i] \in {queue[j] : j \in 1..n} \cup {queue[j + n] : j \in 1..k}
    <3>1. CASE i \in 1..n
      BY <3>1
    <3>2. CASE i - n \in 1..k /\ i = (i - n) + n
      <4>1. \E j \in 1..k : i = j + n
        BY <3>2
      <4> QED
        BY <4>1
    <3> QED
      BY <1>10, <3>1, <3>2
  <2>2. {queue[i] : i \in 1..n} \subseteq Range(queue)
    BY <1>6, <1>9
  <2> QED
    BY <1>9, <1>11, <2>1, <2>2
<1>13. AccountInv'
  <2>1. ASSUME NEW i \in 1..Len(queue') PROVE queue'[i] \notin purged'
    <3>1. CASE i \in 1..k
      <4>1. queue'[i] = queue[i + n] /\ i + n \in 1..Len(queue)
        BY <1>1, <1>5, <3>1
      <4>2. ASSUME NEW j \in 1..n PROVE queue[j] # queue[i + n]
        <5>1. j \in 1..Len(queue) /\ j < i + n
          BY <1>1, <1>6, <3>1
        <5>2. queue[j] < queue[i + n] /\ queue[j] \in Nat /\ queue[i + n] \in Nat
          BY <1>3, <4>1, <5>1 DEF OrderInv
        <5> QED
          BY <5>2
      <4> QED
        BY <1>1, <4>1, <4>2 DEF AccountInv
    <3>2. CASE i = k + 1
      <4>1. \A j \in 1..n : queue[j] # pushed + 1
        BY <1>3, <1>4, <1>6 DEF OrderInv
      <4>2. pushed + 1 \notin purged
        BY <1>4 DEF AccountInv
      <4> QED
        BY <1>1, <3>2, <4>1, <4>2
    <3> QED
      BY <1>7, <3>1, <3>2
  <2>2. popped \notin purged'
    <3>1. \A j \in 1..n : queue[j] # popped
      BY <1>3, <1>4, <1>6 DEF OrderInv
    <3> QED
      BY <1>1, <3>1 DEF AccountInv
  <2>3. \A i \in purged' : i <= pushed + 1
    <3>1. \A j \in 1..n : queue[j] <= pushed + 1
      BY <1>3, <1>4, <1>6 DEF OrderInv
    <3>2. \A i \in purged : i \in Nat /\ i <= pushed
      BY DEF AccountInv, TypeOK, Packet
    <3> QED
      BY <1>1, <1>4, <3>1, <3>2
  <2>4. \A i \in Packet : i > pushed + 1 => outs[i] = 0
    BY <1>4 DEF AccountInv, Packet
  <2>5. ASSUME NEW i \in 1..(pushed + 1)
        PROVE  outs[i] = IF i \in Range(queue') \/ i = popped \/ i \in purged' THEN 0 ELSE 1
    <3>1. CASE i = pushed + 1
      BY <1>1, <1>4, <1>9, <3>1 DEF AccountInv
    <3>2. CASE i # pushed + 1
      <4>1. i \in 1..pushed
        BY <1>4, <3>2
      <4>2. outs[i] = IF i \in Range(queue) \/ i = popped \/ i \in purged THEN 0 ELSE 1
        BY <4>1 DEF AccountInv, EveryPacketAccounted
      <4>3. i \in Range(queue') \/ i \in purged' <=> i \in Range(queue) \/ i \in purged
        BY <1>1, <1>9, <1>12, <3>2
      <4> QED
        BY <4>2, <4>3
    <3> QED
      BY <3>1, <3>2
  <2>6. EveryPacketAccounted'
    BY <1>1, <1>2, <2>5 DEF EveryPacketAccounted
  <2> QED
    BY <1>1, <1>2, <2>1, <2>2, <2>3, <2>4, <2>6 DEF AccountInv
<1>14. Fifo!Push
  <2> DEFINE kept == {queue[i + n] : i \in 1..k} \cup (IF popped = 0 THEN {} ELSE {popped})
  <2>1. kept \in SUBSET Waiting
    BY <1>11 DEF Waiting
  <2>2. Waiting' = kept \cup {pushed + 1}
    BY <1>2, <1>9 DEF Waiting
  <2> HIDE DEF kept
  <2> QED
    BY <1>1, <1>2, <2>1, <2>2 DEF Fifo!Push, Waiting
<1> QED
  BY <1>8, <1>13, <1>14

\* popNext(): the popped packet is still held, ahead of the others.
LEMMA PopStep ==
    ASSUME TypeOK, closes = 0, OrderInv, AccountInv, PopNext
    PROVE  OrderInv' /\ AccountInv' /\ UNCHANGED <<pushed, Waiting, last>>
<1>0. UNCHANGED <<pushed, last, outs, purged, closes>>
  BY DEF PopNext, closeVars, auxVars
<1>1. CASE queue = <<>>
  BY <1>0, <1>1 DEF PopNext, OrderInv, AccountInv, EveryPacketAccounted, Waiting
<1>2. CASE queue # <<>>
  <2>1. /\ queue' = Tail(queue) /\ popped' = Head(queue) /\ worker' = "dispatch" /\ popped = 0
    BY <1>2 DEF PopNext, OrderInv
  <2>2. /\ queue' \in Seq(Packet) /\ Len(queue) \in Nat \ {0} /\ Len(queue') = Len(queue) - 1
        /\ \A i \in 1..Len(queue') : queue'[i] = queue[i + 1]
        /\ popped' = queue[1] /\ popped' \in Packet
    BY <1>2, <2>1, TailFacts
  <2>3. /\ 1 \in 1..Len(queue)
        /\ \A i \in 1..Len(queue') : i + 1 \in 1..Len(queue) /\ 1 < i + 1
    BY <2>2
  <2>4. popped' # 0
    BY <2>2 DEF Packet
  <2>5. OrderInv'
    BY <1>0, <2>1, <2>2, <2>3, <2>4 DEF OrderInv
  <2>6. Range(queue) = {queue[i] : i \in 1..Len(queue)} /\ Range(queue') = {queue'[i] : i \in 1..Len(queue')}
    BY <2>2, RangeOfQueue DEF TypeOK
  <2>7. \A i \in 1..Len(queue) : i = 1 \/ (i - 1 \in 1..Len(queue') /\ queue'[i - 1] = queue[i])
    BY <2>2
  <2>8. Range(queue) = Range(queue') \cup {popped'}
    <3>1. ASSUME NEW x \in Range(queue) PROVE x \in Range(queue') \cup {popped'}
      <4>1. PICK i \in 1..Len(queue) : x = queue[i]
        BY <2>6
      <4>2. CASE i = 1
        BY <2>2, <4>1, <4>2
      <4>3. CASE i # 1
        <5>1. i - 1 \in 1..Len(queue') /\ queue'[i - 1] = x
          BY <2>7, <4>1, <4>3
        <5>2. QED BY <2>6, <5>1
      <4>4. QED BY <4>2, <4>3
    <3>2. popped' \in Range(queue)
      BY <2>2, <2>3, <2>6
    <3>3. Range(queue') \subseteq Range(queue)
      BY <2>2, <2>3, <2>6
    <3>4. QED BY <3>1, <3>2, <3>3
  <2>9. EveryPacketAccounted'
    <3> SUFFICES ASSUME NEW i \in 1..pushed
                 PROVE  outs[i] = IF i \in Range(queue') \/ i = popped' \/ i \in purged THEN 0 ELSE 1
      BY <1>0 DEF EveryPacketAccounted
    <3>1. outs[i] = IF i \in Range(queue) \/ i = popped \/ i \in purged THEN 0 ELSE 1
      BY DEF AccountInv, EveryPacketAccounted
    <3>2. i # 0
      OBVIOUS
    <3> QED
      BY <2>1, <2>8, <3>1, <3>2
  <2>10. AccountInv'
    BY <1>0, <2>2, <2>3, <2>9 DEF AccountInv
  <2> QED
    BY <1>0, <2>1, <2>4, <2>5, <2>8, <2>10 DEF Waiting
<1> QED
  BY <1>1, <1>2

\* dispatch(): the packet delivered is the first one held, and is counted once.
LEMMA DispatchStep ==
    ASSUME TypeOK, closes = 0, ~cancelled, OrderInv, AccountInv, WorkerDispatch
    PROVE  OrderInv' /\ AccountInv' /\ Fifo!Deliver
<1>1. /\ popped # 0 /\ popped' = 0 /\ worker' = "test" /\ last' = popped
      /\ outs' = [outs EXCEPT ![popped] = @ + 1]
      /\ UNCHANGED <<queue, pushed, purged, closes>>
  BY DEF WorkerDispatch, Emit, OrderInv, closeVars
<1>2. popped \in Packet /\ popped \in 1..pushed /\ pushed \in Nat
  BY <1>1, AsyncQueueAssumption DEF TypeOK, OrderInv, Packet
<1>3. \A i \in 1..Len(queue) : queue[i] \in Packet
  BY ElementOfSeq DEF TypeOK
<1>4. \A i \in 1..Len(queue) : queue[i] \in Nat /\ queue[i] > 0 /\ popped < queue[i]
  BY <1>3 DEF Packet, OrderInv
<1>5. Range(queue) = {queue[i] : i \in 1..Len(queue)}
  BY RangeOfQueue DEF TypeOK
<1>6. \A j \in Range(queue) : j \in Nat /\ popped < j
  BY <1>4, <1>5
<1>7. OrderInv'
  BY <1>1, <1>2, <1>4 DEF OrderInv
<1>8. AccountInv'
  <2>1. 0 \notin purged
    BY DEF TypeOK, Packet
  <2>2. \A i \in Packet : outs'[i] = IF i = popped THEN outs[i] + 1 ELSE outs[i]
    BY <1>1, <1>2 DEF TypeOK
  <2>3. outs[popped] = 0
    BY <1>2 DEF AccountInv, EveryPacketAccounted
  <2>4. popped \notin Range(queue)
    BY <1>2, <1>6
  <2>5. popped \notin purged
    BY DEF AccountInv
  <2>6. EveryPacketAccounted'
    <3> SUFFICES ASSUME NEW i \in 1..pushed
                 PROVE  outs'[i] = IF i \in Range(queue) \/ i = 0 \/ i \in purged THEN 0 ELSE 1
      BY <1>1 DEF EveryPacketAccounted
    <3>1. outs[i] = IF i \in Range(queue) \/ i = popped \/ i \in purged THEN 0 ELSE 1
      BY DEF AccountInv, EveryPacketAccounted
    <3>2. i \in Packet /\ i # 0
      BY <1>2, AsyncQueueAssumption DEF TypeOK, Packet
    <3>3. CASE i = popped
      BY <2>2, <2>3, <2>4, <2>5, <3>2, <3>3
    <3>4. CASE i # popped
      BY <2>2, <3>1, <3>2, <3>4
    <3> QED
      BY <3>3, <3>4
  <2>7. \A i \in Packet : i > pushed => outs'[i] = 0
    BY <1>2, <2>2 DEF AccountInv, Packet
  <2> QED
    BY <1>1, <2>1, <2>6, <2>7 DEF AccountInv
<1>9. Fifo!Deliver
  <2>1. Waiting = Range(queue) \cup {popped} /\ Waiting' = Range(queue)
    BY <1>1 DEF Waiting
  <2>2. /\ Waiting' = Waiting \ {popped} /\ popped \in Waiting
        /\ \A j \in Waiting : popped <= j
    BY <1>2, <1>6, <2>1
  <2> QED
    BY <1>1, <2>2 DEF Fifo!Deliver, Waiting
<1> QED
  BY <1>7, <1>8, <1>9

LEMMA OpenStep ==
    ASSUME TypeOK, LockInv, OpenInv, [Next]_vars
    PROVE  OpenInv' /\ [closes' = 0 => Fifo!Next]_<<pushed, queue, popped, last>>
<1>0. closes' \in Nat /\ closes \in Nat /\ (closes' = 0 => closes = 0 /\ ~Close)
  BY DEF TypeOK, Next, vars, Process, Push, Worker, WorkerTest, PopNext, WorkerDispatch, Close,
         CloseStep, FlushTest, FlushFront, FlushDispatch, FlushPop, CloseCancels, Join, closeVars
<1> SUFFICES ASSUME closes' = 0, closes = 0
             PROVE  OpenInv' /\ [Fifo!Next]_<<pushed, queue, popped, last>>
  BY <1>0 DEF OpenInv
<1>1. closer = "idle" /\ ~cancelled /\ OrderInv /\ AccountInv
  BY DEF OpenInv
<1>2. ASSUME NEW p \in Producer, Push(p)
      PROVE  OpenInv' /\ Fifo!Next
  <2>1. closer' = closer /\ cancelled' = cancelled
    BY <1>2 DEF Push, closeVars
  <2> QED
    BY <1>1, <1>2, <2>1, PushStep DEF OpenInv, Fifo!Next
<1>3. CASE PopNext
  <2>1. closer' = closer /\ cancelled' = cancelled
    BY <1>3 DEF PopNext, closeVars
  <2>2. OrderInv' /\ AccountInv' /\ UNCHANGED <<pushed, Waiting, last>>
    BY <1>1, <1>3, PopStep
  <2>3. Fifo!Drop
    BY <2>2 DEF Fifo!Drop, Waiting
  <2> QED
    BY <1>1, <2>1, <2>2, <2>3 DEF OpenInv, Fifo!Next
<1>4. CASE WorkerDispatch
  <2>1. closer' = closer /\ cancelled' = cancelled
    BY <1>4 DEF WorkerDispatch, closeVars
  <2> QED
    BY <1>1, <1>4, <2>1, DispatchStep DEF OpenInv, Fifo!Next
<1>5. ASSUME UNCHANGED <<queue, pushed, popped, cancelled, closer, closes, last, outs, purged>>,
             worker' = worker \/ {worker, worker'} \subseteq {"test", "pop", "exited"}
      PROVE  OpenInv' /\ UNCHANGED <<pushed, queue, popped, last>>
  BY <1>1, <1>5 DEF OpenInv, OrderInv, AccountInv, EveryPacketAccounted
<1>6. ASSUME NEW p \in Producer, Process(p)
      PROVE  OpenInv' /\ UNCHANGED <<pushed, queue, popped, last>>
  BY <1>5, <1>6 DEF Process, workVars, closeVars, auxVars
<1>7. CASE WorkerTest
  BY <1>5, <1>7 DEF WorkerTest, closeVars, auxVars
<1>8. CASE UNCHANGED vars
  BY <1>5, <1>8 DEF vars, workVars, closeVars, auxVars
<1>9. ~CloseStep
  BY <1>1 DEF CloseStep, FlushTest, FlushFront, FlushDispatch, FlushPop, CloseCancels, Join
<1> QED
  BY <1>0, <1>2, <1>3, <1>4, <1>6, <1>7, <1>8, <1>9 DEF Next, Worker

LEMMA InitHolds == Init => TypeOK /\ LockInv /\ OpenInv /\ Fifo!Init
<1> SUFFICES ASSUME Init PROVE TypeOK /\ LockInv /\ OpenInv /\ Fifo!Init
  OBVIOUS
<1>1. queue = <<>> /\ Len(queue) = 0 /\ Range(queue) = {}
  BY DEF Init, Range
<1>2. TypeOK
  <2>1. cancelled \in BOOLEAN /\ joined \in BOOLEAN /\ broken \in BOOLEAN
    BY Zenon DEF Init
  <2>2. queue \in Seq(Packet)
    BY <1>1, EmptySeq
  <2>3. outs \in [Packet -> Nat] /\ purged \subseteq Packet /\ pc \in [Producer -> {"idle", "push"}]
    BY DEF Init
  <2> QED
    BY <2>1, <2>2, <2>3, AsyncQueueAssumption DEF Init, TypeOK
<1>3. LockInv
  BY DEF Init, LockInv
<1>4. OrderInv
  BY <1>1 DEF Init, OrderInv
<1>5. AccountInv
  BY <1>1 DEF Init, AccountInv, EveryPacketAccounted
<1>6. OpenInv
  BY <1>4, <1>5 DEF Init, OpenInv
<1>7. Fifo!Init
  BY <1>1 DEF Init, Fifo!Init
<1> QED
  BY <1>2, <1>3, <1>6, <1>7

-----------------------------------------------------------------------------

\* The queue keeps its types, also while close() and the worker race for it.
THEOREM TypeCorrect == Spec => []TypeOK
<1> QED
  BY InitHolds, TypeStep, PTL DEF Spec

\* Until close() is called every packet is waiting, popped, purged at the limit,
\* or dispatched exactly once, whatever the producers, the purge and the worker's
\* popNext() do in between.
THEOREM PacketsAccounted == Spec => []EveryPacketAccounted
<1>1. OpenInv => EveryPacketAccounted
  BY DEF OpenInv, AccountInv, EveryPacketAccounted
<1>2. TypeOK /\ LockInv /\ OpenInv /\ [Next]_vars => OpenInv'
  BY OpenStep
<1> QED
  BY <1>1, <1>2, InitHolds, TypeStep, PTL DEF Spec

\* Until close() is called every step of the queue is one of the abstract queue.
THEOREM OpenIsFifo == Spec => FifoWhileOpen
<1>1. TypeOK /\ LockInv /\ OpenInv /\ [Next]_vars
        => OpenInv' /\ [closes' = 0 => Fifo!Next]_<<pushed, queue, popped, last>>
  BY OpenStep
<1> QED
  BY <1>1, InitHolds, TypeStep, PTL DEF Spec, FifoWhileOpen
-----------------------------------------------------------------------------
(* The timed manager.                                                      *)

Label == {"idle", "remove", "erase", "delete", "exists", "insert", "set", "clear", "walk"}

\* A thread at work.  Without keys there is nothing to be at work with.
Activity == [ at : Label, key : Key \cup {CHOOSE k \in Key : TRUE}, item : Addr \cup {NoItem},
              new : Addr \cup {NoItem}, delay : Delay \cup {0} ]

TimedTypeOK ==
    /\ map \in [Key -> Addr \cup {NoItem}]
    /\ heap \subseteq Addr
    /\ actor \in [Actor -> Activity]

\* The items that a thread holds: it alone is going to delete them or put them
\* into the map.
HeldBy(r) == (IF r.at \in {"erase", "delete"} THEN {r.item} ELSE {}) \cup ({r.new} \ {NoItem})

\* What is in the map exists, once; what a thread holds exists, is not in the map
\* and is no other thread's.
MappedOnce ==
    /\ \A k \in Key : map[k] # NoItem => map[k] \in heap
    /\ \A k, l \in Key : k # l /\ map[k] # NoItem => map[k] # map[l]

OneHolder ==
    /\ \A u \in Actor : HeldBy(actor[u]) \subseteq heap /\ \A k \in Key : map[k] \notin HeldBy(actor[u])
    /\ \A u, v \in Actor : u # v => HeldBy(actor[u]) \cap HeldBy(actor[v]) = {}

\* When a thread has an item to delete, one to add, and a key.
Purpose(u, r) ==
    /\ r.at \in {"erase", "delete"} => r.item # NoItem /\ r.item # r.new
    /\ r.at \in {"exists", "insert"} => r.new # NoItem
    /\ r.at \in {"idle", "set", "clear", "walk"} => r.new = NoItem
    /\ r.at = "remove" \/ r.new # NoItem => r.key \in Key
    /\ u = "timer" => r.new = NoItem /\ r.at \in {"idle", "walk", "erase", "delete"}

TimedInv ==
    /\ TimedTypeOK /\ MappedOnce /\ OneHolder
    /\ \A u \in Actor : Purpose(u, actor[u])
    /\ ~twice

LEMMA TimedInvSound == TimedInv => ManagedAlive
BY DEF TimedInv, TimedTypeOK, MappedOnce, ManagedAlive, Range

\* A thread's activity becomes r: what it then holds exists and is only its own.
LEMMA ActivityKeeps ==
    ASSUME TimedInv, NEW u \in Actor, NEW r \in Activity, actor' = [actor EXCEPT ![u] = r],
           map' \in [Key -> Addr \cup {NoItem}], heap' \subseteq Addr, MappedOnce', ~twice',
           HeldBy(r) \subseteq heap', \A k \in Key : map'[k] \notin HeldBy(r),
           \A v \in Actor \ {u} :
               /\ HeldBy(actor[v]) \subseteq heap' /\ HeldBy(r) \cap HeldBy(actor[v]) = {}
               /\ \A k \in Key : map'[k] \notin HeldBy(actor[v]),
           Purpose(u, r)
    PROVE  TimedInv'
<1>1. actor \in [Actor -> Activity]
  BY DEF TimedInv, TimedTypeOK
<1>2. /\ actor' \in [Actor -> Activity] /\ actor'[u] = r
      /\ \A v \in Actor \ {u} : actor'[v] = actor[v]
  BY <1>1
<1>3. TimedTypeOK'
  BY <1>2 DEF TimedTypeOK
<1>4. \A v \in Actor : v = u \/ v \in Actor \ {u}
  OBVIOUS
<1>5. \A v \in Actor : HeldBy(actor'[v]) \subseteq heap' /\ \A k \in Key : map'[k] \notin HeldBy(actor'[v])
  BY <1>2, <1>4
<1>6. \A v, w \in Actor : v # w => HeldBy(actor'[v]) \cap HeldBy(actor'[w]) = {}
  <2> SUFFICES ASSUME NEW v \in Actor, NEW w \in Actor, v # w
               PROVE  HeldBy(actor'[v]) \cap HeldBy(actor'[w]) = {}
    OBVIOUS
  <2>1. CASE v = u
    BY <1>2, <2>1
  <2>2. CASE w = u
    BY <1>2, <2>2
  <2>3. CASE v # u /\ w # u
    BY <1>2, <2>3 DEF TimedInv, OneHolder
  <2>4. QED BY <2>1, <2>2, <2>3
<1>7. OneHolder'
  BY <1>5, <1>6 DEF OneHolder
<1>8. \A v \in Actor : Purpose(v, actor'[v])
  BY <1>2, <1>4 DEF TimedInv
<1>9. QED BY <1>3, <1>7, <1>8 DEF TimedInv, Purpose

\* A step that takes nothing and adds nothing.
LEMMA HoldingKeeps ==
    ASSUME TimedInv, NEW u \in Actor, NEW r \in Activity, actor' = [actor EXCEPT ![u] = r],
           UNCHANGED <<map, heap, twice>>, HeldBy(r) \subseteq HeldBy(actor[u]), Purpose(u, r)
    PROVE  TimedInv'
<1>1. map' \in [Key -> Addr \cup {NoItem}] /\ heap' \subseteq Addr /\ MappedOnce' /\ ~twice'
  BY DEF TimedInv, TimedTypeOK, MappedOnce
<1>2. HeldBy(r) \subseteq heap' /\ \A k \in Key : map'[k] \notin HeldBy(r)
  BY DEF TimedInv, OneHolder
<1>3. \A v \in Actor \ {u} :
          /\ HeldBy(actor[v]) \subseteq heap' /\ HeldBy(r) \cap HeldBy(actor[v]) = {}
          /\ \A k \in Key : map'[k] \notin HeldBy(actor[v])
  BY DEF TimedInv, OneHolder
<1>4. QED BY <1>1, <1>2, <1>3, ActivityKeeps

\* A thread takes an item out of the map, to delete it.
LEMMA TakingKeeps ==
    ASSUME TimedInv, NEW u \in Actor, NEW r \in Activity, actor' = [actor EXCEPT ![u] = r],
           NEW l \in Key, map[l] # NoItem, map' = [map EXCEPT ![l] = NoItem],
           UNCHANGED <<heap, twice>>, HeldBy(r) \subseteq HeldBy(actor[u]) \cup {map[l]}, Purpose(u, r)
    PROVE  TimedInv'
<1>1. map \in [Key -> Addr \cup {NoItem}] /\ heap \subseteq Addr
  BY DEF TimedInv, TimedTypeOK
<1>2. /\ map' \in [Key -> Addr \cup {NoItem}] /\ map'[l] = NoItem
      /\ \A k \in Key \ {l} : map'[k] = map[k]
  BY <1>1
<1>3. \A k \in Key : map'[k] = NoItem \/ (k # l /\ map'[k] = map[k])
  BY <1>2
<1>4. MappedOnce'
  BY <1>3 DEF TimedInv, MappedOnce
<1>5. map[l] \in heap
  BY DEF TimedInv, MappedOnce
<1>6. \A v \in Actor : NoItem \notin HeldBy(actor[v])
  BY <1>1, TimedAssumption DEF TimedInv, OneHolder
<1>7. HeldBy(r) \subseteq heap
  BY <1>5 DEF TimedInv, OneHolder
<1>8. \A k \in Key : map'[k] \notin HeldBy(r)
  BY <1>3, <1>6 DEF TimedInv, OneHolder, MappedOnce
<1>9. \A v \in Actor \ {u} :
          /\ HeldBy(actor[v]) \subseteq heap' /\ HeldBy(r) \cap HeldBy(actor[v]) = {}
          /\ \A k \in Key : map'[k] \notin HeldBy(actor[v])
  BY <1>3, <1>6 DEF TimedInv, OneHolder
<1>10. heap' \subseteq Addr /\ ~twice' /\ HeldBy(r) \subseteq heap'
  BY <1>1, <1>7 DEF TimedInv
<1>11. QED BY <1>2, <1>4, <1>8, <1>9, <1>10, ActivityKeeps

\* A thread deletes an item that it holds.
LEMMA DeletingKeeps ==
    ASSUME TimedInv, NEW u \in Actor, NEW r \in Activity, actor' = [actor EXCEPT ![u] = r],
           NEW a \in HeldBy(actor[u]), heap' = heap \ {a}, UNCHANGED map, ~twice',
           HeldBy(r) \subseteq HeldBy(actor[u]) \ {a}, Purpose(u, r)
    PROVE  TimedInv'
<1>1. \A k \in Key : map[k] # a
  BY DEF TimedInv, OneHolder
<1>2. map' \in [Key -> Addr \cup {NoItem}] /\ heap' \subseteq Addr /\ MappedOnce' /\ ~twice'
  BY <1>1 DEF TimedInv, TimedTypeOK, MappedOnce
<1>3. HeldBy(r) \subseteq heap' /\ \A k \in Key : map'[k] \notin HeldBy(r)
  BY DEF TimedInv, OneHolder
<1>4. \A v \in Actor \ {u} :
          /\ HeldBy(actor[v]) \subseteq heap' /\ HeldBy(r) \cap HeldBy(actor[v]) = {}
          /\ \A k \in Key : map'[k] \notin HeldBy(actor[v])
  BY DEF TimedInv, OneHolder
<1>5. QED BY <1>2, <1>3, <1>4, ActivityKeeps

-----------------------------------------------------------------------------
(* The steps of its threads.                                               *)

LEMMA ActivityFields ==
    ASSUME NEW r \in Activity, NEW at \in Label, NEW a \in Addr \cup {NoItem}, NEW b \in Addr \cup {NoItem}
    PROVE  LET s == [r EXCEPT !.at = at, !.item = a, !.new = b]
           IN  s \in Activity /\ s.at = at /\ s.item = a /\ s.new = b /\ s.key = r.key
BY DEF Activity

\* free(), expires() and the timer begin from nothing.
LEMMA IdleFields ==
    /\ Idle \in Activity /\ Idle.at = "idle" /\ Idle.item = NoItem /\ Idle.new = NoItem
BY DEF Idle, Activity, Label

LEMMA RemoveKeyKeeps ==
    ASSUME TimedInv, NEW u \in User, RemoveKey(u) PROVE TimedInv'
<1> DEFINE s == actor[u]
           item == map[s.key]
           at == IF item # NoItem THEN "erase" ELSE IF s.new # NoItem THEN "exists" ELSE "idle"
           r == [s EXCEPT !.item = item, !.at = at]
<1>1. u \in Actor /\ u # "timer" /\ s \in Activity /\ s.at = "remove" /\ s.key \in Key
  BY TimedAssumption DEF Actor, RemoveKey, At, TimedInv, TimedTypeOK, Purpose
<1>2. item \in Addr \cup {NoItem} /\ s.new \in Addr \cup {NoItem} /\ at \in Label
  BY <1>1 DEF TimedInv, TimedTypeOK, Activity, Label
<1>3. actor' = [actor EXCEPT ![u] = r] /\ map' = [map EXCEPT ![s.key] = NoItem] /\ UNCHANGED <<heap, twice>>
  BY <1>1 DEF RemoveKey, Remove, TimedInv, TimedTypeOK
<1>4. r \in Activity /\ r.at = at /\ r.item = item /\ r.new = s.new /\ r.key = s.key
  BY <1>1, <1>2 DEF Activity
<1>5. HeldBy(s) = {s.new} \ {NoItem} /\ (s.new # NoItem => \A k \in Key : map[k] # s.new)
  BY <1>1 DEF HeldBy, TimedInv, OneHolder
<1> HIDE DEF r
<1>6. CASE item = NoItem
  <2>1. UNCHANGED map
    BY <1>1, <1>3, <1>6 DEF TimedInv, TimedTypeOK
  <2>2. HeldBy(r) \subseteq HeldBy(s)
    BY <1>4, <1>5, <1>6 DEF HeldBy
  <2>3. Purpose(u, r)
    BY <1>1, <1>4, <1>6 DEF Purpose
  <2>4. QED BY <1>1, <1>3, <1>4, <2>1, <2>2, <2>3, HoldingKeeps
<1>7. CASE item # NoItem
  <2>1. HeldBy(r) \subseteq HeldBy(s) \cup {item}
    BY <1>4, <1>5, <1>7 DEF HeldBy
  <2>2. Purpose(u, r)
    BY <1>1, <1>4, <1>5, <1>7 DEF Purpose
  <2>3. QED BY <1>1, <1>3, <1>4, <1>7, <2>1, <2>2, TakingKeeps
<1>8. QED BY <1>6, <1>7

LEMMA OnRemoveKeeps ==
    ASSUME TimedInv, NEW u \in Actor, OnRemove(u) PROVE TimedInv'
<1> DEFINE s == actor[u]
           r == [s EXCEPT !.at = "delete"]
<1>1. s \in Activity /\ s.at = "erase" /\ Purpose(u, s)
  BY DEF OnRemove, At, TimedInv, TimedTypeOK
<1>2. r \in Activity /\ r.at = "delete" /\ r.item = s.item /\ r.new = s.new /\ r.key = s.key
  BY <1>1 DEF Activity, Label
<1>3. actor' = [actor EXCEPT ![u] = r] /\ UNCHANGED <<map, heap, twice>>
  BY DEF OnRemove, Goto
<1> HIDE DEF r
<1>4. HeldBy(r) \subseteq HeldBy(s) /\ Purpose(u, r)
  BY <1>1, <1>2 DEF HeldBy, Purpose
<1>5. QED BY <1>2, <1>3, <1>4, HoldingKeeps

LEMMA DeleteKeeps ==
    ASSUME TimedInv, NEW u \in Actor, Delete(u) PROVE TimedInv'
<1> DEFINE s == actor[u]
           at == IF u = "timer" THEN "walk" ELSE IF s.new # NoItem THEN "exists" ELSE "idle"
           r == [s EXCEPT !.item = NoItem, !.at = at]
<1>1. s \in Activity /\ s.at = "delete" /\ Purpose(u, s)
  BY DEF Delete, At, TimedInv, TimedTypeOK
<1>2. at \in Label
  BY DEF Label
<1>3. r \in Activity /\ r.at = at /\ r.item = NoItem /\ r.new = s.new /\ r.key = s.key
  BY <1>1, <1>2 DEF Activity
<1>4. s.item \in HeldBy(s)
  BY <1>1 DEF HeldBy
<1>5. s.item \in heap
  BY <1>4 DEF TimedInv, OneHolder
<1>6. /\ actor' = [actor EXCEPT ![u] = r] /\ heap' = heap \ {s.item} /\ UNCHANGED map
      /\ twice' = (twice \/ s.item \notin heap)
  BY DEF Delete, TimedInv, TimedTypeOK
<1>7. ~twice'
  BY <1>5, <1>6 DEF TimedInv
<1> HIDE DEF r
<1>8. HeldBy(r) \subseteq HeldBy(s) \ {s.item} /\ Purpose(u, r)
  BY <1>1, <1>3 DEF HeldBy, Purpose
<1>9. QED BY <1>3, <1>4, <1>6, <1>7, <1>8, DeletingKeeps

LEMMA AddKeeps ==
    ASSUME TimedInv, NEW u \in User, NEW k \in Key, NEW a \in Addr, NEW d \in Delay, add(u, k, a, d)
    PROVE  TimedInv'
<1> DEFINE r == [Idle EXCEPT !.at = "remove", !.key = k, !.new = a, !.delay = d]
<1>1. u \in Actor /\ u # "timer" /\ a # NoItem
  BY TimedAssumption DEF Actor
<1>2. /\ a \notin heap /\ heap' = heap \cup {a} /\ actor' = [actor EXCEPT ![u] = r]
      /\ UNCHANGED <<map, twice>>
  BY DEF add
<1>3. r \in Activity /\ r.at = "remove" /\ r.new = a /\ r.key = k
  BY DEF Idle, Activity, Label
<1> HIDE DEF r
<1>4. HeldBy(r) = {a} /\ Purpose(u, r)
  BY <1>1, <1>3 DEF HeldBy, Purpose
<1>5. map' \in [Key -> Addr \cup {NoItem}] /\ heap' \subseteq Addr /\ MappedOnce' /\ ~twice'
  BY <1>2 DEF TimedInv, TimedTypeOK, MappedOnce
<1>6. \A l \in Key : map'[l] # a
  BY <1>1, <1>2 DEF TimedInv, MappedOnce
<1>7. HeldBy(r) \subseteq heap' /\ \A l \in Key : map'[l] \notin HeldBy(r)
  BY <1>2, <1>4, <1>6
<1>8. \A v \in Actor \ {u} :
          /\ HeldBy(actor[v]) \subseteq heap' /\ HeldBy(r) \cap HeldBy(actor[v]) = {}
          /\ \A l \in Key : map'[l] \notin HeldBy(actor[v])
  BY <1>2, <1>4 DEF TimedInv, OneHolder
<1>9. QED BY <1>1, <1>2, <1>3, <1>4, <1>5, <1>7, <1>8, ActivityKeeps

\* A thread that is idle begins something else than an addition.
LEMMA BeginKeeps ==
    ASSUME TimedInv, NEW u \in Actor, NEW r \in Activity, actor' = [actor EXCEPT ![u] = r],
           UNCHANGED <<map, heap, twice>>, r.new = NoItem,
           \/ u # "timer" /\ r.at \in {"remove", "set", "clear", "idle"} /\ (r.at = "remove" => r.key \in Key)
           \/ r.at \in {"idle", "walk"}
    PROVE  TimedInv'
<1>1. HeldBy(r) \subseteq HeldBy(actor[u]) /\ Purpose(u, r)
  BY DEF HeldBy, Purpose
<1>2. QED BY <1>1, HoldingKeeps

LEMMA FreeKeeps ==
    ASSUME TimedInv, NEW u \in User, NEW k \in Key, free(u, k) PROVE TimedInv'
<1> DEFINE r == [Idle EXCEPT !.at = "remove", !.key = k]
<1>1. u \in Actor /\ u # "timer"
  BY TimedAssumption DEF Actor
<1>2. actor' = [actor EXCEPT ![u] = r] /\ UNCHANGED <<map, heap, twice>>
  BY DEF free
<1>3. r \in Activity /\ r.at = "remove" /\ r.new = NoItem /\ r.key = k
  BY DEF Idle, Activity, Label
<1> HIDE DEF r
<1>4. QED BY <1>1, <1>2, <1>3, BeginKeeps

LEMMA ExpiresKeeps ==
    ASSUME TimedInv, NEW u \in User, NEW k \in Key, NEW d \in Delay, expires(u, k, d) PROVE TimedInv'
<1> DEFINE a == map[k]
           r == [Idle EXCEPT !.at = "set", !.item = a, !.delay = d]
<1>1. u \in Actor /\ u # "timer" /\ a \in Addr \cup {NoItem}
  BY TimedAssumption DEF Actor, TimedInv, TimedTypeOK
<1>2. actor' = [actor EXCEPT ![u] = r] /\ UNCHANGED <<map, heap, twice>>
  BY DEF expires
<1>3. r \in Activity /\ r.at = "set" /\ r.new = NoItem
  BY <1>1 DEF Idle, Activity, Label
<1> HIDE DEF r
<1>4. QED BY <1>1, <1>2, <1>3, BeginKeeps

LEMMA ExistsKeeps ==
    ASSUME TimedInv, NEW u \in User, Exists(u) PROVE TimedInv'
<1> DEFINE s == actor[u]
           r == [s EXCEPT !.at = "insert"]
<1>1. u \in Actor /\ u # "timer" /\ s \in Activity /\ s.at = "exists" /\ Purpose(u, s)
  BY TimedAssumption DEF Actor, Exists, At, TimedInv, TimedTypeOK
<1>2. s.new # NoItem /\ s.key \in Key
  BY <1>1 DEF Purpose
<1>3. HeldBy(s) = {s.new}
  BY <1>1, <1>2 DEF HeldBy
<1>4. CASE map[s.key] # NoItem
  <2>1. /\ heap' = heap \ {s.new} /\ actor' = [actor EXCEPT ![u] = Idle] /\ UNCHANGED map
        /\ ~twice'
    BY <1>4 DEF Exists, TimedInv
  <2>2. HeldBy(Idle) \subseteq HeldBy(s) \ {s.new} /\ Purpose(u, Idle)
    BY <1>1, IdleFields DEF HeldBy, Purpose
  <2>3. QED BY <1>1, <1>3, <2>1, <2>2, IdleFields, DeletingKeeps
<1>5. CASE map[s.key] = NoItem
  <2>1. actor' = [actor EXCEPT ![u] = r] /\ UNCHANGED <<map, heap, twice>>
    BY <1>5 DEF Exists, Goto
  <2>2. r \in Activity /\ r.at = "insert" /\ r.new = s.new /\ r.key = s.key
    BY <1>1 DEF Activity, Label
  <2> HIDE DEF r
  <2>3. HeldBy(r) \subseteq HeldBy(s) /\ Purpose(u, r)
    BY <1>1, <1>2, <1>3, <2>2 DEF HeldBy, Purpose
  <2>4. QED BY <1>1, <2>1, <2>2, <2>3, HoldingKeeps
<1>6. QED BY <1>4, <1>5

LEMMA InsertKeeps ==
    ASSUME TimedInv, NEW u \in User, Insert(u) PROVE TimedInv'
<1> DEFINE s == actor[u]
           a == s.new
           at == IF s.delay > 0 THEN "set" ELSE "idle"
           r == [s EXCEPT !.at = at, !.item = a, !.new = NoItem]
<1>1. u \in Actor /\ u # "timer" /\ s \in Activity /\ s.at = "insert" /\ Purpose(u, s)
  BY TimedAssumption DEF Actor, Insert, At, TimedInv, TimedTypeOK
<1>2. a # NoItem /\ s.key \in Key /\ a \in Addr
  BY <1>1 DEF Purpose, Activity
<1>3. at \in {"set", "idle"} /\ at \in Label
  BY DEF Label
<1>4. /\ map' = [map EXCEPT ![s.key] = a] /\ actor' = [actor EXCEPT ![u] = r] /\ UNCHANGED <<heap, twice>>
  BY DEF Insert, TimedInv, TimedTypeOK
<1> HIDE DEF at
<1>5. r \in Activity /\ r.at = at /\ r.new = NoItem
  BY <1>1, <1>2, <1>3 DEF Activity
<1> HIDE DEF r
<1>6. HeldBy(s) = {a}
  BY <1>1, <1>2 DEF HeldBy
<1>7. HeldBy(r) = {} /\ Purpose(u, r)
  BY <1>1, <1>3, <1>5 DEF HeldBy, Purpose
<1> HIDE DEF a
<1>8. /\ a \in heap /\ (\A k \in Key : map[k] # a)
      /\ \A v \in Actor \ {u} : a \notin HeldBy(actor[v])
  BY <1>1, <1>6 DEF TimedInv, OneHolder
<1>9. map' \in [Key -> Addr \cup {NoItem}] /\ \A k \in Key : k # s.key => map'[k] = map[k]
  BY <1>2, <1>4 DEF TimedInv, TimedTypeOK
<1>a. map'[s.key] = a
  BY <1>2, <1>4 DEF TimedInv, TimedTypeOK
<1>10. MappedOnce'
  BY <1>4, <1>8, <1>9, <1>a DEF TimedInv, MappedOnce
<1>11. \A v \in Actor \ {u} :
          /\ HeldBy(actor[v]) \subseteq heap' /\ HeldBy(r) \cap HeldBy(actor[v]) = {}
          /\ \A k \in Key : map'[k] \notin HeldBy(actor[v])
  BY <1>4, <1>7, <1>8, <1>9, <1>a DEF TimedInv, OneHolder
<1>12. heap' \subseteq Addr /\ ~twice' /\ HeldBy(r) \subseteq heap' /\ \A k \in Key : map'[k] \notin HeldBy(r)
  BY <1>4, <1>7 DEF TimedInv, TimedTypeOK
<1>13. QED BY <1>1, <1>4, <1>5, <1>7, <1>9, <1>10, <1>11, <1>12, ActivityKeeps

LEMMA ClearKeeps ==
    ASSUME TimedInv, NEW u \in User, clear(u) PROVE TimedInv'
<1> DEFINE s == actor[u]
           r == [s EXCEPT !.at = "clear"]
<1>1. u \in Actor /\ u # "timer" /\ s \in Activity /\ s.at = "idle" /\ Purpose(u, s)
  BY TimedAssumption DEF Actor, clear, Calling, At, TimedInv, TimedTypeOK
<1>2. /\ heap' = heap \ Range(map) /\ map' = [k \in Key |-> NoItem] /\ actor' = [actor EXCEPT ![u] = r]
      /\ twice' = (twice \/ ~(Range(map) \ {NoItem} \subseteq heap))
  BY DEF clear, Goto
<1>3. r \in Activity /\ r.at = "clear" /\ r.new = s.new /\ s.new = NoItem
  BY <1>1 DEF Activity, Label, Purpose
<1> HIDE DEF r
<1>4. HeldBy(r) = {} /\ Purpose(u, r)
  BY <1>1, <1>3 DEF HeldBy, Purpose
<1>5. \A v \in Actor : HeldBy(actor[v]) \cap Range(map) = {}
  BY DEF TimedInv, TimedTypeOK, OneHolder, Range
<1>6. ~twice'
  BY <1>2, TimedInvSound DEF ManagedAlive
<1>7. map' \in [Key -> Addr \cup {NoItem}] /\ \A k \in Key : map'[k] = NoItem
  BY <1>2
<1>8. \A v \in Actor : NoItem \notin HeldBy(actor[v])
  BY TimedAssumption DEF TimedInv, TimedTypeOK, OneHolder
<1>9. \A v \in Actor \ {u} :
          /\ HeldBy(actor[v]) \subseteq heap' /\ HeldBy(r) \cap HeldBy(actor[v]) = {}
          /\ \A k \in Key : map'[k] \notin HeldBy(actor[v])
  BY <1>2, <1>4, <1>5, <1>7, <1>8 DEF TimedInv, OneHolder
<1>10. heap' \subseteq Addr /\ MappedOnce'
  BY <1>2, <1>7 DEF TimedInv, TimedTypeOK, MappedOnce
<1>11. HeldBy(r) \subseteq heap' /\ \A k \in Key : map'[k] \notin HeldBy(r)
  BY <1>4
<1>12. QED BY <1>1, <1>2, <1>3, <1>4, <1>6, <1>7, <1>9, <1>10, <1>11, ActivityKeeps

\* The steps that end a call.
LEMMA EndKeeps ==
    ASSUME TimedInv, NEW u \in User, setTimeout(u) \/ ClearTimeouts(u) PROVE TimedInv'
<1>1. u \in Actor
  BY DEF Actor
<1>2. actor' = [actor EXCEPT ![u] = Idle] /\ UNCHANGED <<map, heap, twice>>
  BY DEF setTimeout, ClearTimeouts
<1>3. QED BY <1>1, <1>2, IdleFields, BeginKeeps

-----------------------------------------------------------------------------
(* The steps of its timer.                                                 *)

LEMMA WalkKeeps ==
    ASSUME TimedInv, Walk PROVE TimedInv'
<1>1. "timer" \in Actor /\ actor["timer"].at = "walk" /\ actor \in [Actor -> Activity]
  BY DEF Actor, Walk, At, TimedInv, TimedTypeOK
<1>2. PICK a \in Addr :
          IF expired(copy[a]) THEN onTimeout(a) ELSE UNCHANGED <<map, actor>>
  BY DEF Walk
<1>3. UNCHANGED <<heap, twice>>
  BY DEF Walk
<1>4. CASE UNCHANGED <<map, actor>>
  BY <1>3, <1>4 DEF TimedInv, TimedTypeOK, MappedOnce, OneHolder
<1>5. CASE onTimeout(a)
  <2>1. CASE a \notin Range(map)
    <3>1. \A k \in Key : map[k] # a
      BY <2>1 DEF Range, TimedInv, TimedTypeOK
    <3>2. UNCHANGED <<map, actor>>
      BY <1>1, <1>5, <2>1, <3>1 DEF onTimeout, TimedInv, TimedTypeOK
    <3>3. QED BY <1>3, <3>2 DEF TimedInv, TimedTypeOK, MappedOnce, OneHolder
  <2>2. CASE a \in Range(map)
    <3> DEFINE r == [Idle EXCEPT !.at = "erase", !.item = a]
    <3>1. PICK l \in Key : map[l] = a
      BY <2>2 DEF Range, TimedInv, TimedTypeOK
    <3>2. a # NoItem
      BY TimedAssumption
    <3>3. \A k \in Key : map[k] = a => k = l
      BY <3>1, <3>2 DEF TimedInv, MappedOnce
    <3>4. map' = [map EXCEPT ![l] = NoItem]
      BY <1>5, <3>1, <3>3 DEF onTimeout, TimedInv, TimedTypeOK
    <3>5. actor' = [actor EXCEPT !["timer"] = r]
      BY <1>5, <2>2 DEF onTimeout
    <3>6. r \in Activity /\ r.at = "erase" /\ r.item = a /\ r.new = NoItem
      BY DEF Idle, Activity, Label
    <3> HIDE DEF r
    <3>7. HeldBy(r) \subseteq {map[l]} /\ Purpose("timer", r)
      BY <3>1, <3>2, <3>6 DEF HeldBy, Purpose
    <3>8. QED BY <1>1, <1>3, <3>1, <3>2, <3>4, <3>5, <3>6, <3>7, TakingKeeps
  <2>3. QED BY <2>1, <2>2
<1>6. QED BY <1>2, <1>4, <1>5

LEMMA CopyKeeps ==
    ASSUME TimedInv, CopyTimeouts \/ WalkEnds PROVE TimedInv'
<1>1. PICK at \in {"idle", "walk"} :
          actor' = [actor EXCEPT !["timer"].at = at] /\ UNCHANGED <<map, heap, twice>>
  BY DEF CopyTimeouts, WalkEnds, Goto
<1> DEFINE s == actor["timer"]
           r == [s EXCEPT !.at = at]
<1>2. "timer" \in Actor /\ s \in Activity /\ s.new = NoItem
  BY DEF Actor, TimedInv, TimedTypeOK, Purpose
<1>3. actor' = [actor EXCEPT !["timer"] = r]
  BY <1>1
<1>4. r \in Activity /\ r.at = at /\ r.new = NoItem
  BY <1>1, <1>2 DEF Activity, Label
<1> HIDE DEF r
<1>5. QED BY <1>1, <1>2, <1>3, <1>4, BeginKeeps

-----------------------------------------------------------------------------
(* However many threads add, free, refresh and clear while the timer walks *)
(* through an old copy of the timeouts, the manager's map holds only items *)
(* that exist and no item is deleted twice (TimedManager::onTimerUpdate,   *)
(* onTimeout, PointerCollection::free, clear).                             *)
THEOREM ManagerCorrect == TimedSpec => []ManagedAlive
<1>1. TimedInit => TimedInv
  <2> SUFFICES ASSUME TimedInit PROVE TimedInv
    OBVIOUS
  <2>1. \A k \in Key : map[k] = NoItem
    BY DEF TimedInit
  <2>2. \A u \in Actor : actor[u] = Idle
    BY DEF TimedInit
  <2>3. TimedTypeOK
    BY IdleFields DEF TimedInit, TimedTypeOK
  <2>4. HeldBy(Idle) = {} /\ \A u \in Actor : Purpose(u, Idle)
    BY IdleFields DEF HeldBy, Purpose
  <2>5. QED BY <2>1, <2>2, <2>3, <2>4 DEF TimedInv, TimedInit, MappedOnce, OneHolder
<1>2. TimedInv /\ [TimedNext]_timedvars => TimedInv'
  <2> SUFFICES ASSUME TimedInv, [TimedNext]_timedvars PROVE TimedInv'
    OBVIOUS
  <2>1. CASE Timer
    <3>1. "timer" \in Actor
      BY DEF Actor
    <3>2. QED BY <2>1, <3>1, CopyKeeps, WalkKeeps, OnRemoveKeeps, DeleteKeeps DEF Timer
  <2>2. CASE ClockTick \/ UNCHANGED timedvars
    BY <2>2 DEF ClockTick, timedvars, TimedInv, TimedTypeOK, MappedOnce, OneHolder
  <2>3. ASSUME NEW u \in User, UserStep(u) PROVE TimedInv'
    <3>1. u \in Actor
      BY DEF Actor
    <3>2. QED BY <2>3, <3>1, RemoveKeyKeeps, OnRemoveKeeps, DeleteKeeps, ExistsKeeps, InsertKeeps,
                 EndKeeps DEF UserStep
  <2>4. ASSUME NEW u \in User, clear(u) PROVE TimedInv'
    BY <2>4, ClearKeeps
  <2>5. ASSUME NEW u \in User, NEW k \in Key, free(u, k) PROVE TimedInv'
    BY <2>5, FreeKeeps
  <2>6. ASSUME NEW u \in User, NEW k \in Key, NEW d \in Delay, expires(u, k, d) PROVE TimedInv'
    BY <2>6, ExpiresKeeps
  <2>7. ASSUME NEW u \in User, NEW k \in Key, NEW d \in Delay, NEW a \in Addr, add(u, k, a, d)
        PROVE  TimedInv'
    BY <2>7, AddKeeps
  <2>8. QED BY <2>1, <2>2, <2>3, <2>4, <2>5, <2>6, <2>7 DEF TimedNext
<1>3. QED BY <1>1, <1>2, TimedInvSound, PTL DEF TimedSpec

-----------------------------------------------------------------------------
(* The WebRTC peers.                                                       *)

PeerState ==
    [ at : {"none", "alive", "doomed", "deleted"}, conn : {"none", "open", "closed"},
      asked : BOOLEAN, deletions : {0, 1} ]

\* The peers of the map are those that exist and nobody has given up, and only
\* those that somebody gave up are counted.
PeersInv ==
    /\ peer \in [Peer -> PeerState]
    /\ \A p \in Peer : p \in listed => peer[p].at = "alive"
    /\ \A p \in Peer : peer[p].at \in {"none", "alive"} => peer[p].deletions = 0

\* One peer changes.
LEMMA PeerKeeps ==
    ASSUME PeersInv, NEW p \in Peer, NEW r \in PeerState, peer' = [peer EXCEPT ![p] = r],
           \A q \in Peer \ {p} : q \in listed' => q \in listed,
           p \in listed' => r.at = "alive",
           r.at \in {"none", "alive"} => r.deletions = 0
    PROVE  PeersInv'
<1>1. peer' \in [Peer -> PeerState] /\ peer'[p] = r /\ \A q \in Peer \ {p} : peer'[q] = peer[q]
  BY DEF PeersInv
<1>2. \A q \in Peer : q = p \/ q \in Peer \ {p}
  OBVIOUS
<1>3. QED BY <1>1, <1>2 DEF PeersInv

LEMMA NewPeerKeeps ==
    ASSUME PeersInv, NEW p \in Peer, newPeer(p) PROVE PeersInv'
<1> DEFINE r == [peer[p] EXCEPT !.at = "alive"]
<1>1. peer[p] \in PeerState /\ peer[p].deletions = 0
  BY DEF PeersInv, newPeer
<1>2. r \in PeerState /\ r.at = "alive" /\ r.deletions = 0
  BY <1>1 DEF PeerState
<1>3. peer' = [peer EXCEPT ![p] = r] /\ listed' = listed \cup {p}
  BY DEF newPeer
<1> HIDE DEF r
<1>4. QED BY <1>2, <1>3, PeerKeeps

\* Connecting, and asking for and getting a description.
LEMMA UseKeeps ==
    ASSUME PeersInv, NEW p \in Peer, createConnection(p) \/ createOffer(p) \/ OnSuccess(p)
    PROVE  PeersInv'
<1>1. peer[p] \in PeerState
  BY DEF PeersInv
<1>2. PICK c \in {"none", "open", "closed"}, b \in BOOLEAN :
          peer' = [peer EXCEPT ![p] = [peer[p] EXCEPT !.conn = c, !.asked = b]]
  <2>1. CASE createConnection(p)
    <3>1. peer' = [peer EXCEPT ![p] = [peer[p] EXCEPT !.conn = "open", !.asked = peer[p].asked]]
      BY <1>1, <2>1 DEF createConnection, PeerState
    <3>2. peer[p].asked \in BOOLEAN
      BY <1>1 DEF PeerState
    <3>3. QED BY <3>1, <3>2
  <2>2. CASE createOffer(p) \/ OnSuccess(p)
    <3>1. PICK b \in BOOLEAN : peer' = [peer EXCEPT ![p].asked = b]
      BY <2>2 DEF createOffer, OnSuccess
    <3>2. peer' = [peer EXCEPT ![p] = [peer[p] EXCEPT !.conn = peer[p].conn, !.asked = b]]
      BY <1>1, <3>1 DEF PeerState
    <3>3. peer[p].conn \in {"none", "open", "closed"}
      BY <1>1 DEF PeerState
    <3>4. QED BY <3>1, <3>2, <3>3
  <2>3. QED BY <2>1, <2>2
<1> DEFINE r == [peer[p] EXCEPT !.conn = c, !.asked = b]
<1>3. r \in PeerState /\ r.at = peer[p].at /\ r.deletions = peer[p].deletions
  BY <1>1, <1>2 DEF PeerState
<1>4. UNCHANGED listed
  BY DEF createConnection, createOffer, OnSuccess
<1>5. peer' = [peer EXCEPT ![p] = r]
  BY <1>2
<1> HIDE DEF r
<1>6. QED BY <1>3, <1>4, <1>5, PeerKeeps DEF PeersInv

\* Whoever finds the peer in the map has it deleted; the others have nothing to do.
LEMMA DeleteIfListedKeeps ==
    ASSUME PeersInv, NEW p \in Peer, NEW new \in PeerState,
           new.at = peer[p].at, new.deletions = peer[p].deletions, DeleteIfListed(p, new)
    PROVE  PeersInv'
<1>1. listed' = listed \ {p}
  BY DEF DeleteIfListed
<1>2. CASE p \in listed
  <2> DEFINE r == [new EXCEPT !.at = "doomed", !.deletions = 1]
  <2>1. new.deletions = 0
    BY <1>2 DEF PeersInv
  <2>2. peer' = [peer EXCEPT ![p] = r]
    BY <1>2, <2>1 DEF DeleteIfListed
  <2>3. r \in PeerState /\ r.at = "doomed"
    BY DEF PeerState
  <2> HIDE DEF r
  <2>4. QED BY <1>1, <2>2, <2>3, PeerKeeps
<1>3. CASE p \notin listed
  <2>1. peer' = [peer EXCEPT ![p] = new]
    BY <1>3 DEF DeleteIfListed
  <2>2. QED BY <1>1, <2>1, PeerKeeps DEF PeersInv
<1>4. QED BY <1>2, <1>3

LEMMA GivenUpKeeps ==
    ASSUME PeersInv, NEW p \in Peer, closeConnection(p) \/ OnFailure(p) PROVE PeersInv'
<1>1. peer[p] \in PeerState
  BY DEF PeersInv
<1>2. CASE closeConnection(p)
  <2> DEFINE c == IF peer[p].conn = "open" THEN "closed" ELSE peer[p].conn
             new == [peer[p] EXCEPT !.conn = c]
  <2>1. c \in {"none", "open", "closed"}
    BY <1>1 DEF PeerState
  <2>2. DeleteIfListed(p, new)
    BY <1>2 DEF closeConnection
  <2> HIDE DEF c
  <2>3. new \in PeerState /\ new.at = peer[p].at /\ new.deletions = peer[p].deletions
    BY <1>1, <2>1 DEF PeerState
  <2> HIDE DEF new
  <2>4. QED BY <2>2, <2>3, DeleteIfListedKeeps
<1>3. CASE OnFailure(p)
  <2> DEFINE new == [peer[p] EXCEPT !.asked = FALSE]
  <2>1. new \in PeerState /\ new.at = peer[p].at /\ new.deletions = peer[p].deletions
    BY <1>1 DEF PeerState
  <2>2. UNCHANGED <<peer, listed>> \/ DeleteIfListed(p, new)
    BY <1>3 DEF OnFailure
  <2> HIDE DEF new
  <2>3. CASE UNCHANGED <<peer, listed>>
    BY <2>3 DEF PeersInv
  <2>4. QED BY <2>1, <2>2, <2>3, DeleteIfListedKeeps
<1>4. QED BY <1>2, <1>3

LEMMA DeletionKeeps ==
    ASSUME PeersInv, NEW p \in Peer, Collect(p) \/ freePeer(p) PROVE PeersInv'
<1>1. peer[p] \in PeerState
  BY DEF PeersInv
<1>2. CASE Collect(p)
  <2> DEFINE r == [peer[p] EXCEPT !.at = "deleted", !.conn = "closed", !.deletions = peer[p].deletions]
  <2>1. r \in PeerState /\ r.at = "deleted"
    BY <1>1 DEF PeerState
  <2>2. p \notin listed
    BY <1>1, <1>2 DEF Collect, PeersInv
  <2>3. peer' = [peer EXCEPT ![p] = r] /\ listed' = listed
    BY <1>2, <2>2 DEF Collect, Destroy
  <2> HIDE DEF r
  <2>4. QED BY <2>1, <2>2, <2>3, PeerKeeps
<1>3. CASE freePeer(p)
  <2> DEFINE n == peer[p].deletions + 1
             r == [peer[p] EXCEPT !.at = "deleted", !.conn = "closed", !.deletions = n]
  <2>1. n \in {0, 1}
    BY <1>3 DEF freePeer, PeersInv
  <2>2. peer' = [peer EXCEPT ![p] = r] /\ listed' = listed \ {p}
    <3> DEFINE new == [peer[p] EXCEPT !.deletions = n]
    <3>1. Destroy(p, listed \ {p}, new)
      BY <1>3 DEF freePeer
    <3>2. [new EXCEPT !.at = "deleted", !.conn = "closed", !.deletions = new.deletions] = r
      BY <1>1 DEF PeerState
    <3>3. (listed \ {p}) \ {p} = listed \ {p} /\ p \notin listed \ {p}
      OBVIOUS
    <3> HIDE DEF new, r
    <3>4. QED BY <3>1, <3>2, <3>3 DEF Destroy
  <2> HIDE DEF n
  <2>3. r \in PeerState /\ r.at = "deleted"
    BY <1>1, <2>1 DEF PeerState
  <2> HIDE DEF r
  <2>4. QED BY <2>2, <2>3, PeerKeeps
<1>4. QED BY <1>2, <1>3

LEMMA ClearPeersKeeps ==
    ASSUME PeersInv, clearPeers PROVE PeersInv'
<1>1. CASE UNCHANGED <<peer, listed>>
  BY <1>1 DEF PeersInv
<1>2. CASE ~UNCHANGED <<peer, listed>>
  <2>1. /\ listed' = {}
        /\ peer' = [p \in Peer |-> IF p \in listed
                       THEN [peer[p] EXCEPT !.at = "deleted", !.deletions = @ + 1] ELSE peer[p]]
    BY <1>2 DEF clearPeers
  <2>2. ASSUME NEW p \in Peer
        PROVE  peer'[p] \in PeerState /\ (peer'[p].at \in {"none", "alive"} => peer'[p].deletions = 0)
    <3>1. peer[p] \in PeerState
      BY DEF PeersInv
    <3>2. CASE p \in listed
      <4> DEFINE n == peer[p].deletions + 1
                 r == [peer[p] EXCEPT !.at = "deleted", !.deletions = n]
      <4>1. n \in {0, 1}
        BY <3>2 DEF PeersInv
      <4>2. peer'[p] = r
        BY <2>1, <3>2
      <4> HIDE DEF n
      <4>3. r \in PeerState /\ r.at = "deleted"
        BY <3>1, <4>1 DEF PeerState
      <4> HIDE DEF r
      <4>4. QED BY <4>2, <4>3
    <3>3. CASE p \notin listed
      BY <2>1, <3>3 DEF PeersInv
    <3>4. QED BY <3>2, <3>3
  <2>3. peer' \in [Peer -> PeerState]
    BY <2>1, <2>2
  <2>4. QED BY <2>1, <2>2, <2>3 DEF PeersInv
<1>3. QED BY <1>1, <1>2

-----------------------------------------------------------------------------
(* However closing, failing descriptions, freeing, clearing and the        *)
(* collector follow each other, a peer is given up once, and never while   *)
(* the map still has it (PeerManager::onClosed, onFailure).                *)
THEOREM PeersCorrect == PeerSpec => []PeersDeletedOnce
<1>1. PeerInit => PeersInv
  <2> SUFFICES ASSUME PeerInit PROVE PeersInv
    OBVIOUS
  <2> DEFINE r == [at |-> "none", conn |-> "none", asked |-> FALSE, deletions |-> 0]
  <2>1. r \in PeerState /\ r.at = "none" /\ r.deletions = 0
    BY DEF PeerState
  <2>2. peer = [p \in Peer |-> r] /\ listed = {}
    BY DEF PeerInit
  <2> HIDE DEF r
  <2>3. QED BY <2>1, <2>2 DEF PeersInv
<1>2. PeersInv /\ [PeerNext]_peervars => PeersInv'
  <2> SUFFICES ASSUME PeersInv, [PeerNext]_peervars PROVE PeersInv'
    OBVIOUS
  <2>1. CASE clearPeers
    BY <2>1, ClearPeersKeeps
  <2>2. CASE UNCHANGED peervars
    BY <2>2 DEF peervars, PeersInv
  <2>3. ASSUME NEW p \in Peer, newPeer(p) \/ createConnection(p) \/ createOffer(p) \/ closeConnection(p)
        PROVE  PeersInv'
    BY <2>3, NewPeerKeeps, UseKeeps, GivenUpKeeps
  <2>4. ASSUME NEW p \in Peer, OnSuccess(p) \/ OnFailure(p) \/ Collect(p) \/ freePeer(p)
        PROVE  PeersInv'
    BY <2>4, UseKeeps, GivenUpKeeps, DeletionKeeps
  <2>5. QED BY <2>1, <2>2, <2>3, <2>4 DEF PeerNext
<1>3. PeersInv => PeersDeletedOnce
  <2> SUFFICES ASSUME PeersInv, NEW p \in Peer
               PROVE  peer[p].deletions <= 1 /\ (peer[p].at \in {"doomed", "deleted"} => p \notin listed)
    BY DEF PeersDeletedOnce
  <2>1. peer[p].deletions \in {0, 1}
    BY DEF PeersInv, PeerState
  <2>2. QED BY <2>1 DEF PeersInv
<1>4. QED BY <1>1, <1>2, <1>3, PTL DEF PeerSpec
-----------------------------------------------------------------------------
(***************************************************************************)
(* The media capture.  What it remembers of its thread is enough: from the *)
(* return of a stop() on, a thread that still runs has _stopping set and   *)
(* is not between the test of it and an emission; a close() that frees     *)
(* the decoders has joined the thread, was too early to see it, or was     *)
(* overtaken by a start(); and a thread leaves run() having told, or to    *)
(* loop.                                                                   *)
(***************************************************************************)

ReaderState ==
    [at : {"none", "created", "func", "test", "done"}, joinable : BOOLEAN, running : BOOLEAN,
     cancelled : BOOLEAN, repeating : BOOLEAN]

CaptureFields ==
    [source : {"none", "bad", "open"}, frame : Nat, stopping : BOOLEAN, looping : BOOLEAN,
     mutex : Caller \cup {NoCaller}]

CaptureSeen ==
    [quiet : BOOLEAN, late : BOOLEAN, missed : BOOLEAN, raced : BOOLEAN, under : BOOLEAN,
     told : BOOLEAN, ended : BOOLEAN]

CaptureTypeOK ==
    /\ reader \in ReaderState /\ capture \in CaptureFields /\ seen \in CaptureSeen
    /\ step \in {"begin", "read", "got", "eof", "decode", "flush", "selfstop", "tail"}
    /\ caller \in [Caller -> {"idle", "join", "free"}]

\* What the new thread says of itself, and what its owner knows of it.
ThreadTold ==
    /\ reader.running <=> reader.at \in {"func", "test"}
    /\ Alive(reader) => reader.joinable

\* From a stop() on the thread that still runs sees _stopping before it decodes.
StopSeen ==
    /\ seen.quiet /\ Alive(reader) => capture.stopping
    /\ seen.quiet /\ reader.at = "func" => step \notin {"decode", "flush", "selfstop"}
    /\ reader.at = "test" => step = "begin"

\* A close() that is about to free the decoders has joined their thread.
FreeJoined ==
    (\E c \in Caller : caller[c] = "free") /\ Alive(reader) => seen.missed \/ seen.raced

TellsBeforeEnd ==
    Up /\ reader.at \in {"test", "done"} /\ ~capture.looping => seen.told

CaptureInv ==
    CaptureTypeOK /\ ThreadTold /\ StopSeen /\ FreeJoined /\ TellsBeforeEnd /\ QuietAfterStop /\ FreedWhenStopped

USE DEF CaptureTypeOK, ThreadTold, StopSeen, FreeJoined, TellsBeforeEnd, QuietAfterStop, FreedWhenStopped

\* The capture starts with the invariant: nothing runs and nobody is told of it.
LEMMA CapInitInv == CapInit => CaptureInv
BY DEF CapInit, Thread, CaptureInv, ReaderState, CaptureFields, CaptureSeen, Up, Alive

\* Opening a source touches neither the thread nor what is remembered of it.
LEMMA OpenStreamKeeps ==
    ASSUME CaptureInv, openStream PROVE CaptureInv'
<1>1. PICK s \in {"none", "bad", "open"} : capture' = [capture EXCEPT !.source = s, !.frame = 0]
  BY DEF openStream
<1>2. capture' \in CaptureFields
  BY <1>1 DEF CaptureInv, CaptureFields
<1>3. capture'.stopping = capture.stopping /\ capture'.looping = capture.looping
  BY <1>1 DEF CaptureInv, CaptureFields
<1>4. UNCHANGED <<reader, step, caller, seen>>
  BY DEF openStream
<1>5. QED
  BY <1>2, <1>3, <1>4 DEF CaptureInv, Up, Alive

\* start() makes a thread only where none is joinable, and ends the quiet.
LEMMA StartActKeeps ==
    ASSUME CaptureInv, NEW c \in Caller, startAct(c) PROVE CaptureInv'
<1>1. ~reader.running /\ reader.at \notin {"func", "test"} /\ Up
  BY DEF startAct, Call, CaptureInv
<1>2. /\ reader' \in ReaderState /\ reader'.running = reader.running /\ reader'.at \notin {"func", "test"}
      /\ Alive(reader)' => reader'.joinable
  BY <1>1 DEF startAct, Startable, start, CaptureInv, ReaderState, Alive
<1>3. capture' \in CaptureFields /\ capture'.looping = capture.looping
  BY DEF startAct, CaptureInv, CaptureFields
<1>4. /\ seen' \in CaptureSeen /\ ~seen'.quiet /\ seen'.late = seen.late /\ seen'.missed = seen.missed
      /\ seen'.under = seen.under /\ seen'.ended = ~Startable(reader)
      /\ seen'.raced = (seen.raced \/ \E d \in Caller : caller[d] = "free")
  BY DEF startAct, Startable, CaptureInv, CaptureSeen, ReaderState
<1>5. UNCHANGED <<step, caller>>
  BY DEF startAct
<1>6. TellsBeforeEnd'
  <2>1. CASE Startable(reader)
    BY <2>1 DEF TellsBeforeEnd, startAct, start, CaptureInv, ReaderState
  <2>2. CASE ~Startable(reader)
    BY <2>2, <1>4 DEF Up
  <2>3. QED
    BY <2>1, <2>2
<1>7. QED
  BY <1>1, <1>2, <1>3, <1>4, <1>5, <1>6 DEF CaptureInv, Alive

\* What stop() does, alone or as the first half of close().
LEMMA StopCaptureKeeps ==
    ASSUME CaptureInv, NEW c \in Caller, stop(c) PROVE CaptureInv'
<1>1. capture' \in CaptureFields /\ capture'.stopping /\ capture'.looping = capture.looping
  <2>1. CASE reader.running
    <3>1. capture' = [capture EXCEPT !.stopping = TRUE, !.mutex = c]
      BY <2>1 DEF stop
    <3>2. QED
      BY <3>1 DEF CaptureInv, CaptureFields
  <2>2. CASE ~reader.running
    BY <2>2 DEF stop, CaptureInv, CaptureFields
  <2>3. QED
    BY <2>1, <2>2
<1>2. seen' \in CaptureSeen
  BY DEF stop, CaptureInv, CaptureSeen, ReaderState
<1>3. /\ seen'.quiet = (seen.quiet \/ ~reader.running)
      /\ seen'.missed = (seen.missed \/ reader.at = "created")
      /\ seen'.late = seen.late /\ seen'.raced = seen.raced /\ seen'.under = seen.under
      /\ seen'.told = seen.told /\ seen'.ended = seen.ended
  BY DEF stop, CaptureInv, CaptureSeen
<1>4. /\ reader' \in ReaderState /\ reader'.at = reader.at
      /\ reader'.running = reader.running /\ reader'.joinable = reader.joinable
  BY DEF stop, cancel, CaptureInv, ReaderState
<1>5. caller' \in [Caller -> {"idle", "join", "free"}]
  BY DEF stop, CaptureInv
<1>6. step' = step
  BY DEF stop
<1>7. reader.running => caller' = [caller EXCEPT ![c] = "join"]
  BY DEF stop
<1>8. StopSeen'
  BY <1>1, <1>3, <1>4, <1>6 DEF CaptureInv, Alive, ReaderState
<1>9. FreeJoined'
  <2>1. CASE reader.running
    BY <2>1, <1>3, <1>4, <1>7 DEF CaptureInv, Alive
  <2>2. CASE ~reader.running
    BY <2>2, <1>3, <1>4 DEF CaptureInv, Alive, ReaderState
  <2>3. QED
    BY <2>1, <2>2
<1>10. ThreadTold'
  BY <1>4 DEF CaptureInv, Alive
<1>11. TellsBeforeEnd' /\ QuietAfterStop' /\ FreedWhenStopped'
  BY <1>1, <1>3, <1>4 DEF CaptureInv, Up
<1>12. QED
  BY <1>1, <1>2, <1>4, <1>5, <1>6, <1>8, <1>9, <1>10, <1>11 DEF CaptureInv

\* The join ends when the thread is done.
LEMMA JoinReaderKeeps ==
    ASSUME CaptureInv, NEW c \in Caller, JoinReader(c) PROVE CaptureInv'
BY DEF JoinReader, Joined, CaptureInv, ReaderState, CaptureFields, CaptureSeen, Up, Alive

\* The rest of close() finds the thread joined, or its close() was raced or early.
LEMMA FreeDecodersKeeps ==
    ASSUME CaptureInv, NEW c \in Caller, FreeDecoders(c) PROVE CaptureInv'
BY DEF FreeDecoders, CaptureInv, ReaderState, CaptureFields, CaptureSeen, Up, Alive

\* The thread begins to run: it is running from here on.
LEMMA ThreadEnterKeeps ==
    ASSUME CaptureInv, ThreadEnter PROVE CaptureInv'
<1>1. /\ reader' \in ReaderState /\ reader'.running /\ reader'.at = "func"
      /\ reader'.joinable = reader.joinable
  BY DEF ThreadEnter, Enter, CaptureInv, ReaderState
<1>2. reader.at = "created" /\ step' = "begin" /\ UNCHANGED <<capture, seen, caller>>
  BY DEF ThreadEnter, CallersRest
<1>3. QED
  BY <1>1, <1>2 DEF CaptureInv, Alive

\* The steps of run() up to the emission leave the thread where it is; they move
\* in the file, or they end the program.
LEMMA RunStepKeeps ==
    ASSUME CaptureInv, In(step),
           UNCHANGED reader, CallersRest,
           step' \in {"begin", "read", "got", "eof", "decode", "flush", "selfstop", "tail"},
           step' \in {"decode", "flush", "selfstop"} =>
               \/ step' = step
               \/ ~seen.quiet
               \/ step \in {"decode", "flush", "selfstop"},
           capture' \in CaptureFields, capture'.stopping = capture.stopping,
           seen' \in CaptureSeen,
           /\ seen'.quiet = seen.quiet /\ seen'.missed = seen.missed /\ seen'.raced = seen.raced
           /\ seen'.under = seen.under /\ seen'.late = seen.late /\ seen'.told = seen.told
    PROVE  CaptureInv'
BY DEF CaptureInv, In, CallersRest, Up, Alive

\* The rewind of a looping capture.
LEMMA BeginRunKeeps ==
    ASSUME CaptureInv, Begin PROVE CaptureInv'
<1>1. In(step) /\ UNCHANGED reader /\ CallersRest
  BY DEF Begin, In
<1>2. step' \in {"begin", "read", "tail"}
  BY DEF Begin, In
<1>3. capture' \in CaptureFields /\ capture'.stopping = capture.stopping
  BY DEF Begin, CaptureInv, CaptureFields
<1>4. seen' = seen \/ seen' = [seen EXCEPT !.ended = TRUE]
  BY DEF Begin
<1>5. /\ seen' \in CaptureSeen
      /\ seen'.quiet = seen.quiet /\ seen'.missed = seen.missed /\ seen'.raced = seen.raced
      /\ seen'.under = seen.under /\ seen'.late = seen.late /\ seen'.told = seen.told
  BY <1>4 DEF CaptureInv, CaptureSeen
<1>6. QED
  BY <1>1, <1>2, <1>3, <1>5, RunStepKeeps

\* A frame, the end of the file, or freed memory.
LEMMA ReadFrameKeeps ==
    ASSUME CaptureInv, ReadFrame PROVE CaptureInv'
<1>1. In(step) /\ UNCHANGED reader /\ CallersRest
  BY DEF ReadFrame, In
<1>2. step' \in {"read", "got", "eof"}
  BY DEF ReadFrame, In
<1>3. capture' \in CaptureFields /\ capture'.stopping = capture.stopping
  BY DEF ReadFrame, CaptureInv, CaptureFields
<1>4. seen' = seen \/ seen' = [seen EXCEPT !.ended = TRUE]
  BY DEF ReadFrame
<1>5. /\ seen' \in CaptureSeen
      /\ seen'.quiet = seen.quiet /\ seen'.missed = seen.missed /\ seen'.raced = seen.raced
      /\ seen'.under = seen.under /\ seen'.late = seen.late /\ seen'.told = seen.told
  BY <1>4 DEF CaptureInv, CaptureSeen
<1>6. QED
  BY <1>1, <1>2, <1>3, <1>5, RunStepKeeps

\* After a stop() the thread that got a frame finds _stopping set.
LEMMA StoppingKeeps ==
    ASSUME CaptureInv, TestStopping \/ TestEof PROVE CaptureInv'
<1>1. In(step) /\ UNCHANGED reader /\ CallersRest /\ seen' = seen /\ capture' = capture
  BY DEF TestStopping, TestEof, In, CallersRest
<1>2. step' \in {"tail", "decode", "flush"}
  BY DEF TestStopping, TestEof
<1>3. step' # "tail" => ~seen.quiet
  BY <1>1 DEF TestStopping, TestEof, CaptureInv, In, Alive
<1>4. QED
  BY <1>1, <1>2, <1>3, RunStepKeeps DEF CaptureInv

\* What decode() and flush() emit, they emit before a stop() returned.
LEMMA DecodeKeeps ==
    ASSUME CaptureInv, Decode PROVE CaptureInv'
<1>1. In(step) /\ UNCHANGED reader /\ CallersRest /\ UNCHANGED capture
  BY DEF Decode, In
<1>2. step \in {"decode", "flush"} /\ step' \in {"decode", "flush", "read", "tail", "selfstop"}
  BY DEF Decode, In
<1>3. ~seen.quiet
  BY <1>1, <1>2 DEF CaptureInv, In, Alive
<1>4. \/ \E emits \in BOOLEAN : seen' = [seen EXCEPT !.late = @ \/ (emits /\ seen.quiet)]
      \/ seen' = [seen EXCEPT !.ended = TRUE]
  BY DEF Decode
<1>5. /\ seen' \in CaptureSeen
      /\ seen'.quiet = seen.quiet /\ seen'.missed = seen.missed /\ seen'.raced = seen.raced
      /\ seen'.under = seen.under /\ seen'.late = seen.late /\ seen'.told = seen.told
  BY <1>3, <1>4 DEF CaptureInv, CaptureSeen
<1>6. QED
  BY <1>1, <1>2, <1>5, RunStepKeeps DEF CaptureInv

\* stop() from a callback leaves the thread where it was.
LEMMA SelfStopKeeps ==
    ASSUME CaptureInv, SelfStop PROVE CaptureInv'
BY DEF SelfStop, In, CallersRest, cancel, CaptureInv, ReaderState, CaptureFields, CaptureSeen, Up, Alive

\* run() tells its observers before it returns.
LEMMA LeaveRunKeeps ==
    ASSUME CaptureInv, LeaveRun PROVE CaptureInv'
BY DEF LeaveRun, In, CallersRest, Return, CaptureInv, ReaderState, CaptureFields, CaptureSeen, Up, Alive

\* The thread runs again or is done.
LEMMA LoopTestKeeps ==
    ASSUME CaptureInv, LoopTest PROVE CaptureInv'
<1>1. /\ reader' \in ReaderState /\ reader'.at \in {"func", "done"} /\ reader'.joinable = reader.joinable
      /\ reader'.running = (reader'.at = "func")
  BY DEF LoopTest, Again, CaptureInv, ReaderState
<1>2. reader.at = "test" /\ Up /\ UNCHANGED <<step, capture, seen, caller>>
  BY DEF LoopTest, CallersRest
<1>3. QED
  BY <1>1, <1>2 DEF CaptureInv, Alive, Up

\* Every step of the callers and of the thread keeps the invariant.
LEMMA CapNextInv == CaptureInv /\ [CapNext]_capvars => CaptureInv'
<1> SUFFICES ASSUME CaptureInv, [CapNext]_capvars PROVE CaptureInv'
  OBVIOUS
<1>1. CASE openStream
  BY <1>1, OpenStreamKeeps
<1>2. CASE close
  BY <1>2, StopCaptureKeeps, CaptureAssumption DEF close
<1>3. ASSUME NEW c \in Caller, startAct(c) PROVE CaptureInv'
  BY <1>3, StartActKeeps
<1>4. ASSUME NEW c \in Caller, stopAct(c) PROVE CaptureInv'
  BY <1>4, StopCaptureKeeps DEF stopAct
<1>5. ASSUME NEW c \in Caller, JoinReader(c) PROVE CaptureInv'
  BY <1>5, JoinReaderKeeps
<1>6. ASSUME NEW c \in Caller, FreeDecoders(c) PROVE CaptureInv'
  BY <1>6, FreeDecodersKeeps
<1>7. CASE ReaderThread
  BY <1>7, ThreadEnterKeeps, BeginRunKeeps, ReadFrameKeeps, StoppingKeeps, DecodeKeeps,
     SelfStopKeeps, LeaveRunKeeps, LoopTestKeeps DEF ReaderThread
<1>8. CASE UNCHANGED capvars
  BY <1>8 DEF capvars, CaptureInv, Up, Alive
<1>9. QED
  BY <1>1, <1>2, <1>3, <1>4, <1>5, <1>6, <1>7, <1>8 DEF CapNext

(* The media capture (start, stop, close, run): nobody gets a packet from the return *)
(* of stop() to the next start(), close() frees the decoders under the running thread *)
(* only when its stop() was too early or another thread has started it again, and a  *)
(* thread that has ended has told its observers.                                     *)
THEOREM CaptureCorrect == CapSpec => []CaptureSound
<1>1. CaptureInv => CaptureSound
  BY DEF CaptureInv, CaptureSound, EndIsTold
<1>2. QED
  BY <1>1, CapInitInv, CapNextInv, PTL DEF CapSpec

-----------------------------------------------------------------------------
(***************************************************************************)
(* The media of WebRTC.  Four invariants, each of variables of its own:    *)
(* the samples; the threads of the audio module, whose messages are those  *)
(* of the frame before; the times of the video; and the recorder, as long  *)
(* as no track comes late and no first frames race.                        *)
(***************************************************************************)

AudioModule ==
    [recording : BOOLEAN, playing : BOOLEAN, ready : SUBSET Use, callback : BOOLEAN,
     started : BOOLEAN, thread : {"none", "idle", "frame", "post"}, starts : Nat, runs : Nat]

AudioSamples == [fifo : Seq(Nat), accepted : Nat, sent : Seq(Nat)]

VideoSource ==
    [attached : BOOLEAN, offset : Int, time : Int, stamp : Int, first : Int, calls : Int]

Recorder ==
    [tracks : SUBSET Track, awaiting : SUBSET Track, shouldInit : BOOLEAN, known : SUBSET Track,
     streams : SUBSET Track, active : BOOLEAN, at : [Track -> {"none", "init", "encode"}],
     raced : BOOLEAN, late : BOOLEAN, astray : BOOLEAN, inits : Nat, calls : Int]

\* What was captured is what was sent, and then what is held.
SamplesInv ==
    /\ samples \in AudioSamples
    /\ samples.sent \o samples.fifo = Numbers(0, samples.accepted)

\* A message is posted by the frame before, the first by the start; a thread that
\* has not started has none.  The call under way knows whether the thread is to go.
AudioInv ==
    /\ adm \in AudioModule /\ admcall \in {"none", "start", "stop", "join"}
    /\ adm.thread \in {"frame", "post"} => adm.runs = 0 /\ adm.started
    /\ adm.runs <= 1
    /\ ~adm.started => adm.runs = 0
    /\ adm.thread = "none" => adm.starts = 0 /\ ~adm.started
    /\ admcall = "none" => (shouldStartProcessing(adm) <=> adm.thread # "none")
    /\ admcall = "start" => shouldStartProcessing(adm)
    /\ admcall \in {"stop", "join"} => ~shouldStartProcessing(adm)

\* The offset is that of the first packet, from a first packet at a time other than 0.
VideoInv ==
    /\ vsrc \in VideoSource
    /\ vsrc.time >= -1
    /\ vsrc.first < 0 => vsrc.offset = 0
    /\ vsrc.first > 0 => vsrc.offset = -vsrc.first /\ vsrc.stamp = 1000 + vsrc.time - vsrc.first

\* Until tracks come late or first frames race, one frame at most initialises, and
\* the streams of the encoder are the tracks.
OneInit ==
    /\ \A t, o \in Track : rec.at[t] = "init" /\ rec.at[o] = "init" => t = o
    /\ (\E t \in Track : rec.at[t] = "init") => rec.shouldInit
    /\ rec.shouldInit => rec.inits = 0
    /\ rec.inits <= 1
    /\ rec.active => rec.known # {} /\ rec.streams = rec.tracks
    /\ ~rec.astray

RecorderInv ==
    /\ rec \in Recorder
    /\ \A t \in Track : rec.at[t] # "none" => t \in rec.tracks /\ rec.known # {}
    /\ ~rec.raced /\ ~rec.late => OneInit

MediaInv == SamplesInv /\ AudioInv /\ VideoInv /\ RecorderInv

-----------------------------------------------------------------------------
(* The samples.                                                            *)

\* The numbers of samples are a sequence.
LEMMA NumbersIsSeq ==
    ASSUME NEW from \in Nat, NEW n \in Nat
    PROVE  /\ Numbers(from, n) \in Seq(Nat) /\ Len(Numbers(from, n)) = n
           /\ \A i \in 1..n : Numbers(from, n)[i] = from + i
<1>1. Numbers(from, n) \in [1..n -> Nat]
  BY DEF Numbers
<1>2. Numbers(from, n) \in Seq(Nat)
  BY <1>1, SeqDef
<1>3. Len(Numbers(from, n)) = n
  BY <1>1, <1>2, LenProperties
<1>4. QED
  BY <1>2, <1>3 DEF Numbers

\* Samples that follow on continue the numbers.
LEMMA NumbersContinue ==
    ASSUME NEW a \in Nat, NEW n \in Nat
    PROVE  Numbers(0, a) \o Numbers(a, n) = Numbers(0, a + n)
<1> DEFINE x == Numbers(0, a)
           y == Numbers(a, n)
           z == Numbers(0, a + n)
<1>1. /\ x \in Seq(Nat) /\ Len(x) = a /\ \A i \in 1..a : x[i] = i
      /\ y \in Seq(Nat) /\ Len(y) = n /\ \A i \in 1..n : y[i] = a + i
      /\ z \in Seq(Nat) /\ Len(z) = a + n /\ \A i \in 1..(a + n) : z[i] = i
  <2>1. x \in Seq(Nat) /\ Len(x) = a /\ \A i \in 1..a : x[i] = 0 + i
    BY NumbersIsSeq
  <2>2. y \in Seq(Nat) /\ Len(y) = n /\ \A i \in 1..n : y[i] = a + i
    BY NumbersIsSeq
  <2>3. a + n \in Nat
    OBVIOUS
  <2>4. z \in Seq(Nat) /\ Len(z) = a + n /\ \A i \in 1..(a + n) : z[i] = 0 + i
    BY <2>3, NumbersIsSeq
  <2> HIDE DEF x, y, z
  <2>5. QED
    BY <2>1, <2>2, <2>4
<1> HIDE DEF x, y, z
<1>2. /\ x \o y \in Seq(Nat) /\ Len(x \o y) = a + n
      /\ \A i \in 1..(a + n) : (x \o y)[i] = IF i <= a THEN x[i] ELSE y[i - a]
  <2>1. /\ x \o y \in Seq(Nat) /\ Len(x \o y) = Len(x) + Len(y)
        /\ \A i \in 1..(Len(x) + Len(y)) : (x \o y)[i] = IF i <= Len(x) THEN x[i] ELSE y[i - Len(x)]
    BY <1>1, ConcatProperties, SMTT(30)
  <2>2. QED
    BY <1>1, <2>1
<1>3. \A i \in 1..(a + n) : (x \o y)[i] = i
  <2> SUFFICES ASSUME NEW i \in 1..(a + n) PROVE (x \o y)[i] = i
    OBVIOUS
  <2>1. CASE i <= a
    BY <2>1, <1>1, <1>2
  <2>2. CASE ~(i <= a)
    <3>1. i - a \in 1..n
      BY <2>2
    <3>2. y[i - a] = a + (i - a)
      BY <3>1, <1>1
    <3>3. (x \o y)[i] = y[i - a]
      BY <2>2, <1>2
    <3>4. QED
      BY <3>2, <3>3
  <2>3. QED
    BY <2>1, <2>2
<1>4. \A i \in 1..Len(x \o y) : (x \o y)[i] = z[i]
  BY <1>1, <1>2, <1>3
<1>5. x \o y = z
  BY <1>1, <1>2, <1>4, SeqEqual
<1>6. QED
  BY <1>5 DEF x, y, z

\* Concatenation is associative.
LEMMA ConcatGroups ==
    ASSUME NEW x \in Seq(Nat), NEW y \in Seq(Nat), NEW z \in Seq(Nat)
    PROVE  (x \o y) \o z = x \o (y \o z)
OBVIOUS

\* A frame moved from the buffer to what was sent leaves their concatenation.
LEMMA MoveToSent ==
    ASSUME NEW s \in Seq(Nat), NEW f \in Seq(Nat), NEW k \in Nat, k <= Len(f)
    PROVE  /\ s \o SubSeq(f, 1, k) \in Seq(Nat) /\ SubSeq(f, k + 1, Len(f)) \in Seq(Nat)
           /\ (s \o SubSeq(f, 1, k)) \o SubSeq(f, k + 1, Len(f)) = s \o f
<1> DEFINE head == SubSeq(f, 1, k)
           rest == SubSeq(f, k + 1, Len(f))
<1>1. Len(f) \in Nat /\ \A i \in 1..Len(f) : f[i] \in Nat
  BY LenProperties, ElementOfSeq
<1>2. head \in Seq(Nat)
  <2>1. \A i \in 1..k : f[i] \in Nat
    BY <1>1
  <2>2. QED
    BY <2>1, SubSeqProperties
<1>3. rest \in Seq(Nat)
  <2>1. \A i \in (k + 1)..Len(f) : f[i] \in Nat
    BY <1>1
  <2>2. k + 1 \in Int /\ Len(f) \in Int
    BY <1>1
  <2>3. QED
    BY <2>1, <2>2, SubSeqProperties
<1>4. head \o rest = f
  <2>1. SubSeq(f, 1, k) \o SubSeq(f, k + 1, Len(f)) = SubSeq(f, 1, Len(f))
    <3>1. 1 \in 1..(Len(f) + 1) /\ k \in (1 - 1)..Len(f) /\ Len(f) \in k..Len(f)
      BY <1>1
    <3> HIDE DEF head, rest
    <3>2. QED
      BY <3>1, ConcatAdjacentSubSeq
  <2>2. QED
    BY <2>1, SubSeqFull
<1> HIDE DEF head, rest
<1>5. s \o head \in Seq(Nat)
  BY <1>2, ConcatProperties
<1>6. (s \o head) \o rest = s \o (head \o rest)
  BY <1>2, <1>3, ConcatGroups, SMTT(30)
<1>7. QED
  BY <1>3, <1>4, <1>5, <1>6 DEF head, rest

\* So does a capture, which adds to the buffer.
LEMMA CaptureContinues ==
    ASSUME NEW s \in Seq(Nat), NEW f \in Seq(Nat), NEW a \in Nat, NEW n \in Nat,
           s \o f = Numbers(0, a)
    PROVE  /\ f \o Numbers(a, n) \in Seq(Nat)
           /\ s \o (f \o Numbers(a, n)) = Numbers(0, a + n)
<1>1. (s \o f) \o Numbers(a, n) = Numbers(0, a + n)
  BY NumbersContinue
<1>2. PICK new \in Seq(Nat) : new = Numbers(a, n)
  BY NumbersIsSeq
<1>3. f \o new \in Seq(Nat)
  BY ConcatProperties
<1>4. (s \o f) \o new = s \o (f \o new)
  BY ConcatGroups
<1>5. QED
  BY <1>1, <1>2, <1>3, <1>4

\* onAudioCaptured() writes what it was given behind what is held.
LEMMA CaptureKeepsSamples ==
    ASSUME SamplesInv, NEW n \in 1..(FrameSamples + 1), onAudioCaptured(n) PROVE SamplesInv'
<1>1. PICK f, s, a : f = samples.fifo /\ s = samples.sent /\ a = samples.accepted
  OBVIOUS
<1>2. n \in Nat /\ a \in Nat /\ f \in Seq(Nat) /\ s \in Seq(Nat) /\ s \o f = Numbers(0, a)
  BY <1>1, MediaAssumption DEF SamplesInv, AudioSamples
<1> DEFINE g == f \o Numbers(a, n)
<1>3. samples' = [samples EXCEPT !.fifo = g, !.accepted = a + n]
  BY <1>1 DEF onAudioCaptured
<1>4. g \in Seq(Nat) /\ s \o g = Numbers(0, a + n) /\ a + n \in Nat
  <2>1. a + n \in Nat
    BY <1>2
  <2>2. QED
    BY <1>2, <2>1, CaptureContinues, Zenon
<1> HIDE DEF g
<1>5. /\ samples'.sent = s /\ samples'.fifo = g /\ samples'.accepted = a + n
      /\ samples' \in AudioSamples
  BY <1>1, <1>3, <1>4 DEF SamplesInv, AudioSamples
<1>6. QED
  BY <1>4, <1>5 DEF SamplesInv

\* processFrameP() sends the oldest frame, or nothing.
LEMMA FrameKeepsSamples ==
    ASSUME SamplesInv, processFrameP PROVE SamplesInv'
<1>1. CASE ~(adm.recording /\ adm.callback /\ Readable(samples))
  BY <1>1 DEF processFrameP, sendFrameP, SamplesInv
<1>2. CASE adm.recording /\ adm.callback /\ Readable(samples)
  <2>1. PICK f, s : f = samples.fifo /\ s = samples.sent
    OBVIOUS
  <2>2. f \in Seq(Nat) /\ s \in Seq(Nat) /\ s \o f = Numbers(0, samples.accepted)
    BY <2>1 DEF SamplesInv, AudioSamples
  <2>3. FrameSamples \in Nat /\ FrameSamples <= Len(f)
    BY <1>2, <2>1, <2>2, MediaAssumption, LenProperties DEF Readable
  <2> DEFINE g == s \o SubSeq(f, 1, FrameSamples)
             r == SubSeq(f, FrameSamples + 1, Len(f))
  <2>4. samples' = [samples EXCEPT !.fifo = r, !.sent = g]
    BY <1>2, <2>1 DEF processFrameP, sendFrameP
  <2>5. g \in Seq(Nat) /\ r \in Seq(Nat) /\ g \o r = s \o f
    BY <2>2, <2>3, MoveToSent
  <2> HIDE DEF g, r
  <2>6. /\ samples'.sent = g /\ samples'.fifo = r /\ samples'.accepted = samples.accepted
        /\ samples' \in AudioSamples
    BY <2>4, <2>5 DEF SamplesInv, AudioSamples
  <2>7. QED
    BY <2>2, <2>5, <2>6 DEF SamplesInv
<1>3. QED
  BY <1>1, <1>2

-----------------------------------------------------------------------------
(* The threads of the audio module.                                        *)

\* The calls of WebRTC.
LEMMA CallsKeepAudio ==
    ASSUME AudioInv, NEW u \in Use, InitUse(u) \/ StartUse(u) \/ StopUse(u) PROVE AudioInv'
<1>1. CASE InitUse(u)
  <2>1. adm' = [adm EXCEPT !.ready = @ \cup {u}] /\ admcall' = admcall
    BY <1>1 DEF InitUse
  <2>2. /\ adm' \in AudioModule /\ adm'.thread = adm.thread /\ adm'.runs = adm.runs
        /\ adm'.started = adm.started /\ adm'.starts = adm.starts
        /\ adm'.recording = adm.recording /\ adm'.playing = adm.playing
    BY <2>1 DEF AudioInv, AudioModule
  <2>3. QED
    BY <2>1, <2>2 DEF AudioInv, shouldStartProcessing
<1>2. CASE StartUse(u)
  <2>1. /\ adm' = [adm EXCEPT !.recording = @ \/ u = "recording", !.playing = @ \/ u = "playing"]
        /\ admcall' = "start"
    BY <1>2 DEF StartUse
  <2>2. /\ adm' \in AudioModule /\ adm'.thread = adm.thread /\ adm'.runs = adm.runs
        /\ adm'.started = adm.started /\ adm'.starts = adm.starts
        /\ adm'.recording = (adm.recording \/ u = "recording")
        /\ adm'.playing = (adm.playing \/ u = "playing")
    BY <2>1 DEF AudioInv, AudioModule
  <2>3. adm'.recording \/ adm'.playing
    BY <2>2 DEF Use
  <2>4. QED
    BY <2>1, <2>2, <2>3 DEF AudioInv, shouldStartProcessing
<1>3. CASE StopUse(u)
  <2>1. /\ adm' = [adm EXCEPT !.recording = @ /\ u # "recording", !.playing = @ /\ u # "playing"]
        /\ admcall' = IF shouldStartProcessing(adm') THEN "start" ELSE "stop"
    BY <1>3 DEF StopUse
  <2>2. /\ adm' \in AudioModule /\ adm'.thread = adm.thread /\ adm'.runs = adm.runs
        /\ adm'.started = adm.started /\ adm'.starts = adm.starts
    BY <2>1 DEF AudioInv, AudioModule
  <2>3. QED
    BY <2>1, <2>2 DEF AudioInv, shouldStartProcessing
<1>4. QED
  BY <1>1, <1>2, <1>3

\* The callback decides nothing about the threads.
LEMMA RegisterKeepsAudio ==
    ASSUME AudioInv, NEW cb \in BOOLEAN, Register(cb) PROVE AudioInv'
<1>1. adm' = [adm EXCEPT !.callback = cb] /\ admcall' = admcall
  BY DEF Register
<1>2. /\ adm' \in AudioModule /\ adm'.thread = adm.thread /\ adm'.runs = adm.runs
      /\ adm'.started = adm.started /\ adm'.starts = adm.starts
      /\ adm'.recording = adm.recording /\ adm'.playing = adm.playing
  BY <1>1 DEF AudioInv, AudioModule
<1>3. QED
  BY <1>1, <1>2 DEF AudioInv, shouldStartProcessing

\* The thread comes with the first start, and goes with the last stop.
LEMMA UpdateKeepsAudio ==
    ASSUME AudioInv, updateStart \/ QuitThread \/ updateStop PROVE AudioInv'
<1>1. CASE updateStart
  <2>0. PICK n \in Nat, th \in {"idle", "frame", "post"} :
            n = adm.starts + 1 /\ th = IF adm.thread = "none" THEN "idle" ELSE adm.thread
    BY DEF AudioInv, AudioModule
  <2>1. /\ adm' = [adm EXCEPT !.thread = th, !.starts = n]
        /\ admcall = "start" /\ admcall' = "none"
    BY <1>1, <2>0 DEF updateStart
  <2>2. /\ adm' \in AudioModule /\ adm'.runs = adm.runs /\ adm'.started = adm.started
        /\ adm'.thread = th
        /\ adm'.recording = adm.recording /\ adm'.playing = adm.playing
    BY <2>1 DEF AudioInv, AudioModule
  <2>3. QED
    BY <2>0, <2>1, <2>2 DEF AudioInv, shouldStartProcessing
<1>2. CASE QuitThread
  BY <1>2 DEF QuitThread, AudioInv, shouldStartProcessing
<1>3. CASE updateStop
  <2>1. /\ adm' = [adm EXCEPT !.thread = "none", !.starts = 0, !.runs = 0, !.started = FALSE]
        /\ admcall = "join" /\ admcall' = "none"
    BY <1>3 DEF updateStop
  <2>2. /\ adm' \in AudioModule /\ adm'.runs = 0 /\ adm'.starts = 0 /\ ~adm'.started
        /\ adm'.thread = "none"
        /\ adm'.recording = adm.recording /\ adm'.playing = adm.playing
    BY <2>1 DEF AudioInv, AudioModule
  <2>3. QED
    BY <2>1, <2>2 DEF AudioInv, shouldStartProcessing
<1>4. QED
  BY <1>1, <1>2, <1>3

\* Each frame posts one message, and takes the one before.
LEMMA ProcessKeepsAudio ==
    ASSUME AudioInv, ProcessThread PROVE AudioInv'
<1> USE DEF Quitting
<1>1. CASE startProcessP
  <2>0. PICK n \in Nat, th \in {"idle", "frame"} :
            n = adm.starts - 1 /\ th = IF adm.started THEN "idle" ELSE "frame"
    BY <1>1 DEF startProcessP, AudioInv, AudioModule
  <2>1. /\ adm' = [adm EXCEPT !.starts = n, !.thread = th, !.started = TRUE]
        /\ admcall' = admcall /\ adm.thread = "idle"
    BY <1>1, <2>0 DEF startProcessP
  <2>2. /\ adm' \in AudioModule /\ adm'.runs = adm.runs /\ adm'.started
        /\ adm'.thread = th
        /\ adm'.recording = adm.recording /\ adm'.playing = adm.playing
    BY <2>1 DEF AudioInv, AudioModule
  <2>3. QED
    BY <2>0, <2>1, <2>2 DEF AudioInv, shouldStartProcessing
<1>2. CASE runProcessP
  <2>1. /\ adm' = [adm EXCEPT !.runs = @ - 1, !.thread = "frame", !.started = TRUE]
        /\ admcall' = admcall /\ adm.thread = "idle" /\ adm.runs > 0
    BY <1>2 DEF runProcessP
  <2>2. adm.runs = 1
    BY <2>1 DEF AudioInv, AudioModule
  <2>3. /\ adm' \in AudioModule /\ adm'.runs = 0 /\ adm'.started /\ adm'.thread = "frame"
        /\ adm'.recording = adm.recording /\ adm'.playing = adm.playing
    <3>1. adm' = [adm EXCEPT !.runs = 0, !.thread = "frame", !.started = TRUE]
      BY <2>1, <2>2
    <3>2. QED
      BY <3>1 DEF AudioInv, AudioModule
  <2>4. QED
    BY <2>1, <2>3 DEF AudioInv, shouldStartProcessing
<1>3. CASE processFrameP
  <2>1. adm' = [adm EXCEPT !.thread = "post"] /\ admcall' = admcall /\ adm.thread = "frame"
    BY <1>3 DEF processFrameP
  <2>2. /\ adm' \in AudioModule /\ adm'.runs = adm.runs /\ adm'.started = adm.started
        /\ adm'.starts = adm.starts /\ adm'.thread = "post"
        /\ adm'.recording = adm.recording /\ adm'.playing = adm.playing
    BY <2>1 DEF AudioInv, AudioModule
  <2>3. QED
    BY <2>1, <2>2 DEF AudioInv, shouldStartProcessing
<1>4. CASE PostRun
  <2>1. admcall' = admcall /\ adm.thread = "post"
    BY <1>4 DEF PostRun
  <2>2. adm.runs = 0 /\ adm.started
    BY <2>1 DEF AudioInv
  <2>3. PICK n \in {0, 1} : adm' = [adm EXCEPT !.thread = "idle", !.runs = n]
    <3>1. CASE admcall = "join"
      BY <1>4, <2>2, <3>1 DEF PostRun
    <3>2. CASE admcall # "join"
      BY <1>4, <2>2, <3>2 DEF PostRun
    <3>3. QED
      BY <3>1, <3>2
  <2>4. /\ adm' \in AudioModule /\ adm'.runs = n /\ adm'.started
        /\ adm'.thread = "idle" /\ adm'.starts = adm.starts
        /\ adm'.recording = adm.recording /\ adm'.playing = adm.playing
    <3>1. n \in Nat
      OBVIOUS
    <3>2. QED
      BY <2>2, <2>3, <3>1 DEF AudioInv, AudioModule
  <2>5. QED
    BY <2>1, <2>2, <2>4 DEF AudioInv, shouldStartProcessing
<1>5. QED
  BY <1>1, <1>2, <1>3, <1>4 DEF ProcessThread

-----------------------------------------------------------------------------
(* The video source.                                                       *)

\* The first packet at a time other than 0 fixes the offset.
LEMMA VideoKeepsTimes ==
    ASSUME VideoInv, NEW t \in PacketTime, onVideoCaptured(t) PROVE VideoInv'
<1>1. PICK offset \in Int : offset = IF vsrc.offset = 0 THEN -t ELSE vsrc.offset
  BY MediaAssumption DEF VideoInv, VideoSource
<1>2. t \in Int /\ t >= 0
  BY MediaAssumption DEF onVideoCaptured, VideoInv, VideoSource
<1>3. PICK first \in Int : first = IF vsrc.first < 0 THEN t ELSE vsrc.first
  BY <1>2 DEF VideoInv, VideoSource
<1>4. PICK stamp \in Int, calls \in Int : stamp = t + offset + 1000 /\ calls = vsrc.calls + 1
  BY <1>2 DEF VideoInv, VideoSource
<1>5. vsrc' = [vsrc EXCEPT !.offset = offset, !.time = t, !.stamp = stamp, !.first = first, !.calls = calls]
  BY <1>1, <1>3, <1>4 DEF onVideoCaptured
<1>6. /\ vsrc' \in VideoSource /\ vsrc'.time = t /\ vsrc'.offset = offset
      /\ vsrc'.stamp = stamp /\ vsrc'.first = first
  <2>1. vsrc \in VideoSource
    BY DEF VideoInv
  <2>2. vsrc' \in VideoSource
    BY <2>1, <1>2, <1>5, ZenonT(60) DEF VideoSource
  <2>3. vsrc'.time = t /\ vsrc'.offset = offset
    BY <2>1, <1>5 DEF VideoSource
  <2>4. vsrc'.stamp = stamp /\ vsrc'.first = first
    BY <2>1, <1>5 DEF VideoSource
  <2>5. QED
    BY <2>2, <2>3, <2>4
<1>7. first >= 0
  BY <1>2, <1>3 DEF VideoInv, VideoSource
<1>8. first > 0 => offset = -first /\ stamp = 1000 + t - first
  <2>1. CASE vsrc.first < 0
    BY <2>1, <1>1, <1>2, <1>3, <1>4 DEF VideoInv, VideoSource
  <2>2. CASE ~(vsrc.first < 0)
    BY <2>2, <1>1, <1>2, <1>3, <1>4 DEF VideoInv, VideoSource
  <2>3. QED
    BY <2>1, <2>2
<1>9. QED
  BY <1>2, <1>6, <1>7, <1>8 DEF VideoInv

\* Starting and stopping the source leaves its times.
LEMMA AttachKeepsTimes ==
    ASSUME VideoInv, StartVideo \/ StopVideo PROVE VideoInv'
<1>1. PICK n \in Int : n = vsrc.calls + 1
  BY DEF VideoInv, VideoSource
<1>2. PICK b \in BOOLEAN : vsrc' = [vsrc EXCEPT !.attached = b, !.calls = n]
  BY <1>1 DEF StartVideo, StopVideo
<1>3. /\ vsrc' \in VideoSource /\ vsrc'.time = vsrc.time /\ vsrc'.offset = vsrc.offset
      /\ vsrc'.stamp = vsrc.stamp /\ vsrc'.first = vsrc.first
  <2>1. vsrc \in VideoSource
    BY DEF VideoInv
  <2>2. vsrc' \in VideoSource
    BY <2>1, <1>1, <1>2, ZenonT(60) DEF VideoSource
  <2>3. vsrc'.time = vsrc.time /\ vsrc'.offset = vsrc.offset
    BY <2>1, <1>2 DEF VideoSource
  <2>4. vsrc'.stamp = vsrc.stamp /\ vsrc'.first = vsrc.first
    BY <2>1, <1>2 DEF VideoSource
  <2>5. QED
    BY <2>2, <2>3, <2>4
<1>4. QED
  BY <1>3 DEF VideoInv

-----------------------------------------------------------------------------
(* The recorder.                                                           *)

\* A track that is set before any frame finds nothing under way.
LEMMA SetTrackKeeps ==
    ASSUME RecorderInv, NEW t \in Track, setTrack(t) PROVE RecorderInv'
<1>1. rec' = [rec EXCEPT !.tracks = @ \cup {t}, !.awaiting = @ \cup {t}, !.late = @ \/ rec.known # {}]
  BY DEF setTrack, Recorded
<1>2. rec' \in Recorder
  BY <1>1 DEF RecorderInv, Recorder
<1>3. /\ rec'.tracks = rec.tracks \cup {t} /\ rec'.late = (rec.late \/ rec.known # {})
      /\ rec'.at = rec.at /\ rec'.known = rec.known /\ rec'.raced = rec.raced
      /\ rec'.shouldInit = rec.shouldInit /\ rec'.inits = rec.inits /\ rec'.active = rec.active
      /\ rec'.astray = rec.astray
  BY <1>1 DEF RecorderInv, Recorder
<1>4. ~rec'.raced /\ ~rec'.late => OneInit'
  BY <1>3 DEF RecorderInv, OneInit
<1>5. QED
  BY <1>2, <1>3, <1>4 DEF RecorderInv

\* A first frame that finds another track initialising is a race.
LEMMA OnFrameKeeps ==
    ASSUME RecorderInv, NEW t \in Track, OnFrame(t) PROVE RecorderInv'
<1>1. PICK x \in {"init", "encode"} :
          x = IF t \in rec.awaiting /\ rec.shouldInit THEN "init" ELSE "encode"
  OBVIOUS
<1>2. PICK n \in Int : n = rec.calls + 1
  BY DEF RecorderInv, Recorder
<1>3. PICK race \in BOOLEAN :
          race = (rec.raced \/ (t \in rec.awaiting /\ \E o \in Track : rec.at[o] = "init"))
  OBVIOUS
<1>4. PICK at \in [Track -> {"none", "init", "encode"}] : at = [rec.at EXCEPT ![t] = x]
  BY DEF RecorderInv, Recorder
<1>5. rec' = [rec EXCEPT !.awaiting = @ \ {t}, !.known = @ \cup {t}, !.calls = n, !.at = at, !.raced = race]
  BY <1>1, <1>2, <1>3, <1>4 DEF OnFrame, Recorded
<1>6. rec' \in Recorder
  BY <1>5 DEF RecorderInv, Recorder
<1>7. /\ rec'.tracks = rec.tracks /\ rec'.late = rec.late /\ rec'.streams = rec.streams
      /\ rec'.at = at /\ rec'.known = rec.known \cup {t} /\ rec'.raced = race
      /\ rec'.shouldInit = rec.shouldInit /\ rec'.inits = rec.inits /\ rec'.active = rec.active
      /\ rec'.astray = rec.astray
  BY <1>5 DEF RecorderInv, Recorder
<1>8. t \in rec.tracks
  BY DEF OnFrame
<1>9. \A o \in Track : at[o] = IF o = t THEN x ELSE rec.at[o]
  BY <1>4 DEF RecorderInv, Recorder
<1>10. ASSUME ~rec'.raced, ~rec'.late PROVE OneInit'
  <2>1. ~rec.raced /\ OneInit
    BY <1>3, <1>7, <1>10 DEF RecorderInv
  <2>2. x = "init" => rec.shouldInit /\ \A o \in Track : rec.at[o] # "init"
    BY <1>1, <1>3, <1>7, <1>10
  <2>3. QED
    BY <1>7, <1>9, <2>1, <2>2 DEF OneInit
<1>11. QED
  BY <1>6, <1>7, <1>8, <1>9, <1>10 DEF RecorderInv

\* The one frame that initialises settles it, or leaves it to a track still to come.
LEMMA InitEncoderKeeps ==
    ASSUME RecorderInv, NEW t \in Track, NEW ok \in BOOLEAN, initEncoder(t, ok) PROVE RecorderInv'
<1>1. PICK n \in Nat : n = IF ok THEN rec.inits + 1 ELSE rec.inits
  BY DEF RecorderInv, Recorder
<1>2. PICK at \in [Track -> {"none", "init", "encode"}] : at = [rec.at EXCEPT ![t] = "encode"]
  BY DEF RecorderInv, Recorder
<1>3. PICK streams \in SUBSET Track : streams = IF ok THEN rec.tracks ELSE {}
  BY DEF RecorderInv, Recorder
<1>4. PICK should \in BOOLEAN : should = IF ok THEN FALSE ELSE rec.shouldInit
  BY DEF RecorderInv, Recorder
<1>5. rec' = [rec EXCEPT !.at = at, !.inits = n, !.active = ok, !.streams = streams, !.shouldInit = should]
  BY <1>1, <1>2, <1>3, <1>4 DEF initEncoder, Recorded
<1>6. rec' \in Recorder
  BY <1>5 DEF RecorderInv, Recorder
<1>7. /\ rec'.tracks = rec.tracks /\ rec'.late = rec.late /\ rec'.streams = streams
      /\ rec'.at = at /\ rec'.known = rec.known /\ rec'.raced = rec.raced
      /\ rec'.shouldInit = should /\ rec'.inits = n /\ rec'.active = ok
      /\ rec'.astray = rec.astray
  BY <1>5 DEF RecorderInv, Recorder
<1>8. rec.at[t] = "init" /\ t \in rec.tracks /\ rec.known # {}
  BY DEF initEncoder, RecorderInv
<1>9. \A o \in Track : at[o] = IF o = t THEN "encode" ELSE rec.at[o]
  BY <1>2 DEF RecorderInv, Recorder
<1>10. ASSUME ~rec'.raced, ~rec'.late PROVE OneInit'
  <2>1. OneInit
    BY <1>7, <1>10 DEF RecorderInv
  <2>2. rec.shouldInit /\ rec.inits = 0 /\ \A o \in Track : at[o] # "init"
    BY <2>1, <1>8, <1>9 DEF OneInit
  <2>3. QED
    BY <1>1, <1>3, <1>4, <1>7, <1>8, <2>1, <2>2 DEF OneInit
<1>11. QED
  BY <1>6, <1>7, <1>8, <1>9, <1>10 DEF RecorderInv

\* An active encoder has a stream for every track.
LEMMA EncodeKeeps ==
    ASSUME RecorderInv, NEW t \in Track, Encode(t) PROVE RecorderInv'
<1>1. PICK stray \in BOOLEAN : stray = (rec.astray \/ (rec.active /\ t \notin rec.streams))
  OBVIOUS
<1>2. PICK at \in [Track -> {"none", "init", "encode"}] : at = [rec.at EXCEPT ![t] = "none"]
  BY DEF RecorderInv, Recorder
<1>3. rec' = [rec EXCEPT !.at = at, !.astray = stray] /\ rec.at[t] = "encode"
  BY <1>1, <1>2 DEF Encode, Recorded
<1>4. rec' \in Recorder
  BY <1>3 DEF RecorderInv, Recorder
<1>5. /\ rec'.tracks = rec.tracks /\ rec'.late = rec.late /\ rec'.streams = rec.streams
      /\ rec'.at = at /\ rec'.known = rec.known /\ rec'.raced = rec.raced
      /\ rec'.shouldInit = rec.shouldInit /\ rec'.inits = rec.inits /\ rec'.active = rec.active
      /\ rec'.astray = stray
  BY <1>3 DEF RecorderInv, Recorder
<1>6. t \in rec.tracks
  BY <1>3 DEF RecorderInv
<1>7. \A o \in Track : at[o] = IF o = t THEN "none" ELSE rec.at[o]
  BY <1>2 DEF RecorderInv, Recorder
<1>8. ASSUME ~rec'.raced, ~rec'.late PROVE OneInit'
  <2>1. OneInit
    BY <1>5, <1>8 DEF RecorderInv
  <2>2. ~stray
    BY <1>1, <1>6, <2>1 DEF OneInit
  <2>3. QED
    BY <1>5, <1>7, <2>1, <2>2 DEF OneInit
<1>9. QED
  BY <1>4, <1>5, <1>7, <1>8 DEF RecorderInv

-----------------------------------------------------------------------------
(* All together.                                                           *)

\* Nothing is captured, runs or is recorded at first.
LEMMA MediaInitInv == WmInit => MediaInv
<1> SUFFICES ASSUME WmInit PROVE MediaInv
  OBVIOUS
<1>1. SamplesInv
  <2>1. samples = [fifo |-> <<>>, accepted |-> 0, sent |-> <<>>]
    BY DEF WmInit
  <2>2. Numbers(0, 0) = <<>>
    <3>1. Numbers(0, 0) \in Seq(Nat) /\ Len(Numbers(0, 0)) = 0
      BY NumbersIsSeq
    <3>2. QED
      BY <3>1, EmptySeq
  <2>3. <<>> \in Seq(Nat) /\ <<>> \o <<>> = <<>>
    BY EmptySeq, ConcatEmptySeq
  <2>4. QED
    BY <2>1, <2>2, <2>3 DEF SamplesInv, AudioSamples
<1>2. AudioInv
  BY DEF WmInit, AudioInv, AudioModule, shouldStartProcessing
<1>3. VideoInv
  BY DEF WmInit, VideoInv, VideoSource
<1>4. RecorderInv
  <2>1. PICK at \in [Track -> {"none", "init", "encode"}] : at = [t \in Track |-> "none"]
    OBVIOUS
  <2>2. rec = [tracks |-> {}, awaiting |-> {}, shouldInit |-> TRUE, known |-> {},
               streams |-> {}, active |-> FALSE, at |-> at,
               raced |-> FALSE, late |-> FALSE, astray |-> FALSE, inits |-> 0, calls |-> 0]
    BY <2>1 DEF WmInit
  <2>3. rec \in Recorder
    BY <2>2 DEF Recorder
  <2>4. /\ rec.at = at /\ rec.shouldInit /\ rec.inits = 0 /\ ~rec.active /\ ~rec.astray
    BY <2>2
  <2>5. \A t \in Track : rec.at[t] = "none"
    BY <2>1, <2>4
  <2>6. QED
    BY <2>3, <2>4, <2>5 DEF RecorderInv, OneInit
<1>5. QED
  BY <1>1, <1>2, <1>3, <1>4 DEF MediaInv

SamplesRest == UNCHANGED samples
CallsRest == UNCHANGED <<adm, admcall>>
VideoRest == UNCHANGED vsrc
RecorderRest == UNCHANGED rec

\* What a part of the module leaves alone keeps the invariants of the others.
LEMMA RestKeeps ==
    /\ SamplesInv /\ SamplesRest => SamplesInv'
    /\ AudioInv /\ CallsRest => AudioInv'
    /\ VideoInv /\ VideoRest => VideoInv'
    /\ RecorderInv /\ RecorderRest => RecorderInv'
<1>1. SamplesInv /\ SamplesRest => SamplesInv'
  BY DEF SamplesInv, SamplesRest
<1>2. AudioInv /\ CallsRest => AudioInv'
  BY DEF AudioInv, CallsRest, shouldStartProcessing
<1>3. VideoInv /\ VideoRest => VideoInv'
  BY DEF VideoInv, VideoRest
<1>4. RecorderInv /\ RecorderRest => RecorderInv'
  BY DEF RecorderInv, RecorderRest, OneInit
<1>5. QED
  BY <1>1, <1>2, <1>3, <1>4

\* Every step keeps the four.
LEMMA MediaNextInv == MediaInv /\ [AudioNext \/ VideoNext \/ RecordNext]_wmvars => MediaInv'
<1> SUFFICES ASSUME SamplesInv, AudioInv, VideoInv, RecorderInv,
                    [AudioNext \/ VideoNext \/ RecordNext]_wmvars
             PROVE  MediaInv'
  BY DEF MediaInv
<1> USE DEF SamplesRest, CallsRest, VideoRest, RecorderRest
<1>1. ASSUME NEW u \in Use, InitUse(u) \/ StartUse(u) \/ StopUse(u) PROVE MediaInv'
  <2>1. SamplesRest /\ VideoRest /\ RecorderRest
    BY <1>1 DEF InitUse, StartUse, StopUse
  <2>2. QED
    BY <1>1, <2>1, CallsKeepAudio, RestKeeps DEF MediaInv
<1>2. ASSUME NEW cb \in BOOLEAN, Register(cb) PROVE MediaInv'
  <2>1. SamplesRest /\ VideoRest /\ RecorderRest
    BY <1>2 DEF Register
  <2>2. QED
    BY <1>2, <2>1, RegisterKeepsAudio, RestKeeps DEF MediaInv
<1>3. CASE updateStart \/ QuitThread \/ updateStop
  <2>1. SamplesRest /\ VideoRest /\ RecorderRest
    BY <1>3 DEF updateStart, QuitThread, updateStop
  <2>2. QED
    BY <1>3, <2>1, UpdateKeepsAudio, RestKeeps DEF MediaInv
<1>4. ASSUME NEW n \in 1..(FrameSamples + 1), onAudioCaptured(n) PROVE MediaInv'
  <2>1. CallsRest /\ VideoRest /\ RecorderRest
    BY <1>4 DEF onAudioCaptured
  <2>2. QED
    BY <1>4, <2>1, CaptureKeepsSamples, RestKeeps DEF MediaInv
<1>5. CASE startProcessP \/ runProcessP \/ PostRun
  <2>1. SamplesRest /\ VideoRest /\ RecorderRest
    BY <1>5 DEF startProcessP, runProcessP, PostRun
  <2>2. QED
    BY <1>5, <2>1, ProcessKeepsAudio, RestKeeps DEF MediaInv, ProcessThread
<1>6. CASE processFrameP
  <2>1. VideoRest /\ RecorderRest
    BY <1>6 DEF processFrameP
  <2>2. QED
    BY <1>6, <2>1, FrameKeepsSamples, ProcessKeepsAudio, RestKeeps DEF MediaInv, ProcessThread
<1>7. CASE VideoNext
  <2>1. SamplesRest /\ CallsRest /\ RecorderRest
    BY <1>7 DEF VideoNext, StartVideo, StopVideo, onVideoCaptured
  <2>2. QED
    BY <1>7, <2>1, VideoKeepsTimes, AttachKeepsTimes, RestKeeps DEF MediaInv, VideoNext
<1>8. CASE RecordNext
  <2>1. SamplesRest /\ CallsRest /\ VideoRest
    BY <1>8 DEF RecordNext, setTrack, OnFrame, initEncoder, Encode, Recorded
  <2>2. QED
    BY <1>8, <2>1, SetTrackKeeps, OnFrameKeeps, InitEncoderKeeps, EncodeKeeps, RestKeeps
    DEF MediaInv, RecordNext
<1>9. CASE UNCHANGED wmvars
  BY <1>9, RestKeeps DEF wmvars, MediaInv
<1>10. QED
  BY <1>1, <1>2, <1>3, <1>4, <1>5, <1>6, <1>7, <1>8, <1>9 DEF AudioNext

(* The media of WebRTC (onAudioCaptured, processFrameP, updateProcessing,            *)
(* onVideoCaptured, OnFrame): for any calls, captures and frames, the audio that     *)
(* WebRTC gets is what was captured, whole and in order, from one chain of messages  *)
(* and from no thread when nothing runs; video keeps the distances of its times;     *)
(* and an encoder is initialised once and given frames of its streams.               *)
THEOREM MediaCorrect == WmSpec => []WebrtcMediaSound
<1>1. MediaInv => WebrtcMediaSound
  <2> SUFFICES ASSUME SamplesInv, AudioInv, VideoInv, RecorderInv PROVE WebrtcMediaSound
    BY DEF MediaInv
  <2>1. samples.sent \o samples.fifo = Numbers(0, samples.accepted)
    BY DEF SamplesInv
  <2>2. adm.runs \in Nat /\ adm.starts \in Nat
    BY DEF AudioInv, AudioModule
  <2>3. adm.runs + (IF adm.thread \in {"frame", "post"} THEN 1 ELSE 0) <= 1
    BY <2>2 DEF AudioInv
  <2>4. /\ admcall = "none" => (shouldStartProcessing(adm) <=> adm.thread # "none")
        /\ adm.thread = "none" => adm.runs + adm.starts = 0 /\ ~adm.started
    BY <2>2 DEF AudioInv
  <2>5. vsrc.first > 0 => vsrc.stamp = 1000 + vsrc.time - vsrc.first
    BY DEF VideoInv
  <2>6. ~rec.raced /\ ~rec.late => rec.inits <= 1 /\ ~rec.astray
    BY DEF RecorderInv, OneInit
  <2>7. QED
    BY <2>1, <2>3, <2>4, <2>5, <2>6 DEF WebrtcMediaSound
<1>2. QED
  BY <1>1, MediaInitInv, MediaNextInv, PTL DEF WmSpec

-----------------------------------------------------------------------------
(* The logger: for any channel names, levels, rotation interval and times, *)
(* with the thread, clear(), remove() and each step of setWriter() and of  *)
(* the destructor of the writer at any time, what LogFaithful says of the  *)
(* messages, files and channels.                                           *)

LogMessage == [n : Nat, to : {0} \cup Channel, level : Int, ts : Int]

\* What the thread is about to do, and the destructor.
LogPlace == {"none", "test", "next", "write", "exited"}
LogPhase == {"none", "join", "flush", "write", "ended", "gone"}

LogState ==
    [ reg : [Range(ChannelName) -> {0} \cup Channel], default : {0} \cup Channel, added : SUBSET Channel,
      calls : Nat, alive : SUBSET Channel, level : [Channel -> Int], stream : LogMessage, flushed : BOOLEAN,
      made : Nat, writer : 0..2, freed : 0..2, seen : 0..2, crashed : BOOLEAN, pending : Seq(LogMessage),
      thread : LogPlace, held : LogMessage, cancelled : BOOLEAN,
      dtor : LogPhase, files : [0..MaxLogTime -> Seq(Nat)],
      open : {-1} \cup 0..MaxLogTime, rotatedAt : Int, output : Seq(Nat), now : 0..MaxLogTime,
      removed : [Channel -> Nat], sent : SUBSET Nat, cleared : SUBSET Nat, late : SUBSET Nat,
      shown : [Channel -> Seq(Nat)], stale : SUBSET Nat ]

\* The last message handed to the logger.
LastWritten(l) == IF l.flushed THEN l.made ELSE l.made - 1

\* Only channels that exist are found by a name or by default; a channel goes once.
ChannelsRight(l) ==
    /\ \A x \in Range(ChannelName) : l.reg[x] # 0 =>
          ChannelName[l.reg[x]] = x /\ l.reg[x] \in l.added /\ l.reg[x] \in l.alive
    /\ Channel \ l.added \subseteq l.alive
    /\ l.default # 0 => l.default \in l.alive
    /\ \A c \in Channel : l.removed[c] <= l.made
    /\ \A k \in l.stale : \E c \in Channel \ l.alive : k <= l.removed[c]

\* A message is for a channel that exists, or did when its stream was made.
Meant(l, m) == m.to \in l.alive \/ m.n <= l.removed[m.to]

StreamRight(l) ==
    ~l.flushed => /\ l.stream.n = l.made /\ l.made > 0 /\ l.stream.ts <= l.now
                  /\ l.stream.to # 0 => Meant(l, l.stream)

\* m waits to be written, behind everything that was.
Waits(l, m) ==
    /\ m.to # 0 /\ Meant(l, m) /\ m.ts <= l.now /\ m.n > 0 /\ m.n <= LastWritten(l)
    /\ \A i \in 1..Len(l.output) : l.output[i] < m.n

QueueRight(l) ==
    /\ l.held.n # 0 => Waits(l, l.held)
    /\ \A i \in 1..Len(l.pending) : Waits(l, l.pending[i]) /\ l.held.n < l.pending[i].n
    /\ \A i, j \in 1..Len(l.pending) : i < j => l.pending[i].n < l.pending[j].n

OutputOrdered(l) ==
    /\ \A i \in 1..Len(l.output) : l.output[i] > 0 /\ l.output[i] <= LastWritten(l)
    /\ \A i, j \in 1..Len(l.output) : i < j => l.output[i] < l.output[j]

\* k was written, is held or queued, or was cleared.
Somewhere(l, k) ==
    \/ \E i \in 1..Len(l.output) : l.output[i] = k
    \/ k # 0 /\ l.held.n = k
    \/ \E i \in 1..Len(l.pending) : l.pending[i].n = k
    \/ k \in l.cleared

\* Where the messages that a writer got are.
SentRight(l) ==
    \A k \in Nat : /\ k \in l.sent => Somewhere(l, k) \/ k \in l.late
                   /\ Somewhere(l, k) => k \in l.sent

\* The writers are replaced one after the other.  The thread and the destructor hold one
\* message n between them.  Nothing is queued or held without the asynchronous writer, nor
\* while a message on its way may still go to the writer before it.  What is queued when
\* the destructor has ended is late.
PlacesRight(wr, fr, se, fl, th, d, n, q, late) ==
    /\ n # 0 <=> th = "write" \/ d = "write"
    /\ d \in {"flush", "write", "ended", "gone"} => th = "exited"
    /\ fr = 0 => th = "none" /\ d = "none"
    /\ fr = 2 <=> d = "gone"
    /\ se <= wr /\ wr <= fr
    /\ fr # 1 \/ wr = 0 \/ (fl = FALSE /\ se = 0) => q = <<>> /\ n = 0
    /\ d = "ended" => \A i \in 1..Len(q) : q[i].n \in late

ThreadRight(l) ==
    PlacesRight(l.writer, l.freed, l.seen, l.flushed, l.thread, l.dtor, l.held.n, l.pending, l.late)

\* The files later than the one that is open are empty.
OpenRight(open, rotatedAt, now, files) ==
    IF open = -1 THEN \A s \in 0..MaxLogTime : files[s] = <<>>
    ELSE /\ rotatedAt = open /\ open <= now
         /\ \A s \in 0..MaxLogTime : s > open => files[s] = <<>>

FilesHold(files, shown, output) ==
    /\ \A k \in 1..Len(shown) : \E s \in 0..MaxLogTime : \E i \in 1..Len(files[s]) : shown[k] = files[s][i]
    /\ \A s \in 0..MaxLogTime : \A i \in 1..Len(files[s]) :
          /\ \E k \in 1..Len(shown) : shown[k] = files[s][i]
          /\ \E k \in 1..Len(output) : output[k] = files[s][i]
    /\ \A s, t \in 0..MaxLogTime : \A i \in 1..Len(files[s]), j \in 1..Len(files[t]) :
          s < t \/ (s = t /\ i < j) => files[s][i] < files[t][j]

FilesRight(l) ==
    OpenRight(l.open, l.rotatedAt, l.now, l.files) /\ FilesHold(l.files, l.shown[1], l.output)

LoggerRight(l) ==
    /\ l \in LogState
    /\ ChannelsRight(l) /\ StreamRight(l) /\ QueueRight(l) /\ OutputOrdered(l)
    /\ SentRight(l) /\ ThreadRight(l) /\ FilesRight(l)

LogInv == LoggerRight(lw)

USE DEF Channel

LEMMA LogTimes == MaxLogTime \in Nat /\ RotationInterval \in Nat /\ DOMAIN ChannelName = {1, 2}
<1>1. MaxLogTime \in Nat
  BY LogAssumption
<1>2. RotationInterval \in Nat
  BY LogAssumption, SMT
<1>3. DOMAIN ChannelName = {1, 2}
  BY LogAssumption, Zenon
<1>4. QED BY <1>1, <1>2, <1>3

LEMMA LogInitRight == LogInit => LogInv
<1> SUFFICES ASSUME LogInit PROVE LogInv
  OBVIOUS
<1> USE LogTimes DEF LogInit
<1>1. lw \in LogState
  BY DEF LogState, LogPlace, LogPhase, LogMessage, Nothing
<1>2. ChannelsRight(lw)
  BY DEF ChannelsRight
<1>3. StreamRight(lw) /\ QueueRight(lw) /\ OutputOrdered(lw) /\ SentRight(lw) /\ ThreadRight(lw)
  BY DEF StreamRight, QueueRight, OutputOrdered, SentRight, Somewhere, ThreadRight, PlacesRight, Nothing
<1>4. FilesRight(lw)
  BY DEF FilesRight, OpenRight, FilesHold
<1>5. QED BY <1>1, <1>2, <1>3, <1>4 DEF LogInv, LoggerRight

\* The types of the fields, one by one.
LEMMA LogFields ==
    ASSUME NEW l \in LogState
    PROVE  /\ l.reg \in [Range(ChannelName) -> {0} \cup Channel] /\ l.default \in {0} \cup Channel
           /\ l.made \in Nat /\ l.stream \in LogMessage /\ l.held \in LogMessage
           /\ l.pending \in Seq(LogMessage) /\ l.output \in Seq(Nat) /\ l.now \in 0..MaxLogTime /\ l.now \in Int
           /\ l.removed \in [Channel -> Nat] /\ l.alive \subseteq Channel /\ l.open \in Int
           /\ l.files \in [0..MaxLogTime -> Seq(Nat)] /\ l.shown \in [Channel -> Seq(Nat)]
           /\ l.flushed \in BOOLEAN /\ l.sent \subseteq Nat /\ l.stale \subseteq Nat /\ l.cleared \subseteq Nat
           /\ l.rotatedAt \in Int /\ l.late \subseteq Nat
           /\ l.writer \in 0..2 /\ l.freed \in 0..2 /\ l.seen \in 0..2 /\ l.crashed \in BOOLEAN
           /\ l.thread \in LogPlace /\ l.dtor \in LogPhase /\ l.cancelled \in BOOLEAN
<1>1. l.now \in Int /\ l.open \in Int
  <2>1. l.now \in 0..MaxLogTime /\ l.open \in {-1} \cup 0..MaxLogTime
    BY DEF LogState
  <2>2. QED BY <2>1, LogTimes
<1>2. QED BY <1>1 DEF LogState

LEMMA MessageFields ==
    ASSUME NEW m \in LogMessage
    PROVE  m.n \in Nat /\ m.to \in {0} \cup Channel /\ m.level \in Int /\ m.ts \in Int
BY DEF LogMessage

\* A message is appended to the newest file.
LEMMA FileGrows ==
    ASSUME NEW f \in [0..MaxLogTime -> Seq(Nat)], NEW s \in Seq(Nat), NEW out \in Seq(Nat), FilesHold(f, s, out),
           NEW o \in 0..MaxLogTime, NEW n \in Nat, \A i \in 1..Len(out) : out[i] < n,
           \A t \in 0..MaxLogTime : t > o => f[t] = <<>>
    PROVE  FilesHold([f EXCEPT ![o] = Append(f[o], n)], Append(s, n), Append(out, n))
<1> DEFINE g == [f EXCEPT ![o] = Append(f[o], n)]
           s2 == Append(s, n)
           out2 == Append(out, n)
<1>1. /\ Len(s2) = Len(s) + 1 /\ s2[Len(s) + 1] = n /\ \A i \in 1..Len(s) : s2[i] = s[i]
      /\ Len(out2) = Len(out) + 1 /\ out2[Len(out) + 1] = n /\ \A i \in 1..Len(out) : out2[i] = out[i]
      /\ Len(s) \in Nat /\ Len(out) \in Nat
  OBVIOUS
<1>2. f[o] \in Seq(Nat) /\ \A t \in 0..MaxLogTime : f[t] \in Seq(Nat) /\ Len(f[t]) \in Nat
  <2>1. \A t \in 0..MaxLogTime : f[t] \in Seq(Nat)
    OBVIOUS
  <2>2. \A t \in 0..MaxLogTime : Len(f[t]) \in Nat
    BY <2>1, LenProperties
  <2>3. QED BY <2>1, <2>2
<1>3. /\ g[o] = Append(f[o], n) /\ \A t \in 0..MaxLogTime : t # o => g[t] = f[t]
      /\ Len(g[o]) = Len(f[o]) + 1 /\ g[o][Len(f[o]) + 1] = n /\ \A i \in 1..Len(f[o]) : g[o][i] = f[o][i]
  BY <1>2
<1>4. \A t \in 0..MaxLogTime : \A i \in 1..Len(f[t]) : f[t][i] \in Nat /\ f[t][i] < n
  <2> SUFFICES ASSUME NEW t \in 0..MaxLogTime, NEW i \in 1..Len(f[t]) PROVE f[t][i] \in Nat /\ f[t][i] < n
    OBVIOUS
  <2>1. PICK k \in 1..Len(out) : out[k] = f[t][i]
    BY DEF FilesHold
  <2>2. out[k] \in Nat /\ out[k] < n
    BY ElementOfSeq
  <2>3. QED BY <2>1, <2>2
<1> HIDE DEF g, s2, out2
\* an entry of the new files is an old one, or the one appended
<1>5. \A t \in 0..MaxLogTime : \A i \in 1..Len(g[t]) :
        \/ i \in 1..Len(f[t]) /\ g[t][i] = f[t][i]
        \/ t = o /\ i = Len(f[o]) + 1 /\ g[t][i] = n
  <2> SUFFICES ASSUME NEW t \in 0..MaxLogTime, NEW i \in 1..Len(g[t])
               PROVE  \/ i \in 1..Len(f[t]) /\ g[t][i] = f[t][i]
                      \/ t = o /\ i = Len(f[o]) + 1 /\ g[t][i] = n
    OBVIOUS
  <2>0. Len(f[t]) \in Nat /\ Len(f[o]) \in Nat
    BY <1>2
  <2>1. CASE t # o
    BY <2>1, <1>3
  <2>2. CASE t = o
    <3>1. i \in 1..(Len(f[o]) + 1)
      BY <2>2, <1>3
    <3>2. ASSUME NEW k \in Nat, i \in 1..(k + 1) PROVE i \in 1..k \/ i = k + 1
      BY <3>2
    <3>3. i \in 1..Len(f[o]) \/ i = Len(f[o]) + 1
      BY <3>1, <3>2, <2>0
    <3>4. QED BY <3>3, <2>2, <1>3
  <2>3. QED BY <2>1, <2>2
<1>6. \A t \in 0..MaxLogTime : \A i \in 1..Len(f[t]) : i \in 1..Len(g[t]) /\ g[t][i] = f[t][i]
  <2> SUFFICES ASSUME NEW t \in 0..MaxLogTime, NEW i \in 1..Len(f[t])
               PROVE  i \in 1..Len(g[t]) /\ g[t][i] = f[t][i]
    OBVIOUS
  <2>0. Len(f[t]) \in Nat
    BY <1>2
  <2>1. CASE t # o
    BY <2>1, <1>3
  <2>2. CASE t = o
    <3>1. Len(g[o]) = Len(f[o]) + 1 /\ g[o][i] = f[o][i]
      BY <2>2, <1>3
    <3>2. QED BY <3>1, <2>0, <2>2
  <2>3. QED BY <2>1, <2>2
<1>7. Len(f[o]) + 1 \in 1..Len(g[o])
  BY <1>2, <1>3
<1>8. ASSUME NEW k \in 1..Len(s2)
      PROVE  \E t \in 0..MaxLogTime : \E i \in 1..Len(g[t]) : s2[k] = g[t][i]
  <2>1. CASE k = Len(s) + 1
    BY <2>1, <1>1, <1>3, <1>7
  <2>2. CASE k \in 1..Len(s)
    <3>1. PICK t \in 0..MaxLogTime : \E i \in 1..Len(f[t]) : s[k] = f[t][i]
      BY <2>2 DEF FilesHold
    <3>2. PICK i \in 1..Len(f[t]) : s[k] = f[t][i]
      BY <3>1
    <3>3. QED BY ZenonT(30), <3>2, <2>2, <1>1, <1>6
  <2>3. QED BY <2>1, <2>2, <1>1
<1>9. ASSUME NEW t \in 0..MaxLogTime, NEW i \in 1..Len(g[t])
      PROVE  /\ \E k \in 1..Len(s2) : s2[k] = g[t][i]
             /\ \E k \in 1..Len(out2) : out2[k] = g[t][i]
  <2>1. CASE i \in 1..Len(f[t]) /\ g[t][i] = f[t][i]
    <3>1. PICK k \in 1..Len(s) : s[k] = f[t][i]
      BY <2>1 DEF FilesHold
    <3>2. PICK j \in 1..Len(out) : out[j] = f[t][i]
      BY <2>1 DEF FilesHold
    <3>3. k \in 1..Len(s2) /\ s2[k] = g[t][i] /\ j \in 1..Len(out2) /\ out2[j] = g[t][i]
      BY <2>1, <3>1, <3>2, <1>1
    <3>4. QED BY <3>3
  <2>2. CASE g[t][i] = n
    <3>1. Len(s2) \in 1..Len(s2) /\ Len(out2) \in 1..Len(out2)
      BY <1>1
    <3>2. s2[Len(s2)] = n /\ out2[Len(out2)] = n
      BY <1>1
    <3>3. QED BY <2>2, <3>1, <3>2
  <2>3. QED BY <2>1, <2>2, <1>5
<1>10. ASSUME NEW t \in 0..MaxLogTime, NEW u \in 0..MaxLogTime, NEW i \in 1..Len(g[t]), NEW j \in 1..Len(g[u]),
              t < u \/ (t = u /\ i < j)
       PROVE  g[t][i] < g[u][j]
  <2>1. CASE j \in 1..Len(f[u]) /\ g[u][j] = f[u][j]
    <3>1. u <= o
      BY <2>1, <1>2, LogTimes
    <3>2. i \in 1..Len(f[t]) /\ g[t][i] = f[t][i]
      <4>1. CASE t < u
        <5>1. t # o
          BY <4>1, <3>1, LogTimes
        <5>2. QED BY <5>1, <1>5
      <4>2. CASE t = u /\ i < j
        <5>1. Len(f[u]) \in Nat /\ j <= Len(f[u])
          BY <2>1, <1>2
        <5>2. i # Len(f[u]) + 1
          BY <4>2, <5>1
        <5>3. QED BY <5>2, <4>2, <1>5
      <4>3. QED BY <4>1, <4>2, <1>10
    <3>3. QED BY <2>1, <3>2, <1>10 DEF FilesHold
  <2>2. CASE u = o /\ j = Len(f[o]) + 1 /\ g[u][j] = n
    <3>1. i \in 1..Len(f[t]) /\ g[t][i] = f[t][i]
      <4>1. t \in Int /\ u \in Int /\ Len(f[o]) \in Int
        BY <1>2, LogTimes
      <4>2. ~(t = o /\ i = Len(f[o]) + 1)
        BY <2>2, <1>10, <4>1
      <4>3. QED BY <4>2, <1>5
    <3>2. QED BY <2>2, <3>1, <1>4
  <2>3. QED BY <2>1, <2>2, <1>5
<1>11. FilesHold(g, s2, out2)
  BY <1>8, <1>9, <1>10 DEF FilesHold
<1>12. QED BY <1>11 DEF g, s2, out2

\* A message of another channel, or one not shown.
LEMMA FilesStay ==
    ASSUME NEW f, NEW s, NEW out \in Seq(Nat), NEW n \in Nat, FilesHold(f, s, out)
    PROVE  FilesHold(f, s, Append(out, n))
<1>1. /\ \A i \in 1..Len(out) : i \in 1..Len(Append(out, n)) /\ Append(out, n)[i] = out[i]
  OBVIOUS
<1>2. \A t \in 0..MaxLogTime : \A i \in 1..Len(f[t]) :
        \E k \in 1..Len(Append(out, n)) : Append(out, n)[k] = f[t][i]
  <2> SUFFICES ASSUME NEW t \in 0..MaxLogTime, NEW i \in 1..Len(f[t])
               PROVE  \E k \in 1..Len(Append(out, n)) : Append(out, n)[k] = f[t][i]
    OBVIOUS
  <2>1. PICK k \in 1..Len(out) : out[k] = f[t][i]
    BY DEF FilesHold
  <2>2. QED BY <1>1, <2>1, Zenon
<1>3. QED BY <1>2 DEF FilesHold

-----------------------------------------------------------------------------
(* Writing to a channel.                                                   *)

\* What a write to a channel leaves as it was.
WriteLeaves(l, w) ==
    /\ w.reg = l.reg /\ w.default = l.default /\ w.added = l.added /\ w.alive = l.alive
    /\ w.stream = l.stream /\ w.flushed = l.flushed /\ w.made = l.made
    /\ w.writer = l.writer /\ w.freed = l.freed /\ w.seen = l.seen /\ w.late = l.late
    /\ w.pending = l.pending /\ w.thread = l.thread /\ w.held = l.held /\ w.dtor = l.dtor
    /\ w.now = l.now /\ w.removed = l.removed /\ w.sent = l.sent /\ w.cleared = l.cleared

LEMMA RotateRight ==
    ASSUME NEW l \in LogState, FilesRight(l), NEW ts \in Int, ts <= l.now,
           l.open = -1 \/ ts - l.rotatedAt > RotationInterval
    PROVE  /\ rotate(l) \in LogState /\ FilesRight(rotate(l)) /\ WriteLeaves(l, rotate(l))
           /\ rotate(l).open = l.now /\ rotate(l).output = l.output /\ rotate(l).stale = l.stale
<1> DEFINE r == rotate(l)
<1>1. /\ l.files \in [0..MaxLogTime -> Seq(Nat)] /\ l.now \in 0..MaxLogTime /\ l.now \in Int
      /\ l.open \in Int /\ l.rotatedAt \in Int
  BY LogFields
<1>2. l.files[l.now] = <<>> /\ \A t \in 0..MaxLogTime : t > l.now => l.files[t] = <<>>
  <2>1. CASE l.open = -1
    BY <2>1, <1>1 DEF FilesRight, OpenRight
  <2>2. CASE l.open # -1
    <3>1. l.rotatedAt = l.open /\ \A s \in 0..MaxLogTime : s > l.open => l.files[s] = <<>>
      BY <2>2 DEF FilesRight, OpenRight
    <3>2. l.now > l.open
      BY <2>2, <3>1, <1>1, LogTimes
    <3>3. \A t \in 0..MaxLogTime : t > l.now => t > l.open
      BY <3>2, <1>1
    <3>4. QED BY <3>1, <3>2, <3>3, <1>1
  <2>3. QED BY <2>1, <2>2
<1>3. [l.files EXCEPT ![l.now] = <<>>] = l.files
  BY <1>1, <1>2
<1>4. r = [l EXCEPT !.files = l.files, !.open = l.now, !.rotatedAt = l.now]
  BY <1>3 DEF rotate
<1>5. r \in LogState
  BY <1>4, <1>1, ZenonT(60) DEF LogState
<1>6. /\ r.open = l.now /\ r.rotatedAt = l.now /\ r.files = l.files /\ r.now = l.now
      /\ r.output = l.output /\ r.shown = l.shown /\ r.stale = l.stale
  BY <1>4 DEF LogState
<1>7. WriteLeaves(l, r)
  BY <1>4 DEF LogState, WriteLeaves
<1> HIDE DEF r
<1>8. OpenRight(r.open, r.rotatedAt, r.now, r.files)
  BY <1>1, <1>2, <1>6 DEF OpenRight
<1>9. FilesRight(r)
  BY <1>6, <1>8 DEF FilesRight
<1>10. QED BY <1>5, <1>6, <1>7, <1>9 DEF r

\* The state after message n has come, and has been shown by channel c.
Given(l, n, dead) == [l EXCEPT !.output = Append(l.output, n), !.stale = dead]
Shown(l, n, c) ==
    [l EXCEPT !.output = Append(@, n), !.shown[c] = Append(@, n),
              !.files = IF c = 1 THEN [l.files EXCEPT ![l.open] = Append(@, n)] ELSE @]

LEMMA GivenRight ==
    ASSUME NEW l \in LogState, FilesRight(l), NEW n \in Nat, NEW dead \in SUBSET Nat,
           NEW w, w = Given(l, n, dead)
    PROVE  /\ w \in LogState /\ FilesRight(w) /\ WriteLeaves(l, w)
           /\ w.output = Append(l.output, n) /\ w.stale = dead
<1>0. w = [l EXCEPT !.output = Append(l.output, n), !.stale = dead]
  BY DEF Given
<1>1. l.output \in Seq(Nat) /\ Append(l.output, n) \in Seq(Nat)
  BY LogFields, AppendProperties
<1>2. w \in LogState
  <2>1. [l EXCEPT !.output = Append(l.output, n), !.stale = dead] \in LogState
    BY <1>1, ZenonT(60) DEF LogState
  <2>2. QED BY <2>1, <1>0
<1>3. /\ w.output = Append(l.output, n) /\ w.stale = dead /\ w.files = l.files /\ w.open = l.open
      /\ w.rotatedAt = l.rotatedAt /\ w.shown = l.shown /\ w.now = l.now
  BY <1>0 DEF LogState
<1>4. WriteLeaves(l, w)
  BY <1>0 DEF LogState, WriteLeaves
<1>5. FilesHold(w.files, w.shown[1], w.output)
  BY <1>1, <1>3, FilesStay DEF FilesRight
<1>6. FilesRight(w)
  BY <1>3, <1>5 DEF FilesRight
<1>7. QED BY <1>2, <1>3, <1>4, <1>6

LEMMA ShownRight ==
    ASSUME NEW l \in LogState, FilesRight(l), NEW n \in Nat, NEW c \in Channel, c = 1 => l.open # -1,
           \A i \in 1..Len(l.output) : l.output[i] < n,
           NEW w, w = Shown(l, n, c)
    PROVE  /\ w \in LogState /\ FilesRight(w) /\ WriteLeaves(l, w)
           /\ w.output = Append(l.output, n) /\ w.stale = l.stale
<1> DEFINE f == IF c = 1 THEN [l.files EXCEPT ![l.open] = Append(l.files[l.open], n)] ELSE l.files
           s == [l.shown EXCEPT ![c] = Append(l.shown[c], n)]
<1>0. w = [l EXCEPT !.output = Append(l.output, n), !.shown = s, !.files = f]
  BY DEF Shown
<1>1. /\ l.output \in Seq(Nat) /\ l.files \in [0..MaxLogTime -> Seq(Nat)] /\ l.shown \in [Channel -> Seq(Nat)]
      /\ l.open \in {-1} \cup 0..MaxLogTime
  <2>1. l.open \in {-1} \cup 0..MaxLogTime
    BY DEF LogState
  <2>2. QED BY <2>1, LogFields
<1>2. Append(l.output, n) \in Seq(Nat) /\ s \in [Channel -> Seq(Nat)]
  <2>1. l.shown[c] \in Seq(Nat)
    BY <1>1
  <2>2. Append(l.output, n) \in Seq(Nat) /\ Append(l.shown[c], n) \in Seq(Nat)
    BY <2>1, <1>1, AppendProperties
  <2>3. QED BY <2>2, <1>1
<1>3. c = 1 => l.open \in 0..MaxLogTime
  BY <1>1
<1>4. f \in [0..MaxLogTime -> Seq(Nat)]
  <2>1. CASE c = 1
    <3>1. l.files[l.open] \in Seq(Nat)
      BY <2>1, <1>1, <1>3
    <3>2. Append(l.files[l.open], n) \in Seq(Nat)
      BY <3>1, AppendProperties
    <3>3. QED BY <3>2, <2>1, <1>1
  <2>2. QED BY <2>1, <1>1
<1> HIDE DEF f, s
<1>5. w \in LogState
  <2>1. [l EXCEPT !.output = Append(l.output, n), !.shown = s, !.files = f] \in LogState
    BY <1>2, <1>4, ZenonT(60) DEF LogState
  <2>2. QED BY <2>1, <1>0
<1>6. /\ w.output = Append(l.output, n) /\ w.stale = l.stale /\ w.files = f /\ w.open = l.open
      /\ w.rotatedAt = l.rotatedAt /\ w.shown = s /\ w.now = l.now
  BY <1>0 DEF LogState
<1>7. WriteLeaves(l, w)
  BY <1>0 DEF LogState, WriteLeaves
<1>8. FilesHold(f, s[1], Append(l.output, n)) /\ OpenRight(l.open, l.rotatedAt, l.now, f)
  <2>0. FilesHold(l.files, l.shown[1], l.output) /\ OpenRight(l.open, l.rotatedAt, l.now, l.files)
    BY DEF FilesRight
  <2>1. CASE c = 1
    <3>1. \A t \in 0..MaxLogTime : t > l.open => l.files[t] = <<>>
      BY <2>0, <2>1 DEF OpenRight
    <3>2. s[1] = Append(l.shown[1], n) /\ l.shown[1] \in Seq(Nat) /\ l.open \in 0..MaxLogTime
      BY <2>1, <1>1, <1>3 DEF s
    <3>3. f = [l.files EXCEPT ![l.open] = Append(l.files[l.open], n)]
      BY <2>1 DEF f
    <3>4. FilesHold(f, s[1], Append(l.output, n))
      BY ZenonT(30), <2>0, <3>1, <3>2, <3>3, <1>1, FileGrows
    <3>5. \A t \in 0..MaxLogTime : t > l.open => f[t] = l.files[t]
      BY <3>2, <3>3, <1>1
    <3>6. OpenRight(l.open, l.rotatedAt, l.now, f)
      BY <2>0, <2>1, <3>1, <3>5 DEF OpenRight
    <3>7. QED BY <3>4, <3>6
  <2>2. CASE c # 1
    <3>1. s[1] = l.shown[1] /\ f = l.files
      BY <2>2, <1>1 DEF s, f
    <3>2. QED BY <2>0, <3>1, <1>1, FilesStay
  <2>3. QED BY <2>1, <2>2
<1>9. FilesRight(w)
  BY <1>6, <1>8 DEF FilesRight
<1>10. QED BY <1>5, <1>6, <1>7, <1>9

\* LogChannel::write(), whatever becomes of the message.
LEMMA ChannelWriteRight ==
    ASSUME NEW l \in LogState, FilesRight(l), NEW m \in LogMessage, m.to # 0, m.ts <= l.now,
           \A i \in 1..Len(l.output) : l.output[i] < m.n, NEW w, w = ChannelWrite(l, m)
    PROVE  /\ w \in LogState /\ FilesRight(w) /\ WriteLeaves(l, w)
           /\ w.output = Append(l.output, m.n)
           /\ w.stale = l.stale \/ (m.to \notin l.alive /\ w.stale = l.stale \cup {m.n})
<1>1. m.n \in Nat /\ m.to \in Channel /\ m.ts \in Int
  BY MessageFields
<1>2. l.stale \in SUBSET Nat /\ l.stale \cup {m.n} \in SUBSET Nat
  BY <1>1, LogFields
<1>3. CASE m.to \notin l.alive
  <2>1. w = Given(l, m.n, l.stale \cup {m.n})
    BY <1>3 DEF ChannelWrite, Given, LogState
  <2>2. QED BY <2>1, <1>1, <1>2, <1>3, GivenRight
<1>4. CASE m.to \in l.alive /\ l.level[m.to] > m.level
  <2>1. w = [l EXCEPT !.output = Append(l.output, m.n)]
    BY <1>4 DEF ChannelWrite
  <2>2. [l EXCEPT !.output = Append(l.output, m.n)]
          = [l EXCEPT !.output = Append(l.output, m.n), !.stale = l.stale]
    BY DEF LogState
  <2>3. w = Given(l, m.n, l.stale)
    BY <2>1, <2>2 DEF Given
  <2>4. QED BY <2>3, <1>1, <1>2, GivenRight
<1>5. CASE m.to \in l.alive /\ ~(l.level[m.to] > m.level)
  <2> DEFINE turn == l.open = -1 \/ m.ts - l.rotatedAt > RotationInterval
             r == IF m.to = 1 /\ turn THEN rotate(l) ELSE l
  <2>1. /\ r \in LogState /\ FilesRight(r) /\ WriteLeaves(l, r)
        /\ r.output = l.output /\ r.stale = l.stale
        /\ m.to = 1 => r.open # -1
    <3>1. CASE m.to = 1 /\ turn
      <4>1. l.now # -1
        BY LogFields
      <4>2. QED BY <3>1, <4>1, <1>1, RotateRight
    <3>2. CASE ~(m.to = 1 /\ turn)
      BY <3>2 DEF WriteLeaves
    <3>3. QED BY <3>1, <3>2
  <2>2. w = Shown(r, m.n, m.to)
    BY <1>5 DEF ChannelWrite, Shown
  <2> HIDE DEF r
  <2>3. /\ w \in LogState /\ FilesRight(w) /\ WriteLeaves(r, w)
        /\ w.output = Append(r.output, m.n) /\ w.stale = r.stale
    <3>1. \A i \in 1..Len(r.output) : r.output[i] < m.n
      BY <2>1
    <3>2. QED BY <2>1, <2>2, <3>1, <1>1, ShownRight, ZenonT(30)
  <2>4. QED BY <2>1, <2>3 DEF WriteLeaves
<1>6. QED BY <1>3, <1>4, <1>5

-----------------------------------------------------------------------------
(* Every step.                                                             *)

\* A step of the threads that moves no message.
Controlled(l, wr, fr, th, d, cn) ==
    [l EXCEPT !.writer = wr, !.freed = fr, !.thread = th, !.dtor = d, !.cancelled = cn]

\* What it changes.
ControlFields(l, w, wr, fr, th, d) ==
    /\ w.reg = l.reg /\ w.default = l.default /\ w.added = l.added /\ w.alive = l.alive
    /\ w.stream = l.stream /\ w.flushed = l.flushed /\ w.made = l.made
    /\ w.writer = wr /\ w.freed = fr /\ w.seen = l.seen /\ w.late = l.late
    /\ w.pending = l.pending /\ w.thread = th /\ w.held = l.held /\ w.dtor = d
    /\ w.files = l.files /\ w.open = l.open /\ w.rotatedAt = l.rotatedAt /\ w.output = l.output
    /\ w.now = l.now /\ w.removed = l.removed /\ w.sent = l.sent /\ w.cleared = l.cleared
    /\ w.shown = l.shown /\ w.stale = l.stale

LEMMA ControlType ==
    ASSUME NEW l \in LogState, NEW wr \in 0..2, NEW fr \in 0..2, NEW th \in LogPlace, NEW d \in LogPhase,
           NEW cn \in BOOLEAN, NEW w, w = Controlled(l, wr, fr, th, d, cn)
    PROVE  /\ w \in LogState
           /\ ControlFields(l, w, wr, fr, th, d)
<1>1. [l EXCEPT !.writer = wr, !.freed = fr, !.thread = th, !.dtor = d, !.cancelled = cn] \in LogState
  BY ZenonT(60) DEF LogState
<1>2. w = [l EXCEPT !.writer = wr, !.freed = fr, !.thread = th, !.dtor = d, !.cancelled = cn]
  BY DEF Controlled
<1>3. w \in LogState
  BY <1>1, <1>2
<1>4. /\ w.reg = l.reg /\ w.default = l.default /\ w.added = l.added /\ w.alive = l.alive
      /\ w.stream = l.stream /\ w.flushed = l.flushed /\ w.made = l.made
      /\ w.writer = wr /\ w.freed = fr /\ w.seen = l.seen /\ w.late = l.late
      /\ w.pending = l.pending /\ w.thread = th /\ w.held = l.held /\ w.dtor = d
  BY <1>2, ZenonT(60) DEF LogState
<1>5. /\ w.files = l.files /\ w.open = l.open /\ w.rotatedAt = l.rotatedAt /\ w.output = l.output
      /\ w.now = l.now /\ w.removed = l.removed /\ w.sent = l.sent /\ w.cleared = l.cleared
      /\ w.shown = l.shown /\ w.stale = l.stale
  BY <1>2, ZenonT(60) DEF LogState
<1>6. QED BY <1>3, <1>4, <1>5 DEF ControlFields

LEMMA ControlKeeps ==
    ASSUME NEW l, LoggerRight(l), NEW wr \in 0..2, NEW fr \in 0..2, NEW th \in LogPlace, NEW d \in LogPhase,
           NEW cn \in BOOLEAN, PlacesRight(wr, fr, l.seen, l.flushed, th, d, l.held.n, l.pending, l.late),
           NEW w, w = Controlled(l, wr, fr, th, d, cn)
    PROVE  LoggerRight(w)
<1>0. l \in LogState
  BY DEF LoggerRight
<1>1. w \in LogState /\ ControlFields(l, w, wr, fr, th, d)
  BY <1>0, ControlType
<1>2. ChannelsRight(w) /\ StreamRight(w)
  BY <1>1 DEF ControlFields, LoggerRight, ChannelsRight, StreamRight, Meant
<1>3. QueueRight(w) /\ OutputOrdered(w)
  BY <1>1 DEF ControlFields, LoggerRight, QueueRight, Waits, Meant, LastWritten, OutputOrdered
<1>4. SentRight(w) /\ FilesRight(w) /\ ThreadRight(w)
  BY <1>1 DEF ControlFields, LoggerRight, SentRight, Somewhere, FilesRight, ThreadRight
<1>5. QED BY <1>1, <1>2, <1>3, <1>4 DEF LoggerRight

LEMMA LevelRight == ASSUME LogInv, NEW l \in LogLevel, setLevel(l + 1) PROVE LogInv'
<1>0. lw \in LogState
  BY DEF LogInv, LoggerRight
<1>1. [lw.level EXCEPT ![1] = l + 1] \in [Channel -> Int] /\ lw.calls + 1 \in Nat
  <2>1. lw.level \in [Channel -> Int] /\ lw.calls \in Nat
    BY <1>0 DEF LogState
  <2>2. l + 1 \in Int
    BY LogAssumption
  <2>3. QED BY <2>1, <2>2
<1>2. lw' = [lw EXCEPT !.level = [lw.level EXCEPT ![1] = l + 1], !.calls = lw.calls + 1]
  BY DEF setLevel
<1>3. lw' \in LogState
  <2>1. [lw EXCEPT !.level = [lw.level EXCEPT ![1] = l + 1], !.calls = lw.calls + 1] \in LogState
    BY <1>0, <1>1, ZenonT(60) DEF LogState
  <2>2. QED BY <2>1, <1>2
<1>4. /\ lw'.reg = lw.reg /\ lw'.default = lw.default /\ lw'.added = lw.added /\ lw'.alive = lw.alive
      /\ lw'.stream = lw.stream /\ lw'.flushed = lw.flushed /\ lw'.made = lw.made
      /\ lw'.writer = lw.writer /\ lw'.freed = lw.freed /\ lw'.seen = lw.seen /\ lw'.late = lw.late
      /\ lw'.pending = lw.pending /\ lw'.thread = lw.thread /\ lw'.held = lw.held /\ lw'.dtor = lw.dtor
  BY <1>0, <1>2, ZenonT(60) DEF LogState
<1>5. /\ lw'.files = lw.files /\ lw'.open = lw.open /\ lw'.rotatedAt = lw.rotatedAt /\ lw'.output = lw.output
      /\ lw'.now = lw.now /\ lw'.removed = lw.removed /\ lw'.sent = lw.sent /\ lw'.cleared = lw.cleared
      /\ lw'.shown = lw.shown /\ lw'.stale = lw.stale
  BY <1>0, <1>2, ZenonT(60) DEF LogState
<1>6. ChannelsRight(lw') /\ StreamRight(lw')
  BY <1>4, <1>5 DEF LogInv, LoggerRight, ChannelsRight, StreamRight, Meant
<1>7. QueueRight(lw') /\ OutputOrdered(lw')
  BY <1>4, <1>5 DEF LogInv, LoggerRight, QueueRight, Waits, Meant, LastWritten, OutputOrdered
<1>8. SentRight(lw') /\ FilesRight(lw') /\ ThreadRight(lw')
  BY <1>4, <1>5 DEF LogInv, LoggerRight, SentRight, Somewhere, FilesRight, ThreadRight
<1>9. QED BY <1>3, <1>6, <1>7, <1>8 DEF LogInv, LoggerRight

LEMMA ControlRight ==
    ASSUME LogInv, \/ setWriter \/ AssignWriter \/ ThreadTest \/ Cancel \/ JoinThread
                   \/ ThreadNext /\ lw.pending = <<>>
                   \/ FlushNext /\ lw.pending = <<>>
    PROVE  LogInv'
<1>0. /\ lw \in LogState /\ LoggerRight(lw)
      /\ PlacesRight(lw.writer, lw.freed, lw.seen, lw.flushed, lw.thread, lw.dtor, lw.held.n, lw.pending, lw.late)
  BY DEF LogInv, LoggerRight, ThreadRight
<1>1. /\ lw.writer \in 0..2 /\ lw.freed \in 0..2 /\ lw.seen \in 0..2 /\ lw.thread \in LogPlace
      /\ lw.dtor \in LogPhase /\ lw.cancelled \in BOOLEAN
  BY <1>0, LogFields
<1>2. ASSUME NEW wr \in 0..2, NEW fr \in 0..2, NEW th \in LogPlace, NEW d \in LogPhase, NEW cn \in BOOLEAN,
             lw' = Controlled(lw, wr, fr, th, d, cn),
             PlacesRight(wr, fr, lw.seen, lw.flushed, th, d, lw.held.n, lw.pending, lw.late)
      PROVE  LogInv'
  BY <1>0, <1>2, ControlKeeps DEF LogInv
<1>3. {"none", "test", "next", "exited"} \subseteq LogPlace /\ {"none", "join", "flush", "ended"} \subseteq LogPhase
  BY DEF LogPlace, LogPhase
<1>4. CASE setWriter
  <2>1. lw' = Controlled(lw, lw.writer, 1, "test", lw.dtor, lw.cancelled)
    BY <1>0, <1>4 DEF setWriter, Controlled, LogState
  <2>2. PlacesRight(lw.writer, 1, lw.seen, lw.flushed, "test", lw.dtor, lw.held.n, lw.pending, lw.late)
    BY <1>0, <1>1, <1>4 DEF PlacesRight, setWriter
  <2>3. QED BY <1>1, <1>2, <1>3, <2>1, <2>2
<1>5. CASE AssignWriter
  <2>1. lw' = Controlled(lw, lw.freed, lw.freed, lw.thread, lw.dtor, lw.cancelled)
    BY <1>0, <1>5 DEF AssignWriter, Controlled, LogState
  <2>2. PlacesRight(lw.freed, lw.freed, lw.seen, lw.flushed, lw.thread, lw.dtor, lw.held.n, lw.pending, lw.late)
    BY <1>0, <1>1, <1>5 DEF PlacesRight, AssignWriter
  <2>3. QED BY <1>1, <1>2, <1>3, <2>1, <2>2
<1>6. CASE ThreadTest
  <2> DEFINE th == IF lw.cancelled THEN "exited" ELSE "next"
  <2>1. lw' = Controlled(lw, lw.writer, lw.freed, th, lw.dtor, lw.cancelled)
    BY <1>0, <1>6 DEF ThreadTest, Controlled, LogState
  <2>2. th \in {"next", "exited"}
    OBVIOUS
  <2> HIDE DEF th
  <2>3. PlacesRight(lw.writer, lw.freed, lw.seen, lw.flushed, th, lw.dtor, lw.held.n, lw.pending, lw.late)
    BY <1>0, <1>1, <1>6, <2>2 DEF PlacesRight, ThreadTest
  <2>4. QED BY <1>1, <1>2, <1>3, <2>1, <2>2, <2>3
<1>7. CASE Cancel
  <2>1. lw' = Controlled(lw, lw.writer, lw.freed, lw.thread, "join", TRUE)
    BY <1>0, <1>7 DEF Cancel, Controlled, LogState
  <2>2. PlacesRight(lw.writer, lw.freed, lw.seen, lw.flushed, lw.thread, "join", lw.held.n, lw.pending, lw.late)
    BY <1>0, <1>1, <1>7 DEF PlacesRight, Cancel
  <2>3. QED BY <1>1, <1>2, <1>3, <2>1, <2>2
<1>8. CASE JoinThread
  <2>1. lw' = Controlled(lw, lw.writer, lw.freed, lw.thread, "flush", lw.cancelled)
    BY <1>0, <1>8 DEF JoinThread, Controlled, LogState
  <2>2. PlacesRight(lw.writer, lw.freed, lw.seen, lw.flushed, lw.thread, "flush", lw.held.n, lw.pending, lw.late)
    BY <1>0, <1>1, <1>8 DEF PlacesRight, JoinThread
  <2>3. QED BY <1>1, <1>2, <1>3, <2>1, <2>2
<1>9. CASE ThreadNext /\ lw.pending = <<>>
  <2>1. lw' = Controlled(lw, lw.writer, lw.freed, "test", lw.dtor, lw.cancelled)
    BY <1>0, <1>9 DEF ThreadNext, Controlled, LogState
  <2>2. PlacesRight(lw.writer, lw.freed, lw.seen, lw.flushed, "test", lw.dtor, lw.held.n, lw.pending, lw.late)
    BY <1>0, <1>1, <1>9 DEF PlacesRight, ThreadNext
  <2>3. QED BY <1>1, <1>2, <1>3, <2>1, <2>2
<1>10. CASE FlushNext /\ lw.pending = <<>>
  <2>1. lw' = Controlled(lw, lw.writer, lw.freed, lw.thread, "ended", lw.cancelled)
    BY <1>0, <1>10 DEF FlushNext, Controlled, LogState
  <2>2. Len(lw.pending) = 0
    BY <1>10, EmptySeq
  <2>3. PlacesRight(lw.writer, lw.freed, lw.seen, lw.flushed, lw.thread, "ended", lw.held.n, lw.pending, lw.late)
    BY <1>0, <1>1, <1>10, <2>2 DEF PlacesRight, FlushNext
  <2>4. QED BY <1>1, <1>2, <1>3, <2>1, <2>3
<1>11. QED BY <1>4, <1>5, <1>6, <1>7, <1>8, <1>9, <1>10

\* The asynchronous writer is deleted, and what came late with it.
LEMMA DeleteRight == ASSUME LogInv, DeleteWriter PROVE LogInv'
<1>0. /\ lw \in LogState /\ lw.pending \in Seq(LogMessage) /\ lw.seen \in 0..2 /\ lw.writer \in 0..2
      /\ lw.freed \in 0..2
  BY LogFields DEF LogInv, LoggerRight
<1>1. lw' = [lw EXCEPT !.dtor = "gone", !.freed = 2, !.pending = <<>>]
  BY DEF DeleteWriter
<1>2. lw' \in LogState
  <2>1. <<>> \in Seq(LogMessage) /\ "gone" \in LogPhase /\ 2 \in 0..2
    BY EmptySeq DEF LogPhase
  <2>2. [lw EXCEPT !.dtor = "gone", !.freed = 2, !.pending = <<>>] \in LogState
    BY <1>0, <2>1, ZenonT(60) DEF LogState
  <2>3. QED BY <2>2, <1>1
<1>3. /\ lw'.reg = lw.reg /\ lw'.default = lw.default /\ lw'.added = lw.added /\ lw'.alive = lw.alive
      /\ lw'.stream = lw.stream /\ lw'.flushed = lw.flushed /\ lw'.made = lw.made
      /\ lw'.writer = lw.writer /\ lw'.freed = 2 /\ lw'.seen = lw.seen /\ lw'.late = lw.late
      /\ lw'.pending = <<>> /\ lw'.thread = lw.thread /\ lw'.held = lw.held /\ lw'.dtor = "gone"
  BY <1>0, <1>1, ZenonT(60) DEF LogState
<1>4. /\ lw'.files = lw.files /\ lw'.open = lw.open /\ lw'.rotatedAt = lw.rotatedAt /\ lw'.output = lw.output
      /\ lw'.now = lw.now /\ lw'.removed = lw.removed /\ lw'.sent = lw.sent /\ lw'.cleared = lw.cleared
      /\ lw'.shown = lw.shown /\ lw'.stale = lw.stale
  BY <1>0, <1>1, ZenonT(60) DEF LogState
<1>5. Len(lw'.pending) = 0
  BY <1>3, EmptySeq
<1>6. /\ lw.dtor = "ended" /\ lw.thread = "exited" /\ lw.held.n = 0
      /\ lw.seen <= lw.writer /\ lw.writer <= lw.freed
      /\ \A i \in 1..Len(lw.pending) : lw.pending[i].n \in lw.late
  BY DEF DeleteWriter, LogInv, LoggerRight, ThreadRight, PlacesRight
<1>7. ChannelsRight(lw') /\ StreamRight(lw') /\ OutputOrdered(lw') /\ FilesRight(lw')
  BY <1>3, <1>4 DEF LogInv, LoggerRight, ChannelsRight, StreamRight, Meant, OutputOrdered, LastWritten, FilesRight
<1>8. QueueRight(lw')
  <2>1. lw'.held.n = 0 /\ \A i \in 1..Len(lw'.pending) : FALSE
    BY <1>3, <1>5, <1>6
  <2>2. QED BY <2>1, Zenon DEF QueueRight
<1>9. SentRight(lw')
  <2> SUFFICES ASSUME NEW k \in Nat
               PROVE  (k \in lw'.sent => Somewhere(lw', k) \/ k \in lw'.late) /\ (Somewhere(lw', k) => k \in lw'.sent)
    BY DEF SentRight
  <2>1. (k \in lw.sent => Somewhere(lw, k) \/ k \in lw.late) /\ (Somewhere(lw, k) => k \in lw.sent)
    BY DEF LogInv, LoggerRight, SentRight
  <2>2. Somewhere(lw, k) => Somewhere(lw', k) \/ k \in lw.late
    BY <1>3, <1>4, <1>6 DEF Somewhere
  <2>3. Somewhere(lw', k) => Somewhere(lw, k)
    BY <1>3, <1>4, <1>5 DEF Somewhere
  <2>4. QED BY <1>3, <1>4, <2>1, <2>2, <2>3
<1>10. ThreadRight(lw')
  <2>1. PlacesRight(lw.writer, 2, lw.seen, lw.flushed, lw.thread, "gone", lw.held.n, <<>>, lw.late)
    BY <1>0, <1>6 DEF PlacesRight
  <2>2. QED BY <1>3, <2>1 DEF ThreadRight
<1>11. QED BY <1>2, <1>7, <1>8, <1>9, <1>10 DEF LogInv, LoggerRight

Taken(l, th, d, h, q) == [l EXCEPT !.thread = th, !.dtor = d, !.held = h, !.pending = q]

LEMMA TakenType ==
    ASSUME NEW l \in LogState, NEW th \in LogPlace,
           NEW d \in LogPhase, NEW h \in LogMessage, NEW q \in Seq(LogMessage),
           NEW w, w = Taken(l, th, d, h, q)
    PROVE  /\ w \in LogState
           /\ w.reg = l.reg /\ w.default = l.default /\ w.added = l.added /\ w.alive = l.alive
           /\ w.stream = l.stream /\ w.flushed = l.flushed /\ w.made = l.made
           /\ w.writer = l.writer /\ w.freed = l.freed /\ w.seen = l.seen /\ w.late = l.late
           /\ w.pending = q /\ w.thread = th /\ w.held = h /\ w.dtor = d
           /\ w.files = l.files /\ w.open = l.open /\ w.rotatedAt = l.rotatedAt /\ w.output = l.output
           /\ w.now = l.now /\ w.removed = l.removed /\ w.sent = l.sent /\ w.cleared = l.cleared
           /\ w.shown = l.shown /\ w.stale = l.stale
<1>1. [l EXCEPT !.thread = th, !.dtor = d, !.held = h, !.pending = q] \in LogState
  BY ZenonT(60) DEF LogState
<1>2. w = [l EXCEPT !.thread = th, !.dtor = d, !.held = h, !.pending = q]
  BY DEF Taken
<1>3. w \in LogState
  BY <1>1, <1>2
<1>4. /\ w.reg = l.reg /\ w.default = l.default /\ w.added = l.added /\ w.alive = l.alive
      /\ w.stream = l.stream /\ w.flushed = l.flushed /\ w.made = l.made
      /\ w.writer = l.writer /\ w.freed = l.freed /\ w.seen = l.seen /\ w.late = l.late
      /\ w.pending = q /\ w.thread = th /\ w.held = h /\ w.dtor = d
  BY <1>2 DEF LogState
<1>5. /\ w.files = l.files /\ w.open = l.open /\ w.rotatedAt = l.rotatedAt /\ w.output = l.output
      /\ w.now = l.now /\ w.removed = l.removed /\ w.sent = l.sent /\ w.cleared = l.cleared
      /\ w.shown = l.shown /\ w.stale = l.stale
  BY <1>2 DEF LogState
<1>6. QED BY <1>3, <1>4, <1>5

\* A message is taken from the queue.
LEMMA TakeKeeps ==
    ASSUME NEW l, LoggerRight(l), l.pending # <<>>, l.held.n = 0,
           NEW th \in LogPlace,
           NEW d \in LogPhase,
           th = "write" \/ d = "write", d \in {"flush", "write"} => th = "exited", d \notin {"ended", "gone"},
           NEW w,
           w = [l EXCEPT !.thread = th, !.dtor = d, !.held = Head(l.pending), !.pending = Tail(l.pending)]
    PROVE  LoggerRight(w)
<1> DEFINE h == Head(l.pending)
           q == Tail(l.pending)
<1>0. l \in LogState /\ l.pending \in Seq(LogMessage)
  BY LogFields DEF LoggerRight
<1>1. /\ h \in LogMessage /\ q \in Seq(LogMessage) /\ h = l.pending[1]
      /\ Len(l.pending) \in Nat /\ Len(l.pending) >= 1 /\ Len(q) = Len(l.pending) - 1
      /\ \A i \in 1..Len(q) : i + 1 \in 1..Len(l.pending) /\ q[i] = l.pending[i + 1]
      /\ 1 \in 1..Len(l.pending)
  <2>1. h \in LogMessage /\ q \in Seq(LogMessage)
    BY <1>0, HeadTailProperties
  <2>2. Len(l.pending) \in Nat /\ Len(l.pending) # 0
    BY <1>0, EmptySeq, LenProperties
  <2>3. h = l.pending[1] /\ Len(q) = Len(l.pending) - 1 /\ \A i \in 1..Len(q) : q[i] = l.pending[i + 1]
    BY <1>0, <2>2
  <2>4. QED BY <2>1, <2>2, <2>3
<1> HIDE DEF h, q
<1>2. w = Taken(l, th, d, h, q)
  BY DEF Taken, h, q
<1>3. w \in LogState
  BY <1>0, <1>1, <1>2, TakenType
<1>4. /\ w.reg = l.reg /\ w.default = l.default /\ w.added = l.added /\ w.alive = l.alive
      /\ w.stream = l.stream /\ w.flushed = l.flushed /\ w.made = l.made
      /\ w.writer = l.writer /\ w.freed = l.freed /\ w.seen = l.seen /\ w.late = l.late
      /\ w.pending = q /\ w.thread = th /\ w.held = h /\ w.dtor = d
      /\ w.files = l.files /\ w.open = l.open /\ w.rotatedAt = l.rotatedAt /\ w.output = l.output
      /\ w.now = l.now /\ w.removed = l.removed /\ w.sent = l.sent /\ w.cleared = l.cleared
      /\ w.shown = l.shown /\ w.stale = l.stale
  BY <1>0, <1>1, <1>2, TakenType
<1>5. \A m : Waits(w, m) <=> Waits(l, m)
  BY <1>4 DEF Waits, Meant, LastWritten
<1>6. Waits(l, h) /\ h.n # 0
  <2>1. Waits(l, h)
    BY <1>1 DEF LoggerRight, QueueRight
  <2>2. QED BY <2>1 DEF Waits
<1>7. \A i \in 1..Len(q) : Waits(l, q[i]) /\ h.n < q[i].n
  <2>1. \A i \in 1..Len(l.pending) : Waits(l, l.pending[i])
    BY DEF LoggerRight, QueueRight
  <2>2. \A i, j \in 1..Len(l.pending) : i < j => l.pending[i].n < l.pending[j].n
    BY DEF LoggerRight, QueueRight
  <2>3. \A i \in 1..Len(q) : Waits(l, q[i])
    BY <1>1, <2>1
  <2>4. \A i \in 1..Len(q) : 1 < i + 1
    BY <1>1
  <2>5. \A i \in 1..Len(q) : h.n < q[i].n
    BY <1>1, <2>2, <2>4
  <2>6. QED BY <2>3, <2>5
<1>8. \A i, j \in 1..Len(q) : i < j => q[i].n < q[j].n
  <2> SUFFICES ASSUME NEW i \in 1..Len(q), NEW j \in 1..Len(q), i < j PROVE q[i].n < q[j].n
    OBVIOUS
  <2>1. i + 1 \in 1..Len(l.pending) /\ j + 1 \in 1..Len(l.pending) /\ i + 1 < j + 1
    BY <1>1
  <2>2. l.pending[i + 1].n < l.pending[j + 1].n
    BY <2>1 DEF LoggerRight, QueueRight
  <2>3. QED BY <2>2, <1>1
<1>9. QueueRight(w)
  <2>1. w.held.n # 0 => Waits(w, w.held)
    BY <1>4, <1>5, <1>6
  <2>2. \A i \in 1..Len(w.pending) : Waits(w, w.pending[i]) /\ w.held.n < w.pending[i].n
    BY <1>4, <1>5, <1>7
  <2>3. \A i, j \in 1..Len(w.pending) : i < j => w.pending[i].n < w.pending[j].n
    <3>1. w.pending = q
      BY <1>4
    <3>2. QED BY <1>8, <3>1
  <2>4. QED BY <2>1, <2>2, <2>3 DEF QueueRight
<1>10. \A k : (\E i \in 1..Len(l.pending) : l.pending[i].n = k)
                <=> (h.n = k \/ \E i \in 1..Len(q) : q[i].n = k)
  <2> SUFFICES ASSUME NEW k
               PROVE (\E i \in 1..Len(l.pending) : l.pending[i].n = k)
                       <=> (h.n = k \/ \E i \in 1..Len(q) : q[i].n = k)
    OBVIOUS
  <2>1. ASSUME NEW i \in 1..Len(l.pending), l.pending[i].n = k
        PROVE  h.n = k \/ \E j \in 1..Len(q) : q[j].n = k
    <3>1. CASE i = 1
      BY <3>1, <2>1, <1>1
    <3>2. CASE i # 1
      <4>1. i - 1 \in 1..Len(q) /\ q[i - 1] = l.pending[i - 1 + 1] /\ i - 1 + 1 = i
        BY <3>2, <1>1
      <4>2. QED BY <4>1, <2>1
    <3>3. QED BY <3>1, <3>2
  <2>2. QED BY <2>1, <1>1
<1>11. SentRight(w)
  <2> SUFFICES ASSUME NEW k \in Nat
               PROVE  (k \in w.sent => Somewhere(w, k) \/ k \in w.late) /\ (Somewhere(w, k) => k \in w.sent)
    BY DEF SentRight
  <2>1. (k \in l.sent => Somewhere(l, k) \/ k \in l.late) /\ (Somewhere(l, k) => k \in l.sent)
    BY DEF LoggerRight, SentRight
  <2>2. ~(k # 0 /\ l.held.n = k) /\ (h.n = k => k # 0)
    BY <1>6
  <2>3. (\E i \in 1..Len(w.output) : w.output[i] = k) <=> \E i \in 1..Len(l.output) : l.output[i] = k
    BY <1>4
  <2>4. (\E i \in 1..Len(w.pending) : w.pending[i].n = k) <=> \E i \in 1..Len(q) : q[i].n = k
    BY <1>4
  <2>5. /\ (k \in w.sent <=> k \in l.sent) /\ (k \in w.cleared <=> k \in l.cleared)
        /\ (k \in w.late <=> k \in l.late) /\ w.held.n = h.n
    BY <1>4
  <2>6. (\E i \in 1..Len(l.pending) : l.pending[i].n = k)
          <=> (h.n = k \/ \E i \in 1..Len(q) : q[i].n = k)
    BY <1>10
  <2>7. Somewhere(w, k) <=> Somewhere(l, k)
    BY <2>2, <2>3, <2>4, <2>5, <2>6 DEF Somewhere
  <2>8. QED BY <2>1, <2>5, <2>7
<1>12. ThreadRight(w)
  <2>1. PlacesRight(l.writer, l.freed, l.seen, l.flushed, l.thread, l.dtor, l.held.n, l.pending, l.late)
    BY DEF LoggerRight, ThreadRight
  <2>2. l.freed \in 0..2 /\ l.writer \in 0..2 /\ l.seen \in 0..2
    BY <1>0, LogFields
  <2>3. PlacesRight(l.writer, l.freed, l.seen, l.flushed, th, d, h.n, q, l.late)
    BY <1>6, <2>1, <2>2 DEF PlacesRight
  <2>4. QED BY <1>4, <2>3 DEF ThreadRight
<1>13. ChannelsRight(w) /\ StreamRight(w) /\ OutputOrdered(w) /\ FilesRight(w)
  BY <1>4 DEF LoggerRight, ChannelsRight, StreamRight, Meant, OutputOrdered, LastWritten, FilesRight
<1>14. QED BY <1>3, <1>9, <1>11, <1>12, <1>13 DEF LoggerRight

\* A message m is written that is older than what waits and not held by anybody.
\* It is in sent of w.
LEMMA AppendOrdered ==
    ASSUME NEW s \in Seq(Nat), NEW n \in Nat, \A i \in 1..Len(s) : s[i] < n,
           \A i, j \in 1..Len(s) : i < j => s[i] < s[j]
    PROVE  /\ \A i, j \in 1..Len(Append(s, n)) : i < j => Append(s, n)[i] < Append(s, n)[j]
           /\ \A i \in 1..Len(Append(s, n)) : (i \in 1..Len(s) /\ Append(s, n)[i] = s[i]) \/ Append(s, n)[i] = n
           /\ \A i \in 1..Len(s) : i \in 1..Len(Append(s, n)) /\ Append(s, n)[i] = s[i]
           /\ Len(s) + 1 \in 1..Len(Append(s, n)) /\ Append(s, n)[Len(s) + 1] = n
<1>1. /\ Len(Append(s, n)) = Len(s) + 1 /\ Len(s) \in Nat /\ Append(s, n)[Len(s) + 1] = n
      /\ \A i \in 1..Len(s) : Append(s, n)[i] = s[i]
  OBVIOUS
<1>2. \A i \in 1..Len(Append(s, n)) : i \in 1..Len(s) \/ i = Len(s) + 1
  BY <1>1
<1>3. \A i \in 1..Len(s) : i \in 1..Len(Append(s, n))
  BY <1>1
<1>4. Len(s) + 1 \in 1..Len(Append(s, n))
  BY <1>1
<1>5. ASSUME NEW i \in 1..Len(Append(s, n)), NEW j \in 1..Len(Append(s, n)), i < j
      PROVE  Append(s, n)[i] < Append(s, n)[j]
  <2>1. i \in 1..Len(s)
    BY <1>1, <1>5
  <2>2. CASE j \in 1..Len(s)
    BY <2>1, <2>2, <1>1, <1>5
  <2>3. CASE j = Len(s) + 1
    BY <2>1, <2>3, <1>1
  <2>4. QED BY <2>2, <2>3, <1>2
<1>6. QED BY <1>1, <1>2, <1>3, <1>4, <1>5

\* The message held is written.
LEMMA WriteHeldKeeps ==
    ASSUME NEW l, LoggerRight(l), l.held.n # 0,
           NEW th \in LogPlace \ {"write"}, NEW d \in LogPhase \ {"write", "ended", "gone"},
           d = "flush" => th = "exited", NEW w,
           w = [ChannelWrite(l, l.held) EXCEPT !.held = Nothing, !.thread = th, !.dtor = d]
    PROVE  LoggerRight(w)
<1> DEFINE m == l.held
           c == ChannelWrite(l, m)
<1>0. /\ l \in LogState /\ m \in LogMessage /\ l.output \in Seq(Nat) /\ m.n \in Nat /\ m.to \in {0} \cup Channel
      /\ l.removed \in [Channel -> Nat] /\ l.made \in Nat
  BY LogFields, MessageFields DEF LoggerRight
<1>1. Waits(l, m) /\ m.to \in Channel
  BY <1>0 DEF LoggerRight, QueueRight, Waits
<1>2. /\ c \in LogState /\ FilesRight(c) /\ WriteLeaves(l, c) /\ c.output = Append(l.output, m.n)
      /\ c.stale = l.stale \/ (m.to \notin l.alive /\ c.stale = l.stale \cup {m.n})
  <2>1. FilesRight(l) /\ m.to # 0 /\ m.ts <= l.now /\ \A i \in 1..Len(l.output) : l.output[i] < m.n
    BY <1>1 DEF LoggerRight, Waits
  <2> HIDE DEF m
  <2>2. QED BY <1>0, <2>1, ChannelWriteRight
<1> HIDE DEF c
<1>3. w = [c EXCEPT !.held = Nothing, !.thread = th, !.dtor = d]
  BY DEF c
<1>4. w \in LogState
  <2>1. Nothing \in LogMessage
    BY DEF Nothing, LogMessage
  <2>2. [c EXCEPT !.held = Nothing, !.thread = th, !.dtor = d] \in LogState
    BY <1>2, <2>1, ZenonT(60) DEF LogState
  <2>3. QED BY <2>2, <1>3
<1>5. /\ w.reg = c.reg /\ w.default = c.default /\ w.added = c.added /\ w.alive = c.alive
      /\ w.stream = c.stream /\ w.flushed = c.flushed /\ w.made = c.made
      /\ w.writer = c.writer /\ w.freed = c.freed /\ w.seen = c.seen /\ w.late = c.late
      /\ w.pending = c.pending /\ w.thread = th /\ w.held = Nothing /\ w.dtor = d
      /\ w.files = c.files /\ w.open = c.open /\ w.rotatedAt = c.rotatedAt /\ w.output = c.output
      /\ w.now = c.now /\ w.removed = c.removed /\ w.sent = c.sent /\ w.cleared = c.cleared
      /\ w.shown = c.shown /\ w.stale = c.stale
  BY ZenonT(60), <1>2, <1>3 DEF LogState
<1>6. /\ w.reg = l.reg /\ w.default = l.default /\ w.added = l.added /\ w.alive = l.alive
      /\ w.stream = l.stream /\ w.flushed = l.flushed /\ w.made = l.made
      /\ w.writer = l.writer /\ w.freed = l.freed /\ w.seen = l.seen /\ w.late = l.late
      /\ w.pending = l.pending /\ w.now = l.now /\ w.removed = l.removed /\ w.sent = l.sent
      /\ w.cleared = l.cleared /\ w.output = Append(l.output, m.n) /\ w.held.n = 0
  BY <1>2, <1>5 DEF WriteLeaves, Nothing
<1>7. FilesRight(w)
  BY <1>2, <1>5 DEF FilesRight
<1>8. StreamRight(w)
  BY <1>6 DEF LoggerRight, StreamRight, Meant
<1>9. ThreadRight(w)
  <2>1. PlacesRight(l.writer, l.freed, l.seen, l.flushed, l.thread, l.dtor, l.held.n, l.pending, l.late)
    BY DEF LoggerRight, ThreadRight
  <2>2. l.freed \in 0..2 /\ l.writer \in 0..2 /\ l.seen \in 0..2 /\ l.held.n # 0
    BY <1>0, LogFields
  <2>3. PlacesRight(l.writer, l.freed, l.seen, l.flushed, th, d, 0, l.pending, l.late)
    BY <2>1, <2>2 DEF PlacesRight
  <2>4. QED BY <1>5, <1>6, <2>3 DEF ThreadRight
<1>10. ChannelsRight(w)
  <2>1. \A k \in w.stale : \E x \in Channel \ l.alive : k <= l.removed[x]
    BY <1>1, <1>2, <1>5 DEF LoggerRight, ChannelsRight, Waits, Meant
  <2>2. QED BY <2>1, <1>6 DEF LoggerRight, ChannelsRight
<1>11. \A i \in 1..Len(l.output) : l.output[i] < m.n
  BY <1>1 DEF Waits
<1>12. /\ \A i, j \in 1..Len(w.output) : i < j => w.output[i] < w.output[j]
       /\ \A i \in 1..Len(w.output) : (i \in 1..Len(l.output) /\ w.output[i] = l.output[i]) \/ w.output[i] = m.n
       /\ \A i \in 1..Len(l.output) : i \in 1..Len(w.output) /\ w.output[i] = l.output[i]
       /\ Len(l.output) + 1 \in 1..Len(w.output) /\ w.output[Len(l.output) + 1] = m.n
  <2>1. \A i, j \in 1..Len(l.output) : i < j => l.output[i] < l.output[j]
    BY DEF LoggerRight, OutputOrdered
  <2> DEFINE s == l.output
             n == m.n
  <2>2. s \in Seq(Nat) /\ n \in Nat /\ (\A i \in 1..Len(s) : s[i] < n) /\ w.output = Append(s, n)
    BY <1>0, <1>6, <1>11
  <2> HIDE DEF s, n, m
  <2>3. \A i, j \in 1..Len(s) : i < j => s[i] < s[j]
    BY <2>1 DEF s
  <2>4. /\ \A i, j \in 1..Len(Append(s, n)) : i < j => Append(s, n)[i] < Append(s, n)[j]
        /\ \A i \in 1..Len(Append(s, n)) : (i \in 1..Len(s) /\ Append(s, n)[i] = s[i]) \/ Append(s, n)[i] = n
        /\ \A i \in 1..Len(s) : i \in 1..Len(Append(s, n)) /\ Append(s, n)[i] = s[i]
        /\ Len(s) + 1 \in 1..Len(Append(s, n)) /\ Append(s, n)[Len(s) + 1] = n
    BY <2>2, <2>3, AppendOrdered
  <2>5. QED BY <2>2, <2>4 DEF s, n
<1>13. OutputOrdered(w)
  BY <1>1, <1>6, <1>12 DEF LoggerRight, OutputOrdered, Waits, LastWritten
<1>14. QueueRight(w)
  <2>1. ASSUME NEW i \in 1..Len(w.pending)
        PROVE  Waits(w, w.pending[i]) /\ w.held.n < w.pending[i].n
    <3>1. Waits(l, w.pending[i]) /\ m.n < w.pending[i].n
      BY <1>6 DEF LoggerRight, QueueRight
    <3>2. \A j \in 1..Len(w.output) : w.output[j] < w.pending[i].n
      BY <3>1, <1>12 DEF Waits
    <3>3. QED BY <3>1, <3>2, <1>6 DEF Waits, Meant, LastWritten
  <2>2. QED BY <2>1, <1>6 DEF LoggerRight, QueueRight
<1>15. SentRight(w)
  <2>1. \A k : (\E i \in 1..Len(w.output) : w.output[i] = k)
                 <=> (m.n = k \/ \E i \in 1..Len(l.output) : l.output[i] = k)
    BY <1>12
  <2> SUFFICES ASSUME NEW k \in Nat
               PROVE  (k \in w.sent => Somewhere(w, k) \/ k \in w.late) /\ (Somewhere(w, k) => k \in w.sent)
    BY DEF SentRight
  <2>2. (k \in l.sent => Somewhere(l, k) \/ k \in l.late) /\ (Somewhere(l, k) => k \in l.sent)
    BY DEF LoggerRight, SentRight
  <2>3. ~(k # 0 /\ w.held.n = k) /\ (m.n = k => k # 0)
    BY <1>6
  <2>4. (\E i \in 1..Len(w.pending) : w.pending[i].n = k) <=> \E i \in 1..Len(l.pending) : l.pending[i].n = k
    BY <1>6
  <2>5. /\ (k \in w.sent <=> k \in l.sent) /\ (k \in w.cleared <=> k \in l.cleared)
        /\ (k \in w.late <=> k \in l.late)
    BY <1>6
  <2>6. (\E i \in 1..Len(w.output) : w.output[i] = k)
          <=> (m.n = k \/ \E i \in 1..Len(l.output) : l.output[i] = k)
    BY <2>1
  <2>7. Somewhere(w, k) <=> Somewhere(l, k)
    BY <2>3, <2>4, <2>5, <2>6 DEF Somewhere
  <2>8. QED BY <2>2, <2>5, <2>7
<1>16. QED BY <1>4, <1>7, <1>8, <1>9, <1>10, <1>13, <1>14, <1>15 DEF LoggerRight

LEMMA TakeRight ==
    ASSUME LogInv, lw.pending # <<>>, ThreadNext \/ FlushNext
    PROVE  LogInv'
<1>0. lw \in LogState /\ LoggerRight(lw) /\ ThreadRight(lw) /\ lw.thread \in LogPlace /\ lw.dtor \in LogPhase
      /\ lw.held.n \in Nat
  <2>1. lw \in LogState /\ LoggerRight(lw) /\ ThreadRight(lw)
    BY DEF LogInv, LoggerRight
  <2>2. lw.thread \in LogPlace /\ lw.dtor \in LogPhase
    BY <2>1 DEF LogState
  <2>3. QED BY <2>1, <2>2, LogFields, MessageFields
<1>1. CASE ThreadNext
  <2>1. lw' = [lw EXCEPT !.thread = "write", !.dtor = lw.dtor, !.held = Head(lw.pending), !.pending = Tail(lw.pending)]
    BY <1>0, <1>1 DEF ThreadNext, LogState
  <2>2. lw.held.n = 0 /\ ~(lw.dtor \in {"flush", "write", "ended", "gone"})
    BY <1>0, <1>1 DEF ThreadRight, PlacesRight, ThreadNext
  <2>3. "write" \in LogPlace
    BY DEF LogPlace
  <2>4. QED BY <1>0, <2>1, <2>2, <2>3, TakeKeeps DEF LogInv
<1>2. CASE FlushNext
  <2>1. lw' = [lw EXCEPT !.thread = lw.thread, !.dtor = "write", !.held = Head(lw.pending), !.pending = Tail(lw.pending)]
    BY <1>0, <1>2 DEF FlushNext, LogState
  <2>2. lw.held.n = 0 /\ lw.thread = "exited"
    BY <1>0, <1>2 DEF ThreadRight, PlacesRight, FlushNext
  <2>3. "write" \in LogPhase
    BY DEF LogPhase
  <2>4. QED BY <1>0, <2>1, <2>2, <2>3, TakeKeeps DEF LogInv
<1>3. QED BY <1>1, <1>2

LEMMA WriteHeldRight ==
    ASSUME LogInv, ThreadWrite \/ FlushWrite
    PROVE  LogInv'
<1> DEFINE c == ChannelWrite(lw, lw.held)
<1>0. lw \in LogState /\ LoggerRight(lw) /\ ThreadRight(lw) /\ lw.thread \in LogPlace /\ lw.dtor \in LogPhase
  <2>1. lw \in LogState /\ LoggerRight(lw) /\ ThreadRight(lw)
    BY DEF LogInv, LoggerRight
  <2>2. lw.thread \in LogPlace /\ lw.dtor \in LogPhase
    BY <2>1 DEF LogState
  <2>3. QED BY <2>1, <2>2
<1>1. lw.held.n # 0
  BY <1>0 DEF ThreadRight, PlacesRight, ThreadWrite, FlushWrite
<1>2. c \in LogState /\ WriteLeaves(lw, c)
  <2>1. lw.held \in LogMessage /\ FilesRight(lw) /\ Waits(lw, lw.held)
    BY <1>0, <1>1, LogFields DEF LoggerRight, QueueRight
  <2>2. lw.held.to # 0 /\ lw.held.ts <= lw.now /\ \A i \in 1..Len(lw.output) : lw.output[i] < lw.held.n
    BY <2>1 DEF Waits
  <2>3. QED BY <1>0, <2>1, <2>2, ChannelWriteRight
<1>3. c.thread = lw.thread /\ c.dtor = lw.dtor
  BY <1>2 DEF WriteLeaves
<1>4. CASE ThreadWrite
  <2>1. lw' = [c EXCEPT !.held = Nothing, !.thread = "test", !.dtor = lw.dtor]
    <3> HIDE DEF c
    <3>1. lw' = [c EXCEPT !.held = Nothing, !.thread = "test"]
      BY <1>4 DEF ThreadWrite, c
    <3>2. QED BY <1>2, <1>3, <3>1 DEF LogState
  <2>2. lw.dtor \in LogPhase \ {"write", "ended", "gone"} /\ lw.dtor # "flush" /\ "test" \in LogPlace \ {"write"}
    BY <1>0, <1>4 DEF ThreadWrite, ThreadRight, PlacesRight, LogPlace
  <2>3. QED BY <1>0, <1>1, <2>1, <2>2, WriteHeldKeeps DEF LogInv
<1>5. CASE FlushWrite
  <2>1. lw' = [c EXCEPT !.held = Nothing, !.thread = lw.thread, !.dtor = "flush"]
    <3> HIDE DEF c
    <3>1. lw' = [c EXCEPT !.held = Nothing, !.dtor = "flush"]
      BY <1>5 DEF FlushWrite, c
    <3>2. QED BY <1>2, <1>3, <3>1 DEF LogState
  <2>2. lw.thread = "exited" /\ lw.thread \in LogPlace \ {"write"} /\ "flush" \in LogPhase \ {"write", "ended", "gone"}
    BY <1>0, <1>5 DEF FlushWrite, ThreadRight, PlacesRight, LogPhase
  <2>3. QED BY <1>0, <1>1, <2>1, <2>2, WriteHeldKeeps DEF LogInv
<1>6. QED BY <1>4, <1>5

LEMMA StreamKeeps ==
    ASSUME LogInv, lw.flushed = TRUE, NEW s \in LogMessage, s.n = lw.made + 1, s.ts = lw.now,
           s.to # 0 => s.to \in lw.alive,
           lw' = [lw EXCEPT !.made = lw.made + 1, !.flushed = FALSE, !.seen = lw.writer, !.stream = s]
    PROVE  LogInv'
<1>0. /\ lw \in LogState /\ lw.made \in Nat /\ lw.now \in Int
      /\ lw.removed \in [Channel -> Nat] /\ lw.output \in Seq(Nat)
  BY LogFields DEF LogInv, LoggerRight
<1>5. lw' \in LogState
  <2>1. lw.made + 1 \in Nat
    BY <1>0
  <2>2. [lw EXCEPT !.made = lw.made + 1, !.flushed = FALSE, !.seen = lw.writer, !.stream = s] \in LogState
    BY <1>0, <2>1, ZenonT(60) DEF LogState
  <2>3. QED BY <2>2
<1>6. /\ lw'.reg = lw.reg /\ lw'.default = lw.default /\ lw'.added = lw.added /\ lw'.alive = lw.alive
      /\ lw'.stream = s /\ lw'.flushed = FALSE /\ lw'.made = lw.made + 1
      /\ lw'.writer = lw.writer /\ lw'.freed = lw.freed /\ lw'.seen = lw.writer /\ lw'.late = lw.late
      /\ lw'.pending = lw.pending /\ lw'.thread = lw.thread /\ lw'.held = lw.held /\ lw'.dtor = lw.dtor
  BY <1>0 DEF LogState
<1>7. /\ lw'.files = lw.files /\ lw'.open = lw.open /\ lw'.rotatedAt = lw.rotatedAt /\ lw'.output = lw.output
      /\ lw'.now = lw.now /\ lw'.removed = lw.removed /\ lw'.sent = lw.sent /\ lw'.cleared = lw.cleared
      /\ lw'.shown = lw.shown /\ lw'.stale = lw.stale
  BY <1>0 DEF LogState
<1>8. LastWritten(lw') = LastWritten(lw)
  BY <1>0, <1>6 DEF LastWritten
<1>9. ChannelsRight(lw')
  <2>1. \A c \in Channel : lw.removed[c] <= lw.made + 1
    BY <1>0 DEF LogInv, LoggerRight, ChannelsRight
  <2>2. QED BY <1>6, <1>7, <2>1 DEF LogInv, LoggerRight, ChannelsRight
<1>10. StreamRight(lw')
  BY <1>0, <1>6, <1>7 DEF StreamRight, Meant
<1>11. \A m : Waits(lw', m) <=> Waits(lw, m)
  BY <1>6, <1>7, <1>8 DEF Waits, Meant
<1>12. QueueRight(lw') /\ OutputOrdered(lw')
  BY <1>6, <1>7, <1>8, <1>11 DEF LogInv, LoggerRight, QueueRight, OutputOrdered
<1>13. SentRight(lw') /\ FilesRight(lw')
  BY <1>6, <1>7 DEF LogInv, LoggerRight, SentRight, Somewhere, FilesRight
<1>14. ThreadRight(lw')
  <2>1. PlacesRight(lw.writer, lw.freed, lw.seen, lw.flushed, lw.thread, lw.dtor, lw.held.n, lw.pending, lw.late)
    BY DEF LogInv, LoggerRight, ThreadRight
  <2>2. lw.freed \in 0..2 /\ lw.writer \in 0..2 /\ lw.seen \in 0..2
    BY <1>0, LogFields
  <2>3. PlacesRight(lw.writer, lw.freed, lw.writer, FALSE, lw.thread, lw.dtor, lw.held.n, lw.pending, lw.late)
    BY <2>1, <2>2 DEF PlacesRight
  <2>4. QED BY <1>6, <2>3 DEF ThreadRight
<1>15. QED BY <1>5, <1>9, <1>10, <1>12, <1>13, <1>14 DEF LogInv, LoggerRight

LEMMA MadeKeeps ==
    ASSUME LogInv, lw.flushed = TRUE, NEW v \in LogLevel, NEW t,
           t = 0 \/ \E y \in Range(ChannelName) : t = lw.reg[y], NEW s,
           s = [n |-> lw.made + 1, to |-> t, level |-> v, ts |-> lw.now],
           lw' = [lw EXCEPT !.made = lw.made + 1, !.flushed = FALSE, !.seen = lw.writer, !.stream = s]
    PROVE  LogInv'
<1>1. /\ lw \in LogState /\ lw.made \in Nat /\ lw.now \in Int
      /\ lw.reg \in [Range(ChannelName) -> {0} \cup Channel]
  BY LogFields DEF LogInv, LoggerRight
<1>2. t \in {0} \cup Channel /\ (t # 0 => t \in lw.alive)
  BY <1>1 DEF LogInv, LoggerRight, ChannelsRight
<1>3. v \in Int
  BY LogAssumption
<1>4. s \in LogMessage /\ s.n = lw.made + 1 /\ s.ts = lw.now /\ s.to = t
  BY <1>1, <1>2, <1>3 DEF LogMessage
<1>5. QED BY <1>2, <1>4, StreamKeeps

LEMMA NewStreamRight ==
    ASSUME LogInv, NEW v \in LogLevel, NEW x \in Range(ChannelName) \cup {""}, NewStream(v, x)
    PROVE  LogInv'
<1> DEFINE t == IF x = "" THEN 0 ELSE lw.reg[x]
           s == [n |-> lw.made + 1, to |-> t, level |-> v, ts |-> lw.now]
<1>1. t = 0 \/ \E y \in Range(ChannelName) : t = lw.reg[y]
  BY Zenon
<1>2. lw' = [lw EXCEPT !.made = lw.made + 1, !.flushed = FALSE, !.seen = lw.writer, !.stream = s] /\ lw.flushed
  BY Zenon DEF NewStream
<1>3. lw.flushed = TRUE
  <2>1. lw.flushed \in BOOLEAN
    BY LogFields, Zenon DEF LogInv, LoggerRight
  <2>2. QED BY <1>2, <2>1, Zenon
<1> HIDE DEF t
<1>4. s = [n |-> lw.made + 1, to |-> t, level |-> v, ts |-> lw.now]
  BY Zenon
<1> HIDE DEF s
<1>5. QED BY <1>1, <1>2, <1>3, <1>4, MadeKeeps, Zenon

LEMMA ClearRight == ASSUME LogInv, clearLog PROVE LogInv'
<1> DEFINE gone == {m.n : m \in Range(lw.pending)}
<1>0. lw \in LogState /\ lw.pending \in Seq(LogMessage) /\ lw.cleared \subseteq Nat
  BY LogFields DEF LogInv, LoggerRight
<1>1. \A k : k \in gone <=> \E i \in 1..Len(lw.pending) : lw.pending[i].n = k
  BY <1>0 DEF Range
<1>2. lw.cleared \cup gone \in SUBSET Nat
  <2>1. \A i \in 1..Len(lw.pending) : lw.pending[i].n \in Nat
    BY <1>0, ElementOfSeq, MessageFields
  <2> HIDE DEF gone
  <2>2. QED BY <1>0, <1>1, <2>1
<1> HIDE DEF gone
<1>3. lw' = [lw EXCEPT !.cleared = lw.cleared \cup gone, !.pending = <<>>]
  BY DEF clearLog, gone
<1>4. lw' \in LogState
  <2>1. <<>> \in Seq(LogMessage)
    BY EmptySeq
  <2>2. [lw EXCEPT !.cleared = lw.cleared \cup gone, !.pending = <<>>] \in LogState
    BY <1>0, <1>2, <2>1, ZenonT(60) DEF LogState
  <2>3. QED BY <2>2, <1>3
<1>5. /\ lw'.reg = lw.reg /\ lw'.default = lw.default /\ lw'.added = lw.added /\ lw'.alive = lw.alive
      /\ lw'.stream = lw.stream /\ lw'.flushed = lw.flushed /\ lw'.made = lw.made
      /\ lw'.writer = lw.writer /\ lw'.freed = lw.freed /\ lw'.seen = lw.seen /\ lw'.late = lw.late
      /\ lw'.pending = <<>> /\ lw'.thread = lw.thread /\ lw'.held = lw.held /\ lw'.dtor = lw.dtor
  BY <1>0, <1>3 DEF LogState
<1>6. /\ lw'.files = lw.files /\ lw'.open = lw.open /\ lw'.rotatedAt = lw.rotatedAt /\ lw'.output = lw.output
      /\ lw'.now = lw.now /\ lw'.removed = lw.removed /\ lw'.sent = lw.sent
      /\ lw'.cleared = lw.cleared \cup gone /\ lw'.shown = lw.shown /\ lw'.stale = lw.stale
  BY <1>0, <1>3 DEF LogState
<1>7. Len(lw'.pending) = 0
  BY <1>5, EmptySeq
<1>8. ChannelsRight(lw') /\ StreamRight(lw') /\ OutputOrdered(lw') /\ FilesRight(lw')
  BY <1>5, <1>6 DEF LogInv, LoggerRight, ChannelsRight, StreamRight, Meant, OutputOrdered, LastWritten, FilesRight
<1>9. QueueRight(lw')
  <2>1. lw.held.n # 0 => Waits(lw, lw.held)
    BY DEF LogInv, LoggerRight, QueueRight
  <2>2. QED BY <1>5, <1>6, <1>7, <2>1 DEF QueueRight, Waits, Meant, LastWritten
<1>10. SentRight(lw')
  <2> SUFFICES ASSUME NEW k \in Nat
               PROVE  (k \in lw'.sent => Somewhere(lw', k) \/ k \in lw'.late) /\ (Somewhere(lw', k) => k \in lw'.sent)
    BY DEF SentRight
  <2>1. (k \in lw.sent => Somewhere(lw, k) \/ k \in lw.late) /\ (Somewhere(lw, k) => k \in lw.sent)
    BY DEF LogInv, LoggerRight, SentRight
  <2>2. /\ (\E i \in 1..Len(lw'.output) : lw'.output[i] = k) <=> \E i \in 1..Len(lw.output) : lw.output[i] = k
        /\ lw'.held.n = lw.held.n /\ (k \in lw'.sent <=> k \in lw.sent) /\ (k \in lw'.late <=> k \in lw.late)
    BY <1>5, <1>6
  <2>3. ~\E i \in 1..Len(lw'.pending) : lw'.pending[i].n = k
    BY <1>7
  <2>4. k \in lw'.cleared <=> k \in lw.cleared \/ \E i \in 1..Len(lw.pending) : lw.pending[i].n = k
    BY <1>1, <1>6
  <2>5. Somewhere(lw', k) <=> Somewhere(lw, k)
    BY <2>2, <2>3, <2>4 DEF Somewhere
  <2>6. QED BY <2>1, <2>2, <2>5
<1>11. ThreadRight(lw')
  <2>1. PlacesRight(lw.writer, lw.freed, lw.seen, lw.flushed, lw.thread, lw.dtor, lw.held.n, lw.pending, lw.late)
    BY DEF LogInv, LoggerRight, ThreadRight
  <2>2. PlacesRight(lw.writer, lw.freed, lw.seen, lw.flushed, lw.thread, lw.dtor, lw.held.n, <<>>, lw.late)
    BY <2>1 DEF PlacesRight, clearLog
  <2>3. QED BY <1>5, <2>2 DEF ThreadRight
<1>12. QED BY <1>4, <1>8, <1>9, <1>10, <1>11 DEF LogInv, LoggerRight

LEMMA TickRight == ASSUME LogInv, LogTick PROVE LogInv'
<1>0. lw \in LogState /\ lw.now \in 0..MaxLogTime /\ lw.now \in Int /\ lw.open \in Int
  BY LogFields DEF LogInv, LoggerRight
<1>1. lw' = [lw EXCEPT !.now = lw.now + 1]
  BY DEF LogTick
<1>2. lw' \in LogState
  <2>1. lw.now + 1 \in 0..MaxLogTime
    BY <1>0, LogTimes DEF LogTick
  <2>2. [lw EXCEPT !.now = lw.now + 1] \in LogState
    BY <1>0, <2>1, ZenonT(60) DEF LogState
  <2>3. QED BY <2>2, <1>1
<1>3. /\ lw'.reg = lw.reg /\ lw'.default = lw.default /\ lw'.added = lw.added /\ lw'.alive = lw.alive
      /\ lw'.stream = lw.stream /\ lw'.flushed = lw.flushed /\ lw'.made = lw.made
      /\ lw'.writer = lw.writer /\ lw'.freed = lw.freed /\ lw'.seen = lw.seen /\ lw'.late = lw.late
      /\ lw'.pending = lw.pending /\ lw'.thread = lw.thread /\ lw'.held = lw.held /\ lw'.dtor = lw.dtor
  BY <1>0, <1>1 DEF LogState
<1>4. /\ lw'.files = lw.files /\ lw'.open = lw.open /\ lw'.rotatedAt = lw.rotatedAt /\ lw'.output = lw.output
      /\ lw'.now = lw.now + 1 /\ lw'.removed = lw.removed /\ lw'.sent = lw.sent /\ lw'.cleared = lw.cleared
      /\ lw'.shown = lw.shown /\ lw'.stale = lw.stale
  BY <1>0, <1>1 DEF LogState
<1>5. ChannelsRight(lw') /\ OutputOrdered(lw') /\ SentRight(lw') /\ ThreadRight(lw')
  BY <1>3, <1>4 DEF LogInv, LoggerRight, ChannelsRight, OutputOrdered, LastWritten, SentRight, Somewhere, ThreadRight
<1>6. StreamRight(lw')
  <2>1. lw.stream.ts \in Int
    BY <1>0, LogFields, MessageFields
  <2>2. QED BY <1>0, <1>3, <1>4, <2>1 DEF LogInv, LoggerRight, StreamRight, Meant
<1>7. \A m \in LogMessage : Waits(lw, m) => Waits(lw', m)
  <2> SUFFICES ASSUME NEW m \in LogMessage, Waits(lw, m) PROVE Waits(lw', m)
    OBVIOUS
  <2>1. m.ts \in Int /\ m.ts <= lw.now
    BY MessageFields DEF Waits
  <2>2. m.ts <= lw'.now
    BY <1>0, <1>4, <2>1
  <2>3. QED BY <1>3, <1>4, <2>2 DEF Waits, Meant, LastWritten
<1>8. QueueRight(lw')
  <2>1. lw.held \in LogMessage /\ \A i \in 1..Len(lw.pending) : lw.pending[i] \in LogMessage
    BY <1>0, LogFields, ElementOfSeq
  <2>2. QED BY <1>3, <1>7, <2>1 DEF LogInv, LoggerRight, QueueRight
<1>9. FilesRight(lw')
  <2>1. OpenRight(lw.open, lw.rotatedAt, lw.now, lw.files) /\ FilesHold(lw.files, lw.shown[1], lw.output)
    BY DEF LogInv, LoggerRight, FilesRight
  <2>2. OpenRight(lw.open, lw.rotatedAt, lw.now + 1, lw.files)
    BY <1>0, <2>1 DEF OpenRight
  <2>3. QED BY <1>4, <2>1, <2>2 DEF FilesRight
<1>10. QED BY <1>2, <1>5, <1>6, <1>8, <1>9 DEF LogInv, LoggerRight

\* Channels are added and removed.
ChannelsMove(r, d, a, v, p) ==
    /\ r \in [Range(ChannelName) -> {0} \cup Channel] /\ d \in {0} \cup Channel
    /\ a \in SUBSET Channel /\ v \in SUBSET Channel /\ p \in [Channel -> Nat]
    /\ \A x \in Range(ChannelName) : r[x] # 0 => ChannelName[r[x]] = x /\ r[x] \in a /\ r[x] \in v
    /\ Channel \ a \subseteq v
    /\ d # 0 => d \in v
    /\ \A c \in Channel : lw.removed[c] <= p[c] /\ p[c] <= lw.made
    /\ v \subseteq lw.alive
    /\ \A c \in lw.alive \ v : p[c] = lw.made
    /\ lw' = [lw EXCEPT !.reg = r, !.default = d, !.added = a, !.alive = v, !.removed = p, !.calls = lw.calls + 1]

LEMMA ChannelsKeep ==
    ASSUME LogInv, NEW r, NEW d, NEW a, NEW v, NEW p, ChannelsMove(r, d, a, v, p)
    PROVE  LogInv'
<1> USE DEF ChannelsMove
<1>0. /\ lw \in LogState /\ lw.made \in Nat /\ lw.removed \in [Channel -> Nat] /\ lw.stale \subseteq Nat
      /\ lw.stream \in LogMessage /\ lw.held \in LogMessage /\ lw.pending \in Seq(LogMessage)
      /\ lw.alive \subseteq Channel /\ lw.calls \in Nat
  <2>1. lw \in LogState
    BY DEF LogInv, LoggerRight
  <2>2. lw.calls \in Nat
    BY <2>1 DEF LogState
  <2>3. QED BY <2>1, <2>2, LogFields
<1>1. lw' \in LogState
  <2>1. lw.calls + 1 \in Nat
    BY <1>0
  <2>2. [lw EXCEPT !.reg = r, !.default = d, !.added = a, !.alive = v, !.removed = p, !.calls = lw.calls + 1] \in LogState
    BY <1>0, <2>1, ZenonT(60) DEF LogState
  <2>3. QED BY <2>2
<1>2. /\ lw'.reg = r /\ lw'.default = d /\ lw'.added = a /\ lw'.alive = v
      /\ lw'.stream = lw.stream /\ lw'.flushed = lw.flushed /\ lw'.made = lw.made
      /\ lw'.writer = lw.writer /\ lw'.freed = lw.freed /\ lw'.seen = lw.seen /\ lw'.late = lw.late
      /\ lw'.pending = lw.pending /\ lw'.thread = lw.thread /\ lw'.held = lw.held /\ lw'.dtor = lw.dtor
  BY <1>0 DEF LogState
<1>3. /\ lw'.files = lw.files /\ lw'.open = lw.open /\ lw'.rotatedAt = lw.rotatedAt /\ lw'.output = lw.output
      /\ lw'.now = lw.now /\ lw'.removed = p /\ lw'.sent = lw.sent /\ lw'.cleared = lw.cleared
      /\ lw'.shown = lw.shown /\ lw'.stale = lw.stale
  BY <1>0 DEF LogState
<1>4. \A m \in LogMessage : m.to # 0 /\ m.n <= lw.made /\ Meant(lw, m) => Meant(lw', m)
  <2> SUFFICES ASSUME NEW m \in LogMessage, m.to # 0, m.n <= lw.made, Meant(lw, m) PROVE Meant(lw', m)
    OBVIOUS
  <2>1. m.n \in Nat /\ m.to \in Channel
    BY MessageFields
  <2>2. CASE m.to \in lw.alive
    BY <1>2, <1>3, <2>1, <2>2 DEF Meant
  <2>3. CASE m.n <= lw.removed[m.to]
    BY <1>0, <1>3, <2>1, <2>3 DEF Meant
  <2>4. QED BY <2>2, <2>3 DEF Meant
<1>5. \A m \in LogMessage : Waits(lw, m) => Waits(lw', m)
  <2> SUFFICES ASSUME NEW m \in LogMessage, Waits(lw, m) PROVE Waits(lw', m)
    OBVIOUS
  <2>1. m.n <= lw.made
    BY <1>0, MessageFields DEF Waits, LastWritten
  <2>2. QED BY <1>2, <1>3, <1>4, <2>1 DEF Waits, LastWritten
<1>6. QueueRight(lw')
  <2>1. \A i \in 1..Len(lw.pending) : lw.pending[i] \in LogMessage
    BY <1>0, ElementOfSeq
  <2>2. QED BY <1>0, <1>2, <1>5, <2>1 DEF LogInv, LoggerRight, QueueRight
<1>7. StreamRight(lw')
  <2>1. lw.stream.n \in Nat
    BY <1>0, MessageFields
  <2>2. QED BY <1>0, <1>2, <1>3, <1>4, <2>1 DEF LogInv, LoggerRight, StreamRight
<1>8. ChannelsRight(lw')
  <2>1. ASSUME NEW k \in lw.stale PROVE \E c \in Channel \ v : k <= p[c]
    <3>1. PICK c \in Channel \ lw.alive : k <= lw.removed[c]
      BY DEF LogInv, LoggerRight, ChannelsRight
    <3>2. k \in Nat /\ lw.removed[c] \in Nat /\ p[c] \in Nat
      BY <1>0
    <3>3. QED BY <3>1, <3>2
  <2>2. QED BY <2>1, <1>2, <1>3 DEF ChannelsRight
<1>9. OutputOrdered(lw') /\ SentRight(lw') /\ ThreadRight(lw') /\ FilesRight(lw')
  BY <1>2, <1>3 DEF LogInv, LoggerRight, OutputOrdered, LastWritten, SentRight, Somewhere, ThreadRight, FilesRight
<1> HIDE DEF ChannelsMove
<1>10. QED BY <1>1, <1>6, <1>7, <1>8, <1>9 DEF LogInv, LoggerRight

LEMMA AddChannelRight == ASSUME LogInv, NEW c \in Channel, addChannel(c) PROVE LogInv'
<1> DEFINE x == ChannelName[c]
           r == [lw.reg EXCEPT ![x] = c]
           d == IF lw.default = 0 THEN c ELSE lw.default
<1>0. /\ lw \in LogState /\ lw.reg \in [Range(ChannelName) -> {0} \cup Channel] /\ lw.default \in {0} \cup Channel
      /\ lw.removed \in [Channel -> Nat] /\ lw.alive \subseteq Channel /\ lw.added \subseteq Channel
      /\ lw.made \in Nat /\ ChannelsRight(lw)
  <2>1. lw \in LogState /\ ChannelsRight(lw)
    BY DEF LogInv, LoggerRight
  <2>2. lw.added \subseteq Channel
    BY <2>1 DEF LogState
  <2>3. QED BY <2>1, <2>2, LogFields
<1>1. x \in Range(ChannelName)
  BY LogTimes DEF Range
<1>2. c \notin lw.added /\ c \in lw.alive
  BY <1>0 DEF addChannel, ChannelsRight
<1>3. lw' = [lw EXCEPT !.reg = r, !.default = d, !.added = lw.added \cup {c},
                       !.alive = lw.alive, !.removed = lw.removed, !.calls = lw.calls + 1]
  <2>1. lw' = [lw EXCEPT !.reg = r, !.default = d, !.added = lw.added \cup {c}, !.calls = lw.calls + 1]
    BY DEF addChannel
  <2> HIDE DEF r, d
  <2>2. QED BY <1>0, <2>1 DEF LogState
<1>4. r \in [Range(ChannelName) -> {0} \cup Channel] /\ d \in {0} \cup Channel /\ (d # 0 => d \in lw.alive)
  BY <1>0, <1>1, <1>2 DEF ChannelsRight
<1>5. \A y \in Range(ChannelName) : r[y] # 0 =>
        ChannelName[r[y]] = y /\ r[y] \in lw.added \cup {c} /\ r[y] \in lw.alive
  <2> SUFFICES ASSUME NEW y \in Range(ChannelName), r[y] # 0
               PROVE  ChannelName[r[y]] = y /\ r[y] \in lw.added \cup {c} /\ r[y] \in lw.alive
    OBVIOUS
  <2>1. CASE y = x
    BY <1>0, <1>1, <1>2, <2>1
  <2>2. CASE y # x
    <3>1. r[y] = lw.reg[y]
      BY <1>0, <2>2
    <3>2. QED BY <1>0, <3>1 DEF ChannelsRight
  <2>3. QED BY <2>1, <2>2
<1>6. lw.added \cup {c} \in SUBSET Channel /\ Channel \ (lw.added \cup {c}) \subseteq lw.alive
  BY <1>0 DEF ChannelsRight
<1>7. \A k \in Channel : lw.removed[k] <= lw.removed[k] /\ lw.removed[k] <= lw.made
  BY <1>0 DEF ChannelsRight
<1> HIDE DEF r, d, x
<1>8. ChannelsMove(r, d, lw.added \cup {c}, lw.alive, lw.removed)
  BY <1>0, <1>3, <1>4, <1>5, <1>6, <1>7 DEF ChannelsMove
<1>9. QED BY <1>8, ChannelsKeep

LEMMA RemoveChannelRight == ASSUME LogInv, NEW x \in Range(ChannelName), removeChannel(x) PROVE LogInv'
<1> DEFINE c == lw.reg[x]
           r == [lw.reg EXCEPT ![x] = 0]
           d == IF lw.default = c THEN 0 ELSE lw.default
           p == [lw.removed EXCEPT ![c] = lw.made]
<1>0. /\ lw \in LogState /\ lw.reg \in [Range(ChannelName) -> {0} \cup Channel] /\ lw.default \in {0} \cup Channel
      /\ lw.removed \in [Channel -> Nat] /\ lw.alive \subseteq Channel /\ lw.added \subseteq Channel
      /\ lw.made \in Nat /\ ChannelsRight(lw)
  <2>1. lw \in LogState /\ ChannelsRight(lw)
    BY DEF LogInv, LoggerRight
  <2>2. lw.added \subseteq Channel
    BY <2>1 DEF LogState
  <2>3. QED BY <2>1, <2>2, LogFields
<1>1. c \in Channel /\ ChannelName[c] = x /\ c \in lw.added
  BY <1>0 DEF removeChannel, ChannelsRight
<1>2. lw' = [lw EXCEPT !.reg = r, !.default = d, !.added = lw.added,
                       !.alive = lw.alive \ {c}, !.removed = p, !.calls = lw.calls + 1]
  <2>1. lw' = [lw EXCEPT !.reg = r, !.default = d, !.alive = lw.alive \ {c}, !.removed = p, !.calls = lw.calls + 1]
    BY DEF removeChannel
  <2> HIDE DEF r, d, c, p
  <2>2. QED BY <1>0, <2>1 DEF LogState
<1>3. /\ r \in [Range(ChannelName) -> {0} \cup Channel] /\ d \in {0} \cup Channel /\ p \in [Channel -> Nat]
      /\ d # 0 => d \in lw.alive \ {c}
  BY <1>0, <1>1 DEF ChannelsRight
<1>4. \A y \in Range(ChannelName) : r[y] # 0 =>
        ChannelName[r[y]] = y /\ r[y] \in lw.added /\ r[y] \in lw.alive \ {c}
  <2> SUFFICES ASSUME NEW y \in Range(ChannelName), r[y] # 0
               PROVE  ChannelName[r[y]] = y /\ r[y] \in lw.added /\ r[y] \in lw.alive \ {c}
    OBVIOUS
  <2>1. y # x /\ r[y] = lw.reg[y]
    BY <1>0
  <2>2. ChannelName[r[y]] = y /\ r[y] \in lw.added /\ r[y] \in lw.alive
    BY <1>0, <2>1 DEF ChannelsRight
  <2>3. r[y] # c
    BY <1>1, <2>1, <2>2
  <2>4. QED BY <2>2, <2>3
<1>5. lw.alive \ {c} \in SUBSET Channel /\ Channel \ lw.added \subseteq lw.alive \ {c}
  BY <1>0, <1>1 DEF ChannelsRight
<1>6. \A k \in Channel : lw.removed[k] <= p[k] /\ p[k] <= lw.made
  BY <1>0, <1>1 DEF ChannelsRight
<1>7. \A k \in lw.alive \ (lw.alive \ {c}) : p[k] = lw.made
  BY <1>0, <1>1
<1> HIDE DEF r, d, c, p
<1>8. ChannelsMove(r, d, lw.added, lw.alive \ {c}, p)
  BY <1>0, <1>2, <1>3, <1>4, <1>5, <1>6, <1>7 DEF ChannelsMove
<1>9. QED BY <1>8, ChannelsKeep

-----------------------------------------------------------------------------
(* A message comes to the writer.                                          *)

\* m is the newest message, for a channel that exists or did when it was made.
Newest(l, m) ==
    /\ m \in LogMessage /\ m.n = l.made /\ m.n > 0 /\ m.to \in Channel /\ Meant(l, m) /\ m.ts <= l.now
    /\ \A i \in 1..Len(l.output) : l.output[i] < m.n
    /\ l.held.n < m.n
    /\ \A i \in 1..Len(l.pending) : l.pending[i].n < m.n

\* Nobody gets the message, whatever the writer that was deleted does.
LEMMA DroppedKeeps ==
    ASSUME LogInv, lw.flushed = FALSE, NEW lost \in SUBSET Nat, NEW cr \in BOOLEAN,
           lw' = [lw EXCEPT !.sent = lw.sent \cup lost, !.late = lw.late \cup lost, !.crashed = cr,
                            !.flushed = TRUE, !.seen = 0]
    PROVE  LogInv'
<1>0. lw \in LogState /\ lw.made \in Nat /\ lw.output \in Seq(Nat)
      /\ lw.held \in LogMessage /\ lw.pending \in Seq(LogMessage)
      /\ lw.sent \cup lost \in SUBSET Nat /\ lw.late \cup lost \in SUBSET Nat
  BY LogFields DEF LogInv, LoggerRight
<1>1. lw' \in LogState
  <2>1. [lw EXCEPT !.sent = lw.sent \cup lost, !.late = lw.late \cup lost, !.crashed = cr,
                   !.flushed = TRUE, !.seen = 0] \in LogState
    <3>1. 0 \in 0..2
      OBVIOUS
    <3>2. QED BY <1>0, <3>1, ZenonT(60) DEF LogState
  <2>2. QED BY <2>1
<1>2. /\ lw'.reg = lw.reg /\ lw'.default = lw.default /\ lw'.added = lw.added /\ lw'.alive = lw.alive
      /\ lw'.stream = lw.stream /\ lw'.flushed = TRUE /\ lw'.made = lw.made
      /\ lw'.writer = lw.writer /\ lw'.freed = lw.freed /\ lw'.seen = 0 /\ lw'.late = lw.late \cup lost
      /\ lw'.pending = lw.pending /\ lw'.thread = lw.thread /\ lw'.held = lw.held /\ lw'.dtor = lw.dtor
  BY <1>0, ZenonT(60) DEF LogState
<1>3. /\ lw'.files = lw.files /\ lw'.open = lw.open /\ lw'.rotatedAt = lw.rotatedAt /\ lw'.output = lw.output
      /\ lw'.now = lw.now /\ lw'.removed = lw.removed /\ lw'.sent = lw.sent \cup lost /\ lw'.cleared = lw.cleared
      /\ lw'.shown = lw.shown /\ lw'.stale = lw.stale
  BY <1>0, ZenonT(60) DEF LogState
<1>4. LastWritten(lw) = lw.made - 1 /\ LastWritten(lw') = lw.made
  BY <1>2 DEF LastWritten
<1>5. ChannelsRight(lw') /\ StreamRight(lw') /\ SentRight(lw') /\ ThreadRight(lw') /\ FilesRight(lw')
  <2>1. ChannelsRight(lw') /\ StreamRight(lw') /\ FilesRight(lw')
    BY <1>2, <1>3 DEF LogInv, LoggerRight, ChannelsRight, StreamRight, FilesRight
  <2>2. SentRight(lw')
    <3>1. \A k : Somewhere(lw', k) <=> Somewhere(lw, k)
      BY <1>2, <1>3 DEF Somewhere
    <3>2. QED BY <1>2, <1>3, <3>1 DEF LogInv, LoggerRight, SentRight
  <2>3. ThreadRight(lw')
    <3>1. PlacesRight(lw.writer, lw.freed, lw.seen, lw.flushed, lw.thread, lw.dtor, lw.held.n, lw.pending, lw.late)
      BY DEF LogInv, LoggerRight, ThreadRight
    <3>2. lw.freed \in 0..2 /\ lw.writer \in 0..2
      BY <1>0, LogFields
    <3>3. PlacesRight(lw.writer, lw.freed, 0, TRUE, lw.thread, lw.dtor, lw.held.n, lw.pending, lw.late \cup lost)
      BY <3>1, <3>2 DEF PlacesRight
    <3>4. QED BY <1>2, <3>3 DEF ThreadRight
  <2>4. QED BY <2>1, <2>2, <2>3
<1>6. OutputOrdered(lw')
  <2>1. \A i \in 1..Len(lw.output) : lw.output[i] \in Nat /\ lw.output[i] > 0 /\ lw.output[i] <= lw.made - 1
    BY <1>0, <1>4, ElementOfSeq DEF LogInv, LoggerRight, OutputOrdered
  <2>2. \A i \in 1..Len(lw.output) : lw.output[i] > 0 /\ lw.output[i] <= lw.made
    BY <1>0, <2>1
  <2>3. QED BY <1>3, <1>4, <2>2 DEF LogInv, LoggerRight, OutputOrdered
<1>7. \A m \in LogMessage : Waits(lw, m) => Waits(lw', m)
  <2> SUFFICES ASSUME NEW m \in LogMessage, Waits(lw, m) PROVE Waits(lw', m)
    OBVIOUS
  <2>1. m.n \in Nat /\ m.n <= lw.made - 1
    BY <1>4, MessageFields DEF Waits
  <2>2. m.n <= lw.made
    BY <1>0, <2>1
  <2>3. QED BY <1>2, <1>3, <1>4, <2>2 DEF Waits, Meant
<1>8. QueueRight(lw')
  <2>1. \A i \in 1..Len(lw.pending) : lw.pending[i] \in LogMessage
    BY <1>0, ElementOfSeq
  <2>2. QED BY <1>0, <1>2, <1>7, <2>1 DEF LogInv, LoggerRight, QueueRight
<1>9. QED BY <1>1, <1>5, <1>6, <1>8 DEF LogInv, LoggerRight

LEMMA QueuedKeeps ==
    ASSUME LogInv, lw.flushed = FALSE, lw.writer = 1, lw.freed = 1, NEW m, Newest(lw, m),
           NEW e \in SUBSET Nat, lw.dtor = "ended" => m.n \in e,
           lw' = [lw EXCEPT !.sent = lw.sent \cup {m.n}, !.late = lw.late \cup e,
                            !.pending = Append(lw.pending, m), !.flushed = TRUE, !.seen = 0]
    PROVE  LogInv'
<1> DEFINE q == Append(lw.pending, m)
           k == Len(lw.pending)
<1>0. /\ lw \in LogState /\ lw.made \in Nat /\ lw.output \in Seq(Nat) /\ lw.sent \subseteq Nat
      /\ lw.held \in LogMessage /\ lw.pending \in Seq(LogMessage) /\ m \in LogMessage /\ m.n \in Nat
  BY LogFields, MessageFields DEF LogInv, LoggerRight, Newest
<1>1. /\ q \in Seq(LogMessage) /\ k \in Nat /\ Len(q) = k + 1 /\ q[k + 1] = m
      /\ \A i \in 1..k : q[i] = lw.pending[i]
  BY <1>0, AppendProperties
<1>2. /\ \A i \in 1..Len(q) : i \in 1..k \/ i = k + 1
      /\ \A i \in 1..k : i \in 1..Len(q)
      /\ k + 1 \in 1..Len(q)
  BY <1>1
<1> HIDE DEF q
<1>3. lw' = [lw EXCEPT !.sent = lw.sent \cup {m.n}, !.late = lw.late \cup e, !.pending = q,
                       !.flushed = TRUE, !.seen = 0]
  BY DEF q
<1>4. lw' \in LogState
  <2>1. lw.sent \cup {m.n} \in SUBSET Nat /\ lw.late \cup e \in SUBSET Nat /\ 0 \in 0..2
    BY <1>0, LogFields
  <2>2. [lw EXCEPT !.sent = lw.sent \cup {m.n}, !.late = lw.late \cup e, !.pending = q,
                   !.flushed = TRUE, !.seen = 0] \in LogState
    BY <1>0, <1>1, <2>1, ZenonT(60) DEF LogState
  <2>3. QED BY <2>2, <1>3
<1>5. /\ lw'.reg = lw.reg /\ lw'.default = lw.default /\ lw'.added = lw.added /\ lw'.alive = lw.alive
      /\ lw'.stream = lw.stream /\ lw'.flushed = TRUE /\ lw'.made = lw.made
      /\ lw'.writer = lw.writer /\ lw'.freed = lw.freed /\ lw'.seen = 0 /\ lw'.late = lw.late \cup e
      /\ lw'.pending = q /\ lw'.thread = lw.thread /\ lw'.held = lw.held /\ lw'.dtor = lw.dtor
  <2>1. lw \in LogState
    BY <1>0
  <2>2. QED BY ZenonT(60), <2>1, <1>3 DEF LogState
<1>6. /\ lw'.files = lw.files /\ lw'.open = lw.open /\ lw'.rotatedAt = lw.rotatedAt /\ lw'.output = lw.output
      /\ lw'.now = lw.now /\ lw'.removed = lw.removed /\ lw'.sent = lw.sent \cup {m.n}
      /\ lw'.cleared = lw.cleared /\ lw'.shown = lw.shown /\ lw'.stale = lw.stale
  <2>1. lw \in LogState
    BY <1>0
  <2>2. QED BY <2>1, <1>3 DEF LogState
<1>7. LastWritten(lw) = lw.made - 1 /\ LastWritten(lw') = lw.made
  BY <1>5 DEF LastWritten
<1>8. ChannelsRight(lw') /\ StreamRight(lw') /\ ThreadRight(lw') /\ FilesRight(lw')
  <2>1. ChannelsRight(lw') /\ StreamRight(lw') /\ FilesRight(lw')
    BY <1>5, <1>6 DEF LogInv, LoggerRight, ChannelsRight, StreamRight, FilesRight
  <2>2. PlacesRight(lw.writer, lw.freed, lw.seen, lw.flushed, lw.thread, lw.dtor, lw.held.n, lw.pending, lw.late)
    BY DEF LogInv, LoggerRight, ThreadRight
  <2>3. lw.dtor = "ended" => \A i \in 1..Len(q) : q[i].n \in lw.late \cup e
    <3>1. lw.dtor = "ended" => \A i \in 1..k : lw.pending[i].n \in lw.late
      BY <2>2 DEF PlacesRight
    <3>2. QED BY <1>1, <1>2, <3>1
  <2>4. PlacesRight(1, 1, 0, TRUE, lw.thread, lw.dtor, lw.held.n, q, lw.late \cup e)
    BY <2>2, <2>3 DEF PlacesRight
  <2>5. ThreadRight(lw')
    BY <1>5, <2>4 DEF ThreadRight
  <2>6. QED BY <2>1, <2>5
<1>9. OutputOrdered(lw')
  <2>1. \A i \in 1..Len(lw.output) : lw.output[i] \in Nat /\ lw.output[i] > 0 /\ lw.output[i] <= lw.made - 1
    BY <1>0, <1>7, ElementOfSeq DEF LogInv, LoggerRight, OutputOrdered
  <2>2. \A i \in 1..Len(lw.output) : lw.output[i] > 0 /\ lw.output[i] <= lw.made
    BY <1>0, <2>1
  <2>3. QED BY <1>6, <1>7, <2>2 DEF LogInv, LoggerRight, OutputOrdered
<1>10. \A x \in LogMessage : Waits(lw, x) => Waits(lw', x)
  <2> SUFFICES ASSUME NEW x \in LogMessage, Waits(lw, x) PROVE Waits(lw', x)
    OBVIOUS
  <2>1. x.n \in Nat /\ x.n <= lw.made - 1
    BY <1>7, MessageFields DEF Waits
  <2>2. x.n <= lw.made
    BY <1>0, <2>1
  <2>3. QED BY <1>5, <1>6, <1>7, <2>2 DEF Waits, Meant
<1>11. Waits(lw', m)
  <2>1. m.to # 0 /\ m.n <= lw.made
    BY <1>0 DEF Newest
  <2>2. QED BY <1>5, <1>6, <1>7, <2>1 DEF Newest, Waits, Meant
<1>12. \A i \in 1..k : lw.pending[i] \in LogMessage
  BY <1>0, ElementOfSeq
<1>13. QueueRight(lw')
  <2>1. lw'.held.n # 0 => Waits(lw', lw'.held)
    BY <1>0, <1>5, <1>10 DEF LogInv, LoggerRight, QueueRight
  <2>2. ASSUME NEW i \in 1..Len(q) PROVE Waits(lw', q[i]) /\ lw.held.n < q[i].n
    <3>1. CASE i \in 1..k
      BY <1>1, <1>10, <1>12, <3>1 DEF LogInv, LoggerRight, QueueRight
    <3>2. CASE i = k + 1
      BY <1>1, <1>11, <3>2 DEF Newest
    <3>3. QED BY <1>2, <3>1, <3>2
  <2>3. ASSUME NEW i \in 1..Len(q), NEW j \in 1..Len(q), i < j PROVE q[i].n < q[j].n
    <3>1. i \in 1..k
      BY <1>1, <2>3
    <3>2. CASE j \in 1..k
      BY <1>1, <2>3, <3>1, <3>2 DEF LogInv, LoggerRight, QueueRight
    <3>3. CASE j = k + 1
      BY <1>1, <3>1, <3>3 DEF Newest
    <3>4. QED BY <1>2, <3>2, <3>3
  <2>4. QED BY <1>5, <2>1, <2>2, <2>3 DEF QueueRight
<1>14. SentRight(lw')
  <2> SUFFICES ASSUME NEW n \in Nat
               PROVE  (n \in lw'.sent => Somewhere(lw', n) \/ n \in lw'.late) /\ (Somewhere(lw', n) => n \in lw'.sent)
    BY DEF SentRight
  <2>1. (n \in lw.sent => Somewhere(lw, n) \/ n \in lw.late) /\ (Somewhere(lw, n) => n \in lw.sent)
    BY DEF LogInv, LoggerRight, SentRight
  <2>2. /\ (\E i \in 1..Len(lw'.output) : lw'.output[i] = n) <=> \E i \in 1..Len(lw.output) : lw.output[i] = n
        /\ lw'.held.n = lw.held.n /\ (n \in lw'.cleared <=> n \in lw.cleared)
        /\ n \in lw'.sent <=> n \in lw.sent \/ n = m.n
        /\ n \in lw.late => n \in lw'.late
    BY <1>5, <1>6
  <2>3. (\E i \in 1..Len(lw'.pending) : lw'.pending[i].n = n)
          <=> (n = m.n \/ \E i \in 1..Len(lw.pending) : lw.pending[i].n = n)
    <3>1. (\E i \in 1..Len(q) : q[i].n = n) <=> (n = m.n \/ \E i \in 1..k : lw.pending[i].n = n)
      BY <1>1, <1>2
    <3>2. QED BY <3>1, <1>5
  <2>4. Somewhere(lw', n) <=> Somewhere(lw, n) \/ n = m.n
    BY <2>2, <2>3 DEF Somewhere
  <2>5. QED BY <2>1, <2>2, <2>4
<1>15. QED BY <1>4, <1>8, <1>9, <1>13, <1>14 DEF LogInv, LoggerRight

\* What handing over a message changes.
HandedFields(l, g, s, e) ==
    /\ g.reg = l.reg /\ g.default = l.default /\ g.added = l.added /\ g.alive = l.alive
    /\ g.stream = l.stream /\ g.flushed = l.flushed /\ g.made = l.made
    /\ g.writer = l.writer /\ g.freed = l.freed /\ g.seen = l.seen /\ g.late = e
    /\ g.pending = l.pending /\ g.thread = l.thread /\ g.held = l.held /\ g.dtor = l.dtor
    /\ g.files = l.files /\ g.open = l.open /\ g.rotatedAt = l.rotatedAt /\ g.output = l.output
    /\ g.now = l.now /\ g.removed = l.removed /\ g.sent = s /\ g.cleared = l.cleared
    /\ g.shown = l.shown /\ g.stale = l.stale

LEMMA HandedType ==
    ASSUME NEW l \in LogState, NEW s \in SUBSET Nat, NEW e \in SUBSET Nat,
           NEW g, g = [l EXCEPT !.sent = s, !.late = e]
    PROVE  /\ g \in LogState
           /\ HandedFields(l, g, s, e)
<1>1. g \in LogState
  BY ZenonT(60) DEF LogState
<1>2. /\ g.reg = l.reg /\ g.default = l.default /\ g.added = l.added /\ g.alive = l.alive
      /\ g.stream = l.stream /\ g.flushed = l.flushed /\ g.made = l.made
      /\ g.writer = l.writer /\ g.freed = l.freed /\ g.seen = l.seen /\ g.late = e
      /\ g.pending = l.pending /\ g.thread = l.thread /\ g.held = l.held /\ g.dtor = l.dtor
  BY ZenonT(60) DEF LogState
<1>3. /\ g.files = l.files /\ g.open = l.open /\ g.rotatedAt = l.rotatedAt /\ g.output = l.output
      /\ g.now = l.now /\ g.removed = l.removed /\ g.sent = s /\ g.cleared = l.cleared
      /\ g.shown = l.shown /\ g.stale = l.stale
  BY ZenonT(60) DEF LogState
<1>4. QED BY <1>1, <1>2, <1>3 DEF HandedFields

DoneFields(c, w) ==
    /\ w.reg = c.reg /\ w.default = c.default /\ w.added = c.added /\ w.alive = c.alive
    /\ w.stream = c.stream /\ w.flushed = TRUE /\ w.made = c.made
    /\ w.writer = c.writer /\ w.freed = c.freed /\ w.seen = 0 /\ w.late = c.late
    /\ w.pending = c.pending /\ w.thread = c.thread /\ w.held = c.held /\ w.dtor = c.dtor
    /\ w.files = c.files /\ w.open = c.open /\ w.rotatedAt = c.rotatedAt /\ w.output = c.output
    /\ w.now = c.now /\ w.removed = c.removed /\ w.sent = c.sent /\ w.cleared = c.cleared
    /\ w.shown = c.shown /\ w.stale = c.stale

LEMMA DoneType ==
    ASSUME NEW c \in LogState, NEW w, w = [c EXCEPT !.flushed = TRUE, !.seen = 0]
    PROVE  /\ w \in LogState
           /\ DoneFields(c, w)
<1>1. w \in LogState
  <2>1. 0 \in 0..2
    OBVIOUS
  <2>2. QED BY <2>1, ZenonT(60) DEF LogState
<1>2. /\ w.reg = c.reg /\ w.default = c.default /\ w.added = c.added /\ w.alive = c.alive
      /\ w.stream = c.stream /\ w.flushed = TRUE /\ w.made = c.made
      /\ w.writer = c.writer /\ w.freed = c.freed /\ w.seen = 0 /\ w.late = c.late
      /\ w.pending = c.pending /\ w.thread = c.thread /\ w.held = c.held /\ w.dtor = c.dtor
  BY ZenonT(60) DEF LogState
<1>3. /\ w.files = c.files /\ w.open = c.open /\ w.rotatedAt = c.rotatedAt /\ w.output = c.output
      /\ w.now = c.now /\ w.removed = c.removed /\ w.sent = c.sent /\ w.cleared = c.cleared
      /\ w.shown = c.shown /\ w.stale = c.stale
  BY ZenonT(60) DEF LogState
<1>4. QED BY <1>1, <1>2, <1>3 DEF DoneFields

LEMMA WrittenKeeps ==
    ASSUME LogInv, lw.flushed = FALSE, lw.pending = <<>>, lw.held.n = 0, NEW m, Newest(lw, m),
           NEW e \in SUBSET Nat,
           lw' = [ChannelWrite([lw EXCEPT !.sent = lw.sent \cup {m.n}, !.late = lw.late \cup e], m)
                    EXCEPT !.flushed = TRUE, !.seen = 0]
    PROVE  LogInv'
<1> DEFINE g == [lw EXCEPT !.sent = lw.sent \cup {m.n}, !.late = lw.late \cup e]
           c == ChannelWrite(g, m)
<1>0. /\ lw \in LogState /\ lw.made \in Nat /\ lw.output \in Seq(Nat) /\ lw.sent \subseteq Nat
      /\ lw.held \in LogMessage /\ m \in LogMessage /\ m.n \in Nat /\ m.to \in Channel
  BY LogFields, MessageFields DEF LogInv, LoggerRight, Newest
<1>1. /\ g \in LogState
      /\ g.reg = lw.reg /\ g.default = lw.default /\ g.added = lw.added /\ g.alive = lw.alive
      /\ g.stream = lw.stream /\ g.flushed = lw.flushed /\ g.made = lw.made
      /\ g.writer = lw.writer /\ g.freed = lw.freed /\ g.seen = lw.seen /\ g.late = lw.late \cup e
      /\ g.pending = lw.pending /\ g.thread = lw.thread /\ g.held = lw.held /\ g.dtor = lw.dtor
      /\ g.files = lw.files /\ g.open = lw.open /\ g.rotatedAt = lw.rotatedAt /\ g.output = lw.output
      /\ g.now = lw.now /\ g.removed = lw.removed /\ g.sent = lw.sent \cup {m.n} /\ g.cleared = lw.cleared
      /\ g.shown = lw.shown /\ g.stale = lw.stale
  <2>1. lw.sent \cup {m.n} \in SUBSET Nat /\ lw.late \cup e \in SUBSET Nat
    BY <1>0, LogFields
  <2> HIDE DEF g
  <2>2. g = [lw EXCEPT !.sent = lw.sent \cup {m.n}, !.late = lw.late \cup e]
    BY DEF g
  <2> DEFINE t == lw.sent \cup {m.n}
             u == lw.late \cup e
  <2>3. g = [lw EXCEPT !.sent = t, !.late = u] /\ t \in SUBSET Nat /\ u \in SUBSET Nat
    BY <2>1, <2>2
  <2> HIDE DEF t, u
  <2>4. g \in LogState /\ HandedFields(lw, g, t, u)
    BY <1>0, <2>3, HandedType
  <2>5. QED BY <2>4 DEF t, u, HandedFields
<1> HIDE DEF g
<1>2. FilesRight(g)
  BY <1>1 DEF LogInv, LoggerRight, FilesRight
<1>3. /\ c \in LogState /\ FilesRight(c) /\ WriteLeaves(g, c) /\ c.output = Append(lw.output, m.n)
      /\ c.stale = lw.stale \/ (m.to \notin lw.alive /\ c.stale = lw.stale \cup {m.n})
  <2>1. m.to # 0 /\ m.ts <= g.now /\ \A i \in 1..Len(g.output) : g.output[i] < m.n
    BY <1>0, <1>1 DEF Newest
  <2>2. c = ChannelWrite(g, m)
    OBVIOUS
  <2> HIDE DEF c
  <2>3. FilesRight(g) /\ m \in LogMessage
    BY <1>0, <1>2
  <2>4. /\ c \in LogState /\ FilesRight(c) /\ WriteLeaves(g, c) /\ c.output = Append(g.output, m.n)
        /\ c.stale = g.stale \/ (m.to \notin g.alive /\ c.stale = g.stale \cup {m.n})
    BY <1>1, <2>1, <2>2, <2>3, ChannelWriteRight
  <2>5. g.output = lw.output /\ g.stale = lw.stale /\ g.alive = lw.alive
    BY <1>1
  <2>6. QED BY <2>4, <2>5
<1>4. lw' = [c EXCEPT !.flushed = TRUE, !.seen = 0]
  BY DEF g
<1> HIDE DEF c
<1>5. /\ lw' \in LogState
      /\ lw'.reg = c.reg /\ lw'.default = c.default /\ lw'.added = c.added /\ lw'.alive = c.alive
      /\ lw'.stream = c.stream /\ lw'.flushed = TRUE /\ lw'.made = c.made
      /\ lw'.writer = c.writer /\ lw'.freed = c.freed /\ lw'.seen = 0 /\ lw'.late = c.late
      /\ lw'.pending = c.pending /\ lw'.thread = c.thread /\ lw'.held = c.held /\ lw'.dtor = c.dtor
      /\ lw'.files = c.files /\ lw'.open = c.open /\ lw'.rotatedAt = c.rotatedAt /\ lw'.output = c.output
      /\ lw'.now = c.now /\ lw'.removed = c.removed /\ lw'.sent = c.sent /\ lw'.cleared = c.cleared
      /\ lw'.shown = c.shown /\ lw'.stale = c.stale
  <2>1. c \in LogState
    BY <1>3
  <2>2. lw' \in LogState /\ DoneFields(c, lw')
    BY <2>1, <1>4, DoneType
  <2>3. QED BY <2>2 DEF DoneFields
<1>6. lw.pending = <<>> /\ Len(lw.pending) = 0 /\ lw.held.n = 0
  BY EmptySeq
<1>7. /\ lw'.reg = lw.reg /\ lw'.default = lw.default /\ lw'.added = lw.added /\ lw'.alive = lw.alive
      /\ lw'.made = lw.made /\ lw'.pending = lw.pending
      /\ lw'.writer = lw.writer /\ lw'.freed = lw.freed /\ lw'.seen = 0 /\ lw'.late = lw.late \cup e
      /\ lw'.thread = lw.thread /\ lw'.held = lw.held /\ lw'.dtor = lw.dtor
      /\ lw'.now = lw.now /\ lw'.removed = lw.removed /\ lw'.sent = lw.sent \cup {m.n}
      /\ lw'.cleared = lw.cleared /\ lw'.output = Append(lw.output, m.n)
  <2>1. WriteLeaves(g, c) /\ c.output = Append(lw.output, m.n)
    BY <1>3
  <2>2. QED BY ZenonT(60), <1>1, <1>5, <2>1 DEF WriteLeaves
<1>8. FilesRight(lw')
  BY <1>3, <1>5 DEF FilesRight
<1>9. StreamRight(lw') /\ QueueRight(lw') /\ ThreadRight(lw')
  <2>1. StreamRight(lw')
    BY <1>5 DEF StreamRight
  <2>2. QueueRight(lw')
    <3>1. Len(lw'.pending) = 0 /\ lw'.held.n = 0
      BY <1>6, <1>7
    <3>2. \A i \in 1..Len(lw'.pending) : FALSE
      BY <3>1
    <3>3. QED BY <3>1, <3>2, Zenon DEF QueueRight
  <2>3. PlacesRight(lw.writer, lw.freed, lw.seen, lw.flushed, lw.thread, lw.dtor, lw.held.n, lw.pending, lw.late)
    BY DEF LogInv, LoggerRight, ThreadRight
  <2>4. ThreadRight(lw')
    <3>1. lw.freed \in 0..2 /\ lw.writer \in 0..2
      BY <1>0, LogFields
    <3>2. PlacesRight(lw.writer, lw.freed, 0, TRUE, lw.thread, lw.dtor, lw.held.n, lw.pending, lw.late \cup e)
      BY <1>6, <2>3, <3>1 DEF PlacesRight
    <3>3. lw'.flushed = TRUE
      BY <1>5
    <3>4. QED BY <1>7, <3>2, <3>3, Zenon DEF ThreadRight
  <2>5. QED BY <2>1, <2>2, <2>4
<1>10. ChannelsRight(lw')
  <2>1. \A k \in lw'.stale : \E x \in Channel \ lw.alive : k <= lw.removed[x]
    <3>1. \A k \in lw.stale : \E x \in Channel \ lw.alive : k <= lw.removed[x]
      BY DEF LogInv, LoggerRight, ChannelsRight
    <3>2. m.to \notin lw.alive => m.n <= lw.removed[m.to]
      BY DEF Newest, Meant
    <3>3. CASE c.stale = lw.stale
      BY <1>5, <3>1, <3>3
    <3>4. CASE m.to \notin lw.alive /\ c.stale = lw.stale \cup {m.n}
      <4>1. m.to \in Channel \ lw.alive /\ m.n <= lw.removed[m.to]
        BY <1>0, <3>2, <3>4
      <4>2. \A k \in lw'.stale : k \in lw.stale \/ k = m.n
        BY <1>5, <3>4
      <4>3. QED BY <3>1, <4>1, <4>2, Zenon
    <3>5. QED BY <1>3, <3>3, <3>4
  <2>2. QED BY <2>1, <1>7 DEF LogInv, LoggerRight, ChannelsRight
<1>11. /\ \A i, j \in 1..Len(lw'.output) : i < j => lw'.output[i] < lw'.output[j]
       /\ \A i \in 1..Len(lw'.output) :
             (i \in 1..Len(lw.output) /\ lw'.output[i] = lw.output[i]) \/ lw'.output[i] = m.n
       /\ \A i \in 1..Len(lw.output) : i \in 1..Len(lw'.output) /\ lw'.output[i] = lw.output[i]
       /\ Len(lw.output) + 1 \in 1..Len(lw'.output) /\ lw'.output[Len(lw.output) + 1] = m.n
  <2> DEFINE s == lw.output
             n == m.n
  <2>1. s \in Seq(Nat) /\ n \in Nat /\ lw'.output = Append(s, n)
    BY <1>0, <1>7
  <2>2. \A i \in 1..Len(s) : s[i] < n
    BY DEF Newest
  <2>3. \A i, j \in 1..Len(s) : i < j => s[i] < s[j]
    BY DEF LogInv, LoggerRight, OutputOrdered
  <2> HIDE DEF s, n
  <2>4. /\ \A i, j \in 1..Len(Append(s, n)) : i < j => Append(s, n)[i] < Append(s, n)[j]
        /\ \A i \in 1..Len(Append(s, n)) : (i \in 1..Len(s) /\ Append(s, n)[i] = s[i]) \/ Append(s, n)[i] = n
        /\ \A i \in 1..Len(s) : i \in 1..Len(Append(s, n)) /\ Append(s, n)[i] = s[i]
        /\ Len(s) + 1 \in 1..Len(Append(s, n)) /\ Append(s, n)[Len(s) + 1] = n
    BY <2>1, <2>2, <2>3, AppendOrdered
  <2>5. QED BY <2>1, <2>4 DEF s, n
<1>12. OutputOrdered(lw')
  <2>1. LastWritten(lw') = lw.made /\ LastWritten(lw) = lw.made - 1
    BY <1>5, <1>7 DEF LastWritten
  <2>2. \A i \in 1..Len(lw.output) : lw.output[i] > 0 /\ lw.output[i] \in Nat /\ lw.output[i] <= lw.made
    <3>1. \A i \in 1..Len(lw.output) : lw.output[i] > 0 /\ lw.output[i] <= lw.made - 1 /\ lw.output[i] \in Nat
      BY <1>0, <2>1, ElementOfSeq DEF LogInv, LoggerRight, OutputOrdered
    <3>2. QED BY <1>0, <3>1
  <2>3. m.n > 0 /\ m.n <= lw.made
    BY <1>0 DEF Newest
  <2>4. \A i \in 1..Len(lw'.output) : lw'.output[i] > 0 /\ lw'.output[i] <= lw.made
    BY <1>11, <2>2, <2>3
  <2>5. QED BY <1>11, <2>1, <2>4 DEF OutputOrdered
<1>13. SentRight(lw')
  <2> SUFFICES ASSUME NEW k \in Nat
               PROVE  (k \in lw'.sent => Somewhere(lw', k) \/ k \in lw'.late) /\ (Somewhere(lw', k) => k \in lw'.sent)
    BY DEF SentRight
  <2>1. (k \in lw.sent => Somewhere(lw, k) \/ k \in lw.late) /\ (Somewhere(lw, k) => k \in lw.sent)
    BY DEF LogInv, LoggerRight, SentRight
  <2>2. (\E i \in 1..Len(lw'.output) : lw'.output[i] = k)
          <=> (m.n = k \/ \E i \in 1..Len(lw.output) : lw.output[i] = k)
    BY <1>11
  <2>3. /\ (\E i \in 1..Len(lw'.pending) : lw'.pending[i].n = k)
             <=> \E i \in 1..Len(lw.pending) : lw.pending[i].n = k
        /\ lw'.held.n = lw.held.n /\ (k \in lw'.cleared <=> k \in lw.cleared)
        /\ k \in lw'.sent <=> k \in lw.sent \/ k = m.n
        /\ k \in lw.late => k \in lw'.late
    BY <1>7
  <2>4. Somewhere(lw', k) <=> Somewhere(lw, k) \/ k = m.n
    BY <2>2, <2>3 DEF Somewhere
  <2>5. QED BY <2>1, <2>3, <2>4
<1>14. QED BY <1>5, <1>8, <1>9, <1>10, <1>12, <1>13 DEF LogInv, LoggerRight

LEMMA FlushRight == ASSUME LogInv, Flush PROVE LogInv'
<1> DEFINE s == lw.stream
           t == IF s.to = 0 THEN lw.default ELSE s.to
           m == [s EXCEPT !.to = t]
           Handed(e) == [lw EXCEPT !.sent = lw.sent \cup {m.n}, !.late = lw.late \cup e]
<1>0. /\ lw \in LogState /\ s \in LogMessage /\ lw.default \in {0} \cup Channel /\ lw.flushed = FALSE
      /\ lw.made \in Nat /\ lw.output \in Seq(Nat) /\ lw.held \in LogMessage /\ lw.pending \in Seq(LogMessage)
      /\ lw.writer \in 0..2 /\ lw.freed \in 0..2 /\ lw.seen \in 0..2
  <2>1. lw \in LogState
    BY DEF LogInv, LoggerRight
  <2>2. QED BY <2>1, LogFields DEF Flush
<1>1. s.n = lw.made /\ lw.made > 0 /\ s.ts <= lw.now /\ (s.to # 0 => Meant(lw, s))
  BY <1>0 DEF LogInv, LoggerRight, StreamRight
<1>2. m \in LogMessage /\ m.n = s.n /\ m.ts = s.ts /\ m.to = t /\ t \in {0} \cup Channel
  BY <1>0 DEF LogMessage
<1>3. t # 0 => Meant(lw, m)
  <2>1. CASE s.to = 0
    BY <1>2, <2>1 DEF LogInv, LoggerRight, ChannelsRight, Meant
  <2>2. CASE s.to # 0
    BY <1>1, <1>2, <2>2 DEF Meant
  <2>3. QED BY <2>1, <2>2
<1>4. PICK w \in lw.seen..lw.writer : \E l \in Write(lw, s, w) : lw' = [l EXCEPT !.flushed = TRUE, !.seen = 0]
  BY DEF Flush
<1>5. PICK l \in Write(lw, s, w) : lw' = [l EXCEPT !.flushed = TRUE, !.seen = 0]
  BY <1>4
<1>6. /\ t = 0 => l = lw
      /\ t # 0 /\ w < lw.freed =>
            l \in {Handed({m.n}), [Handed({m.n}) EXCEPT !.crashed = TRUE], ChannelWrite(Handed({m.n}), m)}
      /\ t # 0 /\ ~(w < lw.freed) /\ w = 1 =>
            l = [Handed(IF lw.dtor = "ended" THEN {m.n} ELSE {}) EXCEPT !.pending = Append(@, m)]
      /\ t # 0 /\ ~(w < lw.freed) /\ w # 1 => l = ChannelWrite(Handed({}), m)
  <2>1. m = [s EXCEPT !.to = IF @ = 0 THEN lw.default ELSE @]
    OBVIOUS
  <2>2. m.to = t
    BY <1>2
  <2>3. l \in IF m.to = 0 THEN {lw}
              ELSE IF w < lw.freed THEN {Handed({m.n}), [Handed({m.n}) EXCEPT !.crashed = TRUE], ChannelWrite(Handed({m.n}), m)}
              ELSE IF w = 1 THEN {[Handed(IF lw.dtor = "ended" THEN {m.n} ELSE {}) EXCEPT !.pending = Append(@, m)]}
              ELSE {ChannelWrite(Handed({}), m)}
    BY <1>5, <2>1 DEF Write
  <2> HIDE DEF m, t, Handed
  <2>4. QED BY <2>2, <2>3
<1>7. t # 0 => Newest(lw, m)
  <2> HIDE DEF m, t
  <2>1. LastWritten(lw) = lw.made - 1
    BY <1>0 DEF LastWritten
  <2>2. \A i \in 1..Len(lw.output) : lw.output[i] < m.n
    <3>1. \A i \in 1..Len(lw.output) : lw.output[i] \in Nat /\ lw.output[i] <= lw.made - 1
      BY <1>0, <2>1, ElementOfSeq DEF LogInv, LoggerRight, OutputOrdered
    <3>2. QED BY <1>0, <1>1, <1>2, <3>1
  <2>3. lw.held.n < m.n
    <3>1. lw.held.n \in Nat /\ (lw.held.n # 0 => lw.held.n <= lw.made - 1)
      BY <1>0, <2>1, MessageFields DEF LogInv, LoggerRight, QueueRight, Waits
    <3>2. QED BY <1>0, <1>1, <1>2, <3>1
  <2>4. \A i \in 1..Len(lw.pending) : lw.pending[i].n < m.n
    <3>1. \A i \in 1..Len(lw.pending) : lw.pending[i].n \in Nat /\ lw.pending[i].n <= lw.made - 1
      BY <1>0, <2>1, ElementOfSeq, MessageFields DEF LogInv, LoggerRight, QueueRight, Waits
    <3>2. QED BY <1>0, <1>1, <1>2, <3>1
  <2>5. QED BY <1>1, <1>2, <1>3, <2>2, <2>3, <2>4 DEF Newest
<1> HIDE DEF m, t
<1>8. PlacesRight(lw.writer, lw.freed, lw.seen, lw.flushed, lw.thread, lw.dtor, lw.held.n, lw.pending, lw.late)
  BY DEF LogInv, LoggerRight, ThreadRight
<1>9. w \in 0..2 /\ lw.seen <= w /\ w <= lw.writer /\ lw.writer <= lw.freed
  BY <1>0, <1>5, <1>8 DEF PlacesRight
<1>10. t # 0 => m.n \in Nat
  BY <1>7, MessageFields DEF Newest
<1>11. CASE t = 0
  <2>1. lw' = [lw EXCEPT !.flushed = TRUE, !.seen = 0]
    BY <1>5, <1>6, <1>11
  <2>2. lw' = [lw EXCEPT !.sent = lw.sent \cup {}, !.late = lw.late \cup {}, !.crashed = lw.crashed,
                         !.flushed = TRUE, !.seen = 0]
    BY <1>0, <2>1 DEF LogState
  <2>3. {} \in SUBSET Nat /\ lw.crashed \in BOOLEAN
    BY <1>0, LogFields
  <2>4. QED BY <1>0, <2>2, <2>3, DroppedKeeps
<1>12. CASE t # 0 /\ w < lw.freed
  <2>1. lw.pending = <<>> /\ lw.held.n = 0
    BY <1>0, <1>8, <1>9, <1>12 DEF PlacesRight
  <2>2. {m.n} \in SUBSET Nat /\ lw.crashed \in BOOLEAN
    BY <1>0, <1>10, <1>12, LogFields
  <2>3. CASE l = Handed({m.n})
    <3>1. lw' = [lw EXCEPT !.sent = lw.sent \cup {m.n}, !.late = lw.late \cup {m.n}, !.crashed = lw.crashed,
                           !.flushed = TRUE, !.seen = 0]
      BY <1>0, <1>5, <2>3 DEF LogState
    <3>2. QED BY <1>0, <2>2, <3>1, DroppedKeeps
  <2>4. CASE l = [Handed({m.n}) EXCEPT !.crashed = TRUE]
    <3>1. lw' = [lw EXCEPT !.sent = lw.sent \cup {m.n}, !.late = lw.late \cup {m.n}, !.crashed = TRUE,
                           !.flushed = TRUE, !.seen = 0]
      BY <1>5, <2>4
    <3>2. QED BY <1>0, <2>2, <3>1, DroppedKeeps
  <2>5. CASE l = ChannelWrite(Handed({m.n}), m)
    <3>1. lw' = [ChannelWrite([lw EXCEPT !.sent = lw.sent \cup {m.n}, !.late = lw.late \cup {m.n}], m)
                   EXCEPT !.flushed = TRUE, !.seen = 0]
      BY <1>5, <2>5
    <3>2. QED BY <1>0, <1>7, <1>12, <2>1, <2>2, <3>1, WrittenKeeps
  <2> HIDE DEF Handed
  <2>6. QED BY <1>6, <1>12, <2>3, <2>4, <2>5
<1>13. CASE t # 0 /\ ~(w < lw.freed) /\ w = 1
  <2> DEFINE e == IF lw.dtor = "ended" THEN {m.n} ELSE {}
  <2>1. lw.writer = 1 /\ lw.freed = 1
    BY <1>0, <1>9, <1>13
  <2>2. e \in SUBSET Nat /\ (lw.dtor = "ended" => m.n \in e)
    BY <1>10, <1>13
  <2>3. l = [Handed(e) EXCEPT !.pending = Append(@, m)]
    BY <1>6, <1>13
  <2> HIDE DEF e
  <2>4. Handed(e).pending = lw.pending
    BY <1>0 DEF LogState
  <2>5. lw' = [lw EXCEPT !.sent = lw.sent \cup {m.n}, !.late = lw.late \cup e,
                         !.pending = Append(lw.pending, m), !.flushed = TRUE, !.seen = 0]
    BY <1>5, <2>3, <2>4
  <2>6. QED BY <1>0, <1>7, <1>13, <2>1, <2>2, <2>5, QueuedKeeps
<1>14. CASE t # 0 /\ ~(w < lw.freed) /\ w # 1
  <2>1. lw.pending = <<>> /\ lw.held.n = 0
    <3>1. lw.freed # 1
      BY <1>0, <1>9, <1>14
    <3>2. QED BY <1>8, <3>1 DEF PlacesRight
  <2>2. lw' = [ChannelWrite([lw EXCEPT !.sent = lw.sent \cup {m.n}, !.late = lw.late \cup {}], m)
                 EXCEPT !.flushed = TRUE, !.seen = 0]
    BY <1>5, <1>6, <1>14
  <2>3. {} \in SUBSET Nat
    OBVIOUS
  <2>4. QED BY <1>0, <1>7, <1>14, <2>1, <2>2, <2>3, WrittenKeeps
<1>15. QED BY <1>11, <1>12, <1>13, <1>14

LEMMA LogNextRight == LogInv /\ [LogNext]_lw => LogInv'
<1> SUFFICES ASSUME LogInv, [LogNext]_lw PROVE LogInv'
  OBVIOUS
<1>1. ASSUME NEW c \in Channel, addChannel(c) PROVE LogInv'
  BY <1>1, AddChannelRight
<1>2. ASSUME NEW x \in Range(ChannelName), removeChannel(x) PROVE LogInv'
  BY <1>2, RemoveChannelRight
<1>3. ASSUME NEW l \in LogLevel, setLevel(l + 1) PROVE LogInv'
  BY <1>3, LevelRight
<1>4. ASSUME NEW l \in LogLevel, NEW x \in Range(ChannelName) \cup {""}, NewStream(l, x) PROVE LogInv'
  BY <1>4, NewStreamRight, Zenon
<1>5. CASE Flush
  BY <1>5, FlushRight
<1>6. CASE clearLog
  BY <1>6, ClearRight
<1>7. CASE LogTick
  BY <1>7, TickRight
<1>8. CASE setWriter \/ AssignWriter \/ Cancel
  BY <1>8, ControlRight
<1>9. CASE LogThread
  BY <1>9, ControlRight, TakeRight, WriteHeldRight DEF LogThread
<1>10. CASE Destructor
  BY <1>10, ControlRight, TakeRight, WriteHeldRight, DeleteRight DEF Destructor
<1>11. CASE UNCHANGED lw
  BY <1>11 DEF LogInv
<1>12. QED BY <1>1, <1>2, <1>3, <1>4, <1>5, <1>6, <1>7, <1>8, <1>9, <1>10, <1>11, Zenon DEF LogNext, LogSteps

-----------------------------------------------------------------------------
(* What the invariant says of the sequences.                               *)

LEMMA RangeIs ==
    ASSUME NEW s \in Seq(Nat)
    PROVE  \A k : k \in Range(s) <=> \E i \in 1..Len(s) : s[i] = k
<1>1. DOMAIN s = 1..Len(s)
  BY LenProperties
<1>2. QED BY <1>1, Zenon DEF Range

ConcatRight(a, b, c) ==
    /\ \A i \in 1..Len(c) :
          \/ i \in 1..Len(a) /\ c[i] = a[i]
          \/ i > Len(a) /\ i - Len(a) \in 1..Len(b) /\ c[i] = b[i - Len(a)]
    /\ \A i \in 1..Len(a) : \E k \in 1..Len(c) : c[k] = a[i]
    /\ \A i \in 1..Len(b) : \E k \in 1..Len(c) : c[k] = b[i]

LEMMA ConcatIs ==
    ASSUME NEW a \in Seq(Nat), NEW b \in Seq(Nat), NEW c, c = a \o b
    PROVE  ConcatRight(a, b, c)
<1>1. /\ Len(c) = Len(a) + Len(b) /\ Len(a) \in Nat /\ Len(b) \in Nat
      /\ \A i \in 1..(Len(a) + Len(b)) : c[i] = IF i <= Len(a) THEN a[i] ELSE b[i - Len(a)]
  BY ConcatProperties, LenProperties
<1>2. \A i \in 1..Len(a) : i \in 1..Len(c) /\ c[i] = a[i]
  BY <1>1
<1>3. \A i \in 1..Len(b) : i + Len(a) \in 1..Len(c) /\ c[i + Len(a)] = b[i]
  <2> SUFFICES ASSUME NEW i \in 1..Len(b) PROVE i + Len(a) \in 1..Len(c) /\ c[i + Len(a)] = b[i]
    OBVIOUS
  <2>1. i + Len(a) \in 1..(Len(a) + Len(b)) /\ ~(i + Len(a) <= Len(a)) /\ i + Len(a) - Len(a) = i
    BY <1>1
  <2>2. QED BY <1>1, <2>1
<1>4. \A i \in 1..Len(c) :
        \/ i \in 1..Len(a) /\ c[i] = a[i]
        \/ i > Len(a) /\ i - Len(a) \in 1..Len(b) /\ c[i] = b[i - Len(a)]
  <2> SUFFICES ASSUME NEW i \in 1..Len(c)
               PROVE  \/ i \in 1..Len(a) /\ c[i] = a[i]
                      \/ i > Len(a) /\ i - Len(a) \in 1..Len(b) /\ c[i] = b[i - Len(a)]
    OBVIOUS
  <2>1. i \in 1..(Len(a) + Len(b)) /\ c[i] = IF i <= Len(a) THEN a[i] ELSE b[i - Len(a)]
    BY <1>1
  <2>2. CASE i <= Len(a)
    BY <2>1, <2>2, <1>1
  <2>3. CASE ~(i <= Len(a))
    <3>1. i > Len(a) /\ i - Len(a) \in 1..Len(b)
      BY <2>1, <2>3, <1>1
    <3>2. c[i] = b[i - Len(a)]
      BY <2>1, <2>3
    <3>3. QED BY <3>1, <3>2
  <2>4. QED BY <2>2, <2>3
<1>5. QED BY <1>2, <1>3, <1>4 DEF ConcatRight

\* The elements of a sequence: k is one of them.
Among(k, s) == \E i \in 1..Len(s) : s[i] = k

LEMMA ConcatElements ==
    ASSUME NEW a, NEW b, NEW c, ConcatRight(a, b, c), NEW k
    PROVE  Among(k, c) <=> Among(k, a) \/ Among(k, b)
<1>1. ASSUME Among(k, c) PROVE Among(k, a) \/ Among(k, b)
  <2>1. PICK i \in 1..Len(c) : c[i] = k
    BY <1>1, Zenon DEF Among
  <2>2. CASE i \in 1..Len(a) /\ c[i] = a[i]
    BY <2>1, <2>2, Zenon DEF Among
  <2>3. CASE i - Len(a) \in 1..Len(b) /\ c[i] = b[i - Len(a)]
    BY <2>1, <2>3, Zenon DEF Among
  <2>4. QED BY <2>2, <2>3, Zenon DEF ConcatRight
<1>2. ASSUME Among(k, a) PROVE Among(k, c)
  <2>1. PICK i \in 1..Len(a) : a[i] = k
    BY <1>2, Zenon DEF Among
  <2>2. QED BY <2>1, Zenon DEF Among, ConcatRight
<1>3. ASSUME Among(k, b) PROVE Among(k, c)
  <2>1. PICK i \in 1..Len(b) : b[i] = k
    BY <1>3, Zenon DEF Among
  <2>2. QED BY <2>1, Zenon DEF Among, ConcatRight
<1>4. QED BY <1>1, <1>2, <1>3

LEMMA ConcatOrdered ==
    ASSUME NEW a \in Seq(Nat), NEW b \in Seq(Nat), NEW c, ConcatRight(a, b, c),
           \A i, j \in 1..Len(a) : i < j => a[i] < a[j],
           \A i, j \in 1..Len(b) : i < j => b[i] < b[j],
           \A i \in 1..Len(b), j \in 1..Len(a) : a[j] < b[i]
    PROVE  \A i, j \in 1..Len(c) : i < j => c[i] < c[j]
<1> SUFFICES ASSUME NEW i \in 1..Len(c), NEW j \in 1..Len(c), i < j PROVE c[i] < c[j]
  OBVIOUS
<1>1. Len(a) \in Nat /\ i \in Int /\ j \in Int
  BY LenProperties
<1>2. CASE j \in 1..Len(a) /\ c[j] = a[j]
  <2>1. i \in 1..Len(a) /\ c[i] = a[i]
    BY <1>1, <1>2 DEF ConcatRight
  <2>2. QED BY <1>2, <2>1
<1>3. CASE j > Len(a) /\ j - Len(a) \in 1..Len(b) /\ c[j] = b[j - Len(a)]
  <2>1. CASE i \in 1..Len(a) /\ c[i] = a[i]
    BY <1>3, <2>1
  <2>2. CASE i > Len(a) /\ i - Len(a) \in 1..Len(b) /\ c[i] = b[i - Len(a)]
    <3>1. i - Len(a) < j - Len(a)
      BY <1>1
    <3>2. QED BY <1>3, <2>2, <3>1
  <2>3. QED BY <2>1, <2>2 DEF ConcatRight
<1>4. QED BY <1>2, <1>3 DEF ConcatRight

LEMMA LogInvFaithful == LogInv => LogFaithful
<1> SUFFICES ASSUME LogInv PROVE LogFaithful
  OBVIOUS
<1> DEFINE o == lw.output
           h == Held
           p == [i \in DOMAIN lw.pending |-> lw.pending[i].n]
           q == h \o p
           all == o \o q
<1>0. /\ lw \in LogState /\ o \in Seq(Nat) /\ lw.held \in LogMessage /\ lw.held.n \in Nat
      /\ lw.pending \in Seq(LogMessage) /\ lw.sent \subseteq Nat /\ lw.cleared \subseteq Nat /\ lw.late \subseteq Nat
      /\ lw.files \in [0..MaxLogTime -> Seq(Nat)] /\ lw.shown \in [Channel -> Seq(Nat)]
  BY LogFields, MessageFields DEF LogInv, LoggerRight
<1>1. \A i \in 1..Len(lw.pending) : lw.pending[i].n \in Nat
  BY <1>0, ElementOfSeq, MessageFields
<1>2. p \in Seq(Nat) /\ Len(p) = Len(lw.pending) /\ \A i \in 1..Len(p) : p[i] = lw.pending[i].n
  <2>1. DOMAIN lw.pending = 1..Len(lw.pending) /\ Len(lw.pending) \in Nat
    BY <1>0, LenProperties
  <2>2. QED BY <1>1, <2>1, IsASeq
<1>3. h \in Seq(Nat) /\ (lw.held.n = 0 => Len(h) = 0) /\ (lw.held.n # 0 => Len(h) = 1 /\ h[1] = lw.held.n)
  BY <1>0 DEF Held
<1> HIDE DEF p, h, o
<1>4. ConcatRight(h, p, q)
  BY <1>2, <1>3, ConcatIs
<1>5. q \in Seq(Nat)
  BY <1>2, <1>3, ConcatProperties
<1>6. q = Queued
  BY DEF Queued, p, h
<1> HIDE DEF q
<1>7. ConcatRight(o, q, all) /\ all \in Seq(Nat) /\ all = lw.output \o Queued
  <2>1. all = lw.output \o Queued
    BY <1>6 DEF o
  <2>2. QED BY <2>1, <1>0, <1>5, ConcatIs, ConcatProperties
<1> HIDE DEF all
<1>8. /\ \A i, j \in 1..Len(o) : i < j => o[i] < o[j]
      /\ \A i, j \in 1..Len(p) : i < j => p[i] < p[j]
      /\ \A i \in 1..Len(p) : lw.held.n < p[i] /\ \A j \in 1..Len(o) : o[j] < p[i]
      /\ lw.held.n # 0 => \A j \in 1..Len(o) : o[j] < lw.held.n
  BY <1>2 DEF o, LogInv, LoggerRight, OutputOrdered, QueueRight, Waits
<1>9. \A i, j \in 1..Len(h) : ~(i < j)
  <2> SUFFICES ASSUME NEW i \in 1..Len(h), NEW j \in 1..Len(h) PROVE ~(i < j)
    OBVIOUS
  <2>1. CASE Len(h) = 0
    BY <2>1
  <2>2. CASE Len(h) = 1
    <3>1. i = 1 /\ j = 1
      BY <2>2
    <3>2. QED BY <3>1
  <2>3. QED BY <1>3, <2>1, <2>2
<1>10. \A i \in 1..Len(h) : h[i] = lw.held.n /\ lw.held.n # 0
  BY <1>3
<1>11. \A i, j \in 1..Len(q) : i < j => q[i] < q[j]
  BY <1>2, <1>3, <1>4, <1>8, <1>9, <1>10, ConcatOrdered
<1>12. \A i \in 1..Len(q), j \in 1..Len(o) : o[j] < q[i]
  BY <1>4, <1>8, <1>10 DEF ConcatRight
<1>13. \A i, j \in 1..Len(all) : i < j => all[i] < all[j]
  BY <1>0, <1>5, <1>7, <1>8, <1>11, <1>12, ConcatOrdered
<1>14. \A k \in Nat : Somewhere(lw, k) <=> (k \in Range(all) \/ k \in lw.cleared)
  <2> SUFFICES ASSUME NEW k \in Nat PROVE Somewhere(lw, k) <=> (k \in Range(all) \/ k \in lw.cleared)
    OBVIOUS
  <2>1. (\E i \in 1..Len(lw.pending) : lw.pending[i].n = k) <=> \E i \in 1..Len(p) : p[i] = k
    BY <1>2
  <2>2. (k # 0 /\ lw.held.n = k) <=> \E i \in 1..Len(h) : h[i] = k
    BY <1>3
  <2>3. Among(k, q) <=> Among(k, h) \/ Among(k, p)
    BY <1>4, ConcatElements, Zenon
  <2>4. Among(k, all) <=> Among(k, o) \/ Among(k, q)
    <3>1. ConcatRight(o, q, all)
      BY <1>7
    <3>2. QED BY <3>1, ConcatElements, Zenon
  <2>5. k \in Range(all) <=> Among(k, all)
    BY <1>7, RangeIs DEF Among
  <2>6. Somewhere(lw, k) <=> (Among(k, o) \/ Among(k, h) \/ Among(k, p) \/ k \in lw.cleared)
    BY <2>1, <2>2, Zenon DEF Among, Somewhere, o
  <2>7. QED BY <2>3, <2>4, <2>5, <2>6
<1>15. Range(all) \subseteq lw.sent /\ lw.sent \subseteq Range(all) \cup lw.cleared \cup lw.late
  <2>1. Range(all) \subseteq Nat
    <3>1. \A i \in 1..Len(all) : all[i] \in Nat
      BY <1>7, ElementOfSeq
    <3>2. \A k : k \in Range(all) <=> \E i \in 1..Len(all) : all[i] = k
      BY <1>7, RangeIs
    <3>3. QED BY <3>1, <3>2
  <2>2. SentRight(lw)
    BY DEF LogInv, LoggerRight
  <2>3. QED BY <1>0, <1>14, <2>1, <2>2 DEF SentRight
<1>16. FilesFaithful
  <2> DEFINE f == lw.files
             s == lw.shown[1]
  <2>1. f \in [0..MaxLogTime -> Seq(Nat)] /\ s \in Seq(Nat) /\ FilesHold(f, s, lw.output)
    BY <1>0 DEF LogInv, LoggerRight, FilesRight
  <2> HIDE DEF f, s
  <2>2. \A t \in 0..MaxLogTime : f[t] \in Seq(Nat)
    BY <2>1
  <2>3. \A t \in 0..MaxLogTime : DOMAIN f[t] = 1..Len(f[t])
    BY <2>2, LenProperties
  <2>4. \A k : k \in Range(s) <=> \E i \in 1..Len(s) : s[i] = k
    BY <2>1, RangeIs
  <2>5. \A t \in 0..MaxLogTime : \A k : k \in Range(f[t]) <=> \E i \in 1..Len(f[t]) : f[t][i] = k
    BY <2>2, RangeIs
  <2>6. Range(s) = UNION {Range(f[t]) : t \in 0..MaxLogTime}
    <3>1. ASSUME NEW k \in Range(s) PROVE \E t \in 0..MaxLogTime : k \in Range(f[t])
      <4>1. PICK i \in 1..Len(s) : s[i] = k
        BY <2>4, <3>1, Zenon
      <4>2. PICK t \in 0..MaxLogTime : \E x \in 1..Len(f[t]) : s[i] = f[t][x]
        BY <2>1, <4>1, Zenon DEF FilesHold
      <4>3. \E x \in 1..Len(f[t]) : f[t][x] = k
        BY <4>1, <4>2, Zenon
      <4>4. QED BY <2>5, <4>2, <4>3, Zenon
    <3>2. ASSUME NEW t \in 0..MaxLogTime, NEW k \in Range(f[t]) PROVE k \in Range(s)
      <4>1. PICK i \in 1..Len(f[t]) : f[t][i] = k
        BY <2>5, <3>2, Zenon
      <4>2. \E x \in 1..Len(s) : s[x] = f[t][i]
        BY <2>1, <4>1, Zenon DEF FilesHold
      <4>3. QED BY <2>4, <4>1, <4>2, Zenon
    <3>3. QED BY <3>1, <3>2
  <2>7. \A x, t \in 0..MaxLogTime : \A i \in DOMAIN f[x], j \in DOMAIN f[t] :
          x < t \/ (x = t /\ i < j) => f[x][i] < f[t][j]
    <3>1. \A x, t \in 0..MaxLogTime : \A i \in 1..Len(f[x]), j \in 1..Len(f[t]) :
            x < t \/ (x = t /\ i < j) => f[x][i] < f[t][j]
      BY <2>1, Zenon DEF FilesHold
    <3>2. QED BY <2>3, <3>1, Zenon
  <2>8. QED BY <2>6, <2>7 DEF FilesFaithful, f, s
<1>17. DOMAIN all = 1..Len(all)
  BY <1>7, LenProperties
<1>18. /\ \A n \in lw.stale : \E c \in Channel \ lw.alive : n <= lw.removed[c]
       /\ lw.default # 0 => lw.default \in lw.alive
  BY DEF LogInv, LoggerRight, ChannelsRight
<1>19. QED BY <1>7, <1>13, <1>15, <1>16, <1>17, <1>18 DEF LogFaithful

\* For any channel names, levels, rotation interval and length of the run: channels get
\* the messages that were logged in order; each is written, waits or was cleared, but those
\* that write() hands, in setWriter(), to a writer that was deleted or has looked at its
\* queue for the last time; the files of the rotating channel hold in order what it was to
\* write (rotate), and only a message whose stream was made before a removal goes to a
\* freed channel (Logger, AsyncLogWriter).
THEOREM LogCorrect == LogSpec => []LogFaithful
<1>1. LogInit => LogInv
  BY LogInitRight
<1>2. LogInv /\ [LogNext]_lw => LogInv'
  BY LogNextRight
<1>3. QED BY <1>1, <1>2, LogInvFaithful, PTL DEF LogSpec
=============================================================================

------------------------- MODULE PacketStreamProofs -------------------------
(***************************************************************************)
(* Proofs about PacketStream: type correctness, the discipline of          *)
(* _procMutex and what rests on it, and the convergence of the adapters.   *)
(* The inductive invariant is Inv; there is one lemma per kind of step     *)
(* (reading the state, setState(), locking, unlocking, draining the queue) *)
(* and one per method, with a step for each of its actions.                *)
(***************************************************************************)
EXTENDS PacketStream, SequenceTheorems, TLAPS

\* The owner of _procMutex is known from where its thread is, and only the
\* owner takes states from the queue.
LockInv ==
    \A t \in Thread :
        /\ pc[t] \in Held => holder = t /\ within[t] # "chain"
        /\ within[t] = "chain" => holder = t
        /\ pc[t] \in ChainLabels => within[t] = "chain"
        /\ pc[t] \in {"pop", "closePop"} => states # <<>>

Inv == TypeOK /\ LockInv /\ AdaptersConverge

\* A label a thread may go to without taking or releasing _procMutex.
Plain(t, label) == \/ label \in Free \ {"queue"}
                   \/ label \in ChainLabels /\ within[t] = "chain"

\* The three kinds of labels are disjoint.
LEMMA LabelFacts ==
    /\ Held \cap Free = {} /\ ChainLabels \cap (Held \cup Free) = {}
    /\ {"pop", "closePop"} \subseteq Held
    /\ {"queue", "assign", "idle"} \subseteq Free
    /\ Labels = Held \cup ChainLabels \cup Free
BY DEF AdapterLabels, Held, Free, ChainLabels, Labels

\* Methods return to plain labels.
LEMMA ReturnFacts ==
    ASSUME TypeOK, NEW t \in Thread
    PROVE  /\ StartRet(t) \in Free \ {"queue"}
           /\ StopRet(t) \in Free \ {"queue"}
           /\ Plain(t, EmitRet(t))
BY DEF StartRet, StopRet, EmitRet, Plain, TypeOK, Free, ChainLabels

\* Moving between labels does not disturb what the adapters are told.
LEMMA ConvergeFrame ==
    ASSUME Inv, NEW t \in Thread, NEW label, pc[t] # "queue", label # "queue",
           Go(t, label), UNCHANGED <<state, states, seen>>
    PROVE  AdaptersConverge'
BY DEF Inv, TypeOK, AdaptersConverge, LastTold, Go

\* Moving to a plain label keeps the mutex discipline.
LEMMA LockFrame ==
    ASSUME Inv, NEW t \in Thread, NEW label, Plain(t, label),
           Go(t, label), UNCHANGED <<states, within, holder>>
    PROVE  LockInv'
BY LabelFacts DEF Inv, TypeOK, LockInv, Plain, Go

\* Moving inside the critical section keeps it too.
LEMMA HeldFrame ==
    ASSUME Inv, NEW t \in Thread, pc[t] \in Held, NEW label \in Held \ {"pop", "closePop"},
           Go(t, label), UNCHANGED <<states, within, holder>>
    PROVE  LockInv'
BY LabelFacts DEF Inv, TypeOK, LockInv, Go

\* A read of the state that moves the thread between plain labels keeps the
\* invariant.
LEMMA TestInv ==
    ASSUME Inv, NEW t \in Thread, NEW here, NEW st, NEW yes, NEW no,
           Plain(t, yes), Plain(t, no), here # "queue",
           Test(t, here, st, yes, no), UNCHANGED made
    PROVE  Inv'
<1> DEFINE label == IF state = st THEN yes ELSE no
<1>1. Plain(t, label) /\ Go(t, label) /\ UNCHANGED <<shared, locals>> /\ pc[t] # "queue"
  BY DEF Test
<1>2. label \in Labels /\ label # "queue"
  BY <1>1, LabelFacts DEF Plain
<1> HIDE DEF label
<1>3. TypeOK'
  BY <1>1, <1>2 DEF Inv, TypeOK, Go, shared, locals
<1>4. LockInv'
  BY <1>1, LockFrame DEF shared, locals
<1>5. AdaptersConverge'
  BY <1>1, <1>2, ConvergeFrame DEF shared
<1> QED
  BY <1>3, <1>4, <1>5 DEF Inv

\* setState(): entering it, or refusing an unchanged state, keeps the mutex
\* discipline and what the adapters are told.
LEMMA SetStateInv ==
    ASSUME Inv, NEW t \in Thread, NEW here, NEW st \in States, NEW next \in Free \ {"queue"},
           SetState(t, here, st, next), here # "queue",
           UNCHANGED <<auto, within, pkt, first, made>>, closing' \in [Thread -> BOOLEAN]
    PROVE  Inv'
<1>1. CASE state = st
  <2>1. Go(t, next) /\ UNCHANGED <<shared, target, after>> /\ pc[t] # "queue"
    BY <1>1 DEF SetState
  <2>2. TypeOK'
    BY <2>1, LabelFacts DEF Inv, TypeOK, Go, shared
  <2>3. LockInv'
    BY <2>1, LockFrame DEF shared, Plain
  <2>4. AdaptersConverge'
    BY <2>1, ConvergeFrame DEF shared
  <2> QED
    BY <2>2, <2>3, <2>4 DEF Inv
<1>2. CASE state # st
  <2>1. /\ Go(t, "assign") /\ UNCHANGED shared /\ pc[t] # "queue"
        /\ target' = [target EXCEPT ![t] = st] /\ after' = [after EXCEPT ![t] = next]
    BY <1>2 DEF SetState
  <2>2. TypeOK'
    BY <2>1, LabelFacts DEF Inv, TypeOK, Go, shared
  <2>3. LockInv'
    BY <2>1, LockFrame, LabelFacts DEF shared, Plain
  <2>4. AdaptersConverge'
    BY <2>1, ConvergeFrame DEF shared
  <2> QED
    BY <2>2, <2>3, <2>4 DEF Inv
<1> QED
  BY <1>1, <1>2

\* Taking _procMutex keeps the invariant: nobody was in a critical section.
LEMMA AcquireInv ==
    ASSUME Inv, NEW t \in Thread, NEW here, NEW next \in Held \ {"pop", "closePop"},
           Acquire(t, here, next), UNCHANGED made, here # "queue"
    PROVE  Inv'
<1> USE StreamAssumption, LabelFacts DEF Inv, Acquire, Go, locals
<1>1. TypeOK'
  BY DEF TypeOK
<1>2. LockInv'
  BY DEF TypeOK, LockInv
<1>3. AdaptersConverge'
  BY ConvergeFrame
<1> QED
  BY <1>1, <1>2, <1>3

\* Leaving _procMutex keeps the invariant.
LEMMA ReleaseInv ==
    ASSUME Inv, NEW t \in Thread, NEW here \in Held, NEW next \in Free \ {"queue"},
           Release(t, here, next), UNCHANGED made
    PROVE  Inv'
<1> USE StreamAssumption, LabelFacts DEF Inv, Release, Go, locals
<1>1. TypeOK'
  BY DEF TypeOK
<1>2. LockInv'
  BY DEF TypeOK, LockInv
<1>3. AdaptersConverge'
  BY ConvergeFrame
<1> QED
  BY <1>1, <1>2, <1>3

\* synchronizeStates(): the queue seen non-empty is still so when it is popped,
\* for nobody else owns the mutex.
LEMMA MoreInv ==
    ASSUME Inv, NEW t \in Thread, NEW here \in Held, NEW pop \in {"pop", "closePop"},
           NEW done \in Held \ {"pop", "closePop"}, More(t, here, pop, done), UNCHANGED made
    PROVE  Inv'
<1> USE LabelFacts DEF Inv, More, Go, shared, locals
<1>1. TypeOK'
  BY DEF TypeOK
<1>2. LockInv'
  BY DEF TypeOK, LockInv
<1>3. AdaptersConverge'
  BY ConvergeFrame
<1> QED
  BY <1>1, <1>2, <1>3

\* The last element of a sequence of two or more is the last of its tail.
LEMMA LastOfTail ==
    ASSUME NEW S, NEW q \in Seq(S), q # <<>>, Len(q) # 1
    PROVE  Tail(q) # <<>> /\ Tail(q)[Len(Tail(q))] = q[Len(q)]
<1>1. Len(Tail(q)) = Len(q) - 1 /\ \A i \in 1..Len(Tail(q)) : Tail(q)[i] = q[i + 1]
  BY HeadTailProperties
<1>2. Len(q) \in Nat /\ Len(q) # 0
  BY EmptySeq, LenProperties
<1>3. Len(Tail(q)) \in 1..Len(Tail(q)) /\ Len(Tail(q)) + 1 = Len(q)
  BY <1>1, <1>2
<1>4. Tail(q) \in Seq(S) /\ Len(Tail(q)) # 0
  BY <1>1, <1>2, HeadTailProperties
<1>5. Tail(q) # <<>>
  BY <1>4, EmptySeq, Zenon
<1> QED
  BY <1>1, <1>3, <1>5

\* synchronizeStates() takes the front of a queue that is not empty, so the last
\* state the adapters are to be told does not change.
LEMMA PopInv ==
    ASSUME Inv, NEW t \in Thread, NEW here \in {"pop", "closePop"},
           NEW sync \in Held \ {"pop", "closePop"}, Pop(t, here, sync), UNCHANGED made
    PROVE  Inv'
<1> USE LabelFacts DEF Inv, Pop, Go, locals
<1>1. states # <<>> /\ states \in Seq(States)
  BY DEF LockInv, TypeOK
<1>2. Tail(states) \in Seq(States) /\ Head(states) \in States
  BY <1>1
<1>3. TypeOK'
  BY <1>1, <1>2 DEF TypeOK
<1>4. LockInv'
  BY DEF TypeOK, LockInv
<1>5. AdaptersConverge'
  <2>1. SUFFICES ASSUME \A u \in Thread : pc'[u] # "queue"
                 PROVE  LastTold' = state'
    BY DEF AdaptersConverge
  <2>2. \A u \in Thread : pc[u] # "queue"
    BY <2>1 DEF TypeOK
  <2>3. LastTold = state /\ LastTold = states[Len(states)]
    BY <1>1, <2>2 DEF AdaptersConverge, LastTold
  <2>4. CASE Len(states) = 1
    BY <1>1, <2>3, <2>4 DEF LastTold
  <2>5. CASE Len(states) # 1
    <3>2. Tail(states) # <<>> /\ Tail(states)[Len(Tail(states))] = states[Len(states)]
      BY <1>1, <2>5, LastOfTail
    <3>3. LastTold' = Tail(states)[Len(Tail(states))]
      BY <1>1, <3>2 DEF LastTold
    <3> QED
      BY <2>3, <3>2, <3>3
  <2> QED
    BY <2>4, <2>5
<1> QED
  BY <1>3, <1>4, <1>5

\* The two halves of setState(): the assignment lifts the obligation to agree
\* with the queue, and the push restores it.
LEMMA SetterInv ==
    ASSUME Inv, NEW t \in Thread, UNCHANGED made, Assign(t) \/ Queue(t)
    PROVE  Inv'
<1> USE LabelFacts DEF Inv, Go, locals
<1>1. CASE Assign(t)
  <2>1. TypeOK' /\ LockInv'
    BY <1>1 DEF TypeOK, LockInv, Assign
  <2>2. AdaptersConverge'
    BY <1>1 DEF TypeOK, AdaptersConverge, Assign
  <2> QED
    BY <2>1, <2>2
<1>2. CASE Queue(t)
  <2>1. states' \in Seq(States) /\ states' # <<>> /\ states'[Len(states')] = state
    BY <1>2, AppendProperties DEF TypeOK, Queue
  <2>2. TypeOK'
    <3>1. pc' \in [Thread -> Labels] /\ target' \in [Thread -> States] /\ after' \in [Thread -> Free]
      BY <1>2 DEF TypeOK, Queue, States
    <3> QED
      BY <1>2, <2>1, <3>1 DEF TypeOK, Queue
  <2>3. LockInv'
    BY <1>2, <2>1 DEF TypeOK, LockInv, Queue
  <2>4. AdaptersConverge'
    BY <1>2, <2>1 DEF AdaptersConverge, LastTold, Queue
  <2> QED
    BY <2>2, <2>3, <2>4
<1> QED
  BY <1>1, <1>2

\* Every step of start() keeps the invariant.
LEMMA StartInv ==
    ASSUME Inv, NEW t \in Thread, UNCHANGED made, StartStep(t)
    PROVE  Inv'
<1> USE LabelFacts DEF Free, Held, AdapterLabels, Plain
<1>0. TypeOK /\ StartRet(t) \in Free \ {"queue"}
  BY ReturnFacts DEF Inv
<1>1. CASE Test(t, "start", "Active", StartRet(t), "setup")
  BY <1>0, <1>1, TestInv
<1>2. CASE SetupSucceeds(t)
  <2>1. TypeOK'
    BY <1>2 DEF Inv, TypeOK, SetupSucceeds, Go, locals
  <2>2. LockInv' /\ AdaptersConverge'
    BY <1>2, LockFrame, ConvergeFrame DEF SetupSucceeds, locals
  <2> QED
    BY <2>1, <2>2 DEF Inv
<1>3. CASE SetupThrows(t)
  BY ZenonT(60), <1>0, <1>3, SetStateInv DEF SetupThrows, TypeOK, States
<1>4. CASE SetupFailed(t)
  <2>1. TypeOK'
    BY <1>4 DEF Inv, TypeOK, SetupFailed, Go, shared
  <2>2. LockInv' /\ AdaptersConverge'
    BY <1>4, LockFrame, ConvergeFrame DEF SetupFailed, shared
  <2> QED
    BY <2>1, <2>2 DEF Inv
<1>5. CASE Activate(t)
  BY ZenonT(60), <1>0, <1>5, SetStateInv DEF Activate, TypeOK, States
<1>6. CASE Acquire(t, "startLock", "startSources")
  BY <1>6, AcquireInv
<1>7. CASE StartSources(t)
  <2>1. TypeOK'
    BY StreamAssumption, <1>7 DEF Inv, TypeOK, StartSources, Go, locals
  <2>2. LockInv' /\ AdaptersConverge'
    BY StreamAssumption, <1>7, HeldFrame, ConvergeFrame DEF StartSources, locals
  <2> QED
    BY <2>1, <2>2 DEF Inv
<1>8. CASE Release(t, "startUnlock", StartRet(t))
  BY <1>0, <1>8, ReleaseInv
<1> QED
  BY <1>1, <1>2, <1>3, <1>4, <1>5, <1>6, <1>7, <1>8 DEF StartStep

\* Every step of stop() keeps the invariant.
LEMMA StopInv ==
    ASSUME Inv, NEW t \in Thread, UNCHANGED made, StopStep(t)
    PROVE  Inv'
<1> USE LabelFacts DEF Free, Held, AdapterLabels, Plain
<1>0. TypeOK /\ StopRet(t) \in Free \ {"queue"}
  BY ReturnFacts DEF Inv
<1>1. CASE \/ Test(t, "stop", "Stopped", StopRet(t), "stop2")
           \/ Test(t, "stop2", "Stopping", StopRet(t), "stop3")
           \/ Test(t, "stop3", "Closed", StopRet(t), "stopping")
  BY <1>0, <1>1, TestInv
<1>2. CASE Stopping(t) \/ Stopped(t)
  <2>1. {"Stopping", "Stopped"} \subseteq States /\ closing' \in [Thread -> BOOLEAN]
    BY <1>0, <1>2 DEF TypeOK, States, Stopping, Stopped
  <2> QED
    BY <1>2, <2>1, SetStateInv DEF Stopping, Stopped
<1>3. CASE Acquire(t, "stopLock", "stopSources")
  BY <1>3, AcquireInv
<1>4. CASE StopSources(t)
  <2>1. TypeOK'
    BY <1>4 DEF Inv, TypeOK, StopSources, Go, locals
  <2>2. LockInv' /\ AdaptersConverge'
    BY <1>4, HeldFrame, ConvergeFrame DEF StopSources, locals
  <2> QED
    BY <2>1, <2>2 DEF Inv
<1>5. CASE JoinSources(t)
  <2>1. TypeOK'
    BY <1>5 DEF Inv, TypeOK, JoinSources, Go, shared, locals
  <2>2. LockInv' /\ AdaptersConverge'
    BY <1>5, HeldFrame, ConvergeFrame DEF JoinSources, shared, locals
  <2> QED
    BY <2>1, <2>2 DEF Inv
<1>6. CASE Release(t, "stopUnlock", StopRet(t))
  BY <1>0, <1>6, ReleaseInv
<1> QED
  BY <1>1, <1>2, <1>3, <1>4, <1>5, <1>6 DEF StopStep

\* Every step of close() keeps the invariant.
LEMMA CloseInv ==
    ASSUME Inv, NEW t \in Thread, UNCHANGED made, CloseStep(t)
    PROVE  Inv'
<1> USE LabelFacts DEF Free, Held, AdapterLabels, Plain
<1>0. TypeOK /\ Plain(t, EmitRet(t))
  BY ReturnFacts DEF Inv
<1>1. CASE \/ Test(t, "close", "None", EmitRet(t), "close2")
           \/ Test(t, "close2", "Closed", EmitRet(t), "close3")
           \/ Test(t, "close3", "Stopped", "closed", "close4")
  BY <1>0, <1>1, TestInv
<1>2. CASE CloseStops(t)
  <2>1. TypeOK'
    BY <1>2 DEF Inv, TypeOK, CloseStops, Go, shared
  <2>2. LockInv' /\ AdaptersConverge'
    BY <1>2, LockFrame, ConvergeFrame DEF CloseStops, shared
  <2> QED
    BY <2>1, <2>2 DEF Inv
<1>3. CASE Closed(t)
  BY ZenonT(60), <1>0, <1>3, SetStateInv DEF Closed, TypeOK, States
<1>4. CASE CloseLock(t)
  BY <1>4, AcquireInv DEF CloseLock
<1>5. CASE Teardown(t)
  <2>1. TypeOK'
    BY <1>5 DEF Inv, TypeOK, Teardown, Go, locals
  <2>2. LockInv' /\ AdaptersConverge'
    BY <1>5, HeldFrame, ConvergeFrame DEF Teardown, locals
  <2> QED
    BY <2>1, <2>2 DEF Inv
<1>6. CASE More(t, "closeSync", "closePop", "closeUnlock")
  BY <1>6, MoreInv
<1>7. CASE Pop(t, "closePop", "closeSync")
  BY <1>7, PopInv
<1>8. CASE Release(t, "closeUnlock", "closeSignal")
  BY <1>8, ReleaseInv
<1>9. CASE CloseSignal(t)
  <2>1. TypeOK'
    BY <1>0, <1>9 DEF TypeOK, CloseSignal, Go, shared, locals
  <2>2. LockInv' /\ AdaptersConverge'
    BY <1>0, <1>9, LockFrame, ConvergeFrame DEF CloseSignal, shared, locals
  <2> QED
    BY <2>1, <2>2 DEF Inv
<1> QED
  BY <1>1, <1>2, <1>3, <1>4, <1>5, <1>6, <1>7, <1>8, <1>9 DEF CloseStep

\* pause(), resume() and lock() keep the invariant.
LEMMA PauseInv ==
    ASSUME Inv, NEW t \in Thread, UNCHANGED made, PauseResumeLock(t)
    PROVE  Inv'
<1> USE LabelFacts DEF Free, Plain
<1>1. CASE \/ Test(t, "resume", "Paused", "resumed", "idle")
           \/ Test(t, "lock", "None", "locked", "idle")
  BY <1>1, TestInv
<1>2. CASE /\ Pause(t) \/ Resumed(t) \/ Locked(t)
           /\ UNCHANGED <<auto, closing, within, pkt, first>>
  <2>1. {"Paused", "Active", "Locked"} \subseteq States /\ closing' \in [Thread -> BOOLEAN]
    BY <1>2 DEF Inv, TypeOK, States
  <2> QED
    BY <1>2, <2>1, SetStateInv DEF Pause, Resumed, Locked
<1> QED
  BY <1>1, <1>2 DEF PauseResumeLock

\* reset() and the edits of the adapter lists keep the invariant.
LEMMA ModifyInv ==
    ASSUME Inv, NEW t \in Thread, UNCHANGED made, ModifyStep(t)
    PROVE  Inv'
<1> USE LabelFacts DEF Free, Plain
<1>1. CASE \/ Test(t, "modify", "Locked", "idle", "modify2")
           \/ Test(t, "modify2", "Stopping", "idle", "modify3")
           \/ Test(t, "modify3", "Active", "idle", "edit")
  BY <1>1, TestInv
<1>2. CASE Clear(t)
  <2>1. TypeOK'
    BY <1>2 DEF Inv, TypeOK, Clear, Go, locals
  <2>2. LockInv' /\ AdaptersConverge'
    BY <1>2, LockFrame, ConvergeFrame DEF Clear, locals
  <2> QED
    BY <2>1, <2>2 DEF Inv
<1>3. CASE Edit(t)
  <2>1. TypeOK'
    <3> USE DEF Inv, TypeOK
    <3>1. UNCHANGED <<state, states, seen, running, holder, locals, made>> /\ Go(t, "idle")
      BY <1>3 DEF Edit
    <3>2. /\ procs' \subseteq Proc /\ freed' \subseteq Proc
          /\ srcs' \subseteq Source /\ wired' \subseteq Source
      BY <1>3 DEF Edit, EditProcs, AttachSource, DetachAdapter, DetachSignal, SetOption
    <3>3. opts' \in [autoStart : BOOLEAN, closeOnError : BOOLEAN]
      <4>1. CASE UNCHANGED opts
        BY <4>1
      <4>2. CASE \E o \in {"autoStart", "closeOnError"}, b \in BOOLEAN : SetOption(o, b)
        <5>1. PICK o \in {"autoStart", "closeOnError"}, b \in BOOLEAN : opts' = [opts EXCEPT ![o] = b]
          BY <4>2 DEF SetOption
        <5>2. opts \in [autoStart : BOOLEAN, closeOnError : BOOLEAN]
          OBVIOUS
        <5>3. CASE o = "autoStart"
          BY Zenon, <5>1, <5>2, <5>3
        <5>4. CASE o = "closeOnError"
          BY Zenon, <5>1, <5>2, <5>4
        <5> QED
          BY <5>1, <5>3, <5>4
      <4> QED
        BY <1>3, <4>1, <4>2 DEF Edit, EditProcs, AttachSource, DetachAdapter, DetachSignal
    <3>4. pc' \in [Thread -> Labels]
      BY <3>1 DEF Go
    <3> QED
      BY <3>1, <3>2, <3>3, <3>4 DEF locals
  <2>2. LockInv' /\ AdaptersConverge'
    BY <1>3, LockFrame, ConvergeFrame DEF Edit, locals
  <2> QED
    BY <2>1, <2>2 DEF Inv
<1> QED
  BY <1>1, <1>2, <1>3 DEF ModifyStep

\* Every step of process(), emit() and handleException() keeps the invariant.
LEMMA ProcessInv ==
    ASSUME Inv, NEW t \in Thread, UNCHANGED made, ProcessStep(t)
    PROVE  Inv'
<1> USE LabelFacts DEF Free, Held, AdapterLabels, ChainLabels, Plain
<1>0. TypeOK /\ Plain(t, EmitRet(t))
  BY ReturnFacts DEF Inv
<1>1. CASE CheckAutoStart(t)
  <2>1. TypeOK'
    BY <1>1 DEF Inv, TypeOK, CheckAutoStart, Go, shared
  <2>2. LockInv' /\ AdaptersConverge'
    BY <1>1, LockFrame, ConvergeFrame DEF CheckAutoStart, shared
  <2> QED
    BY <2>1, <2>2 DEF Inv
<1>2. CASE CheckActive(t)
  <2>1. TypeOK'
    BY <1>2 DEF Inv, TypeOK, CheckActive, Go, shared
  <2>2. LockInv' /\ AdaptersConverge'
    BY <1>2, LockFrame, ConvergeFrame DEF CheckActive, shared
  <2> QED
    BY <2>1, <2>2 DEF Inv
<1>3. CASE ReadFirst(t)
  <2>1. TypeOK'
    <3>0. \E label \in Labels : Go(t, label)
      BY <1>3 DEF ReadFirst
    <3>1. pc' \in [Thread -> Labels] /\ first' \in [Thread -> Proc \cup {Nobody}]
      <4>1. pc' \in [Thread -> Labels]
        BY <1>0, <3>0 DEF TypeOK, Go
      <4>2. first' \in [Thread -> Proc \cup {Nobody}]
        <5>1. first' = first \/ \E p \in procs : first' = [first EXCEPT ![t] = p]
          BY <1>3 DEF ReadFirst
        <5> HIDE DEF Free, Held, AdapterLabels
        <5> QED
          BY <1>0, <5>1 DEF TypeOK
      <4> QED
        BY <4>1, <4>2
    <3>2. UNCHANGED <<shared, target, after, auto, closing, within, pkt, made>>
      BY <1>3 DEF ReadFirst
    <3> QED
      BY <1>0, <3>1, <3>2 DEF TypeOK, shared
  <2>2. LockInv' /\ AdaptersConverge'
    BY <1>3, LockFrame, ConvergeFrame DEF ReadFirst, shared
  <2> QED
    BY <2>1, <2>2 DEF Inv
<1>4. CASE Acquire(t, "procLock", "sync")
  BY <1>4, AcquireInv
<1>5. CASE More(t, "sync", "pop", "recheck")
  BY <1>5, MoreInv
<1>6. CASE Pop(t, "pop", "sync")
  BY <1>6, PopInv
<1>7. CASE EnterChain(t)
  <2>1. TypeOK'
    BY StreamAssumption, <1>7 DEF Inv, TypeOK, EnterChain, Go, shared
  <2>2. LockInv'
    BY StreamAssumption, <1>7 DEF Inv, TypeOK, LockInv, EnterChain, Go, shared
  <2>3. AdaptersConverge'
    BY <1>7, ConvergeFrame DEF EnterChain, shared
  <2> QED
    BY <2>1, <2>2, <2>3 DEF Inv
<1>8. CASE RejectPacket(t)
  <2>1. TypeOK'
    BY StreamAssumption, <1>8 DEF Inv, TypeOK, RejectPacket, Go, shared
  <2>2. LockInv'
    BY StreamAssumption, <1>8 DEF Inv, TypeOK, LockInv, RejectPacket, Go, shared
  <2>3. AdaptersConverge'
    BY <1>8, ConvergeFrame DEF RejectPacket, shared
  <2> QED
    BY <2>1, <2>2, <2>3 DEF Inv
<1>9. CASE RunChain(t)
  <2>1. within[t] = "chain"
    BY <1>9 DEF RunChain, Inv, LockInv
  <2>2. TypeOK'
    <3>1. pc' \in [Thread -> Labels]
      <4>1. \E label \in Labels : Go(t, label)
        BY <1>0, <1>9 DEF RunChain
      <4>2. pc \in [Thread -> Labels]
        BY <1>0 DEF TypeOK
      <4> QED
        BY <4>1, <4>2 DEF Go
    <3>2. UNCHANGED <<shared, locals, made>>
      BY <1>9 DEF RunChain
    <3> QED
      BY <1>0, <3>1, <3>2, ZenonT(30) DEF TypeOK, shared, locals
  <2>3. LockInv' /\ AdaptersConverge'
    BY <1>9, <2>1, LockFrame, ConvergeFrame DEF RunChain, shared, locals
  <2> QED
    BY <2>2, <2>3 DEF Inv
<1>10. CASE ChainThrows(t) \/ ChainEnds(t)
  <2>1. TypeOK'
    <3>1. /\ pc' \in [Thread -> Labels]
          /\ within' \in [Thread -> {"none", "chain", "proxy"}]
          /\ first' \in [Thread -> Proc \cup {Nobody}]
      <4>1. \E label \in Labels : LeaveChain(t, label)
        BY <1>10 DEF ChainThrows, ChainEnds
      <4> QED
        BY <1>0, <4>1 DEF TypeOK, LeaveChain, Go
    <3>2. /\ UNCHANGED <<state, states, seen, procs, freed, srcs, opts, wired, running>>
          /\ UNCHANGED <<target, after, auto, closing, pkt, made>>
          /\ holder' = Nobody
      BY <1>10 DEF ChainThrows, ChainEnds, LeaveChain
    <3> QED
      BY <1>0, <3>1, <3>2 DEF TypeOK
  <2>2. LockInv'
    BY StreamAssumption, <1>10 DEF Inv, TypeOK, LockInv, ChainThrows, ChainEnds, LeaveChain, Go, shared
  <2>3. AdaptersConverge'
    BY <1>10, ConvergeFrame DEF ChainThrows, ChainEnds, LeaveChain, shared
  <2> QED
    BY <2>1, <2>2, <2>3 DEF Inv
<1>11. CASE Proxy(t)
  <2>1. TypeOK'
    BY StreamAssumption, <1>11 DEF Inv, TypeOK, Proxy, Go, shared
  <2>2. LockInv'
    BY StreamAssumption, <1>11 DEF Inv, TypeOK, LockInv, Proxy, Go, shared
  <2>3. AdaptersConverge'
    BY <1>11, ConvergeFrame DEF Proxy, shared
  <2> QED
    BY <2>1, <2>2, <2>3 DEF Inv
<1>12. CASE Test(t, "emit", "Active", "deliver", EmitRet(t))
  BY <1>0, <1>12, TestInv
<1>13. CASE Deliver(t)
  <2>1. TypeOK'
    <3>1. pc' \in [Thread -> Labels]
      <4>1. \E label \in Labels : Go(t, label)
        BY <1>0, <1>13 DEF Deliver
      <4>2. pc \in [Thread -> Labels]
        BY <1>0 DEF TypeOK
      <4> QED
        BY <4>1, <4>2 DEF Go
    <3>2. UNCHANGED <<shared, locals, made>>
      BY <1>13 DEF Deliver
    <3> QED
      BY <1>0, <3>1, <3>2, ZenonT(30) DEF TypeOK, shared, locals
  <2>2. LockInv' /\ AdaptersConverge'
    BY <1>0, <1>13, LockFrame, ConvergeFrame DEF Deliver, shared, locals
  <2> QED
    BY <2>1, <2>2 DEF Inv
<1>14. CASE CheckFinal(t)
  <2>1. TypeOK'
    BY StreamAssumption, <1>14 DEF Inv, TypeOK, CheckFinal, Go, shared
  <2>2. LockInv'
    BY StreamAssumption, <1>14 DEF Inv, TypeOK, LockInv, CheckFinal, Go, shared
  <2>3. AdaptersConverge'
    BY <1>14, ConvergeFrame DEF CheckFinal, shared
  <2> QED
    BY <2>1, <2>2, <2>3 DEF Inv
<1>15. CASE HandleException(t)
  BY ZenonT(60), <1>0, <1>15, SetStateInv DEF HandleException, TypeOK, States
<1>16. CASE ErrorSignal(t)
  <2>1. TypeOK'
    BY <1>0, <1>16 DEF Inv, TypeOK, ErrorSignal, Go, shared, locals
  <2>2. LockInv' /\ AdaptersConverge'
    BY <1>0, <1>16, LockFrame, ConvergeFrame DEF ErrorSignal, shared, locals
  <2> QED
    BY <2>1, <2>2 DEF Inv
<1> QED
  BY <1>1, <1>2, <1>3, <1>4, <1>5, <1>6, <1>7, <1>8, <1>9, <1>10, <1>11, <1>12, <1>13,
     <1>14, <1>15, <1>16 DEF ProcessStep

\* Every step of the specification keeps the invariant.
LEMMA NextInv ==
    ASSUME Inv, [Next]_vars
    PROVE  Inv'
<1>1. ASSUME NEW t \in Thread, Step(t)
      PROVE  Inv'
  BY <1>1, SetterInv, StartInv, StopInv, CloseInv, PauseInv, ModifyInv, ProcessInv DEF Step
<1>2. ASSUME NEW t \in Thread, NEW label \in Free \ {"queue"}, Enter(t, label),
             pkt' \in [Thread -> {"none", "plain", "nomodify", "final"}]
      PROVE  Inv'
  <2>1. TypeOK'
    BY <1>2, LabelFacts DEF Inv, TypeOK, Enter, Go, shared
  <2>2. LockInv' /\ AdaptersConverge'
    BY <1>2, LockFrame, ConvergeFrame DEF Enter, shared, Plain
  <2> QED
    BY <2>1, <2>2 DEF Inv
<1>3. ASSUME NEW t \in Controller, NEW m \in Calls \ {"write"}, Call(t, m)
      PROVE  Inv'
  <2>1. m \in Free \ {"queue"}
    BY <1>3, StreamAssumption DEF Free
  <2> QED
    BY <1>2, <1>3, <2>1 DEF Call, Inv, TypeOK, Thread
<1>4. ASSUME NEW t \in Thread, NEW k \in Packets, Offer(t, k)
      PROVE  Inv'
  <2>1. "process" \in Free \ {"queue"}
    BY DEF Free
  <2>2. pkt' \in [Thread -> {"none", "plain", "nomodify", "final"}]
    BY <1>4, StreamAssumption DEF Offer, Inv, TypeOK
  <2> QED
    BY <1>2, <1>4, <2>1, <2>2 DEF Offer
<1>5. CASE UNCHANGED vars
  BY <1>5 DEF vars, shared, locals, Inv, TypeOK, LockInv, AdaptersConverge, LastTold
<1> QED
  BY <1>1, <1>3, <1>4, <1>5 DEF Next

\* The invariant holds of a new stream.
LEMMA InitInv ==
    ASSUME Init
    PROVE  Inv
<1>1. TypeOK
  BY StreamAssumption DEF Init, TypeOK, States, Labels, Free
<1>2. LockInv
  BY LabelFacts DEF Init, LockInv
<1>3. AdaptersConverge
  BY DEF Init, AdaptersConverge, LastTold
<1> QED
  BY <1>1, <1>2, <1>3 DEF Inv

\* The inductive invariant: types, who owns _procMutex at which label, and the
\* agreement of the last queued state with the stream's state.
THEOREM InvHolds == Spec => []Inv
BY InitInv, NextInv, PTL DEF Spec

\* The stream's variables keep their types, whatever the threads call.
THEOREM TypeCorrect == Spec => []TypeOK
<1>1. Inv => TypeOK
  BY DEF Inv
<1> QED
  BY <1>1, InvHolds, PTL

\* Adapter code runs on one thread at a time and synchronizeStates() never
\* takes the front of an empty queue: for any number of controllers and
\* sources, any calls, and any exceptions.
THEOREM AdaptersProtected == Spec => [](OneThreadInAdapters /\ NeverPopEmpty)
<1>1. Inv => OneThreadInAdapters /\ NeverPopEmpty
  BY LabelFacts DEF Inv, LockInv, OneThreadInAdapters, NeverPopEmpty, InAdapters, Held
<1> QED
  BY <1>1, InvHolds, PTL

\* The last state queued for the adapters is the stream's state whenever no
\* setState() is between its assignment and its push.
THEOREM Convergence == Spec => []AdaptersConverge
<1>1. Inv => AdaptersConverge
  BY DEF Inv
<1> QED
  BY <1>1, InvHolds, PTL
=============================================================================

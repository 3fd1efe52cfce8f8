---------------------------- MODULE PacketStream ----------------------------
(***************************************************************************)
(* PacketStream of base/src/packetstream.cpp with the setState() protocol  *)
(* of base/include/scy/stateful.h.                                         *)
(*                                                                         *)
(* Controller threads call start(), stop(), close() and the rest; source   *)
(* threads push packets into process().  The stream has an atomic state, a *)
(* queue of state changes still to be told to the adapters, and two        *)
(* mutexes: _mutex, whose critical sections are single actions here, and   *)
(* _procMutex, held across calls into adapters and delegates, whose owner  *)
(* is the variable holder.  A thread advances by one access to shared      *)
(* state at a time; pc[t] names the access it performs next, and the       *)
(* return labels are computed from the enclosing call (auto, closing,      *)
(* within).                                                                *)
(***************************************************************************)
EXTENDS Integers, Sequences, FiniteSets

CONSTANTS
    Controller,    \* threads calling the control methods
    Source,        \* source threads (a source adapter and its thread)
    Proc,          \* packet processors
    Nobody,        \* no thread, no processor
    Order,         \* Order[p]: position asked for when p is attached
    Owned,         \* processors attached with freePointer
    Synced,        \* sources attached with syncState
    Joins,         \* those whose stop() joins their thread (av::MediaCapture)
    InitProcs,     \* processors and sources attached before the threads run
    InitSources,
    InitOpts,      \* the options set by then
    Calls,         \* the calls the controllers make
    Packets,       \* the packets offered: "plain", "nomodify", "final"
    Throwers,      \* who may throw: "setup", "processor", "delegate"
    MaxCalls       \* MaxCalls[t], bound: the calls thread t makes

Thread == Controller \cup Source

ASSUME StreamAssumption ==
    /\ Nobody \notin Thread \cup Proc
    /\ Order \in [Proc -> Int] /\ Owned \subseteq Proc
    /\ Joins \subseteq Synced /\ Synced \subseteq Source
    /\ InitOpts \subseteq [autoStart : BOOLEAN, closeOnError : BOOLEAN]
    /\ InitProcs \subseteq Proc /\ InitSources \subseteq Source
    /\ MaxCalls \in [Thread -> Nat]
    /\ Packets \subseteq {"plain", "nomodify", "final"}
    /\ Calls \subseteq {"start", "stop", "close", "pause", "resume", "lock", "reset",
                        "modify", "write"}

VARIABLES
    state,    \* _state
    states,   \* _states
    seen,     \* the last state told to the adapters
    procs,    \* _processors
    freed,    \* processors the stream has deleted
    srcs,     \* _sources
    opts,     \* _autoStart and _closeOnError
    wired,    \* sources whose emitter has process() attached
    running,  \* sources that emit packets
    holder,   \* owner of _procMutex
    pc,       \* pc[t]: the thread's next step
    target,   \* target[t], after[t]: arguments and return label of setState()
    after,
    auto,     \* auto[t]: start() was called by process()
    closing,  \* closing[t]: stop() was called by close()
    within,   \* within[t]: emit() runs inside the processor chain, or for a proxied packet
    pkt,      \* pkt[t]: the packet in process()
    first,    \* first[t]: firstProc
    made      \* made[t]: calls made so far

shared == <<state, states, seen, procs, freed, srcs, opts, wired, running, holder>>
locals == <<target, after, auto, closing, within, pkt, first>>
vars == <<shared, pc, locals, made>>

States == {"None", "Locked", "Active", "Paused", "Stopping", "Stopped", "Closed", "Error"}

\* Labels at which the thread owns _procMutex, whatever it is within.
AdapterLabels == {"startSources", "stopSources", "join", "pop", "closePop"}
Held == AdapterLabels \cup {"startUnlock", "stopUnlock", "sync", "recheck",
                            "teardown", "closeSync", "closeUnlock"}
Free == {"idle", "start", "setup", "setupFailed", "activate", "startLock",
         "stop", "stop2", "stop3", "stopping", "stopped", "stopLock",
         "close", "close2", "close3", "close4", "closed", "closeLock", "closeSignal",
         "pause", "resume", "resumed", "lock", "locked", "reset",
         "modify", "modify2", "modify3", "edit",
         "process", "active", "first", "procLock", "proxy", "emit", "deliver",
         "final", "except", "error", "assign", "queue"}
ChainLabels == {"chain", "leave"}
Labels == Held \cup ChainLabels \cup Free

TypeOK ==
    /\ state \in States
    /\ states \in Seq(States)
    /\ seen \in States
    /\ procs \subseteq Proc /\ freed \subseteq Proc
    /\ srcs \subseteq Source
    /\ opts \in [autoStart : BOOLEAN, closeOnError : BOOLEAN]
    /\ wired \subseteq Source /\ running \subseteq Source
    /\ holder \in Thread \cup {Nobody}
    /\ pc \in [Thread -> Labels]
    /\ target \in [Thread -> States]
    /\ after \in [Thread -> Free]
    /\ auto \in [Thread -> BOOLEAN]
    /\ closing \in [Thread -> BOOLEAN]
    /\ within \in [Thread -> {"none", "chain", "proxy"}]
    /\ pkt \in [Thread -> {"none", "plain", "nomodify", "final"}]
    /\ first \in [Thread -> Proc \cup {Nobody}]
    /\ made \in [Thread -> Nat]

Init ==
    /\ state = "None" /\ states = <<>> /\ seen = "None"
    /\ procs = InitProcs /\ srcs = InitSources
    /\ opts \in InitOpts
    /\ freed = {} /\ wired = {} /\ running = Source \ Synced
    /\ holder = Nobody
    /\ pc = [t \in Thread |-> "idle"]
    /\ target = [t \in Thread |-> "None"]
    /\ after = [t \in Thread |-> "idle"]
    /\ auto = [t \in Thread |-> FALSE]
    /\ closing = [t \in Thread |-> FALSE]
    /\ within = [t \in Thread |-> "none"]
    /\ pkt = [t \in Thread |-> "none"]
    /\ first = [t \in Thread |-> Nobody]
    /\ made = [t \in Thread |-> 0]

\* The thread goes on to label.
Go(t, label) == pc' = [pc EXCEPT ![t] = label]

-----------------------------------------------------------------------------
(* Faulty variants, used to show that the properties can fail.             *)

PushRequested(t) ==
    /\ pc[t] = "queue"
    /\ states' = Append(states, target[t])
    /\ Go(t, after[t])
    /\ target' = [target EXCEPT ![t] = "None"]
    /\ after' = [after EXCEPT ![t] = "idle"]
    /\ UNCHANGED <<state, seen, procs, freed, srcs, opts, wired, running, holder,
                   auto, closing, within, pkt, first>>

EnterChainUnlocked(t) ==
    /\ pc[t] = "recheck" /\ state = "Active"
    /\ holder' = Nobody
    /\ within' = [within EXCEPT ![t] = "chain"]
    /\ Go(t, "chain")
    /\ UNCHANGED <<state, states, seen, procs, freed, srcs, opts, wired, running,
                   target, after, auto, closing, pkt, first>>

RejectHolding(t) ==
    /\ pc[t] = "recheck" /\ state # "Active"
    /\ first' = [first EXCEPT ![t] = Nobody]
    /\ Go(t, "proxy")
    /\ UNCHANGED <<shared, target, after, auto, closing, within, pkt>>

ReadFirstUnchecked(t) ==
    /\ pc[t] = "first"
    /\ \/ procs = {} /\ first' = [first EXCEPT ![t] = "garbage"]
       \/ \E p \in procs : first' = [first EXCEPT ![t] = p]
    /\ Go(t, "procLock")
    /\ UNCHANGED <<shared, target, after, auto, closing, within, pkt>>

-----------------------------------------------------------------------------
(* Steps shared by the methods.                                            *)

\* Where start(), stop(), and emit() or close() return to.
StartRet(t) == IF auto[t] THEN "active" ELSE "idle"
StopRet(t) == IF closing[t] THEN "closed" ELSE "idle"
EmitRet(t) == IF within[t] = "none" THEN "idle"
              ELSE IF within[t] = "chain" THEN "leave" ELSE "final"

\* stateEquals(st): one atomic read of the state.
Test(t, here, st, yes, no) ==
    /\ pc[t] = here
    /\ Go(t, IF state = st THEN yes ELSE no)
    /\ UNCHANGED <<shared, locals>>

\* setState(st): beforeStateChange() refuses an unchanged state.
SetState(t, here, st, next) ==
    /\ pc[t] = here
    /\ IF state = st
       THEN Go(t, next) /\ UNCHANGED <<target, after>>
       ELSE /\ Go(t, "assign")
            /\ target' = [target EXCEPT ![t] = st]
            /\ after' = [after EXCEPT ![t] = next]
    /\ UNCHANGED shared

Assign(t) ==
    /\ pc[t] = "assign"
    /\ state' = target[t]
    /\ Go(t, "queue")
    /\ UNCHANGED <<states, seen, procs, freed, srcs, opts, wired, running, holder, locals>>

\* onStateChange(_state, oldState): push_back(state), where state is a
\* reference to _state, so it is the value at the time of the push.
Queue(t) ==
    /\ pc[t] = "queue"
    /\ states' = Append(states, state)
    /\ Go(t, after[t])
    /\ target' = [target EXCEPT ![t] = "None"]
    /\ after' = [after EXCEPT ![t] = "idle"]
    /\ UNCHANGED <<state, seen, procs, freed, srcs, opts, wired, running, holder,
                   auto, closing, within, pkt, first>>

\* std::lock_guard of _procMutex.  The mutex is not recursive.
Acquire(t, here, next) ==
    /\ pc[t] = here /\ holder = Nobody
    /\ holder' = t
    /\ Go(t, next)
    /\ UNCHANGED <<state, states, seen, procs, freed, srcs, opts, wired, running, locals>>

Release(t, here, next) ==
    /\ pc[t] = here
    /\ holder' = Nobody
    /\ Go(t, next)
    /\ UNCHANGED <<state, states, seen, procs, freed, srcs, opts, wired, running, locals>>

\* synchronizeStates(): while (!_states.empty()) pop the front and tell the
\* adapters.  empty() is read without _mutex; what a racing push leaves it to
\* return is what it returns just before or just after the push.
More(t, here, pop, done) ==
    /\ pc[t] = here
    /\ Go(t, IF states = <<>> THEN done ELSE pop)
    /\ UNCHANGED <<shared, locals>>

Pop(t, here, sync) ==
    /\ pc[t] = here
    /\ states' = IF states = <<>> THEN <<>> ELSE Tail(states)
    /\ seen' = IF states = <<>> THEN seen ELSE Head(states)
    /\ Go(t, sync)
    /\ UNCHANGED <<state, procs, freed, srcs, opts, wired, running, holder, locals>>

-----------------------------------------------------------------------------
(* start()                                                                 *)

\* setup(): wire the chain and the sources, or fail and throw.
SetupSucceeds(t) ==
    /\ pc[t] = "setup"
    /\ wired' = wired \cup srcs
    /\ Go(t, "activate")
    /\ UNCHANGED <<state, states, seen, procs, freed, srcs, opts, running, holder, locals>>

SetupThrows(t) ==
    /\ "setup" \in Throwers
    /\ SetState(t, "setup", "Error", "setupFailed")
    /\ UNCHANGED <<auto, closing, within, pkt, first>>

\* The exception leaves start(): to the caller, or to the catch of process().
SetupFailed(t) ==
    /\ pc[t] = "setupFailed"
    /\ Go(t, IF auto[t] THEN "except" ELSE "idle")
    /\ auto' = [auto EXCEPT ![t] = FALSE]
    /\ UNCHANGED <<shared, target, after, closing, within, pkt, first>>

Activate(t) ==
    /\ SetState(t, "activate", "Active", "startLock")
    /\ UNCHANGED <<auto, closing, within, pkt, first>>

StartSources(t) ==
    /\ pc[t] = "startSources"
    /\ running' = running \cup (srcs \cap Synced)
    /\ Go(t, "startUnlock")
    /\ UNCHANGED <<state, states, seen, procs, freed, srcs, opts, wired, holder, locals>>

StartStep(t) ==
    \/ Test(t, "start", "Active", StartRet(t), "setup")
    \/ SetupSucceeds(t)
    \/ SetupThrows(t)
    \/ SetupFailed(t)
    \/ Activate(t)
    \/ Acquire(t, "startLock", "startSources")
    \/ StartSources(t)
    \/ Release(t, "startUnlock", StartRet(t))

-----------------------------------------------------------------------------
(* stop()                                                                  *)

Stopping(t) ==
    /\ SetState(t, "stopping", "Stopping", "stopped")
    /\ UNCHANGED <<auto, closing, within, pkt, first>>

Stopped(t) ==
    /\ SetState(t, "stopped", "Stopped", "stopLock")
    /\ UNCHANGED <<auto, closing, within, pkt, first>>

\* stopSources(): Startable::stop() of every synchronized source.
StopSources(t) ==
    /\ pc[t] = "stopSources"
    /\ running' = running \ (srcs \cap Synced)
    /\ Go(t, "join")
    /\ UNCHANGED <<state, states, seen, procs, freed, srcs, opts, wired, holder, locals>>

JoinSources(t) ==
    /\ pc[t] = "join"
    /\ \A s \in srcs \cap Joins : pc[s] = "idle"
    /\ Go(t, "stopUnlock")
    /\ UNCHANGED <<shared, locals>>

StopStep(t) ==
    \/ Test(t, "stop", "Stopped", StopRet(t), "stop2")
    \/ Test(t, "stop2", "Stopping", StopRet(t), "stop3")
    \/ Test(t, "stop3", "Closed", StopRet(t), "stopping")
    \/ Stopping(t)
    \/ Stopped(t)
    \/ Acquire(t, "stopLock", "stopSources")
    \/ StopSources(t)
    \/ JoinSources(t)
    \/ Release(t, "stopUnlock", StopRet(t))

-----------------------------------------------------------------------------
(* close()                                                                 *)

\* Unless it is stopping, stop() first.
CloseStops(t) ==
    /\ pc[t] = "close4"
    /\ Go(t, IF state = "Stopping" THEN "closed" ELSE "stop")
    /\ closing' = [closing EXCEPT ![t] = TRUE]
    /\ UNCHANGED <<shared, target, after, auto, within, pkt, first>>

Closed(t) ==
    /\ SetState(t, "closed", "Closed", "closeLock")
    /\ closing' = [closing EXCEPT ![t] = FALSE]
    /\ UNCHANGED <<auto, within, pkt, first>>

Teardown(t) ==
    /\ pc[t] = "teardown"
    /\ wired' = wired \ srcs
    /\ Go(t, "closeSync")
    /\ UNCHANGED <<state, states, seen, procs, freed, srcs, opts, running, holder, locals>>

CloseLock(t) == Acquire(t, "closeLock", "teardown")

\* Close.emit(*this)
CloseSignal(t) ==
    /\ pc[t] = "closeSignal"
    /\ Go(t, EmitRet(t))
    /\ UNCHANGED <<shared, locals>>

CloseStep(t) ==
    \/ Test(t, "close", "None", EmitRet(t), "close2")
    \/ Test(t, "close2", "Closed", EmitRet(t), "close3")
    \/ Test(t, "close3", "Stopped", "closed", "close4")
    \/ CloseStops(t)
    \/ Closed(t)
    \/ CloseLock(t)
    \/ Teardown(t)
    \/ More(t, "closeSync", "closePop", "closeUnlock")
    \/ Pop(t, "closePop", "closeSync")
    \/ Release(t, "closeUnlock", "closeSignal")
    \/ CloseSignal(t)

-----------------------------------------------------------------------------
(* pause(), resume(), lock(), reset(), and the methods that edit the       *)
(* adapter lists.                                                          *)

Pause(t) == SetState(t, "pause", "Paused", "idle")
Resumed(t) == SetState(t, "resumed", "Active", "idle")
Locked(t) == SetState(t, "locked", "Locked", "idle")

PauseResumeLock(t) ==
    \/ Test(t, "resume", "Paused", "resumed", "idle")
    \/ Test(t, "lock", "None", "locked", "idle")
    \/ /\ Pause(t) \/ Resumed(t) \/ Locked(t)
       /\ UNCHANGED <<auto, closing, within, pkt, first>>

\* reset() clears the lists, also if the state is no more None or Closed, which it only
\* asserts.
Clear(t) ==
    /\ pc[t] = "reset"
    /\ procs' = {} /\ srcs' = {}
    /\ freed' = freed \cup (procs \cap Owned)
    /\ Go(t, "idle")
    /\ UNCHANGED <<state, states, seen, opts, wired, running, holder, locals>>

\* Erasing the reference of an adapter runs its deleter.
EditProcs(P) ==
    /\ procs' = P
    /\ freed' = freed \cup ((procs \ P) \cap Owned)
    /\ UNCHANGED <<srcs, opts, wired>>

\* attachSource(), detachSource(PacketStreamAdapter*), detachSource(PacketSignal&).
AttachSource(s) ==
    /\ s \notin srcs
    /\ srcs' = srcs \cup {s}
    /\ UNCHANGED <<procs, freed, wired, opts>>

DetachAdapter(s) ==
    /\ s \in srcs
    /\ srcs' = srcs \ {s} /\ wired' = wired \ {s}
    /\ UNCHANGED <<procs, freed, opts>>

DetachSignal(s) ==
    /\ s \in srcs
    /\ wired' = wired \ {s}
    /\ UNCHANGED <<procs, freed, srcs, opts>>

\* autoStart(), closeOnError().
SetOption(o, b) ==
    /\ opts' = [opts EXCEPT ![o] = b]
    /\ UNCHANGED <<procs, freed, srcs, wired>>

\* The edit is made under _mutex, after assertCanModify() has read the state.
Edit(t) ==
    /\ pc[t] = "edit"
    /\ \/ \E p \in Proc \ (procs \cup freed) : EditProcs(procs \cup {p})
       \/ \E p \in procs : EditProcs(procs \ {p})
       \/ \E o \in {"autoStart", "closeOnError"}, b \in BOOLEAN : SetOption(o, b)
       \/ \E s \in Source : AttachSource(s) \/ DetachAdapter(s) \/ DetachSignal(s)
    /\ Go(t, "idle")
    /\ UNCHANGED <<state, states, seen, running, holder, locals>>

ModifyStep(t) ==
    \/ Clear(t)
    \/ Test(t, "modify", "Locked", "idle", "modify2")
    \/ Test(t, "modify2", "Stopping", "idle", "modify3")
    \/ Test(t, "modify3", "Active", "idle", "edit")
    \/ Edit(t)

-----------------------------------------------------------------------------
(* process(), emit(), handleException()                                    *)

\* Auto start if required, then look at the state.
CheckAutoStart(t) ==
    /\ pc[t] = "process"
    /\ LET starts == opts.autoStart /\ state = "None"
       IN  /\ Go(t, IF starts THEN "start" ELSE "active")
           /\ auto' = [auto EXCEPT ![t] = starts]
    /\ UNCHANGED <<shared, target, after, closing, within, pkt, first>>

CheckActive(t) ==
    /\ pc[t] = "active"
    /\ Go(t, IF state = "Active" /\ pkt[t] # "nomodify" THEN "first" ELSE "proxy")
    /\ auto' = [auto EXCEPT ![t] = FALSE]
    /\ UNCHANGED <<shared, target, after, closing, within, pkt, first>>

\* _processors[0]: one of the processors of least order, if there is any.
ReadFirst(t) ==
    /\ pc[t] = "first"
    /\ \/ procs = {} /\ Go(t, "proxy") /\ UNCHANGED first
       \/ \E p \in procs :
             /\ \A q \in procs : Order[p] <= Order[q]
             /\ first' = [first EXCEPT ![t] = p]
             /\ Go(t, "procLock")
    /\ UNCHANGED <<shared, target, after, auto, closing, within, pkt>>

\* Still active: enter the chain.  Otherwise leave the mutex and proxy the packet.
EnterChain(t) ==
    /\ pc[t] = "recheck" /\ state = "Active"
    /\ within' = [within EXCEPT ![t] = "chain"]
    /\ Go(t, "chain")
    /\ UNCHANGED <<shared, target, after, auto, closing, pkt, first>>

RejectPacket(t) ==
    /\ pc[t] = "recheck" /\ state # "Active"
    /\ holder' = Nobody
    /\ first' = [first EXCEPT ![t] = Nobody]
    /\ Go(t, "proxy")
    /\ UNCHANGED <<state, states, seen, procs, freed, srcs, opts, wired, running,
                   target, after, auto, closing, within, pkt>>

\* The processors forward the packet to emit(), or keep it.
RunChain(t) ==
    /\ pc[t] = "chain"
    /\ Go(t, "emit") \/ Go(t, "leave")
    /\ UNCHANGED <<shared, locals>>

\* The lock guard is destroyed: at the end of its block, or by an exception of
\* a processor on its way to the catch of process().
LeaveChain(t, next) ==
    /\ holder' = Nobody
    /\ within' = [within EXCEPT ![t] = "none"]
    /\ first' = [first EXCEPT ![t] = Nobody]
    /\ Go(t, next)
    /\ UNCHANGED <<state, states, seen, procs, freed, srcs, opts, wired, running,
                   target, after, auto, closing, pkt>>

ChainThrows(t) == pc[t] = "chain" /\ "processor" \in Throwers /\ LeaveChain(t, "except")
ChainEnds(t) == pc[t] = "leave" /\ LeaveChain(t, "final")

Proxy(t) ==
    /\ pc[t] = "proxy"
    /\ within' = [within EXCEPT ![t] = "proxy"]
    /\ Go(t, "emit")
    /\ UNCHANGED <<shared, target, after, auto, closing, pkt, first>>

\* emitter.emit(packet): the delegates return, or one throws into the catch of emit().
Deliver(t) ==
    /\ pc[t] = "deliver"
    /\ \/ Go(t, EmitRet(t))
       \/ "delegate" \in Throwers /\ Go(t, "except")
    /\ UNCHANGED <<shared, locals>>

\* stop() on the final packet; otherwise process() is over.
CheckFinal(t) ==
    /\ pc[t] = "final"
    /\ Go(t, IF state = "Active" /\ pkt[t] = "final" THEN "stop" ELSE "idle")
    /\ within' = [within EXCEPT ![t] = "none"]
    /\ UNCHANGED <<shared, target, after, auto, closing, pkt, first>>

\* handleException(): set Error, signal it, close() if so configured.
HandleException(t) ==
    /\ SetState(t, "except", "Error", "error")
    /\ UNCHANGED <<auto, closing, within, pkt, first>>

ErrorSignal(t) ==
    /\ pc[t] = "error"
    /\ Go(t, IF opts.closeOnError THEN "close" ELSE EmitRet(t))
    /\ UNCHANGED <<shared, locals>>

ProcessStep(t) ==
    \/ CheckAutoStart(t)
    \/ CheckActive(t)
    \/ ReadFirst(t)
    \/ Acquire(t, "procLock", "sync")
    \/ More(t, "sync", "pop", "recheck")
    \/ Pop(t, "pop", "sync")
    \/ EnterChain(t)
    \/ RejectPacket(t)
    \/ RunChain(t)
    \/ ChainThrows(t)
    \/ ChainEnds(t)
    \/ Proxy(t)
    \/ Test(t, "emit", "Active", "deliver", EmitRet(t))
    \/ Deliver(t)
    \/ CheckFinal(t)
    \/ HandleException(t)
    \/ ErrorSignal(t)

-----------------------------------------------------------------------------
(* The threads.                                                            *)

Enter(t, label) ==
    /\ pc[t] = "idle" /\ made[t] < MaxCalls[t]
    /\ made' = [made EXCEPT ![t] = @ + 1]
    /\ Go(t, label)
    /\ UNCHANGED <<shared, target, after, auto, closing, within, first>>

\* A controller calls a method; it calls reset() where it sees that it may.
Call(t, method) ==
    /\ method = "reset" => state \in {"None", "Closed"}
    /\ Enter(t, method) /\ UNCHANGED pkt

\* A source emits a packet to process(), or a controller write()s one.
Offer(t, k) ==
    /\ t \in Source => t \in running \cap wired
    /\ t \in Controller => "write" \in Calls
    /\ Enter(t, "process")
    /\ pkt' = [pkt EXCEPT ![t] = k]

Step(t) ==
    /\ \/ Assign(t) \/ Queue(t)
       \/ StartStep(t) \/ StopStep(t) \/ CloseStep(t)
       \/ PauseResumeLock(t) \/ ModifyStep(t)
       \/ ProcessStep(t)
    /\ UNCHANGED made

Next ==
    \/ \E t \in Controller, m \in Calls \ {"write"} : Call(t, m)
    \/ \E t \in Thread, k \in Packets : Offer(t, k)
    \/ \E t \in Thread : Step(t)

Spec == Init /\ [][Next]_vars

\* Threads are scheduled, and adapters and delegates return.  Nothing is assumed
\* of who gets a contended mutex next, nor that any call is made.
FairSpec == Spec /\ \A t \in Thread : WF_vars(Step(t))

-----------------------------------------------------------------------------
(* Properties.                                                             *)

\* t is running code of the adapters: a source's start() or stop(), an
\* onStreamStateChange(), or the processor chain.
InAdapters(t) == pc[t] \in AdapterLabels \/ within[t] = "chain"

\* "packet adapters do not need to consider thread safety" (synchronizeStates):
\* however start, stop, close and several sources interleave, exceptions
\* included, adapter code runs on one thread at a time.
OneThreadInAdapters ==
    \A t, u \in Thread : InAdapters(t) /\ InAdapters(u) => t = u

\* synchronizeStates() tests _states.empty() without _mutex and then takes the
\* front: the queue it takes it from is never empty.
NeverPopEmpty ==
    \A t \in Thread : pc[t] \in {"pop", "closePop"} => states # <<>>

\* The last state that the adapters have been or are going to be told.
LastTold == IF states = <<>> THEN seen ELSE states[Len(states)]

\* setState() is not atomic, so concurrent calls may queue one state twice and
\* another never.  But the last one queued is always the state the stream is
\* in: once every setState() in progress has queued its change, adapters that
\* drain the queue end up in the stream's state.
AdaptersConverge == (\A t \in Thread : pc[t] # "queue") => LastTold = state

\* A deadlock: t waits for _procMutex and owns it, which happens when a delegate
\* throws inside the chain; or t owns it and joins a source that waits for it, or
\* the source whose thread it is itself.
LockLabels == {"startLock", "stopLock", "closeLock", "procLock"}
Stuck(t) ==
    \/ holder = t /\ pc[t] \in LockLabels
    \/ pc[t] = "join" /\ \E s \in srcs \cap Joins : s = t \/ pc[s] \in LockLabels

\* stop() and close() return, though they wait for a mutex that is held across
\* calls into processors, delegates and sources, unless a thread has deadlocked
\* in one of the three ways of Stuck: there is no other.
StopReturns ==
    \A t \in Controller :
        pc[t] \in {"stop", "close"} ~> (pc[t] = "idle" \/ \E u \in Thread : Stuck(u))

\* "All PacketStream methods are thread-safe" (packetstream.h): a packet is
\* never handed to a processor that has been deleted.
ChainAlive ==
    \A t \in Thread : within[t] = "chain" => first[t] \notin freed
=============================================================================

------------------------------- MODULE Signal -------------------------------
(***************************************************************************)
(* Signal<RT(Args...)> of base/include/scy/signal.h: the signal and slots  *)
(* primitive every other component of the library is wired with.           *)
(*                                                                         *)
(* A signal owns a list of slots guarded by a mutex.  emit() copies the    *)
(* list under the mutex and then walks the copy without it, so attach()    *)
(* and detach() - called by other threads or by the very callbacks being   *)
(* run - interleave with emissions at every slot.  A slot carries an       *)
(* atomic flag: kill() clears it, alive() is test_and_set().               *)
(*                                                                         *)
(* Each critical section of the mutex is one action.  An emission is an    *)
(* activity: two emissions in progress are two threads, or one thread that *)
(* emits again from inside a callback (whose interleavings are among those *)
(* of two threads).  A slot object is attached at most once, as every      *)
(* caller in the library does by building it with slot(...) or from a      *)
(* std::function.                                                          *)
(***************************************************************************)
EXTENDS Integers, FiniteSets

CONSTANTS
    Slot,        \* the slot objects callers create
    Emission,    \* the emissions that may be in progress at once
    Delegate,    \* Delegate[s]: the (instance, method) pair a slot calls
    Comparable,  \* slots whose delegate is a class method; FunctionDelegates never compare equal
    Instance,    \* Instance[s]: the object a slot belongs to
    ReqId,       \* ReqId[s]: the id asked for by the caller, -1 for "assign one"
    Priority     \* Priority[s]

ASSUME SignalAssumption ==
    /\ Comparable \subseteq Slot
    /\ ReqId \in [Slot -> Nat \cup {-1}]
    /\ Priority \in [Slot -> Int]
    /\ DOMAIN Delegate = Slot
    /\ DOMAIN Instance = Slot

VARIABLES
    phase,    \* phase[s]: new, attaching (duplicates cleared, not yet pushed), attached, detached
    flag,     \* flag[s]: Slot::flag
    slotId,   \* slotId[s]: Slot::id
    lastId,   \* _lastId
    active,   \* active[e]: emission e is in progress
    todo,     \* todo[e]: slots of e's copy not looked at yet
    calling,  \* calling[e]: the slot whose delegate e is running (at most one)
    snap,     \* snap[e]: the copy e took (auxiliary)
    called,   \* called[e]: slots e has called (auxiliary)
    heldBy,   \* heldBy[s]: emissions that had s in their copy, unlooked at, when it was killed (auxiliary)
    lateBy    \* lateBy[s]: emissions that called s after it was killed (auxiliary)

slotVars == <<phase, flag, slotId, lastId, heldBy>>
emitVars == <<active, todo, calling, snap, called, lateBy>>
vars == <<slotVars, emitVars>>

Phases == {"new", "attaching", "attached", "detached"}

\* _slots, as a set: std::sort leaves the order of equal priorities unspecified.
Attached == {s \in Slot : phase[s] = "attached"}

\* A slot that may be first of S in _slots: no other has a higher priority.
First(S) == {s \in S : \A t \in S : Priority[s] >= Priority[t]}

\* AbstractDelegate::operator==.
SameDelegate(s, t) == s \in Comparable /\ t \in Comparable /\ Delegate[s] = Delegate[t]

TypeOK ==
    /\ phase \in [Slot -> Phases]
    /\ flag \in [Slot -> BOOLEAN]
    /\ slotId \in [Slot -> Nat \cup {-1}]
    /\ lastId \in Nat
    /\ active \in [Emission -> BOOLEAN]
    /\ todo \in [Emission -> SUBSET Slot]
    /\ calling \in [Emission -> SUBSET Slot]
    /\ snap \in [Emission -> SUBSET Slot]
    /\ called \in [Emission -> SUBSET Slot]
    /\ heldBy \in [Slot -> SUBSET Emission]
    /\ lateBy \in [Slot -> SUBSET Emission]

Init ==
    /\ phase = [s \in Slot |-> "new"]
    /\ flag = [s \in Slot |-> TRUE]
    /\ slotId = ReqId
    /\ lastId = 0
    /\ active = [e \in Emission |-> FALSE]
    /\ todo = [e \in Emission |-> {}]
    /\ calling = [e \in Emission |-> {}]
    /\ snap = [e \in Emission |-> {}]
    /\ called = [e \in Emission |-> {}]
    /\ heldBy = [s \in Slot |-> {}]
    /\ lateBy = [s \in Slot |-> {}]

-----------------------------------------------------------------------------
(* Faulty variants, used to show that the properties can fail.             *)

EraseWithoutKill(K) ==
    /\ flag' = flag
    /\ heldBy' = [s \in Slot |-> IF s \in K THEN {e \in Emission : s \in todo[e]} ELSE heldBy[s]]

SkipLowPriority(e, s) ==
    /\ active[e] /\ calling[e] = {} /\ s \in First(todo[e])
    /\ todo' = [todo EXCEPT ![e] = First(@) \ {s}]
    /\ calling' = [calling EXCEPT ![e] = IF flag[s] THEN {s} ELSE {}]
    /\ called' = [called EXCEPT ![e] = IF flag[s] THEN @ \cup {s} ELSE @]
    /\ lateBy' = [lateBy EXCEPT ![s] =
                    IF flag[s] /\ phase[s] = "detached" THEN @ \cup {e} ELSE @]
    /\ flag' = [flag EXCEPT ![s] = TRUE]
    /\ UNCHANGED <<phase, slotId, lastId, heldBy, active, snap>>

-----------------------------------------------------------------------------
(* Slot list operations.                                                   *)

\* Slot::kill() on every slot of K, which are erased from _slots.
Kill(K) ==
    /\ flag' = [s \in Slot |-> IF s \in K THEN FALSE ELSE flag[s]]
    /\ heldBy' = [s \in Slot |-> IF s \in K THEN {e \in Emission : s \in todo[e]} ELSE heldBy[s]]

\* attach(slot), first critical section: detach(slot) clears one duplicate.
Supersede(s, K) ==
    /\ Kill(K)
    /\ phase' = [t \in Slot |-> IF t \in K THEN "detached"
                                ELSE IF t = s THEN "attaching" ELSE phase[t]]
    /\ UNCHANGED <<slotId, lastId, emitVars>>

ClearDuplicate(s) ==
    /\ phase[s] = "new"
    /\ LET dups == {t \in Attached : flag[t] /\ SameDelegate(s, t)}
       IN  \/ dups = {} /\ Supersede(s, {})
           \/ \E t \in First(dups) : Supersede(s, {t})

\* attach(slot), second critical section: give it an id, push it, sort the list.
Push(s) ==
    /\ phase[s] = "attaching"
    /\ phase' = [phase EXCEPT ![s] = "attached"]
    /\ slotId' = [slotId EXCEPT ![s] = IF @ = -1 THEN lastId + 1 ELSE @]
    /\ lastId' = IF slotId[s] = -1 THEN lastId + 1 ELSE lastId
    /\ UNCHANGED <<flag, heldBy, emitVars>>

Detach(K) ==
    /\ Kill(K)
    /\ phase' = [t \in Slot |-> IF t \in K THEN "detached" ELSE phase[t]]
    /\ UNCHANGED <<slotId, lastId, emitVars>>

\* detach(int id): the first slot in the list with that id.
DetachId(s) ==
    /\ s \in First({t \in Attached : flag[t] /\ slotId[t] = slotId[s]})
    /\ Detach({s})

\* detach(SlotPtr other): the first slot with an equal delegate.
DetachSlot(s) ==
    /\ s \in First({t \in Attached : flag[t] /\ SameDelegate(s, t)})
    /\ Detach({s})

\* detach(const void* instance): every slot of the instance.
DetachInstance(s) ==
    /\ s \in Attached
    /\ Detach({t \in Attached : flag[t] /\ Instance[t] = Instance[s]})

\* detachAll().
DetachAll ==
    /\ Attached # {}
    /\ Detach(Attached)

-----------------------------------------------------------------------------
(* emit().                                                                 *)

\* slots(): copy the list under the mutex.
EmitBegin(e) ==
    /\ ~active[e]
    /\ active' = [active EXCEPT ![e] = TRUE]
    /\ todo' = [todo EXCEPT ![e] = Attached]
    /\ snap' = [snap EXCEPT ![e] = Attached]
    /\ called' = [called EXCEPT ![e] = {}]
    /\ UNCHANGED <<slotVars, calling, lateBy>>

\* The next slot of the copy: call its delegate if alive().  alive() is
\* test_and_set(): it reports the flag and leaves it set.
EmitNext(e, s) ==
    /\ active[e] /\ calling[e] = {} /\ s \in First(todo[e])
    /\ todo' = [todo EXCEPT ![e] = @ \ {s}]
    /\ calling' = [calling EXCEPT ![e] = IF flag[s] THEN {s} ELSE {}]
    /\ called' = [called EXCEPT ![e] = IF flag[s] THEN @ \cup {s} ELSE @]
    /\ lateBy' = [lateBy EXCEPT ![s] =
                    IF flag[s] /\ phase[s] = "detached" THEN @ \cup {e} ELSE @]
    /\ flag' = [flag EXCEPT ![s] = TRUE]
    /\ UNCHANGED <<phase, slotId, lastId, heldBy, active, snap>>

\* The delegate returns.
CallReturns(e) ==
    /\ calling[e] # {}
    /\ calling' = [calling EXCEPT ![e] = {}]
    /\ UNCHANGED <<slotVars, active, todo, snap, called, lateBy>>

\* The delegate throws StopPropagation, which emit() swallows, or any other
\* exception, which leaves emit(): the rest of the copy is abandoned.
CallThrows(e) ==
    /\ calling[e] # {}
    /\ calling' = [calling EXCEPT ![e] = {}]
    /\ active' = [active EXCEPT ![e] = FALSE]
    /\ todo' = [todo EXCEPT ![e] = {}]
    /\ UNCHANGED <<slotVars, snap, called, lateBy>>

\* The copy is exhausted.
EmitEnd(e) ==
    /\ active[e] /\ calling[e] = {} /\ todo[e] = {}
    /\ active' = [active EXCEPT ![e] = FALSE]
    /\ UNCHANGED <<slotVars, todo, calling, snap, called, lateBy>>

Next ==
    \/ \E s \in Slot : ClearDuplicate(s) \/ Push(s)
    \/ \E s \in Slot : DetachId(s) \/ DetachSlot(s) \/ DetachInstance(s)
    \/ DetachAll
    \/ \E e \in Emission : EmitBegin(e) \/ CallReturns(e) \/ CallThrows(e) \/ EmitEnd(e)
    \/ \E e \in Emission, s \in Slot : EmitNext(e, s)

Spec == Init /\ [][Next]_vars

-----------------------------------------------------------------------------
(* Properties.                                                             *)

\* Whatever is attached or detached while an emission walks its copy, a slot of
\* the copy that is still attached has been called or is still to be called: a
\* concurrent detach of one slot never makes emit() miss another.
NoMissedSlot ==
    \A e \in Emission : active[e] =>
        \A s \in snap[e] : phase[s] = "attached" => s \in todo[e] \cup called[e]

\* A detached slot is called only by emissions whose copy predates the detach,
\* and the first of them to look at it skips it: an emission that overlaps no
\* other never calls a slot after detach() has returned.
LateCallsBounded ==
    \A s \in Slot :
        /\ lateBy[s] \subseteq heldBy[s]
        /\ heldBy[s] # {} => lateBy[s] # heldBy[s]

\* The ids attach() picks itself are unique: two slots attached without a
\* requested id never share one, whatever the interleaving of the two critical
\* sections of attach().
AutoIdsUnique ==
    \A s, t \in Slot :
        /\ s # t /\ ReqId[s] = -1 /\ ReqId[t] = -1
        /\ phase[s] \in {"attached", "detached"} /\ phase[t] \in {"attached", "detached"}
        => slotId[s] # slotId[t]

=============================================================================

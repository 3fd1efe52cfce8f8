---------------------------- MODULE SignalProofs ----------------------------
(* Proofs about Signal, for every set of slots and of emissions.           *)
EXTENDS Signal, TLAPS

Listed == {"attached", "detached"}

\* A slot's flag is cleared only when it is erased from the list.
FlagInv == \A s \in Slot : phase[s] # "detached" => flag[s]

\* A copy of the list holds only slots that were attached when it was taken.
SnapInv ==
    \A e \in Emission :
        /\ todo[e] \subseteq snap[e]
        /\ \A s \in snap[e] : phase[s] \in Listed

\* Which emissions may call a detached slot, before and after one of them has
\* looked at it (and so set its flag again).
LateInv ==
    \A s \in Slot :
        /\ phase[s] # "detached" => heldBy[s] = {} /\ lateBy[s] = {}
        /\ phase[s] = "detached" =>
            /\ lateBy[s] \subseteq heldBy[s]
            /\ \A e \in Emission : s \in todo[e] => e \in heldBy[s] \ lateBy[s]
            /\ ~flag[s] => lateBy[s] = {}
            /\ flag[s] => \E e \in heldBy[s] : e \notin lateBy[s] /\ s \notin todo[e]

\* Ids given out so far do not exceed _lastId.
IdInv ==
    \A s \in Slot : ReqId[s] = -1 =>
        /\ phase[s] \in Listed => slotId[s] \in 1 .. lastId
        /\ phase[s] \notin Listed => slotId[s] = -1

EmitInv == FlagInv /\ SnapInv /\ NoMissedSlot /\ LateInv

-----------------------------------------------------------------------------

\* Every step keeps the state well typed: Signal's type invariant holds.
THEOREM TypeCorrect == Spec => []TypeOK
<1>1. Init => TypeOK
  BY SignalAssumption DEF Init, TypeOK, Phases
<1>2. TypeOK /\ [Next]_vars => TypeOK'
  <2> SUFFICES ASSUME TypeOK, [Next]_vars PROVE TypeOK'
    OBVIOUS
  <2> USE SignalAssumption DEF TypeOK, Phases, slotVars, emitVars
  <2>1. ASSUME NEW s \in Slot, NEW K, Supersede(s, K) PROVE TypeOK'
    BY <2>1 DEF Supersede, Kill
  <2>2. ASSUME NEW s \in Slot, Push(s) PROVE TypeOK'
    BY <2>2 DEF Push
  <2>3. ASSUME NEW K, Detach(K) PROVE TypeOK'
    BY <2>3 DEF Detach, Kill
  <2>4. ASSUME NEW e \in Emission, EmitBegin(e) PROVE TypeOK'
    BY <2>4 DEF EmitBegin, Attached
  <2>5. ASSUME NEW e \in Emission, CallReturns(e) \/ CallThrows(e) \/ EmitEnd(e) PROVE TypeOK'
    BY <2>5 DEF CallReturns, CallThrows, EmitEnd
  <2>6. ASSUME NEW e \in Emission, NEW s \in Slot, EmitNext(e, s) PROVE TypeOK'
    BY <2>6 DEF EmitNext
  <2>7. CASE UNCHANGED vars
    BY <2>7 DEF vars
  <2>8. QED
    BY <2>1, <2>2, <2>3, <2>4, <2>5, <2>6, <2>7
    DEF Next, ClearDuplicate, DetachId, DetachSlot, DetachInstance, DetachAll
<1>3. QED
  BY <1>1, <1>2, PTL DEF Spec

-----------------------------------------------------------------------------

\* The slots the list operations kill are attached ones.
LEMMA KilledAreAttached ==
    /\ \A s \in Slot : ClearDuplicate(s) =>
            phase[s] = "new" /\ \E K \in SUBSET Attached : Supersede(s, K)
    /\ \A s \in Slot : DetachId(s) \/ DetachSlot(s) \/ DetachInstance(s) =>
            \E K \in SUBSET Attached : Detach(K)
    /\ DetachAll => \E K \in SUBSET Attached : Detach(K)
<1> USE DEF First
<1>1. ASSUME NEW s \in Slot
      PROVE  ClearDuplicate(s) => phase[s] = "new" /\ \E K \in SUBSET Attached : Supersede(s, K)
  <2> SUFFICES ASSUME ClearDuplicate(s) PROVE \E K \in SUBSET Attached : Supersede(s, K)
    BY DEF ClearDuplicate
  <2>1. CASE Supersede(s, {})
    BY <2>1
  <2>2. CASE \E t \in Attached : Supersede(s, {t})
    <3>1. PICK t \in Attached : Supersede(s, {t})
      BY <2>2
    <3>2. {t} \in SUBSET Attached
      OBVIOUS
    <3> QED BY <3>1, <3>2
  <2> QED BY <2>1, <2>2 DEF ClearDuplicate
<1>2. ASSUME NEW s \in Slot
      PROVE  DetachId(s) \/ DetachSlot(s) => Detach({s}) /\ {s} \in SUBSET Attached
  BY DEF DetachId, DetachSlot
<1>3. ASSUME NEW s \in Slot
      PROVE  DetachInstance(s) => \E K \in SUBSET Attached : Detach(K)
  <2>1. {t \in Attached : flag[t] /\ Instance[t] = Instance[s]} \in SUBSET Attached
    OBVIOUS
  <2> QED BY <2>1 DEF DetachInstance
<1>4. DetachAll => \E K \in SUBSET Attached : Detach(K)
  BY DEF DetachAll
<1> QED BY <1>1, <1>2, <1>3, <1>4

\* What an emission may call follows from four facts kept by every step.
LEMMA EmitInvStep == TypeOK /\ EmitInv /\ [Next]_vars => EmitInv'
<1> SUFFICES ASSUME TypeOK, EmitInv, [Next]_vars PROVE EmitInv'
  OBVIOUS
<1> USE DEF TypeOK, Phases, Listed, EmitInv, FlagInv, SnapInv, NoMissedSlot, LateInv,
            slotVars, emitVars
<1>1. ASSUME NEW s \in Slot, phase[s] = "new", NEW K \in SUBSET Attached, Supersede(s, K)
      PROVE  EmitInv'
  <2> USE <1>1 DEF Supersede, Kill, Attached
  <2>1. FlagInv'  OBVIOUS
  <2>2. SnapInv'  OBVIOUS
  <2>3. NoMissedSlot'  OBVIOUS
  <2>4. LateInv'  OBVIOUS
  <2> QED BY <2>1, <2>2, <2>3, <2>4
<1>2. ASSUME NEW s \in Slot, Push(s) PROVE EmitInv'
  <2> USE <1>2 DEF Push
  <2>1. FlagInv'  OBVIOUS
  <2>2. SnapInv'  OBVIOUS
  <2>3. NoMissedSlot'  OBVIOUS
  <2>4. LateInv'  OBVIOUS
  <2> QED BY <2>1, <2>2, <2>3, <2>4
<1>3. ASSUME NEW K \in SUBSET Attached, Detach(K) PROVE EmitInv'
  <2> USE <1>3 DEF Detach, Kill, Attached
  <2>1. FlagInv'  OBVIOUS
  <2>2. SnapInv'  OBVIOUS
  <2>3. NoMissedSlot'  OBVIOUS
  <2>4. LateInv'  OBVIOUS
  <2> QED BY <2>1, <2>2, <2>3, <2>4
<1>4. ASSUME NEW e \in Emission, EmitBegin(e) PROVE EmitInv'
  <2> USE <1>4 DEF EmitBegin, Attached
  <2>1. FlagInv'  OBVIOUS
  <2>2. SnapInv'  OBVIOUS
  <2>3. NoMissedSlot'  OBVIOUS
  <2>4. LateInv'  OBVIOUS
  <2> QED BY <2>1, <2>2, <2>3, <2>4
<1>5. ASSUME NEW e \in Emission, CallReturns(e) \/ CallThrows(e) \/ EmitEnd(e) PROVE EmitInv'
  <2> USE <1>5 DEF CallReturns, CallThrows, EmitEnd
  <2>1. FlagInv'  OBVIOUS
  <2>2. SnapInv'  OBVIOUS
  <2>3. NoMissedSlot'  OBVIOUS
  <2>4. LateInv'  OBVIOUS
  <2> QED BY <2>1, <2>2, <2>3, <2>4
<1>6. ASSUME NEW e \in Emission, NEW s \in Slot, EmitNext(e, s) PROVE EmitInv'
  <2> USE <1>6 DEF EmitNext, First
  <2>1. FlagInv'  OBVIOUS
  <2>2. SnapInv'  OBVIOUS
  <2>3. NoMissedSlot'  OBVIOUS
  <2>4. LateInv'  OBVIOUS
  <2> QED BY <2>1, <2>2, <2>3, <2>4
<1>7. CASE UNCHANGED vars
  BY <1>7 DEF vars
<1> HIDE DEF EmitInv, TypeOK, slotVars, emitVars
<1>8. QED
  BY KilledAreAttached, <1>1, <1>2, <1>3, <1>4, <1>5, <1>6, <1>7 DEF Next

\* An emission never misses a slot that stays attached, and a slot that is
\* detached is only ever called by emissions that overlap the detach, at least
\* one of which skips it.
THEOREM EmissionCorrect == Spec => [](NoMissedSlot /\ LateCallsBounded)
<1>1. Init => EmitInv
  BY DEF Init, EmitInv, FlagInv, SnapInv, NoMissedSlot, LateInv
<1>2. TypeOK /\ EmitInv => NoMissedSlot /\ LateCallsBounded
  BY DEF TypeOK, Phases, EmitInv, LateInv, LateCallsBounded
<1>3. QED
  BY <1>1, <1>2, EmitInvStep, TypeCorrect, PTL DEF Spec

\* A delegate that was detached is called only by emissions that were running
\* when it was (SignalBase::detach marks it dead, emit works on its snapshot).
THEOREM LateCallsCorrect == Spec => []LateCallsBounded
  BY EmissionCorrect, PTL

\* The ids attach() assigns are pairwise different.
THEOREM AutoIdsCorrect == Spec => []AutoIdsUnique
<1>1. Init => IdInv /\ AutoIdsUnique
  BY DEF Init, IdInv, AutoIdsUnique, Listed
<1>2. TypeOK /\ IdInv /\ AutoIdsUnique /\ [Next]_vars => (IdInv /\ AutoIdsUnique)'
  <2> SUFFICES ASSUME TypeOK, IdInv, AutoIdsUnique, [Next]_vars
               PROVE  (IdInv /\ AutoIdsUnique)'
    OBVIOUS
  <2> USE SignalAssumption DEF TypeOK, Phases, Listed, IdInv, AutoIdsUnique, slotVars, emitVars
  <2>1. ASSUME NEW s \in Slot, phase[s] = "new", NEW K \in SUBSET Attached, Supersede(s, K)
        PROVE  (IdInv /\ AutoIdsUnique)'
    BY <2>1 DEF Supersede, Attached
  <2>2. ASSUME NEW s \in Slot, Push(s) PROVE (IdInv /\ AutoIdsUnique)'
    BY <2>2 DEF Push
  <2>3. ASSUME NEW K \in SUBSET Attached, Detach(K) PROVE (IdInv /\ AutoIdsUnique)'
    BY <2>3 DEF Detach, Attached
  <2>4. CASE UNCHANGED <<phase, slotId, lastId>>
    BY <2>4
  <2>5. ASSUME NEW e \in Emission
        PROVE  /\ EmitBegin(e) \/ CallReturns(e) \/ CallThrows(e) \/ EmitEnd(e)
                    => UNCHANGED <<phase, slotId, lastId>>
               /\ \A s \in Slot : EmitNext(e, s) => UNCHANGED <<phase, slotId, lastId>>
    BY DEF EmitBegin, CallReturns, CallThrows, EmitEnd, EmitNext
  <2>6. QED
    BY KilledAreAttached, <2>1, <2>2, <2>3, <2>4, <2>5 DEF Next, vars
<1>3. QED
  BY <1>1, <1>2, TypeCorrect, PTL DEF Spec
=============================================================================

-------------------------- MODULE TurnServerProofs --------------------------
(***************************************************************************)
(* Proofs about TurnServer, for any clients, peers, lifetimes and limits.  *)
(***************************************************************************)
EXTENDS TurnServer, TLAPS

\* What holds of every allocation.  The quota is tested against the usage, which
\* is counted before the data goes out: what has been relayed is covered by it.
\* The time left of what the client was told is covered by both clocks.
Sound(a) ==
    /\ a.sent <= a.used
    /\ a.limit > 0 => a.sent < a.limit
    /\ a.limit = 0 => a.sent = 0
    /\ ~a.late /\ ~a.stray
    /\ \A p \in Peer : a.perms[p] # Absent => p \in a.asked
    /\ a.due + a.age <= MaxLife
    /\ a.due = 0 \/ a.due + a.idle <= a.life

Inv == TypeOK /\ \A k \in Live : Sound(allocs[k])

-----------------------------------------------------------------------------
(* The operations on one allocation.                                       *)

\* "No allocation" is not an allocation.
LEMMA NoneIsNot == None \notin Allocation
BY DEF None, Allocation

\* updateUsage(): usage counted keeps an allocation sound.
LEMMA UsedSound ==
    ASSUME NEW a \in Allocation, NEW n \in Nat, Sound(a)
    PROVE  Used(a, n) \in Allocation /\ Sound(Used(a, n))
<1> DEFINE u == IF a.limit = 0 THEN 0 ELSE Lowest(a.used + n, a.limit)
<1>1. a.limit \in Nat /\ a.used \in Nat /\ a.sent \in Nat /\ 0 \in 0..MaxLife
  BY TurnAssumption DEF Allocation
<1>2. u \in Nat /\ a.sent <= u
  BY <1>1 DEF Lowest, Sound
<1>3. Used(a, n) = [a EXCEPT !.idle = 0, !.used = u]
  BY DEF Used, Allocation
<1> HIDE DEF u
<1>4. Used(a, n) \in Allocation
  BY <1>1, <1>2, <1>3 DEF Allocation
<1>5. Sound(Used(a, n))
  <2>1. a.due \in Nat /\ a.idle \in Nat /\ a.life \in Nat /\ (a.due = 0 \/ a.due + a.idle <= a.life)
    BY TurnAssumption DEF Allocation, Sound
  <2>2. a.due = 0 \/ a.due + 0 <= a.life
    BY <2>1
  <2> QED
    BY <1>2, <1>3, <2>2 DEF Allocation, Sound
<1> QED
  BY <1>4, <1>5

\* Data relayed after the test of deleted() keeps it sound.
LEMMA RelayedSound ==
    ASSUME NEW a \in Allocation, NEW n \in Nat, NEW p \in Peer, Sound(a),
           HasPermission(a, p), ~Expired(Used(a, n))
    PROVE  /\ Relayed(Used(a, n), p, n) \in Allocation
           /\ Sound(Relayed(Used(a, n), p, n))
<1> DEFINE b == Used(a, n)
<1>1. b \in Allocation /\ Sound(b)
  BY UsedSound
<1>2. /\ b.limit = a.limit /\ b.sent = a.sent /\ b.asked = a.asked /\ b.perms = a.perms
      /\ b.used = IF a.limit = 0 THEN 0 ELSE Lowest(a.used + n, a.limit)
  BY DEF Used, Allocation
<1>3. ~(b.age >= MaxLife) /\ p \in b.asked \cup Local /\ ~b.late /\ ~b.stray
  BY <1>1, <1>2 DEF Expired, OutOfTime, HasPermission, Sound
<1>4. b.limit > 0 => b.sent + n <= b.used /\ b.sent + n < b.limit
  <2>1. /\ a.limit \in Nat /\ a.used \in Nat /\ a.sent \in Nat /\ a.sent <= a.used
    BY DEF Allocation, Sound
  <2> QED
    BY <1>2, <2>1 DEF Expired, OutOfTime, Lowest
<1> DEFINE s == IF b.limit = 0 THEN 0 ELSE b.sent + n
<1>5. Relayed(b, p, n) = [b EXCEPT !.sent = s, !.late = FALSE, !.stray = FALSE]
  BY <1>3 DEF Relayed, Allocation
<1> HIDE DEF b
<1>6. b.limit \in Nat /\ b.used \in Nat /\ b.sent \in Nat
  BY <1>1 DEF Allocation
<1>7. s \in Nat /\ s <= b.used /\ (b.limit > 0 => s < b.limit) /\ (b.limit = 0 => s = 0)
  BY <1>4, <1>6
<1> HIDE DEF s
<1>8. Relayed(b, p, n) \in Allocation
  BY <1>1, <1>5, <1>7 DEF Allocation
<1>9. Sound(Relayed(b, p, n))
  BY <1>1, <1>5, <1>7 DEF Allocation, Sound
<1> QED
  BY <1>8, <1>9 DEF b

\* setLifetime() does.
LEMMA RefreshedSound ==
    ASSUME NEW a \in Allocation, NEW life \in 0..MaxLife, Sound(a)
    PROVE  Refreshed(a, life) \in Allocation /\ Sound(Refreshed(a, life))
<1>1. MaxLife \in Nat /\ a.age \in 0..MaxLife
  BY TurnAssumption DEF Allocation
<1>2. Lowest(life, MaxLife - a.age) \in 0..MaxLife /\ 0 \in 0..MaxLife
  BY <1>1 DEF Lowest
<1>3. Refreshed(a, life) \in Allocation
  BY <1>2 DEF Refreshed, Allocation
<1>4. /\ Lowest(life, MaxLife - a.age) + a.age <= MaxLife
      /\ Lowest(life, MaxLife - a.age) + 0 <= life
  BY <1>1 DEF Lowest
<1>5. Sound(Refreshed(a, life))
  BY <1>4 DEF Refreshed, Allocation, Sound
<1> QED
  BY <1>3, <1>5

\* addPermission() does.
LEMMA PermittedSound ==
    ASSUME NEW a \in Allocation, NEW S \in SUBSET Peer, Sound(a)
    PROVE  Permitted(a, S) \in Allocation /\ Sound(Permitted(a, S))
BY TurnAssumption DEF Permitted, Allocation, Sound

\* removeExpiredPermissions() does.
LEMMA SweptSound ==
    ASSUME NEW a \in Allocation, Sound(a)
    PROVE  Swept(a) \in Allocation /\ Sound(Swept(a))
BY DEF Swept, Allocation, Sound, Absent

\* The passing of a second does.
LEMMA AgedSound ==
    ASSUME NEW a \in Allocation, NEW cpu \in Nat, Sound(a)
    PROVE  Aged(a, cpu) \in Allocation /\ Sound(Aged(a, cpu))
<1> DEFINE left == [p \in Peer |-> IF a.perms[p] = Absent THEN Absent
                                   ELSE IF a.perms[p] < cpu THEN 0 ELSE a.perms[p] - cpu]
           age == Lowest(a.age + 1, MaxLife)
           idle == Lowest(a.idle + 1, MaxLife)
           due == IF a.due = 0 THEN 0 ELSE a.due - 1
<1>1. MaxLife \in Nat /\ a.age \in 0..MaxLife /\ a.idle \in 0..MaxLife /\ a.due \in 0..MaxLife
  BY TurnAssumption DEF Allocation
<1>2. age \in 0..MaxLife /\ idle \in 0..MaxLife /\ due \in 0..MaxLife
  BY <1>1 DEF Lowest
<1>3. a.perms \in [Peer -> Nat \cup {Absent}] /\ a.life \in 0..MaxLife
  BY DEF Allocation
<1>4. left \in [Peer -> Nat \cup {Absent}] /\ \A p \in Peer : left[p] # Absent => a.perms[p] # Absent
  BY <1>3 DEF Absent
<1>5. due + age <= MaxLife /\ (due = 0 \/ due + idle <= a.life)
  <2>1. a.due + a.age <= MaxLife /\ (a.due = 0 \/ a.due + a.idle <= a.life)
    BY DEF Sound
  <2> QED
    BY <1>1, <1>3, <2>1 DEF Lowest
<1>6. Aged(a, cpu) = [a EXCEPT !.age = age, !.idle = idle, !.due = due, !.perms = left]
  BY DEF Aged, Allocation
<1> HIDE DEF left, age, idle, due
<1>7. Aged(a, cpu) \in Allocation
  BY <1>2, <1>4, <1>6 DEF Allocation
<1>8. Sound(Aged(a, cpu))
  BY <1>4, <1>6, <1>5 DEF Allocation, Sound
<1> QED
  BY <1>7, <1>8

\* A new allocation is sound.
LEMMA NewSound ==
    ASSUME NEW c \in Client, NEW life \in 0..MaxLife, NEW limit \in Nat
    PROVE  NewAllocation(c, life, limit) \in Allocation /\ Sound(NewAllocation(c, life, limit))
BY TurnAssumption DEF NewAllocation, Allocation, Sound, Absent

-----------------------------------------------------------------------------
(* The server.                                                             *)

\* Replacing the allocation of one port by a sound one, or by none.
LEMMA SetInv ==
    ASSUME Inv, NEW k \in Port, NEW a, a = None \/ (a \in Allocation /\ Sound(a)), Set(k, a),
           status' \in {"running", "stopped", "crashed"},
           reply' \in [code : Codes, life : 0..MaxLife]
    PROVE  Inv'
<1>1. TypeOK'
  BY DEF Inv, TypeOK, Set
<1>2. ASSUME NEW j \in Live' PROVE Sound(allocs'[j])
  <2>1. CASE j = k
    BY <1>2, <2>1 DEF Inv, TypeOK, Set, Live
  <2>2. CASE j # k
    BY <1>2, <2>2 DEF Inv, TypeOK, Set, Live
  <2> QED
    BY <2>1, <2>2
<1> QED
  BY <1>1, <1>2 DEF Inv, Live

\* Changing all of them at once.
LEMMA AllInv ==
    ASSUME Inv, NEW G, allocs' = [k \in Port |-> G[k]],
           \A k \in Port : G[k] = None \/ (G[k] \in Allocation /\ Sound(G[k])),
           status' \in {"running", "stopped", "crashed"}, UNCHANGED reply
    PROVE  Inv'
<1>1. TypeOK'
  BY DEF Inv, TypeOK
<1>2. ASSUME NEW j \in Live' PROVE Sound(allocs'[j])
  BY <1>2 DEF Live
<1> QED
  BY <1>1, <1>2 DEF Inv, Live

\* Every allocation of the map is sound.
LEMMA LiveAllocation ==
    ASSUME Inv, NEW k \in Live
    PROVE  k \in Port /\ allocs[k] \in Allocation /\ Sound(allocs[k])
BY DEF Inv, TypeOK, Live

\* Responses are well typed.
LEMMA ReplyFacts ==
    /\ \A code \in Codes : [code |-> code, life |-> 0] \in [code : Codes, life : 0..MaxLife]
    /\ \A life \in 0..MaxLife : [code |-> 200, life |-> life] \in [code : Codes, life : 0..MaxLife]
BY TurnAssumption DEF Codes

\* Granted lifetimes do not exceed the maximum.
LEMMA LowestFacts ==
    ASSUME NEW life \in Nat
    PROVE  /\ Lowest(MaxLife, life) \in 0..MaxLife
           /\ Lowest(MaxLife, DefaultLife) \in 0..MaxLife
           /\ Lowest(Lowest(MaxLife, DefaultLife), life) \in 0..MaxLife
BY TurnAssumption DEF Lowest

-----------------------------------------------------------------------------

\* The invariant is kept by every request of a client,
LEMMA RequestInv ==
    ASSUME Inv, NEW c \in Client, Request(c)
    PROVE  Inv'
<1> DEFINE k == c[2]
<1>0. /\ k \in Port /\ status \in {"running", "stopped", "crashed"}
      /\ reply \in [code : Codes, life : 0..MaxLife]
      /\ MaxLife \in Nat
  BY TurnAssumption DEF Client, Inv, TypeOK
<1>1. ASSUME UNCHANGED <<status, allocs>>, NEW code \in Codes, Respond(code) PROVE Inv'
  BY <1>1, ReplyFacts DEF Inv, TypeOK, Live, Respond
<1>2. CASE Stateless(c) \/ Mismatch(c) \/ Unsupported(c)
  BY <1>1, <1>2 DEF Stateless, Mismatch, Unsupported, Codes
<1>3. CASE RefreshIgnored(c)
  BY <1>3 DEF RefreshIgnored, vars, Inv, TypeOK, Live
<1>4. ASSUME NEW life \in Lifetimes \cup {Absent}, Allocate(c, life) PROVE Inv'
  <2> DEFINE top == Lowest(MaxLife, DefaultLife)
             granted == IF life = Absent THEN top ELSE Lowest(top, life)
  <2>1. granted \in 0..MaxLife
    BY TurnAssumption, LowestFacts
  <2> HIDE DEF granted
  <2>2. CASE k \in Live /\ Respond(437) /\ UNCHANGED allocs
    BY <1>1, <1>4, <2>2 DEF Allocate, Codes
  <2>3. ASSUME NEW limit \in Limits, Set(k, NewAllocation(c, granted, limit)), RespondLife(granted)
        PROVE  Inv'
    <3>1. limit \in Nat /\ status' = status
      BY <1>4, TurnAssumption DEF Allocate
    <3>2. /\ NewAllocation(c, granted, limit) \in Allocation
          /\ Sound(NewAllocation(c, granted, limit))
      BY <2>1, <3>1, NewSound
    <3>3. reply' \in [code : Codes, life : 0..MaxLife]
      BY <2>1, <2>3, ReplyFacts DEF RespondLife
    <3> QED
      BY <1>0, <2>3, <3>1, <3>2, <3>3, SetInv
  <2> QED
    BY <1>4, <2>2, <2>3 DEF Allocate, granted
<1>5. ASSUME NEW life \in Lifetimes, Refresh(c, life) PROVE Inv'
  <2> DEFINE desired == Lowest(MaxLife, life)
  <2>1. desired \in 0..MaxLife
    BY TurnAssumption, LowestFacts
  <2> HIDE DEF desired
  <2>2. k \in Live /\ Set(k, Refreshed(allocs[k], desired)) /\ RespondLife(desired) /\ status' = status
    BY <1>5 DEF Refresh, Handles, desired
  <2>3. Refreshed(allocs[k], desired) \in Allocation /\ Sound(Refreshed(allocs[k], desired))
    BY <2>1, <2>2, LiveAllocation, RefreshedSound
  <2>4. reply' \in [code : Codes, life : 0..MaxLife]
    BY <2>1, <2>2, ReplyFacts DEF RespondLife
  <2> QED
    BY <1>0, <2>2, <2>3, <2>4, SetInv
<1>6. ASSUME NEW life \in Lifetimes, RefreshZero(c, life) PROVE Inv'
  <2>1. Set(k, None) /\ status' \in {"running", "stopped", "crashed"}
    BY <1>0, <1>6 DEF RefreshZero, Free, Set
  <2>2. reply' \in [code : Codes, life : 0..MaxLife]
    BY <1>0, <1>6, ReplyFacts DEF RefreshZero, RespondLife
  <2> QED
    BY <1>0, <2>1, <2>2, SetInv
<1>7. ASSUME NEW S \in SUBSET Peer, CreatePermission(c, S) PROVE Inv'
  <2>1. CASE Respond(400) /\ UNCHANGED allocs
    BY <1>1, <1>7, <2>1 DEF CreatePermission, Codes
  <2>2. CASE Respond(200) /\ Set(k, Permitted(allocs[k], S))
    <3>1. k \in Live /\ status' = status
      BY <1>7 DEF CreatePermission, Handles
    <3>2. Permitted(allocs[k], S) \in Allocation /\ Sound(Permitted(allocs[k], S))
      BY <3>1, LiveAllocation, PermittedSound
    <3>3. reply' \in [code : Codes, life : 0..MaxLife]
      BY <2>2, ReplyFacts DEF Respond, Codes
    <3> QED
      BY <1>0, <2>2, <3>1, <3>2, <3>3, SetInv
  <2> QED
    BY <1>7, <2>1, <2>2 DEF CreatePermission
<1>8. ASSUME NEW p \in Peer, NEW n \in Sizes, SendIndication(c, p, n) PROVE Inv'
  <2> DEFINE a == Used(allocs[k], n)
  <2>0. k \in Live /\ status' = status /\ n \in Nat
    BY <1>8, TurnAssumption DEF SendIndication
  <2>1. CASE UNCHANGED <<allocs, reply>>
    BY <2>0, <2>1 DEF Inv, TypeOK, Live
  <2>2. CASE /\ HasPermission(allocs[k], p) /\ ~Expired(a)
             /\ Set(k, Relayed(a, p, n)) /\ UNCHANGED reply
    <3>1. Relayed(a, p, n) \in Allocation /\ Sound(Relayed(a, p, n))
      BY <2>0, <2>2, LiveAllocation, RelayedSound
    <3> QED
      BY <1>0, <2>0, <2>2, <3>1, SetInv
  <2>3. CASE Free(k) /\ Respond(486)
    <3>1. reply' \in [code : Codes, life : 0..MaxLife] /\ Set(k, None)
      BY <2>3, ReplyFacts DEF Respond, Codes, Free, Set
    <3> QED
      BY <1>0, <2>0, <3>1, SetInv
  <2> QED
    BY <1>8, <2>1, <2>2, <2>3 DEF SendIndication
<1> QED
  BY <1>2, <1>3, <1>4, <1>5, <1>6, <1>7, <1>8 DEF Request

\* by every step,
LEMMA NextInv == Inv /\ [Next]_vars => Inv'
<1> SUFFICES ASSUME Inv, [Next]_vars PROVE Inv'
  OBVIOUS
<1>0. /\ status \in {"running", "stopped", "crashed"}
      /\ reply \in [code : Codes, life : 0..MaxLife]
  BY DEF Inv, TypeOK
<1>1. ASSUME NEW c \in Client, Request(c) PROVE Inv'
  BY <1>1, RequestInv
<1>2. ASSUME NEW k \in Port, NEW p \in Peer, NEW n \in Sizes, PeerData(k, p, n) PROVE Inv'
  <2> DEFINE a == Used(allocs[k], n)
             b == IF Expired(a) THEN a ELSE Relayed(a, p, n)
  <2>1. k \in Live /\ HasPermission(allocs[k], p) /\ Set(k, b) /\ UNCHANGED <<status, reply>>
    BY <1>2 DEF PeerData
  <2>2. n \in Nat
    BY TurnAssumption
  <2>3. b \in Allocation /\ Sound(b)
    BY <2>1, <2>2, LiveAllocation, UsedSound, RelayedSound
  <2> HIDE DEF b
  <2> QED
    BY <1>0, <2>1, <2>3, SetInv
<1>3. CASE OnTimer
  <2> DEFINE G == [k \in Port |-> IF k \notin Live THEN None
                                 ELSE IF Expired(allocs[k]) THEN None ELSE Swept(allocs[k])]
  <2>1. allocs' = [k \in Port |-> G[k]] /\ UNCHANGED <<status, reply>>
    BY <1>3 DEF OnTimer
  <2>2. \A k \in Port : G[k] = None \/ (G[k] \in Allocation /\ Sound(G[k]))
    BY LiveAllocation, SweptSound
  <2> HIDE DEF G
  <2> QED
    BY <1>0, <2>1, <2>2, AllInv
<1>4. CASE Start
  BY <1>4 DEF Start, Inv, TypeOK, Live
<1>5. CASE Stop
  BY <1>5 DEF Stop, Inv, TypeOK, Live
<1>6. ASSUME NEW cpu \in CpuPerTick, Tick(cpu) PROVE Inv'
  <2> DEFINE G == [k \in Port |-> IF k \in Live THEN Aged(allocs[k], cpu) ELSE None]
  <2>1. allocs' = [k \in Port |-> G[k]] /\ UNCHANGED <<status, reply>>
    BY <1>6 DEF Tick
  <2>2. cpu \in Nat
    BY TurnAssumption
  <2>3. \A k \in Port : G[k] = None \/ (G[k] \in Allocation /\ Sound(G[k]))
    BY <2>2, LiveAllocation, AgedSound
  <2> HIDE DEF G
  <2> QED
    BY <1>0, <2>1, <2>3, AllInv
<1>7. CASE UNCHANGED vars
  BY <1>7 DEF vars, Inv, TypeOK, Live
<1> QED
  BY <1>1, <1>2, <1>3, <1>4, <1>5, <1>6, <1>7 DEF Next, Clock

\* and holds initially.
LEMMA InitInv == Init => Inv
BY TurnAssumption, ReplyFacts DEF Init, Inv, TypeOK, Live, Codes

\* The server keeps its types: lifetimes stay within the maximum of the options
\* whatever the requests ask for.
THEOREM TypeCorrect == Spec => []TypeOK
<1>1. Inv => TypeOK
  BY DEF Inv
<1> QED
  BY <1>1, InitInv, NextInv, PTL DEF Spec

\* For any number of clients and peers, any limits and any traffic: nothing is
\* relayed over the quota, past the maximum lifetime or for a peer that was never
\* permitted.
THEOREM RelayCorrect == Spec => [](QuotaKept /\ NoRelayPastMax /\ OnlyPermitted)
<1>1. Inv => QuotaKept /\ NoRelayPastMax /\ OnlyPermitted
  BY DEF Inv, QuotaKept, NoRelayPastMax, OnlyPermitted, Sound
<1> QED
  BY <1>1, InitInv, NextInv, PTL DEF Spec

\* Data is relayed only for local peers and those a CreatePermission request of
\* this allocation named (UDPAllocation::handleSendIndication, onPeerDataReceived).
THEOREM PermissionsCorrect == Spec => []OnlyPermitted
  BY RelayCorrect, PTL

\* The timer deletes an allocation only when the lifetime told to its client is
\* over or its quota used up.
THEOREM PromiseCorrect == Spec => PromiseKept
<1> DEFINE Kept == \A k \in Live \ Live' :
                OnTimer => allocs[k].due = 0
                           \/ (allocs[k].limit > 0 /\ allocs[k].used >= allocs[k].limit)
<1>1. Inv => Kept
  <2> SUFFICES ASSUME Inv, NEW k \in Live, k \notin Live', OnTimer
               PROVE  allocs[k].due = 0 \/ (allocs[k].limit > 0 /\ allocs[k].used >= allocs[k].limit)
    OBVIOUS
  <2>1. k \in Port /\ allocs[k] \in Allocation /\ Sound(allocs[k])
    BY LiveAllocation
  <2>2. Swept(allocs[k]) # None
    BY <2>1, SweptSound, NoneIsNot
  <2>3. Expired(allocs[k])
    BY <2>1, <2>2 DEF OnTimer, Live
  <2> DEFINE a == allocs[k]
  <2>4. /\ a.due \in 0..MaxLife /\ a.age \in 0..MaxLife /\ a.idle \in 0..MaxLife
        /\ a.life \in 0..MaxLife /\ MaxLife \in Nat
        /\ a.due + a.age <= MaxLife /\ (a.due = 0 \/ a.due + a.idle <= a.life)
    BY <2>1, TurnAssumption DEF Allocation, Sound
  <2> QED
    BY <2>3, <2>4 DEF Expired, OutOfTime
<1>2. Inv /\ [Next]_vars => [Kept]_vars
  BY <1>1
<1> QED
  BY <1>2, InitInv, NextInv, PTL DEF Spec, PromiseKept
=============================================================================

-------------------------- MODULE ComponentProofs --------------------------
(***************************************************************************)
(* Proofs about components that share no state.  TurnClient, for any       *)
(* peers, lifetimes and numbers of requests and whatever the network does: *)
(* the types, the order of the indications, and what Success means.        *)
(* TurnTcp, for any peers and numbers of writes: what passes through a     *)
(* relay connection arrives in order, and all of it but the beginning.     *)
(* GarbageCollector, for any objects, threads and destructors: no object   *)
(* is deleted twice.  TaskRunner and Scheduler, for any number of tasks:   *)
(* the thread never touches a deleted one, and runs one when it is due.    *)
(* SympleClient, for any peers and numbers of connections and messages:    *)
(* what the client knows, it learnt on the connection it has.              *)
(***************************************************************************)
EXTENDS TurnClient, TurnTcp, GarbageCollector, Scheduler, SympleClient,
        SequenceTheorems, FiniteSetTheorems, TLAPS

-----------------------------------------------------------------------------
(* The TURN client.                                                        *)

Code == {0, 401, 437, 486}

\* A CreatePermission request of c is among the answers with success.
Installed(c, ans) ==
    \E i \in DOMAIN c.reqs : c.reqs[i].method = "CreatePermission" /\ <<i, 0>> \in ans

\* What every handler keeps.  Data is only queued while the client authorizes, so
\* it is never overtaken, until a client has failed with data in its queue.
Sound(c, ans) ==
    /\ c \in Client
    /\ c.state = "Failed" => c.lapsed
    /\ c.state \in {"None", "Success"} => c.pending = <<>>
    /\ ~c.lapsed => c.out \o c.pending = [k \in 1..c.n |-> k - 1]
    /\ c.state = "Success" => Installed(c, ans)

-----------------------------------------------------------------------------
(* Sequences.                                                              *)

\* The next number after 0, ..., n - 1.
LEMMA NextNumber ==
    ASSUME NEW n \in Nat, NEW s \in Seq(Nat), s = [k \in 1..n |-> k - 1]
    PROVE  Append(s, n) = [k \in 1..(n + 1) |-> k - 1]
<1>1. Len(s) = n
  BY LenProperties
<1>2. /\ Append(s, n) \in Seq(Nat) /\ Len(Append(s, n)) = n + 1
      /\ \A i \in 1..n : Append(s, n)[i] = i - 1
      /\ Append(s, n)[n + 1] = n
  BY <1>1, AppendProperties
<1>3. DOMAIN Append(s, n) = 1..(n + 1) /\ Append(s, n) \in [1..(n + 1) -> Nat]
  BY <1>2, LenProperties
<1>4. \A i \in 1..(n + 1) : Append(s, n)[i] = i - 1
  BY <1>2
<1> QED
  BY <1>3, <1>4

\* Appending to the second of two sequences appends to both.
LEMMA ConcatAppend ==
    ASSUME NEW s \in Seq(Nat), NEW t \in Seq(Nat), NEW e \in Nat
    PROVE  s \o Append(t, e) = Append(s \o t, e)
<1>1. Append(t, e) = t \o <<e>> /\ <<e>> \in Seq(Nat)
  BY AppendIsConcat
<1>2. s \o t \in Seq(Nat)
  BY ConcatProperties
<1>3. Append(s \o t, e) = (s \o t) \o <<e>>
  BY <1>2, AppendIsConcat
<1> QED
  BY <1>1, <1>3, ConcatAssociative

-----------------------------------------------------------------------------
(* The handlers.                                                           *)

LEMMA ErrorSound ==
    ASSUME NEW c \in Client, NEW ans PROVE Sound(setError(c), ans)
  BY DEF setError, Client, Sound

\* Requests are only added.
LEMMA SendSound ==
    ASSUME NEW c, NEW ans, Sound(c, ans), NEW ok \in BOOLEAN,
           NEW m \in {"Allocate", "Refresh", "CreatePermission"}
    PROVE  Sound(sendTransaction(c, m, ok), ans)
<1> DEFINE r == [method |-> m, auth |-> c.realm, perms |-> c.perms]
<1> DEFINE d == sendTransaction(c, m, ok)
<1>0. c \in Client
  BY DEF Sound
<1>1. CASE ~ok
  BY <1>0, <1>1, ErrorSound DEF sendTransaction
<1>2. CASE ok
  <2>1. r \in Request /\ c.reqs \in Seq(Request)
    BY <1>0 DEF Client, Request
  <2>2. /\ Append(c.reqs, r) \in Seq(Request) /\ Len(c.reqs) \in Nat
        /\ DOMAIN c.reqs = 1..Len(c.reqs) /\ DOMAIN Append(c.reqs, r) = 1..(Len(c.reqs) + 1)
        /\ \A i \in 1..Len(c.reqs) : Append(c.reqs, r)[i] = c.reqs[i]
    BY <2>1, AppendProperties, LenProperties
  <2>3. d = [c EXCEPT !.reqs = Append(c.reqs, r), !.tx = c.tx \cup {Len(c.reqs) + 1}]
    BY <1>2 DEF sendTransaction
  <2> HIDE DEF r, d
  <2>4. /\ d.reqs = Append(c.reqs, r) /\ d.state = c.state /\ d.pending = c.pending
        /\ d.out = c.out /\ d.n = c.n /\ d.lapsed = c.lapsed
    BY <1>0, <2>3 DEF Client
  <2>5. d \in Client
    <3>1. c.tx \cup {Len(c.reqs) + 1} \in SUBSET Nat
      BY <1>0, <2>2 DEF Client
    <3>2. Append(c.reqs, r) \in Seq(Request)
      BY <2>2
    <3> QED
      BY <1>0, <2>3, <3>1, <3>2 DEF Client
  <2>6. Installed(c, ans) => Installed(d, ans)
    <3> SUFFICES ASSUME NEW i \in DOMAIN c.reqs,
                        c.reqs[i].method = "CreatePermission", <<i, 0>> \in ans
                 PROVE  Installed(d, ans)
      BY DEF Installed
    <3>1. i \in 1..Len(c.reqs) /\ i \in DOMAIN Append(c.reqs, r)
      BY <2>2
    <3>2. i \in DOMAIN d.reqs /\ d.reqs[i] = c.reqs[i]
      BY <2>2, <2>4, <3>1
    <3> QED
      BY <3>2 DEF Installed
  <2> QED
    BY <2>4, <2>5, <2>6 DEF Sound, d
<1> QED
  BY <1>1, <1>2

\* Leaving Failed or entering Authorizing asks for nothing more of a client.
LEMMA AuthorizingSound ==
    ASSUME NEW c, NEW ans, Sound(c, ans)
    PROVE  Sound([c EXCEPT !.state = "Authorizing"], ans)
  BY DEF Sound, Client

\* The queue goes out behind what was sent before.
LEMMA FlushSound ==
    ASSUME NEW c, NEW ans, Sound(c, ans), Installed(c, ans)
    PROVE  Sound(handleCreatePermissionResponse(c), ans)
<1> DEFINE d == handleCreatePermissionResponse(c)
<1>1. c \in Client /\ c.out \in Seq(Nat) /\ c.pending \in Seq(Nat)
  BY DEF Sound, Client
<1>2. /\ c.out \o c.pending \in Seq(Nat) /\ <<>> \in Seq(Nat)
      /\ (c.out \o c.pending) \o <<>> = c.out \o c.pending
  BY <1>1, ConcatProperties, ConcatEmptySeq, EmptySeq
<1>3. d = [c EXCEPT !.out = c.out \o c.pending, !.pending = <<>>, !.state = "Success"]
  BY DEF handleCreatePermissionResponse
<1> HIDE DEF d
<1>4. /\ d.reqs = c.reqs /\ d.state = "Success" /\ d.pending = <<>>
      /\ d.out = c.out \o c.pending /\ d.n = c.n /\ d.lapsed = c.lapsed
  BY <1>1, <1>3 DEF Client
<1>5. d \in Client
  BY <1>1, <1>2, <1>3 DEF Client
<1>6. d.out \o d.pending = c.out \o c.pending
  BY <1>2, <1>4
<1>7. Installed(d, ans)
  BY <1>4 DEF Installed
<1> QED
  BY <1>4, <1>5, <1>6, <1>7 DEF Sound, d

\* Data is queued behind the queue, or sent when there is none.
LEMMA DataSound ==
    ASSUME NEW ans, Sound(client, ans), NEW p \in TurnPeer, sendData(p)
    PROVE  Sound(client', ans)
<1> DEFINE c == client
<1> DEFINE d == client'
<1>1. c \in Client /\ c.out \in Seq(Nat) /\ c.pending \in Seq(Nat) /\ c.n \in Nat
  BY DEF Sound, Client
<1>2. \/ Queues(c) /\ d = [c EXCEPT !.pending = Append(c.pending, c.n), !.n = c.n + 1]
      \/ ~Queues(c) /\ d = [c EXCEPT !.out = Append(c.out, c.n), !.n = c.n + 1]
  BY DEF sendData
<1>3. ~c.lapsed => c.out \o c.pending = [k \in 1..c.n |-> k - 1]
  BY DEF Sound
<1>4. c.out \o c.pending \in Seq(Nat)
  BY <1>1, ConcatProperties
<1>5. ~c.lapsed => Append(c.out \o c.pending, c.n) = [k \in 1..(c.n + 1) |-> k - 1]
  BY <1>1, <1>3, <1>4, NextNumber
<1>6. c.n + 1 \in Nat
  BY <1>1
<1>7. CASE Queues(c)
  <2>1. d = [c EXCEPT !.pending = Append(c.pending, c.n), !.n = c.n + 1]
    BY <1>2, <1>7
  <2>2. Append(c.pending, c.n) \in Seq(Nat)
    BY <1>1, AppendProperties
  <2> HIDE DEF d
  <2>3. /\ d.reqs = c.reqs /\ d.state = "Authorizing" /\ d.pending = Append(c.pending, c.n)
        /\ d.out = c.out /\ d.n = c.n + 1 /\ d.lapsed = c.lapsed
    BY <1>1, <1>7, <2>1 DEF Client, Queues
  <2>4. d \in Client
    BY <1>1, <1>6, <2>1, <2>2 DEF Client
  <2>5. d.out \o d.pending = Append(c.out \o c.pending, c.n)
    BY <1>1, <2>3, ConcatAppend
  <2> QED
    BY <1>5, <2>3, <2>4, <2>5 DEF Sound, d
<1>8. CASE ~Queues(c)
  <2>1. d = [c EXCEPT !.out = Append(c.out, c.n), !.n = c.n + 1]
    BY <1>2, <1>8
  <2>2. Append(c.out, c.n) \in Seq(Nat)
    BY <1>1, AppendProperties
  <2> HIDE DEF d
  <2>3. /\ d.reqs = c.reqs /\ d.state = c.state /\ d.pending = c.pending
        /\ d.out = Append(c.out, c.n) /\ d.n = c.n + 1 /\ d.lapsed = c.lapsed
    BY <1>1, <2>1 DEF Client
  <2>4. d \in Client
    BY <1>1, <1>6, <2>1, <2>2 DEF Client
  <2>5. ~c.lapsed => c.pending = <<>>
    BY <1>8 DEF Sound, Client, Queues
  <2>6. ~c.lapsed => d.out \o d.pending = Append(c.out \o c.pending, c.n)
    BY <1>1, <2>2, <2>3, <2>5, ConcatEmptySeq
  <2>7. Installed(c, ans) => Installed(d, ans)
    BY <2>3 DEF Installed
  <2> QED
    BY <1>5, <2>3, <2>4, <2>6, <2>7 DEF Sound, d
<1> QED
  BY <1>7, <1>8

-----------------------------------------------------------------------------
(* The steps.                                                              *)

RelayType == [alloc : BOOLEAN, left : Nat, perms : SUBSET TurnPeer]

Inv ==
    /\ Sound(client, answers)
    /\ relay \in RelayType
    /\ answers \subseteq Nat \X Code

\* A change of the fields Sound() says nothing about.
LEMMA OtherFields ==
    ASSUME NEW c, NEW d \in Client, NEW ans, Sound(c, ans),
           d.state = c.state, d.lapsed = c.lapsed, d.reqs = c.reqs,
           d.pending = c.pending, d.out = c.out, d.n = c.n
    PROVE  Sound(d, ans)
  BY DEF Sound, Installed

\* A client that is sound stays so when answers are added.
LEMMA MoreAnswers ==
    ASSUME NEW c, NEW ans, Sound(c, ans), NEW more, ans \subseteq more
    PROVE  Sound(c, more)
  BY DEF Sound, Installed

\* Every response, the late and the duplicated included.
LEMMA ResponseSound ==
    ASSUME Inv, NEW i \in DOMAIN client.reqs, NEW code \in Code, onSocketRecv(i, code)
    PROVE  Sound(client', answers)
<1> DEFINE c == removeTransaction(client, i)
<1> DEFINE m == client.reqs[i].method
<1>1. client \in Client /\ client.reqs \in Seq(Request)
  BY DEF Inv, Sound, Client
<1>2. m \in {"Allocate", "Refresh", "CreatePermission"}
  <2>1. i \in 1..Len(client.reqs)
    BY <1>1, LenProperties
  <2>2. client.reqs[i] \in Request
    BY <1>1, <2>1, ElementOfSeq
  <2> QED
    BY <2>2 DEF Request
<1>3. c \in Client /\ Sound(c, answers)
  <2>1. c \in Client
    BY <1>1 DEF removeTransaction, Client
  <2>2. /\ c.state = client.state /\ c.lapsed = client.lapsed /\ c.reqs = client.reqs
        /\ c.pending = client.pending /\ c.out = client.out /\ c.n = client.n
    BY <1>1 DEF removeTransaction, Client
  <2> HIDE DEF c
  <2> QED
    BY <2>1, <2>2, OtherFields DEF Inv
<1>4. PICK ok \in BOOLEAN : client' = handleResponse(c, m, code, ok)
  BY DEF onSocketRecv
<1>5. <<i, code>> \in answers
  BY DEF onSocketRecv
<1>6. m = "CreatePermission" /\ code = 0 => Installed(c, answers)
  BY <1>1, <1>5 DEF Installed, removeTransaction, Client
<1> HIDE DEF c, m
<1>7. CASE m = "Allocate" /\ code = 0
  <2>1. client' = sendTransaction([c EXCEPT !.state = "Authorizing"], "CreatePermission", ok)
    BY <1>4, <1>7 DEF handleResponse, handleAllocateResponse, sendCreatePermission
  <2> QED
    BY <1>3, <2>1, AuthorizingSound, SendSound
<1>8. CASE m = "Allocate" /\ code # 0
  <2>1. client' = handleAllocateErrorResponse(c, code, ok)
    BY <1>4, <1>8 DEF handleResponse
  <2> DEFINE b == [c EXCEPT !.realm = TRUE]
  <2>2. b \in Client
    BY <1>3 DEF Client
  <2>3. /\ b.state = c.state /\ b.lapsed = c.lapsed /\ b.reqs = c.reqs
        /\ b.pending = c.pending /\ b.out = c.out /\ b.n = c.n
    BY <1>3 DEF Client
  <2>4. Sound(b, answers)
    <3> HIDE DEF b
    <3> QED
      BY <1>3, <2>2, <2>3, OtherFields
  <2>5. client' = sendTransaction(b, "Allocate", ok) \/ client' = setError(c)
    BY <2>1 DEF handleAllocateErrorResponse, sendAllocate
  <2> HIDE DEF b
  <2> QED
    BY <1>3, <2>4, <2>5, SendSound, ErrorSound
<1>9. CASE m = "Refresh"
  <2>1. client' = handleRefreshResponse(c, code)
    BY <1>4, <1>9 DEF handleResponse
  <2>2. client' = c \/ client' = [c EXCEPT !.life = Grant, !.age = 0]
    BY <2>1 DEF handleRefreshResponse
  <2>3. /\ client' \in Client
        /\ client'.state = c.state /\ client'.lapsed = c.lapsed /\ client'.reqs = c.reqs
        /\ client'.pending = c.pending /\ client'.out = c.out /\ client'.n = c.n
    <3>1. CASE client' = c
      BY <1>3, <3>1
    <3>2. CASE client' = [c EXCEPT !.life = Grant, !.age = 0]
      BY <1>3, <3>2, TurnClientAssumption DEF Client
    <3> QED
      BY <2>2, <3>1, <3>2
  <2> QED
    BY <1>3, <2>3, OtherFields
<1>10. CASE m = "CreatePermission" /\ code = 0
  <2>1. client' = handleCreatePermissionResponse(c)
    BY <1>4, <1>10 DEF handleResponse
  <2> QED
    BY <1>3, <1>6, <1>10, <2>1, FlushSound
<1>11. CASE m = "CreatePermission" /\ code # 0
  <2>1. client' = setError([c EXCEPT !.perms = {}])
    BY <1>4, <1>11 DEF handleResponse, handleCreatePermissionErrorResponse
  <2>2. [c EXCEPT !.perms = {}] \in Client
    BY <1>3 DEF Client
  <2> QED
    BY <2>1, <2>2, ErrorSound
<1> QED
  BY <1>2, <1>7, <1>8, <1>9, <1>10, <1>11

\* The timer.
LEMMA TimerSound ==
    ASSUME NEW c, NEW ans, Sound(c, ans), NEW ok \in BOOLEAN
    PROVE  Sound(onTimer([c EXCEPT !.age = c.age + 1], ok), ans)
<1> DEFINE d == [c EXCEPT !.age = c.age + 1]
<1>1. c \in Client
  BY DEF Sound
<1>2. /\ d \in Client
      /\ d.state = c.state /\ d.lapsed = c.lapsed /\ d.reqs = c.reqs
      /\ d.pending = c.pending /\ d.out = c.out /\ d.n = c.n
  <2>1. c.age + 1 \in Nat
    BY <1>1 DEF Client
  <2> QED
    BY <1>1, <2>1 DEF Client
<1> HIDE DEF d
<1>3. Sound(d, ans)
  BY <1>2, OtherFields
<1>4. \/ onTimer(d, ok) = d
      \/ onTimer(d, ok) = sendTransaction(d, "Allocate", ok)
      \/ onTimer(d, ok) = sendTransaction(d, "Refresh", ok)
  BY DEF onTimer, sendAllocate, sendRefresh
<1>5. Sound(onTimer(d, ok), ans)
  BY <1>3, <1>4, SendSound
<1> QED
  BY <1>5 DEF d

\* The server.
LEMMA ServeStep ==
    ASSUME Inv, NEW i \in DOMAIN client.reqs, Serve(i)
    PROVE  Inv'
<1>1. client \in Client /\ client.reqs \in Seq(Request)
  BY DEF Inv, Sound, Client
<1>2. i \in Nat /\ client.reqs[i] \in Request
  <2>1. i \in 1..Len(client.reqs) /\ Len(client.reqs) \in Nat
    BY <1>1, LenProperties
  <2> QED
    BY <1>1, <2>1, ElementOfSeq
<1>3. client.reqs[i].perms \subseteq TurnPeer
  BY <1>2 DEF Request
<1>4. \E code \in Code : answers' = answers \cup {<<i, code>>}
  BY DEF Serve, refuse, serveAllocate, serveRefresh, serveCreatePermission, Answer, Code
<1>5. answers \subseteq answers' /\ answers' \subseteq Nat \X Code
  BY <1>2, <1>4 DEF Inv
<1>6. relay' \in RelayType
  <2>1. relay \in RelayType
    BY DEF Inv
  <2>2. CASE serveAllocate(i)
    <3>1. relay' = relay \/ relay' = [alloc |-> TRUE, left |-> Grant, perms |-> {}]
      BY <2>2 DEF serveAllocate
    <3>2. [alloc |-> TRUE, left |-> Grant, perms |-> {}] \in RelayType
      BY TurnClientAssumption DEF RelayType
    <3> QED
      BY <2>1, <3>1, <3>2
  <2>3. CASE serveRefresh(i)
    BY <2>1, <2>3, TurnClientAssumption DEF serveRefresh, RelayType
  <2>4. CASE serveCreatePermission(i)
    BY <1>3, <2>1, <2>4 DEF serveCreatePermission, RelayType
  <2> QED
    BY <2>1, <2>2, <2>3, <2>4 DEF Serve, refuse
<1>7. client' = client
  BY DEF Serve
<1> QED
  BY <1>5, <1>6, <1>7, MoreAnswers DEF Inv

LEMMA NextInv == Inv /\ [Next]_vars => Inv'
<1> SUFFICES ASSUME Inv, [Next]_vars PROVE Inv'
  OBVIOUS
<1>0. /\ Sound(client, answers) /\ client \in Client
      /\ relay \in RelayType /\ answers \subseteq Nat \X Code
  BY DEF Inv, Sound
<1>1. ASSUME Sound(client', answers), UNCHANGED <<relay, answers>> PROVE Inv'
  BY <1>0, <1>1 DEF Inv
<1>2. ASSUME client' \in Client, UNCHANGED <<relay, answers>>,
             client'.state = client.state, client'.lapsed = client.lapsed,
             client'.reqs = client.reqs, client'.pending = client.pending,
             client'.out = client.out, client'.n = client.n
      PROVE  Inv'
  BY <1>0, <1>1, <1>2, OtherFields
<1>3. CASE initiate
  BY <1>0, <1>2, <1>3 DEF initiate, Client
<1>4. CASE onSocketConnect
  <2> DEFINE c == [client EXCEPT !.socket = "open", !.timer = TRUE]
  <2>1. /\ c \in Client
        /\ c.state = client.state /\ c.lapsed = client.lapsed /\ c.reqs = client.reqs
        /\ c.pending = client.pending /\ c.out = client.out /\ c.n = client.n
    BY <1>0 DEF Client
  <2>2. PICK ok \in BOOLEAN : client' = sendTransaction(c, "Allocate", ok)
    BY <1>4 DEF onSocketConnect, sendAllocate
  <2> HIDE DEF c
  <2>3. Sound(client', answers)
    BY <1>0, <2>1, <2>2, OtherFields, SendSound
  <2> QED
    BY <1>1, <1>4, <2>3 DEF onSocketConnect
<1>5. CASE shutdown
  BY <1>0, <1>2, <1>5 DEF shutdown, ShutDown, Client
<1>6. CASE onSocketClose
  <2>1. ShutDown(client) \in Client
    BY <1>0 DEF ShutDown, Client
  <2>2. client' = setError(ShutDown(client)) /\ UNCHANGED <<relay, answers>>
    BY <1>6 DEF onSocketClose
  <2> QED
    BY <1>1, <2>1, <2>2, ErrorSound
<1>7. ASSUME NEW p \in TurnPeer, addPermission(p) PROVE Inv'
  BY <1>0, <1>2, <1>7 DEF addPermission, Client
<1>8. ASSUME NEW p \in TurnPeer, sendData(p) PROVE Inv'
  <2>1. UNCHANGED <<relay, answers>>
    BY <1>8 DEF sendData
  <2> QED
    BY <1>0, <1>1, <1>8, <2>1, DataSound
<1>9. CASE Respond
  <2>1. PICK i \in DOMAIN client.reqs, code \in Code : onSocketRecv(i, code)
    BY <1>9 DEF Respond, Code
  <2>2. UNCHANGED <<relay, answers>>
    BY <2>1 DEF onSocketRecv
  <2> QED
    BY <1>1, <2>1, <2>2, ResponseSound
<1>10. CASE Fail
  <2>1. PICK i \in client.tx : onTransactionFailed(i)
    BY <1>10 DEF Fail
  <2>2. removeTransaction(client, i) \in Client
    BY <1>0 DEF removeTransaction, Client
  <2> QED
    BY <1>1, <2>1, <2>2, ErrorSound DEF onTransactionFailed
<1>11. CASE Tick
  <2>1. PICK ok \in BOOLEAN : client' = onTimer([client EXCEPT !.age = client.age + 1], ok)
    BY <1>11 DEF Tick
  <2>2. Sound(client', answers)
    BY <1>0, <2>1, TimerSound
  <2>3. relay' \in RelayType /\ answers' = answers
    BY <1>0, <1>11 DEF Tick, RelayType
  <2> QED
    BY <1>0, <2>2, <2>3 DEF Inv
<1>12. ASSUME NEW i \in DOMAIN client.reqs, Serve(i) PROVE Inv'
  BY <1>12, ServeStep
<1>13. CASE UNCHANGED vars
  BY <1>0, <1>1, <1>13 DEF vars
<1> QED
  BY <1>3, <1>4, <1>5, <1>6, <1>7, <1>8, <1>9, <1>10, <1>11, <1>12, <1>13 DEF Next

LEMMA InitInv == Init => Inv
<1> SUFFICES ASSUME Init PROVE Inv
  OBVIOUS
<1>1. PICK p \in SUBSET TurnPeer : client = [NewClient EXCEPT !.perms = p]
  BY DEF Init
<1>2. /\ client.state = "None" /\ client.socket = "new" /\ ~client.realm /\ ~client.timer
      /\ client.out = <<>> /\ client.pending = <<>> /\ client.n = 0 /\ ~client.lapsed
  BY <1>1 DEF NewClient
<1>3. <<>> \in Seq(Nat) /\ <<>> \in Seq(Request)
  BY EmptySeq
<1>4. client \in Client
  BY <1>1, <1>3, TurnClientAssumption DEF NewClient, Client
<1>5. <<>> \o <<>> = [k \in 1..0 |-> k - 1]
  <2>1. <<>> \o <<>> = <<>>
    BY <1>3, ConcatEmptySeq
  <2> QED
    BY <2>1
<1>6. Sound(client, answers)
  BY <1>2, <1>4, <1>5 DEF Sound
<1>7. relay \in RelayType /\ answers \subseteq Nat \X Code
  BY DEF Init, RelayType
<1> QED
  BY <1>6, <1>7 DEF Inv

-----------------------------------------------------------------------------

\* The client keeps its types.
THEOREM TypeCorrect == Spec => []TypeOK
<1>1. Inv => TypeOK
  BY DEF Inv, Sound, TypeOK, RelayType, Code
<1> QED
  BY <1>1, InitInv, NextInv, PTL DEF Spec

\* For any number of peers, requests and indications, whatever responses are
\* lost, late or duplicated: indications go out in the order of sendData() until
\* the client has failed, and Success means that the server has accepted a
\* CreatePermission and nothing is left in the queue.
THEOREM ClientCorrect == Spec => []TurnClientSound
<1>1. Inv => TurnClientSound
  BY DEF Inv, Sound, Installed, TurnClientSound, IndicationsInOrder, SuccessIsInstalled
<1> QED
  BY <1>1, InitInv, NextInv, PTL DEF Spec

-----------------------------------------------------------------------------
(* TURN over TCP.                                                          *)

\* s goes on counting after b, and may end with the end of the stream.
Counts(s, b) == \A i \in 1..Len(s) : s[i] = b + i \/ (i = Len(s) /\ s[i] = Eof)
NoEof(s) == \A i \in 1..Len(s) : s[i] # Eof

Relay ==
    [ peer : {"none", "open", "closed"}, pair : {"none", "pending", "bound", "gone"},
      conn : {"none", "connecting", "binding", "bound", "deaf", "freed"}, early : Seq(Int),
      p2s : Seq(Int), s2p : Seq(Int), c2s : Seq(Int), s2c : Seq(Int),
      np : Nat, nc : Nat, got : Seq(Int), pgot : Seq(Int), lost : SUBSET Int, answered : BOOLEAN ]

\* The order in which a peer, its pair and the client's connection come up.
BirthInv(r) ==
    /\ r.pair = "none" <=> r.peer = "none"
    /\ r.pair = "none" => r.conn = "none" /\ r.np = 0 /\ r.p2s = <<>> /\ r.early = <<>>
    /\ r.conn \in {"none", "connecting"} => r.c2s = <<>> /\ r.s2c = <<>> /\ r.pair # "bound"
    /\ r.conn = "bound" => r.pair \in {"bound", "gone"}
    /\ r.pair \in {"none", "pending"} =>
          /\ r.s2c = <<>> /\ r.s2p = <<>> /\ r.pgot = <<>> /\ r.nc = 0
          /\ \A i \in 1..Len(r.c2s) : r.c2s[i] \in {Bind, Eof}
    /\ r.pair \in {"none", "pending"} \/ r.conn \notin {"bound", "freed"} => r.got = <<>> /\ r.lost = {}

\* A connection is bound once, by the first thing its client writes, and
\* ended by the last.
BindInv(r) ==
    \A i \in 1..Len(r.c2s) :
        /\ r.c2s[i] = Bind => i = 1 /\ r.pair # "bound" /\ r.s2c = <<>> /\ r.conn # "bound"
        /\ r.c2s[i] = Eof => i = Len(r.c2s) /\ r.conn = "freed"

\* From the client to the peer; a: the state of the allocation.
DownInv(r, a) ==
    /\ \A i \in 1..Len(r.pgot) : r.pgot[i] = i
    /\ Counts(r.s2p, Len(r.pgot))
    /\ r.pair # "gone" => NoEof(r.s2p)
    /\ r.pair = "bound" /\ a = "open" =>
          /\ Counts(r.c2s, Len(r.pgot) + Len(r.s2p))
          /\ r.conn # "freed" => Len(r.pgot) + Len(r.s2p) + Len(r.c2s) = r.nc

\* What the server has yet to read from the peer, when u data items were read.
Unread(r, u) ==
    /\ Counts(r.p2s, u)
    /\ r.peer = "open" => NoEof(r.p2s) /\ u + Len(r.p2s) = r.np

\* From the peer to the client: early data, then the response and what is behind
\* it, of which the client loses l items and gets the others.
EarlyInv(r) ==
    r.pair = "pending" => NoEof(r.early) /\ Counts(r.early, 0) /\ Unread(r, Len(r.early))

BindingInv(r, a) ==
    r.conn \in {"none", "connecting", "binding"} =>
        /\ Counts(r.s2c, -1) \/ (r.pair = "gone" /\ r.s2c = <<Error400>>)
        /\ r.pair = "bound" /\ a = "open" => Unread(r, Len(r.s2c) - 1)

BoundInv(r, a, l) ==
    /\ r.lost = 1..l
    /\ \A i \in 1..Len(r.got) : r.got[i] = l + i
    /\ r.conn = "bound" =>
          /\ Counts(r.s2c, l + Len(r.got))
          /\ r.pair = "bound" /\ a = "open" => Unread(r, l + Len(r.got) + Len(r.s2c))

UpInv(r, a) ==
    /\ EarlyInv(r) /\ BindingInv(r, a)
    /\ r.pair # "gone" => NoEof(r.s2c)
    /\ \E l \in Nat : BoundInv(r, a, l)

RelayInv(r, a) ==
    r \in Relay /\ BirthInv(r) /\ BindInv(r) /\ DownInv(r, a) /\ UpInv(r, a)

\* A peer is announced once, and before its connection begins.
AttemptInv ==
    /\ control \in [attempts : Seq(RelayPeer), client : {"open", "closed"},
                    alloc : {"open", "deleted", "gone"}]
    /\ \A i \in 1..Len(control.attempts) :
          /\ rel[control.attempts[i]].peer # "none"
          /\ rel[control.attempts[i]].conn = "none"
          /\ \A j \in 1..Len(control.attempts) :
                control.attempts[i] = control.attempts[j] => i = j

TcpInv ==
    /\ rel \in [RelayPeer -> Relay]
    /\ \A p \in RelayPeer : RelayInv(rel[p], control.alloc)
    /\ \A p \in RelayPeer : control.alloc = "gone" => rel[p].pair \in {"none", "gone"}
    /\ AttemptInv

\* The parts of a relay record that a handler leaves alone.
SameEnds(d, r) == d.peer = r.peer /\ d.pair = r.pair /\ d.conn = r.conn
SamePeer(d, r) == d.p2s = r.p2s /\ d.np = r.np /\ d.early = r.early
SameDown(d, r) == d.c2s = r.c2s /\ d.s2p = r.s2p /\ d.pgot = r.pgot /\ d.nc = r.nc
SameUp(d, r) == d.s2c = r.s2c /\ d.got = r.got /\ d.lost = r.lost

-----------------------------------------------------------------------------
\* Append and its elements.
LEMMA AppendFacts ==
    ASSUME NEW s \in Seq(Int), NEW e \in Int
    PROVE  /\ Append(s, e) \in Seq(Int) /\ Len(Append(s, e)) = Len(s) + 1
           /\ \A i \in 1..Len(s) : Append(s, e)[i] = s[i]
           /\ Append(s, e)[Len(s) + 1] = e
           /\ Len(s) \in Nat
BY AppendProperties, LenProperties

\* Head, Tail and their elements.
LEMMA TailFacts ==
    ASSUME NEW s \in Seq(Int), s # <<>>
    PROVE  /\ Tail(s) \in Seq(Int) /\ Len(Tail(s)) = Len(s) - 1
           /\ \A i \in 1..(Len(s) - 1) : Tail(s)[i] = s[i + 1]
           /\ Head(s) = s[1] /\ s[1] \in Int /\ Len(s) \in Nat \ {0}
<1>1. Len(s) \in Nat \ {0} /\ s[1] \in Int
  BY EmptySeq, LenProperties, ElementOfSeq
<1>2. Head(s) = s[1] /\ Tail(s) \in Seq(Int) /\ Len(Tail(s)) = Len(s) - 1
  BY HeadTailProperties, <1>1
<1>3. \A i \in 1..(Len(s) - 1) : Tail(s)[i] = s[i + 1]
  BY <1>1, <1>2, HeadTailProperties
<1> QED
  BY <1>1, <1>2, <1>3

\* The next number, or the end, is added to a sequence that has not ended.
LEMMA CountsAppend ==
    ASSUME NEW s \in Seq(Int), NEW b \in Int, Counts(s, b), NoEof(s)
    PROVE  /\ Counts(Append(s, b + Len(s) + 1), b)
           /\ Counts(Append(s, Eof), b)
           /\ b >= -1 => NoEof(Append(s, b + Len(s) + 1))
<1> DEFINE t == Append(s, b + Len(s) + 1)
<1> DEFINE u == Append(s, Eof)
<1>1. b + Len(s) + 1 \in Int /\ Eof \in Int /\ Len(s) \in Nat
  BY LenProperties DEF Eof
<1>2. /\ Len(t) = Len(s) + 1 /\ (\A i \in 1..Len(s) : t[i] = s[i]) /\ t[Len(s) + 1] = b + Len(s) + 1
      /\ Len(u) = Len(s) + 1 /\ (\A i \in 1..Len(s) : u[i] = s[i]) /\ u[Len(s) + 1] = Eof
  BY <1>1, AppendFacts
<1>3. \A i \in 1..Len(s) : s[i] = b + i
  BY DEF Counts, NoEof
<1> HIDE DEF t, u
<1>4. \A i \in 1..(Len(s) + 1) : i \in 1..Len(s) \/ i = Len(s) + 1
  BY <1>1
<1>5. \A i \in 1..Len(t) : t[i] = b + i
  <2>1. b + Len(s) + 1 = b + (Len(s) + 1)
    BY <1>1
  <2> QED
    BY <1>2, <1>3, <1>4, <2>1, Zenon
<1>6. \A i \in 1..Len(u) : u[i] = b + i \/ (i = Len(u) /\ u[i] = Eof)
  BY <1>2, <1>3, <1>4, Zenon
<1>7. b >= -1 => \A i \in 1..Len(t) : b + i # Eof
  BY DEF Eof
<1>8. Counts(t, b) /\ Counts(u, b)
  BY <1>5, <1>6, Zenon DEF Counts
<1>9. b >= -1 => NoEof(t)
  BY <1>5, <1>7, Zenon DEF NoEof
<1> QED
  BY <1>8, <1>9 DEF t, u

\* The first of a sequence is the next number, or its last and the end.
LEMMA CountsTail ==
    ASSUME NEW s \in Seq(Int), s # <<>>, NEW b \in Int, b >= -1, Counts(s, b)
    PROVE  /\ Counts(Tail(s), b + 1)
           /\ Head(s) # Eof => Head(s) = b + 1
           /\ Head(s) = Eof => Tail(s) = <<>>
<1>1. Counts(Tail(s), b + 1) /\ (Head(s) # Eof => Head(s) = b + 1)
  BY TailFacts DEF Counts
<1>2. Head(s) = Eof => Len(Tail(s)) = 0
  <2>1. s[1] = b + 1 \/ (1 = Len(s) /\ s[1] = Eof)
    <3>1. 1 \in 1..Len(s)
      BY TailFacts
    <3> QED
      BY <3>1 DEF Counts
  <2> QED
    BY <2>1, TailFacts DEF Eof
<1> QED
  BY <1>1, <1>2, TailFacts, EmptySeq

\* What is left of a sequence without an end has none.
LEMMA NoEofTail ==
    ASSUME NEW s \in Seq(Int), s # <<>>, NoEof(s)
    PROVE  NoEof(Tail(s)) /\ Head(s) # Eof
BY TailFacts DEF NoEof

\* What is left of a sequence behind its k-th element.
LEMMA SuffixFacts ==
    ASSUME NEW s \in Seq(Int), NEW k \in 1..Len(s)
    PROVE  LET q == SubSeq(s, k + 1, Len(s)) IN
           /\ q \in Seq(Int) /\ Len(q) = Len(s) - k
           /\ \A i \in 1..(Len(s) - k) : q[i] = s[k + i]
<1> DEFINE n == Len(s)
<1> DEFINE m == k + 1
<1>1. n \in Nat /\ k \in Int /\ 1 <= k /\ k <= n
  BY LenProperties
<1>2. \A i \in m..n : s[i] \in Int
  BY <1>1, ElementOfSeq
<1> HIDE DEF n
<1>3. m \in Int /\ n \in Int
  BY <1>1
<1>4. n - m + 1 = n - k /\ (m <= n => n - m + 1 = n - k) /\ (~(m <= n) => n - k = 0)
      /\ \A i \in Int : m + i - 1 = k + i
  BY <1>1
<1> HIDE DEF m
<1>5. /\ SubSeq(s, m, n) \in Seq(Int)
      /\ Len(SubSeq(s, m, n)) = IF m <= n THEN n - m + 1 ELSE 0
      /\ \A i \in 1..(n - m + 1) : SubSeq(s, m, n)[i] = s[m + i - 1]
  BY <1>2, <1>3, SubSeqProperties
<1>6. Len(SubSeq(s, m, n)) = n - k
  BY <1>4, <1>5
<1>7. ASSUME NEW i \in 1..(n - k) PROVE SubSeq(s, m, n)[i] = s[k + i]
  <2>1. i \in 1..(n - m + 1) /\ m + i - 1 = k + i
    BY <1>1, <1>4
  <2> QED
    BY <1>5, <2>1
<1> QED
  BY <1>5, <1>6, <1>7 DEF m, n

-----------------------------------------------------------------------------
\* A record whose stream to the client did not change.
LEMMA UpFrame ==
    ASSUME NEW r \in Relay, NEW d, NEW a, UpInv(r, a), SameUp(d, r),
           d.pair = r.pair, d.conn = r.conn, EarlyInv(d),
           r.pair = "bound" /\ a = "open" => \A u \in Int : u >= -1 /\ Unread(r, u) => Unread(d, u)
    PROVE  UpInv(d, a)
<1>0. Len(r.s2c) \in Nat /\ Len(r.got) \in Nat
  BY LenProperties DEF Relay
<1>1. BindingInv(d, a) /\ (d.pair # "gone" => NoEof(d.s2c))
  BY <1>0 DEF UpInv, BindingInv, SameUp
<1>2. PICK l \in Nat : BoundInv(r, a, l)
  BY DEF UpInv
<1>3. l + Len(r.got) + Len(r.s2c) \in Int /\ l + Len(r.got) + Len(r.s2c) >= -1
  <2>1. \A i, j, k \in Nat : i + j + k \in Int /\ i + j + k >= -1
    OBVIOUS
  <2> QED
    BY <1>0, <2>1, Zenon
<1>4. r.pair = "bound" /\ a = "open" =>
         (Unread(r, l + Len(r.got) + Len(r.s2c)) => Unread(d, l + Len(r.got) + Len(r.s2c)))
  BY <1>3, Zenon
<1>5. BoundInv(d, a, l)
  BY <1>2, <1>4 DEF BoundInv, SameUp
<1> QED
  BY <1>1, <1>2, <1>5 DEF UpInv

\* A record whose streams from and to the client's connection did not change.
LEMMA DownFrame ==
    ASSUME NEW r, NEW d, NEW a, BindInv(r), DownInv(r, a), SameDown(d, r),
           d.s2c = r.s2c, d.pair = r.pair, d.conn = r.conn
    PROVE  BindInv(d) /\ DownInv(d, a)
<1>1. BindInv(d)
  BY DEF BindInv, SameDown
<1>2. DownInv(d, a)
  BY DEF DownInv, SameDown
<1> QED
  BY <1>1, <1>2

-----------------------------------------------------------------------------
(* The peer. *)

\* The peer writes.
LEMMA PeerSendKeeps ==
    ASSUME NEW r, NEW a, RelayInv(r, a), r.peer = "open"
    PROVE  RelayInv([r EXCEPT !.p2s = Append(@, r.np + 1), !.np = @ + 1], a)
<1> DEFINE d == [r EXCEPT !.p2s = Append(@, r.np + 1), !.np = @ + 1]
<1>0. r \in Relay /\ BirthInv(r) /\ BindInv(r) /\ DownInv(r, a) /\ UpInv(r, a)
  BY DEF RelayInv
<1>1. r.np \in Nat /\ r.np + 1 \in Nat /\ r.np + 1 \in Int /\ r.p2s \in Seq(Int) /\ Len(r.p2s) \in Nat /\ Len(r.early) \in Nat
  BY <1>0, LenProperties DEF Relay
<1>2. Append(r.p2s, r.np + 1) \in Seq(Int) /\ Len(Append(r.p2s, r.np + 1)) = Len(r.p2s) + 1
  BY <1>1, AppendFacts
<1>3. /\ d \in Relay /\ SameEnds(d, r) /\ SameDown(d, r) /\ SameUp(d, r)
      /\ d.p2s = Append(r.p2s, r.np + 1) /\ d.np = r.np + 1 /\ d.early = r.early
  BY <1>0, <1>1, <1>2, ZenonT(60) DEF Relay, SameEnds, SameDown, SameUp
<1> HIDE DEF d
<1>4. BirthInv(d) /\ BindInv(d) /\ DownInv(d, a)
  <2>1. BirthInv(d)
    BY <1>0, <1>3 DEF BirthInv, SameEnds, SameDown, SameUp
  <2> QED
    BY <1>0, <1>3, <2>1, DownFrame DEF SameEnds, SameUp
<1>5. ASSUME NEW u \in Int, u >= -1, Unread(r, u) PROVE Unread(d, u)
  <2>1. Counts(r.p2s, u) /\ NoEof(r.p2s) /\ r.np + 1 = u + Len(r.p2s) + 1
    BY <1>1, <1>5 DEF Unread
  <2>2. Counts(d.p2s, u) /\ NoEof(d.p2s)
    BY <1>1, <1>3, <1>5, <2>1, CountsAppend
  <2> QED
    BY <1>1, <1>2, <1>3, <2>1, <2>2 DEF Unread
<1>6. EarlyInv(d)
  BY <1>0, <1>1, <1>3, <1>5 DEF UpInv, EarlyInv, SameEnds
<1>7. UpInv(d, a)
  BY <1>0, <1>3, <1>5, <1>6, UpFrame DEF SameEnds
<1> QED
  BY <1>3, <1>4, <1>7 DEF RelayInv, d

\* The peer closes its connection.
LEMMA PeerCloseKeeps ==
    ASSUME NEW r, NEW a, RelayInv(r, a), r.peer = "open"
    PROVE  RelayInv([r EXCEPT !.p2s = Append(@, Eof), !.peer = "closed"], a)
<1> DEFINE d == [r EXCEPT !.p2s = Append(@, Eof), !.peer = "closed"]
<1>0. r \in Relay /\ BirthInv(r) /\ BindInv(r) /\ DownInv(r, a) /\ UpInv(r, a)
  BY DEF RelayInv
<1>1. Eof \in Int /\ r.p2s \in Seq(Int) /\ Len(r.p2s) \in Nat /\ Len(r.early) \in Nat
  BY <1>0, LenProperties DEF Relay, Eof
<1>2. Append(r.p2s, Eof) \in Seq(Int)
  BY <1>1, AppendFacts
<1>3. /\ d \in Relay /\ SameDown(d, r) /\ SameUp(d, r)
      /\ d.peer = "closed" /\ d.pair = r.pair /\ d.conn = r.conn
      /\ d.p2s = Append(r.p2s, Eof) /\ d.np = r.np /\ d.early = r.early
  BY <1>0, <1>2, ZenonT(60) DEF Relay, SameDown, SameUp
<1> HIDE DEF d
<1>4. BirthInv(d) /\ BindInv(d) /\ DownInv(d, a)
  <2>1. BirthInv(d)
    BY <1>0, <1>3 DEF BirthInv, SameDown, SameUp
  <2> QED
    BY <1>0, <1>3, <2>1, DownFrame DEF SameUp
<1>5. ASSUME NEW u \in Int, u >= -1, Unread(r, u) PROVE Unread(d, u)
  <2>1. Counts(r.p2s, u) /\ NoEof(r.p2s)
    BY <1>5 DEF Unread
  <2>2. Counts(d.p2s, u)
    BY <1>1, <1>3, <2>1, CountsAppend
  <2> QED
    BY <1>3, <2>2 DEF Unread
<1>6. EarlyInv(d)
  BY <1>0, <1>1, <1>3, <1>5 DEF UpInv, EarlyInv
<1>7. UpInv(d, a)
  BY <1>0, <1>3, <1>5, <1>6, UpFrame
<1> QED
  BY <1>3, <1>4, <1>7 DEF RelayInv, d

\* The peer takes the end of the connection, or data.
LEMMA PeerReadKeeps ==
    ASSUME NEW r, NEW a, RelayInv(r, a), r.peer = "open", r.s2p # <<>>
    PROVE  IF Head(r.s2p) = Eof
           THEN RelayInv([r EXCEPT !.s2p = Tail(@), !.peer = "closed"], a)
           ELSE RelayInv([r EXCEPT !.s2p = Tail(@), !.pgot = Append(@, Head(r.s2p))], a)
<1>0. r \in Relay /\ BirthInv(r) /\ BindInv(r) /\ DownInv(r, a) /\ UpInv(r, a)
  BY DEF RelayInv
<1>1. r.s2p \in Seq(Int) /\ r.pgot \in Seq(Int) /\ Len(r.pgot) \in Nat /\ Len(r.s2p) \in Nat /\ Head(r.s2p) \in Int
      /\ Tail(r.s2p) \in Seq(Int) /\ Len(Tail(r.s2p)) = Len(r.s2p) - 1
  BY <1>0, LenProperties, TailFacts DEF Relay
<1>2. Counts(Tail(r.s2p), Len(r.pgot) + 1) /\ (Head(r.s2p) # Eof => Head(r.s2p) = Len(r.pgot) + 1)
      /\ (Head(r.s2p) = Eof => Tail(r.s2p) = <<>>)
  BY <1>0, <1>1, CountsTail DEF DownInv
<1>3. r.pair \in {"bound", "gone"} /\ (r.pair = "bound" => NoEof(Tail(r.s2p)) /\ Head(r.s2p) # Eof)
  BY <1>0, <1>1, NoEofTail DEF BirthInv, DownInv, Relay
<1>4. CASE Head(r.s2p) = Eof
  <2> DEFINE d == [r EXCEPT !.s2p = Tail(@), !.peer = "closed"]
  <2>1. /\ d \in Relay /\ SamePeer(d, r) /\ SameUp(d, r)
        /\ d.peer = "closed" /\ d.pair = r.pair /\ d.conn = r.conn
        /\ d.s2p = Tail(r.s2p) /\ d.c2s = r.c2s /\ d.pgot = r.pgot /\ d.nc = r.nc
    BY <1>0, <1>1, ZenonT(60) DEF Relay, SamePeer, SameUp
  <2> HIDE DEF d
  <2>2. BirthInv(d) /\ BindInv(d)
    BY <1>0, <1>3, <2>1 DEF BirthInv, BindInv, SamePeer, SameUp
  <2>3. Counts(d.s2p, Len(d.pgot))
    BY <1>2, <1>4, <2>1 DEF Counts
  <2>4. DownInv(d, a)
    BY <1>0, <1>3, <1>4, <2>1, <2>3 DEF DownInv
  <2>5. EarlyInv(d) /\ r.pair = "gone"
    BY <1>3, <1>4, <2>1 DEF EarlyInv
  <2>6. UpInv(d, a)
    BY <1>0, <2>1, <2>5, UpFrame
  <2> QED
    BY <1>4, <2>1, <2>2, <2>4, <2>6 DEF RelayInv, d
<1>5. CASE Head(r.s2p) # Eof
  <2> DEFINE d == [r EXCEPT !.s2p = Tail(@), !.pgot = Append(@, Head(r.s2p))]
  <2>0. /\ Append(r.pgot, Head(r.s2p)) \in Seq(Int)
        /\ Len(Append(r.pgot, Head(r.s2p))) = Len(r.pgot) + 1
        /\ \A i \in 1..Len(r.pgot) : Append(r.pgot, Head(r.s2p))[i] = r.pgot[i]
        /\ Append(r.pgot, Head(r.s2p))[Len(r.pgot) + 1] = Head(r.s2p)
    BY <1>1, AppendFacts
  <2>1. /\ d \in Relay /\ SameEnds(d, r) /\ SamePeer(d, r) /\ SameUp(d, r)
        /\ d.s2p = Tail(r.s2p) /\ d.c2s = r.c2s /\ d.pgot = Append(r.pgot, Head(r.s2p)) /\ d.nc = r.nc
    BY <1>0, <1>1, <2>0, ZenonT(60) DEF Relay, SameEnds, SamePeer, SameUp
  <2> HIDE DEF d
  <2>2. BirthInv(d) /\ BindInv(d)
    BY <1>0, <1>3, <2>1 DEF BirthInv, BindInv, SameEnds, SamePeer, SameUp
  <2>3. Counts(d.s2p, Len(d.pgot)) /\ Len(d.pgot) + Len(d.s2p) = Len(r.pgot) + Len(r.s2p)
    <3>1. Len(d.pgot) = Len(r.pgot) + 1 /\ Len(d.s2p) = Len(r.s2p) - 1
      BY <1>1, <2>0, <2>1
    <3>2. Counts(d.s2p, Len(d.pgot))
      BY <1>2, <2>1, <3>1, Zenon
    <3>3. Len(d.pgot) + Len(d.s2p) = Len(r.pgot) + Len(r.s2p)
      <4>1. \A i, j \in Nat : i + 1 + (j - 1) = i + j
        OBVIOUS
      <4> QED
        BY <1>1, <3>1, <4>1
    <3> QED
      BY <3>2, <3>3
  <2>4. \A i \in 1..Len(d.pgot) : d.pgot[i] = i
    BY <1>0, <1>1, <1>2, <1>5, <2>0, <2>1 DEF DownInv
  <2>5. DownInv(d, a)
    BY <1>0, <1>3, <2>1, <2>3, <2>4 DEF DownInv, SameEnds
  <2>6. EarlyInv(d)
    BY <1>3, <2>1 DEF EarlyInv, SameEnds
  <2>7. \A u \in Int : Unread(r, u) => Unread(d, u)
    BY <2>1 DEF Unread, SameEnds, SamePeer
  <2>8. UpInv(d, a)
    BY <1>0, <2>1, <2>6, <2>7, UpFrame DEF SameEnds
  <2> QED
    BY <1>5, <2>1, <2>2, <2>5, <2>8 DEF RelayInv, d
<1> QED
  BY <1>4, <1>5

\* The listening socket of the allocation takes the peer's connection.
LEMMA AcceptKeeps ==
    ASSUME NEW r, NEW a, RelayInv(r, a), r.peer = "none"
    PROVE  RelayInv([r EXCEPT !.peer = "open", !.pair = "pending"], a)
<1> DEFINE d == [r EXCEPT !.peer = "open", !.pair = "pending"]
<1>0. r \in Relay /\ BirthInv(r) /\ BindInv(r) /\ DownInv(r, a) /\ UpInv(r, a)
  BY DEF RelayInv
<1>1. /\ d \in Relay /\ SamePeer(d, r) /\ SameDown(d, r) /\ SameUp(d, r)
      /\ d.peer = "open" /\ d.pair = "pending" /\ d.conn = r.conn
  BY <1>0, ZenonT(60) DEF Relay, SamePeer, SameDown, SameUp
<1> HIDE DEF d
<1>2. r.pair = "none" /\ r.conn = "none" /\ r.p2s = <<>> /\ r.early = <<>> /\ r.np = 0
      /\ r.c2s = <<>> /\ r.s2c = <<>>
  BY <1>0 DEF BirthInv
<1>3. BirthInv(d) /\ BindInv(d) /\ DownInv(d, a)
  BY <1>0, <1>1, <1>2 DEF BirthInv, BindInv, DownInv, SamePeer, SameDown, SameUp, NoEof
<1>4. Counts(<<>>, 0) /\ NoEof(<<>>) /\ Len(<<>>) = 0
  BY DEF Counts, NoEof
<1>5. EarlyInv(d)
  BY <1>1, <1>2, <1>4 DEF EarlyInv, Unread, SamePeer
<1>6. UpInv(d, a)
  BY <1>0, <1>1, <1>2, <1>4, <1>5 DEF UpInv, BindingInv, BoundInv, SameUp
<1> QED
  BY <1>1, <1>3, <1>6 DEF RelayInv, d
-----------------------------------------------------------------------------
(* The server. *)

\* The allocation is deleted.
LEMMA ClosedKeeps ==
    ASSUME NEW r, NEW a, NEW b, RelayInv(r, a), b # "open"
    PROVE  RelayInv(r, b)
BY DEF RelayInv, DownInv, UpInv, BindingInv, BoundInv

\* Something read from the peer is dropped, or it is the end of the stream.
LEMMA ShiftPeerKeeps ==
    ASSUME NEW r, NEW a, RelayInv(r, a), r.p2s # <<>>,
           (r.pair \in {"pending", "bound"} /\ Head(r.p2s) = Eof) \/ (r.pair = "bound" /\ a # "open")
    PROVE  RelayInv([r EXCEPT !.p2s = Tail(@)], a)
<1> DEFINE d == [r EXCEPT !.p2s = Tail(@)]
<1>0. r \in Relay /\ BirthInv(r) /\ BindInv(r) /\ DownInv(r, a) /\ UpInv(r, a)
  BY DEF RelayInv
<1>1. r.p2s \in Seq(Int) /\ Tail(r.p2s) \in Seq(Int) /\ Len(r.early) \in Nat /\ Len(r.early) \in Int /\ Len(r.early) >= -1
  BY <1>0, LenProperties, TailFacts DEF Relay
<1>2. /\ d \in Relay /\ SameEnds(d, r) /\ SameDown(d, r) /\ SameUp(d, r)
      /\ d.p2s = Tail(r.p2s) /\ d.np = r.np /\ d.early = r.early
  BY <1>0, <1>1, ZenonT(60) DEF Relay, SameEnds, SameDown, SameUp
<1> HIDE DEF d
<1>3. BirthInv(d) /\ BindInv(d) /\ DownInv(d, a)
  <2>1. BirthInv(d)
    BY <1>0, <1>2 DEF BirthInv, SameEnds, SameDown, SameUp
  <2> QED
    BY <1>0, <1>2, <2>1, DownFrame DEF SameEnds, SameUp
<1>4. ASSUME NEW u \in Int, u >= -1, Unread(r, u), Head(r.p2s) = Eof PROVE Unread(d, u)
  <2>1. Counts(r.p2s, u) /\ r.peer # "open"
    BY <1>1, <1>4, NoEofTail DEF Unread
  <2>2. Tail(r.p2s) = <<>>
    BY <1>1, <1>4, <2>1, CountsTail
  <2>3. Counts(<<>>, u)
    BY DEF Counts
  <2> QED
    BY <1>2, <2>1, <2>2, <2>3 DEF Unread, SameEnds
<1>5. EarlyInv(d)
  BY <1>0, <1>1, <1>2, <1>4 DEF UpInv, EarlyInv, SameEnds
<1>6. r.pair = "bound" /\ a = "open" => \A u \in Int : u >= -1 /\ Unread(r, u) => Unread(d, u)
  BY <1>4
<1>7. UpInv(d, a)
  BY <1>0, <1>2, <1>5, <1>6, UpFrame DEF SameEnds
<1> QED
  BY <1>2, <1>3, <1>7 DEF RelayInv, d

\* The pair is deleted, from either end or with the allocation.
LEMMA DeleteKeeps ==
    ASSUME NEW r, NEW a, RelayInv(r, a), r.pair \in {"pending", "bound"}
    PROVE  RelayInv(DeletePair(r), a) /\ DeletePair(r).pair = "gone" /\ DeletePair(r).conn = r.conn
<1> DEFINE d == DeletePair(r)
<1> DEFINE q == IF r.pair = "bound" THEN Append(r.s2c, Eof) ELSE r.s2c
<1>0. r \in Relay /\ BirthInv(r) /\ BindInv(r) /\ DownInv(r, a) /\ UpInv(r, a)
  BY DEF RelayInv
<1>1. Eof \in Int /\ r.s2p \in Seq(Int) /\ r.s2c \in Seq(Int) /\ Len(r.s2p) \in Nat /\ Len(r.pgot) \in Nat
      /\ Len(r.got) \in Nat
  BY <1>0, LenProperties DEF Relay, Eof
<1>2. Append(r.s2p, Eof) \in Seq(Int) /\ q \in Seq(Int) /\ <<>> \in Seq(Int)
  BY <1>1, AppendFacts, EmptySeq
<1>3. /\ d \in Relay /\ d.peer = r.peer /\ d.pair = "gone" /\ d.conn = r.conn
      /\ d.p2s = r.p2s /\ d.np = r.np /\ d.early = <<>>
      /\ d.c2s = r.c2s /\ d.s2p = Append(r.s2p, Eof) /\ d.pgot = r.pgot /\ d.nc = r.nc
      /\ d.s2c = q /\ d.got = r.got /\ d.lost = r.lost
  BY <1>0, <1>2, ZenonT(60) DEF Relay, DeletePair
<1>4. r.pair # "bound" => q = r.s2c
  OBVIOUS
<1>5. ASSUME NEW b \in Int, Counts(r.s2c, b) PROVE Counts(q, b)
  BY <1>0, <1>1, <1>5, CountsAppend DEF UpInv
<1> HIDE DEF d, q
<1>6. BirthInv(d)
  BY <1>0, <1>3, <1>4 DEF BirthInv
<1>7. BindInv(d)
  BY <1>0, <1>3, <1>4 DEF BindInv
<1>8. DownInv(d, a)
  BY <1>0, <1>1, <1>3, CountsAppend DEF DownInv
<1>9. EarlyInv(d) /\ BindingInv(d, a)
  BY <1>0, <1>3, <1>5 DEF EarlyInv, BindingInv, UpInv
<1>10. PICK l \in Nat : BoundInv(r, a, l)
  BY <1>0 DEF UpInv
<1>11. r.conn = "bound" => Counts(q, l + Len(r.got))
  <2>1. \A i, j \in Nat : i + j \in Int
    OBVIOUS
  <2>2. l + Len(r.got) \in Int
    BY <1>1, <1>10, <2>1, Zenon
  <2>3. r.conn = "bound" => Counts(r.s2c, l + Len(r.got))
    BY <1>10 DEF BoundInv
  <2> QED
    BY <1>5, <2>2, <2>3, Zenon
<1>12. BoundInv(d, a, l)
  BY <1>3, <1>10, <1>11 DEF BoundInv
<1>13. UpInv(d, a)
  BY <1>3, <1>9, <1>10, <1>12 DEF UpInv
<1> QED
  BY <1>3, <1>6, <1>7, <1>8, <1>13 DEF RelayInv, d

\* Data of the peer is kept until the client's connection is bound.
LEMMA EarlyDataKeeps ==
    ASSUME NEW r, NEW a, RelayInv(r, a), r.p2s # <<>>, Head(r.p2s) # Eof, r.pair = "pending"
    PROVE  RelayInv([[r EXCEPT !.p2s = Tail(@)] EXCEPT !.early = Append(@, Head(r.p2s))], a)
<1> DEFINE d == [[r EXCEPT !.p2s = Tail(@)] EXCEPT !.early = Append(@, Head(r.p2s))]
<1>0. r \in Relay /\ BirthInv(r) /\ BindInv(r) /\ DownInv(r, a) /\ UpInv(r, a)
  BY DEF RelayInv
<1>1. r.p2s \in Seq(Int) /\ Tail(r.p2s) \in Seq(Int) /\ Len(Tail(r.p2s)) = Len(r.p2s) - 1 /\ Len(r.p2s) \in Nat
      /\ Head(r.p2s) \in Int /\ r.early \in Seq(Int) /\ Len(r.early) \in Nat
  BY <1>0, LenProperties, TailFacts DEF Relay
<1>2. /\ Append(r.early, Head(r.p2s)) \in Seq(Int)
      /\ Len(Append(r.early, Head(r.p2s))) = Len(r.early) + 1
  BY <1>1, AppendFacts
<1>3. /\ d \in Relay /\ SameEnds(d, r) /\ SameDown(d, r) /\ SameUp(d, r)
      /\ d.p2s = Tail(r.p2s) /\ d.np = r.np /\ d.early = Append(r.early, Head(r.p2s))
  BY <1>0, <1>1, <1>2, ZenonT(60) DEF Relay, SameEnds, SameDown, SameUp
<1> HIDE DEF d
<1>4. BirthInv(d) /\ BindInv(d) /\ DownInv(d, a)
  <2>1. BirthInv(d)
    BY <1>0, <1>3 DEF BirthInv, SameEnds, SameDown, SameUp
  <2> QED
    BY <1>0, <1>3, <2>1, DownFrame DEF SameEnds, SameUp
<1>5. NoEof(r.early) /\ Counts(r.early, 0) /\ Counts(r.p2s, Len(r.early))
      /\ (r.peer = "open" => NoEof(r.p2s) /\ Len(r.early) + Len(r.p2s) = r.np)
  BY <1>0 DEF UpInv, EarlyInv, Unread
<1>6. Head(r.p2s) = Len(r.early) + 1 /\ Counts(d.p2s, Len(r.early) + 1)
  BY <1>1, <1>3, <1>5, CountsTail
<1>7. Counts(d.early, 0) /\ NoEof(d.early)
  <2>1. d.early = Append(r.early, 0 + Len(r.early) + 1)
    BY <1>1, <1>3, <1>6
  <2>2. 0 \in Int /\ 0 >= -1
    OBVIOUS
  <2> QED
    BY <1>1, <1>5, <2>1, <2>2, CountsAppend, Zenon
<1>8. Len(d.early) = Len(r.early) + 1
  BY <1>2, <1>3
<1>9. r.peer = "open" => NoEof(d.p2s) /\ Len(d.early) + Len(d.p2s) = r.np
  <2>1. r.peer = "open" => NoEof(d.p2s)
    BY <1>1, <1>3, <1>5, NoEofTail
  <2>2. r.peer = "open" => Len(r.early) + Len(r.p2s) = r.np
    BY <1>5
  <2>3. \A i, j \in Nat : (i + 1) + (j - 1) = i + j
    OBVIOUS
  <2>4. Len(d.early) + Len(d.p2s) = Len(r.early) + Len(r.p2s)
    <3>1. Len(d.p2s) = Len(r.p2s) - 1 /\ Len(r.p2s) \in Nat /\ Len(r.early) \in Nat
      BY <1>1, <1>3
    <3> QED
      BY <1>8, <2>3, <3>1, Zenon
  <2> QED
    BY <2>1, <2>2, <2>4
<1>10. Counts(d.p2s, Len(d.early))
  BY <1>6, <1>8, Zenon
<1>11. EarlyInv(d)
  BY <1>3, <1>7, <1>9, <1>10 DEF EarlyInv, Unread, SameEnds
<1>12. UpInv(d, a)
  BY <1>0, <1>3, <1>11, UpFrame DEF SameEnds
<1> QED
  BY <1>3, <1>4, <1>12 DEF RelayInv, d

\* Data of the peer is passed on.
LEMMA PeerDataKeeps ==
    ASSUME NEW r, NEW a, RelayInv(r, a), r.p2s # <<>>, Head(r.p2s) # Eof, r.pair = "bound", a = "open"
    PROVE  RelayInv([[r EXCEPT !.p2s = Tail(@)] EXCEPT !.s2c = Append(@, Head(r.p2s))], a)
<1> DEFINE d == [[r EXCEPT !.p2s = Tail(@)] EXCEPT !.s2c = Append(@, Head(r.p2s))]
<1>0. r \in Relay /\ BirthInv(r) /\ BindInv(r) /\ DownInv(r, a) /\ UpInv(r, a)
  BY DEF RelayInv
<1>1. r.p2s \in Seq(Int) /\ Tail(r.p2s) \in Seq(Int) /\ Len(Tail(r.p2s)) = Len(r.p2s) - 1 /\ Len(r.p2s) \in Nat
      /\ Head(r.p2s) \in Int /\ r.s2c \in Seq(Int) /\ Len(r.s2c) \in Nat /\ Len(r.got) \in Nat
  BY <1>0, LenProperties, TailFacts DEF Relay
<1>2. /\ Append(r.s2c, Head(r.p2s)) \in Seq(Int)
      /\ Len(Append(r.s2c, Head(r.p2s))) = Len(r.s2c) + 1
      /\ \A i \in 1..Len(r.s2c) : Append(r.s2c, Head(r.p2s))[i] = r.s2c[i]
      /\ Append(r.s2c, Head(r.p2s))[Len(r.s2c) + 1] = Head(r.p2s)
  BY <1>1, AppendFacts
<1>3. /\ d \in Relay /\ SameEnds(d, r) /\ SameDown(d, r)
      /\ d.p2s = Tail(r.p2s) /\ d.np = r.np /\ d.early = r.early
      /\ d.s2c = Append(r.s2c, Head(r.p2s)) /\ d.got = r.got /\ d.lost = r.lost
  BY <1>0, <1>1, <1>2, ZenonT(60) DEF Relay, SameEnds, SameDown
<1> HIDE DEF d
<1>4. BirthInv(d) /\ BindInv(d) /\ DownInv(d, a)
  <2>1. BirthInv(d)
    BY <1>0, <1>3 DEF BirthInv, SameEnds, SameDown
  <2>2. BindInv(d)
    BY <1>0, <1>3 DEF BindInv, SameEnds, SameDown
  <2>3. DownInv(d, a)
    BY <1>0, <1>3 DEF DownInv, SameEnds, SameDown
  <2> QED
    BY <2>1, <2>2, <2>3
<1>5. NoEof(r.s2c)
  BY <1>0 DEF UpInv
<1>6. NoEof(d.s2c)
  BY <1>1, <1>2, <1>3, <1>5 DEF NoEof
<1>7. ASSUME NEW b \in Int, b >= -1, Counts(r.s2c, b), NEW u \in Int, u = b + Len(r.s2c), Unread(r, u)
      PROVE  Counts(d.s2c, b) /\ Unread(d, u + 1)
  <2>1. Counts(r.p2s, u) /\ (r.peer = "open" => NoEof(r.p2s) /\ u + Len(r.p2s) = r.np)
    BY <1>7 DEF Unread
  <2>2. u >= -1 /\ u \in Int
    BY <1>1, <1>7
  <2>3. Counts(Tail(r.p2s), u + 1) /\ Head(r.p2s) = u + 1
    BY <1>1, <2>1, <2>2, CountsTail
  <2>4. Counts(d.s2c, b)
    BY <1>1, <1>3, <1>5, <1>7, <2>3, CountsAppend
  <2>5. r.peer = "open" => NoEof(Tail(r.p2s)) /\ (u + 1) + Len(Tail(r.p2s)) = r.np
    <3>1. r.peer = "open" => NoEof(Tail(r.p2s))
      BY <1>1, <2>1, NoEofTail
    <3>2. r.peer = "open" => u + Len(r.p2s) = r.np
      BY <2>1
    <3>3. (u + 1) + Len(Tail(r.p2s)) = u + Len(r.p2s)
      <4>1. \A i \in Int, j \in Nat : (i + 1) + (j - 1) = i + j
        OBVIOUS
      <4>2. Len(Tail(r.p2s)) = Len(r.p2s) - 1 /\ Len(r.p2s) \in Nat
        BY <1>1
      <4> QED
        BY <2>2, <4>1, <4>2, Zenon
    <3> QED
      BY <3>1, <3>2, <3>3
  <2> QED
    BY <1>3, <2>3, <2>4, <2>5 DEF Unread, SameEnds
<1>8. Len(d.s2c) = Len(r.s2c) + 1
  BY <1>2, <1>3
<1>9. r.conn \notin {"none", "connecting"}
  BY <1>0 DEF BirthInv
<1>10. r.conn = "binding" => Counts(d.s2c, -1) /\ Unread(d, Len(d.s2c) - 1)
  <2>1. r.conn = "binding" => Counts(r.s2c, -1) /\ Unread(r, Len(r.s2c) - 1)
    BY <1>0 DEF UpInv, BindingInv
  <2>2. -1 \in Int /\ -1 >= -1 /\ Len(r.s2c) - 1 \in Int /\ Len(r.s2c) - 1 = -1 + Len(r.s2c)
    BY <1>1
  <2>3. (Len(r.s2c) - 1) + 1 = Len(d.s2c) - 1
    BY <1>1, <1>8
  <2> QED
    BY <1>7, <2>1, <2>2, <2>3, Zenon
<1>11. PICK l \in Nat : BoundInv(r, a, l)
  BY <1>0 DEF UpInv
<1>12. r.conn = "bound" => Counts(d.s2c, l + Len(r.got)) /\ Unread(d, l + Len(r.got) + Len(d.s2c))
  <2>1. r.conn = "bound" => Counts(r.s2c, l + Len(r.got)) /\ Unread(r, l + Len(r.got) + Len(r.s2c))
    BY <1>11 DEF BoundInv
  <2>2. \A i, j, k \in Nat : /\ i + j \in Int /\ i + j >= -1 /\ i + j + k \in Int /\ i + j + (k + 1) = i + j + k + 1
    OBVIOUS
  <2>3. /\ l + Len(r.got) \in Int /\ l + Len(r.got) >= -1 /\ l + Len(r.got) + Len(r.s2c) \in Int
        /\ l + Len(r.got) + Len(d.s2c) = l + Len(r.got) + Len(r.s2c) + 1
    <3>1. l \in Nat /\ Len(r.got) \in Nat /\ Len(r.s2c) \in Nat
      BY <1>1, <1>11
    <3>2. /\ l + Len(r.got) \in Int /\ l + Len(r.got) >= -1 /\ l + Len(r.got) + Len(r.s2c) \in Int
          /\ l + Len(r.got) + (Len(r.s2c) + 1) = l + Len(r.got) + Len(r.s2c) + 1
      BY <2>2, <3>1, Zenon
    <3> QED
      BY <1>8, <3>2, Zenon
  <2> QED
    BY <1>7, <2>1, <2>3, Zenon
<1>13. EarlyInv(d) /\ BindingInv(d, a)
  BY <1>3, <1>9, <1>10 DEF EarlyInv, BindingInv, SameEnds
<1>14. BoundInv(d, a, l)
  BY <1>3, <1>11, <1>12 DEF BoundInv, SameEnds
<1>15. UpInv(d, a)
  BY <1>6, <1>11, <1>13, <1>14 DEF UpInv
<1> QED
  BY <1>3, <1>4, <1>15 DEF RelayInv, d

\* What is left of the stream of the client when its first item is taken.
LEMMA ClientTail ==
    ASSUME NEW r, NEW a, RelayInv(r, a), r.c2s # <<>>
    PROVE  /\ Tail(r.c2s) \in Seq(Int) /\ Len(Tail(r.c2s)) = Len(r.c2s) - 1
           /\ Len(r.c2s) \in Nat /\ Head(r.c2s) \in Int
           /\ \A i \in 1..Len(Tail(r.c2s)) :
                 /\ Tail(r.c2s)[i] # Bind
                 /\ Tail(r.c2s)[i] = Eof => i = Len(Tail(r.c2s)) /\ r.conn = "freed"
                 /\ r.pair \in {"none", "pending"} => Tail(r.c2s)[i] = Eof
           /\ Head(r.c2s) = Eof => Tail(r.c2s) = <<>>
           /\ r.conn \notin {"none", "connecting"} /\ r.pair # "none"
           /\ Head(r.c2s) = Bind => r.pair # "bound" /\ r.s2c = <<>> /\ r.conn # "bound"
<1>0. r \in Relay /\ BirthInv(r) /\ BindInv(r)
  BY DEF RelayInv
<1>1. /\ r.c2s \in Seq(Int) /\ Tail(r.c2s) \in Seq(Int) /\ Len(Tail(r.c2s)) = Len(r.c2s) - 1
      /\ Len(r.c2s) \in Nat \ {0} /\ Head(r.c2s) \in Int /\ Head(r.c2s) = r.c2s[1]
      /\ \A i \in 1..(Len(r.c2s) - 1) : Tail(r.c2s)[i] = r.c2s[i + 1]
  BY <1>0, TailFacts DEF Relay
<1>2. ASSUME NEW i \in 1..Len(Tail(r.c2s))
      PROVE  /\ Tail(r.c2s)[i] # Bind
             /\ Tail(r.c2s)[i] = Eof => i = Len(Tail(r.c2s)) /\ r.conn = "freed"
             /\ r.pair \in {"none", "pending"} => Tail(r.c2s)[i] = Eof
  <2>1. i + 1 \in 1..Len(r.c2s) /\ Tail(r.c2s)[i] = r.c2s[i + 1] /\ i + 1 # 1
    BY <1>1
  <2>2. /\ r.c2s[i + 1] = Bind => i + 1 = 1
        /\ r.c2s[i + 1] = Eof => i + 1 = Len(r.c2s) /\ r.conn = "freed"
    BY <1>0, <2>1, Zenon DEF BindInv
  <2>3. r.pair \in {"none", "pending"} => r.c2s[i + 1] \in {Bind, Eof}
    BY <1>0, <2>1, Zenon DEF BirthInv
  <2>4. i + 1 = Len(r.c2s) => i = Len(Tail(r.c2s))
    BY <1>1
  <2> QED
    BY <2>1, <2>2, <2>3, <2>4, Zenon
<1>3. 1 \in 1..Len(r.c2s)
  BY <1>1
<1>4. Head(r.c2s) = Eof => Tail(r.c2s) = <<>>
  <2>1. Head(r.c2s) = Eof => 1 = Len(r.c2s)
    BY <1>0, <1>1, <1>3 DEF BindInv
  <2>2. Head(r.c2s) = Eof => Len(Tail(r.c2s)) = 0
    BY <1>1, <2>1
  <2> QED
    BY <1>1, <2>2, EmptySeq
<1>5. r.conn \notin {"none", "connecting"} /\ r.pair # "none"
  BY <1>0 DEF BirthInv
<1>6. Head(r.c2s) = Bind => r.pair # "bound" /\ r.s2c = <<>> /\ r.conn # "bound"
  BY <1>0, <1>1, <1>3 DEF BindInv
<1> QED
  BY <1>1, <1>2, <1>4, <1>5, <1>6

\* Something read from the client is dropped, or it is the end of the stream.
LEMMA ShiftClientKeeps ==
    ASSUME NEW r, NEW a, RelayInv(r, a), r.c2s # <<>>,
           r.pair # "bound" \/ a # "open" \/ Head(r.c2s) = Eof
    PROVE  RelayInv([r EXCEPT !.c2s = Tail(@)], a)
<1> DEFINE d == [r EXCEPT !.c2s = Tail(@)]
<1>0. r \in Relay /\ BirthInv(r) /\ BindInv(r) /\ DownInv(r, a) /\ UpInv(r, a)
  BY DEF RelayInv
<1>1. Tail(r.c2s) \in Seq(Int) /\ r.c2s \in Seq(Int) /\ Len(r.c2s) \in Nat
  BY <1>0, ClientTail, LenProperties DEF Relay
<1>2. /\ d \in Relay /\ SameEnds(d, r) /\ SamePeer(d, r) /\ SameUp(d, r)
      /\ d.c2s = Tail(r.c2s) /\ d.s2p = r.s2p /\ d.pgot = r.pgot /\ d.nc = r.nc
  BY <1>0, <1>1, ZenonT(60) DEF Relay, SameEnds, SamePeer, SameUp
<1> HIDE DEF d
<1>3. BirthInv(d)
  BY <1>0, <1>2, ClientTail DEF BirthInv, SameEnds, SamePeer, SameUp
<1>4. BindInv(d)
  BY <1>2, ClientTail DEF BindInv, SameEnds, SameUp
<1>5. r.pair = "bound" /\ a = "open" => d.c2s = <<>> /\ r.conn = "freed"
  <2>1. Head(r.c2s) = Eof => Tail(r.c2s) = <<>>
    BY ClientTail
  <2>2. Head(r.c2s) = Eof => r.conn = "freed"
    BY <1>0, TailFacts, <1>1 DEF BindInv
  <2> QED
    BY <1>2, <2>1, <2>2
<1>6. Counts(<<>>, Len(r.pgot) + Len(r.s2p))
  BY DEF Counts
<1>7. DownInv(d, a)
  BY <1>0, <1>2, <1>5, <1>6 DEF DownInv, SameEnds
<1>8. EarlyInv(d) /\ \A u \in Int : Unread(r, u) => Unread(d, u)
  BY <1>0, <1>2 DEF UpInv, EarlyInv, Unread, SameEnds, SamePeer
<1>9. UpInv(d, a)
  BY <1>0, <1>2, <1>8, UpFrame DEF SameEnds
<1> QED
  BY <1>2, <1>3, <1>4, <1>7, <1>9 DEF RelayInv, d

\* Data of the client is passed on.
LEMMA ClientDataKeeps ==
    ASSUME NEW r, NEW a, RelayInv(r, a), r.c2s # <<>>, Head(r.c2s) # Eof, r.pair = "bound", a = "open"
    PROVE  RelayInv([[r EXCEPT !.c2s = Tail(@)] EXCEPT !.s2p = Append(@, Head(r.c2s))], a)
<1> DEFINE d == [[r EXCEPT !.c2s = Tail(@)] EXCEPT !.s2p = Append(@, Head(r.c2s))]
<1> DEFINE m == Len(r.pgot)
<1> DEFINE n == Len(r.s2p)
<1>0. r \in Relay /\ BirthInv(r) /\ BindInv(r) /\ DownInv(r, a) /\ UpInv(r, a)
  BY DEF RelayInv
<1>1. /\ Tail(r.c2s) \in Seq(Int) /\ r.c2s \in Seq(Int) /\ Len(r.c2s) \in Nat /\ Head(r.c2s) \in Int
      /\ Len(Tail(r.c2s)) = Len(r.c2s) - 1
      /\ r.s2p \in Seq(Int) /\ n \in Nat /\ m \in Nat
  BY <1>0, ClientTail, LenProperties DEF Relay
<1>2. /\ Append(r.s2p, Head(r.c2s)) \in Seq(Int)
      /\ Len(Append(r.s2p, Head(r.c2s))) = n + 1
      /\ \A i \in 1..n : Append(r.s2p, Head(r.c2s))[i] = r.s2p[i]
      /\ Append(r.s2p, Head(r.c2s))[n + 1] = Head(r.c2s)
  BY <1>1, AppendFacts
<1>3. /\ d \in Relay /\ SameEnds(d, r) /\ SamePeer(d, r) /\ SameUp(d, r)
      /\ d.c2s = Tail(r.c2s) /\ d.s2p = Append(r.s2p, Head(r.c2s)) /\ d.pgot = r.pgot /\ d.nc = r.nc
  BY <1>0, <1>1, <1>2, ZenonT(60) DEF Relay, SameEnds, SamePeer, SameUp
<1>4. /\ Counts(r.s2p, m) /\ NoEof(r.s2p) /\ Counts(r.c2s, m + n)
      /\ r.conn # "freed" => m + n + Len(r.c2s) = r.nc
      /\ \A i \in 1..m : r.pgot[i] = i
  BY <1>0 DEF DownInv
<1> HIDE DEF d, m, n
<1>5. m + n \in Int /\ m + n >= -1 /\ m \in Int /\ m >= -1
  BY <1>1
<1>6. Counts(Tail(r.c2s), (m + n) + 1) /\ Head(r.c2s) = (m + n) + 1
  BY <1>1, <1>4, <1>5, CountsTail
<1>7. Counts(d.s2p, m) /\ NoEof(d.s2p)
  <2>1. Counts(Append(r.s2p, m + Len(r.s2p) + 1), m) /\ NoEof(Append(r.s2p, m + Len(r.s2p) + 1))
    BY <1>1, <1>4, <1>5, CountsAppend
  <2> QED
    BY <1>3, <1>6, <2>1 DEF n
<1>8. m + (n + 1) = (m + n) + 1 /\ (m + n) + 1 + (Len(r.c2s) - 1) = m + n + Len(r.c2s)
  <2>1. \A i, j, k \in Nat : i + (j + 1) = (i + j) + 1 /\ (i + j) + 1 + (k - 1) = i + j + k
    OBVIOUS
  <2> QED
    BY <1>1, <2>1, Zenon
<1>9. Len(d.s2p) = n + 1 /\ Len(d.c2s) = Len(r.c2s) - 1 /\ Len(d.pgot) = m
  BY <1>1, <1>2, <1>3 DEF m
<1>10. Counts(d.c2s, Len(d.pgot) + Len(d.s2p))
      /\ (r.conn # "freed" => Len(d.pgot) + Len(d.s2p) + Len(d.c2s) = r.nc)
  BY <1>3, <1>4, <1>6, <1>8, <1>9, Zenon
<1>11. DownInv(d, a)
  BY <1>3, <1>4, <1>7, <1>9, <1>10, Zenon DEF DownInv, SameEnds
<1>12. BirthInv(d)
  BY <1>0, <1>3 DEF BirthInv, SameEnds, SamePeer, SameUp
<1>13. BindInv(d)
  BY <1>3, ClientTail DEF BindInv, SameEnds, SameUp
<1>14. EarlyInv(d) /\ \A u \in Int : Unread(r, u) => Unread(d, u)
  BY <1>0, <1>3 DEF UpInv, EarlyInv, Unread, SameEnds, SamePeer
<1>15. UpInv(d, a)
  BY <1>0, <1>3, <1>14, UpFrame DEF SameEnds
<1> QED
  BY <1>3, <1>11, <1>12, <1>13, <1>15 DEF RelayInv, d

\* The response, and the early data behind it.
LEMMA ResponseCounts ==
    ASSUME NEW e \in Seq(Int), Counts(e, 0), NoEof(e)
    PROVE  LET q == Append(<<>>, Ok) \o e IN
           /\ q \in Seq(Int) /\ Len(q) = Len(e) + 1
           /\ Counts(q, -1) /\ NoEof(q)
<1> DEFINE q == Append(<<>>, Ok) \o e
<1>1. Ok \in Int /\ <<>> \in Seq(Int) /\ Len(<<>>) = 0 /\ Len(e) \in Nat
  BY EmptySeq, LenProperties DEF Ok
<1>2. Append(<<>>, Ok) \in Seq(Int) /\ Len(Append(<<>>, Ok)) = 1 /\ Append(<<>>, Ok)[1] = Ok
  BY <1>1, AppendFacts
<1>3. q \in Seq(Int) /\ Len(q) = 1 + Len(e) /\ q[1] = Ok
  BY <1>1, <1>2, ConcatProperties
<1>4. \A i \in 2..Len(q) : q[i] = e[i - 1]
  BY <1>1, <1>2, <1>3, ConcatProperties
<1> HIDE DEF q
<1>5. ASSUME NEW i \in 1..Len(q) PROVE q[i] = i - 1
  <2>1. CASE i = 1
    BY <1>3, <2>1 DEF Ok
  <2>2. CASE i # 1
    <3>1. i - 1 \in 1..Len(e) /\ i \in 2..Len(q)
      BY <1>1, <1>3, <2>2
    <3>2. e[i - 1] = 0 + (i - 1)
      BY <3>1, Zenon DEF Counts, NoEof
    <3> QED
      BY <1>4, <3>1, <3>2
  <2> QED
    BY <2>1, <2>2
<1>6. Counts(q, -1)
  BY <1>1, <1>3, <1>5 DEF Counts
<1>7. NoEof(q)
  BY <1>1, <1>3, <1>5 DEF NoEof, Eof
<1>8. Len(q) = Len(e) + 1
  BY <1>1, <1>3
<1> QED
  BY <1>3, <1>6, <1>7, <1>8 DEF q

\* The connection of the client is bound to the one of the peer.
LEMMA MakeDataKeeps ==
    ASSUME NEW r, NEW a, RelayInv(r, a), r.c2s # <<>>, Head(r.c2s) = Bind, r.pair = "pending"
    PROVE  RelayInv(makeDataConnection([r EXCEPT !.c2s = Tail(@)]), a)
<1> DEFINE d == makeDataConnection([r EXCEPT !.c2s = Tail(@)])
<1> DEFINE q == Append(<<>>, Ok) \o r.early
<1>0. r \in Relay /\ BirthInv(r) /\ BindInv(r) /\ DownInv(r, a) /\ UpInv(r, a)
  BY DEF RelayInv
<1>1. /\ Tail(r.c2s) \in Seq(Int) /\ r.early \in Seq(Int) /\ r.s2c = <<>>
      /\ r.conn \notin {"none", "connecting", "bound"}
      /\ \A i \in 1..Len(Tail(r.c2s)) : /\ Tail(r.c2s)[i] = Eof /\ Tail(r.c2s)[i] # Bind
                                        /\ i = Len(Tail(r.c2s)) /\ r.conn = "freed"
  <2>1. r.early \in Seq(Int) /\ r.pair = "pending"
    BY <1>0 DEF Relay
  <2>2. Tail(r.c2s) \in Seq(Int) /\ r.s2c = <<>> /\ r.conn \notin {"none", "connecting", "bound"}
    BY ClientTail
  <2>3. ASSUME NEW i \in 1..Len(Tail(r.c2s))
        PROVE  /\ Tail(r.c2s)[i] = Eof /\ Tail(r.c2s)[i] # Bind
               /\ i = Len(Tail(r.c2s)) /\ r.conn = "freed"
    BY <2>1, ClientTail
  <2> QED
    BY <2>1, <2>2, <2>3
<1>2. /\ NoEof(r.early) /\ Counts(r.early, 0) /\ Unread(r, Len(r.early))
  BY <1>0 DEF UpInv, EarlyInv
<1>3. q \in Seq(Int) /\ Len(q) = Len(r.early) + 1 /\ Counts(q, -1) /\ NoEof(q) /\ Len(r.early) \in Nat
  BY <1>1, <1>2, ResponseCounts, LenProperties
<1>4. <<>> \in Seq(Int) /\ Len(<<>>) = 0
  BY EmptySeq
<1>5. /\ d \in Relay /\ d.peer = r.peer /\ d.pair = "bound" /\ d.conn = r.conn
      /\ d.p2s = r.p2s /\ d.np = r.np /\ d.early = <<>>
      /\ d.c2s = Tail(r.c2s) /\ d.s2p = r.s2p /\ d.pgot = r.pgot /\ d.nc = r.nc
      /\ d.s2c = q /\ d.got = r.got /\ d.lost = r.lost
  BY <1>0, <1>1, <1>3, <1>4, ZenonT(60) DEF Relay, makeDataConnection
<1> HIDE DEF d, q
<1>6. r.s2p = <<>> /\ r.pgot = <<>> /\ r.nc = 0 /\ r.got = <<>> /\ r.lost = {}
      /\ r.peer # "none"
  BY <1>0, <1>1 DEF BirthInv
<1>7. BirthInv(d)
  BY <1>1, <1>5, <1>6 DEF BirthInv
<1>8. BindInv(d)
  BY <1>1, <1>5 DEF BindInv
<1>9. Counts(d.c2s, 0) /\ (r.conn # "freed" => Len(d.c2s) = 0)
  <2>1. Counts(d.c2s, 0)
    BY <1>1, <1>5 DEF Counts
  <2>2. Len(d.c2s) \in Nat
    BY <1>1, <1>5, LenProperties
  <2>3. Len(d.c2s) # 0 => 1 \in 1..Len(d.c2s)
    BY <2>2
  <2> QED
    BY <1>1, <1>5, <2>1, <2>3
<1>10. DownInv(d, a)
  BY <1>4, <1>5, <1>6, <1>9 DEF DownInv, Counts, NoEof
<1>11. Unread(d, Len(q) - 1)
  <2>1. Len(q) - 1 = Len(r.early)
    BY <1>3
  <2>2. Unread(d, Len(r.early))
    BY <1>2, <1>5 DEF Unread
  <2> QED
    BY <2>1, <2>2
<1>12. EarlyInv(d) /\ BindingInv(d, a)
  BY <1>3, <1>5, <1>11 DEF EarlyInv, BindingInv
<1>13. \E l \in Nat : BoundInv(d, a, l)
  <2>1. PICK l \in Nat : BoundInv(r, a, l)
    BY <1>0 DEF UpInv
  <2>2. BoundInv(d, a, l)
    BY <1>1, <1>5, <2>1 DEF BoundInv
  <2> QED
    BY <2>1, <2>2
<1>14. UpInv(d, a)
  BY <1>3, <1>5, <1>12, <1>13 DEF UpInv
<1> QED
  BY <1>5, <1>7, <1>8, <1>10, <1>14 DEF RelayInv, d

\* The pair is gone: ConnectionBind fails.
LEMMA RespondErrorKeeps ==
    ASSUME NEW r, NEW a, RelayInv(r, a), r.c2s # <<>>, Head(r.c2s) = Bind, r.pair # "pending"
    PROVE  RelayInv(respondError([r EXCEPT !.c2s = Tail(@)]), a)
<1> DEFINE d == respondError([r EXCEPT !.c2s = Tail(@)])
<1>0. r \in Relay /\ BirthInv(r) /\ BindInv(r) /\ DownInv(r, a) /\ UpInv(r, a)
  BY DEF RelayInv
<1>1. /\ Tail(r.c2s) \in Seq(Int) /\ r.s2c = <<>> /\ r.pair = "gone"
      /\ r.conn \notin {"none", "connecting", "bound"}
      /\ \A i \in 1..Len(Tail(r.c2s)) : /\ Tail(r.c2s)[i] # Bind
                                        /\ Tail(r.c2s)[i] = Eof => i = Len(Tail(r.c2s)) /\ r.conn = "freed"
  <2>1. r.pair \in {"none", "pending", "bound", "gone"}
    BY <1>0 DEF Relay
  <2>2. Tail(r.c2s) \in Seq(Int) /\ r.s2c = <<>> /\ r.pair = "gone" /\ r.conn \notin {"none", "connecting", "bound"}
    BY <2>1, ClientTail
  <2>3. ASSUME NEW i \in 1..Len(Tail(r.c2s))
        PROVE  Tail(r.c2s)[i] # Bind /\ (Tail(r.c2s)[i] = Eof => i = Len(Tail(r.c2s)) /\ r.conn = "freed")
    BY ClientTail
  <2> QED
    BY <2>2, <2>3
<1>2. Append(r.s2c, Error400) = <<Error400>> /\ Append(r.s2c, Error400) \in Seq(Int)
  BY <1>0, <1>1, AppendFacts DEF Error400, Relay
<1>3. /\ d \in Relay /\ d.peer = r.peer /\ d.pair = "gone" /\ d.conn = r.conn
      /\ d.p2s = r.p2s /\ d.np = r.np /\ d.early = r.early
      /\ d.c2s = Tail(r.c2s) /\ d.s2p = r.s2p /\ d.pgot = r.pgot /\ d.nc = r.nc
      /\ d.s2c = Append(r.s2c, Error400) /\ d.got = r.got /\ d.lost = r.lost
  BY <1>0, <1>1, <1>2, ZenonT(60) DEF Relay, respondError
<1> HIDE DEF d
<1>4. BirthInv(d) /\ BindInv(d) /\ DownInv(d, a)
  BY <1>0, <1>1, <1>3 DEF BirthInv, BindInv, DownInv
<1>5. EarlyInv(d) /\ BindingInv(d, a)
  BY <1>1, <1>2, <1>3 DEF EarlyInv, BindingInv
<1>6. \E l \in Nat : BoundInv(d, a, l)
  <2>1. PICK l \in Nat : BoundInv(r, a, l)
    BY <1>0 DEF UpInv
  <2>2. BoundInv(d, a, l)
    BY <1>1, <1>3, <2>1 DEF BoundInv
  <2> QED
    BY <2>1, <2>2
<1>7. UpInv(d, a)
  BY <1>3, <1>5, <1>6 DEF UpInv
<1> QED
  BY <1>3, <1>4, <1>7 DEF RelayInv, d

-----------------------------------------------------------------------------
(* The client. *)

\* The observer accepts the connection of a peer that was announced.
LEMMA ConnectingKeeps ==
    ASSUME NEW r, NEW a, RelayInv(r, a), r.conn = "none", r.peer # "none"
    PROVE  RelayInv([r EXCEPT !.conn = "connecting"], a)
<1> DEFINE d == [r EXCEPT !.conn = "connecting"]
<1>0. r \in Relay /\ BirthInv(r) /\ BindInv(r) /\ DownInv(r, a) /\ UpInv(r, a)
  BY DEF RelayInv
<1>1. /\ d \in Relay /\ SamePeer(d, r) /\ SameDown(d, r) /\ SameUp(d, r)
      /\ d.peer = r.peer /\ d.pair = r.pair /\ d.conn = "connecting"
  BY <1>0, ZenonT(60) DEF Relay, SamePeer, SameDown, SameUp
<1> HIDE DEF d
<1>2. BirthInv(d) /\ BindInv(d) /\ DownInv(d, a)
  <2>1. r.c2s = <<>> /\ Len(<<>>) = 0
    BY <1>0 DEF BirthInv
  <2>2. BirthInv(d)
    BY <1>0, <1>1 DEF BirthInv, SamePeer, SameDown, SameUp
  <2>3. BindInv(d)
    BY <1>1, <2>1 DEF BindInv, SameDown
  <2>4. DownInv(d, a)
    BY <1>0, <1>1 DEF DownInv, SameDown
  <2> QED
    BY <2>2, <2>3, <2>4
<1>3. EarlyInv(d) /\ BindingInv(d, a) /\ \E l \in Nat : BoundInv(d, a, l)
  BY <1>0, <1>1 DEF UpInv, BirthInv, EarlyInv, BindingInv, BoundInv, Unread, SamePeer, SameUp
<1> QED
  BY <1>0, <1>1, <1>2, <1>3 DEF RelayInv, UpInv, SameUp, d

\* The client writes its ConnectionBind.
LEMMA ConnectKeeps ==
    ASSUME NEW r, NEW a, RelayInv(r, a), r.conn = "connecting"
    PROVE  RelayInv([r EXCEPT !.c2s = Append(@, Bind), !.conn = "binding"], a)
<1> DEFINE d == [r EXCEPT !.c2s = Append(@, Bind), !.conn = "binding"]
<1>0. r \in Relay /\ BirthInv(r) /\ BindInv(r) /\ DownInv(r, a) /\ UpInv(r, a)
  BY DEF RelayInv
<1>1. r.c2s = <<>> /\ r.s2c = <<>> /\ r.pair # "bound" /\ r.pair # "none"
  BY <1>0 DEF BirthInv
<1>2. Append(r.c2s, Bind) = <<Bind>> /\ <<Bind>> \in Seq(Int)
  BY <1>0, <1>1, AppendFacts DEF Bind, Relay
<1>3. /\ d \in Relay /\ SamePeer(d, r) /\ SameUp(d, r)
      /\ d.peer = r.peer /\ d.pair = r.pair /\ d.conn = "binding"
      /\ d.c2s = <<Bind>> /\ d.s2p = r.s2p /\ d.pgot = r.pgot /\ d.nc = r.nc
  BY <1>0, <1>2, ZenonT(60) DEF Relay, SamePeer, SameUp
<1> HIDE DEF d
<1>4. BirthInv(d) /\ BindInv(d)
  BY <1>0, <1>1, <1>3 DEF BirthInv, BindInv, SamePeer, SameUp, Bind, Eof
<1>5. DownInv(d, a)
  BY <1>0, <1>1, <1>3 DEF DownInv
<1>6. EarlyInv(d) /\ BindingInv(d, a) /\ \E l \in Nat : BoundInv(d, a, l)
  <2>1. EarlyInv(d)
    BY <1>0, <1>3 DEF UpInv, EarlyInv, Unread, SamePeer
  <2>2. BindingInv(d, a)
    BY <1>0, <1>1, <1>3 DEF UpInv, BindingInv, SameUp
  <2>3. PICK l \in Nat : BoundInv(r, a, l)
    BY <1>0 DEF UpInv
  <2>4. BoundInv(d, a, l)
    BY <1>3, <2>3 DEF BoundInv, SameUp
  <2> QED
    BY <2>1, <2>2, <2>3, <2>4
<1> QED
  BY <1>0, <1>3, <1>4, <1>5, <1>6 DEF RelayInv, UpInv, SameUp, d

\* The connection is given up before it is bound: it fails, or its client, deaf to
\* what arrives, leaves it alone.
LEMMA GiveUpKeeps ==
    ASSUME NEW r, NEW a, RelayInv(r, a), r.conn \in {"connecting", "binding"},
           NEW c \in {"freed", "deaf"}
    PROVE  RelayInv([r EXCEPT !.conn = c], a)
<1> DEFINE d == [r EXCEPT !.conn = c]
<1>0. r \in Relay /\ BirthInv(r) /\ BindInv(r) /\ DownInv(r, a) /\ UpInv(r, a)
  BY DEF RelayInv
<1>1. /\ d \in Relay /\ SamePeer(d, r) /\ SameDown(d, r) /\ SameUp(d, r)
      /\ d.peer = r.peer /\ d.pair = r.pair /\ d.conn = c
  BY <1>0, ZenonT(60) DEF Relay, SamePeer, SameDown, SameUp
<1> HIDE DEF d
<1>2. BirthInv(d)
  BY <1>0, <1>1 DEF BirthInv, SamePeer, SameDown, SameUp
<1>3. BindInv(d)
  BY <1>0, <1>1 DEF BindInv, BirthInv, SameDown, SameUp
<1>4. DownInv(d, a)
  BY <1>0, <1>1 DEF BirthInv, DownInv, SameDown
<1>5. EarlyInv(d) /\ BindingInv(d, a) /\ \E l \in Nat : BoundInv(d, a, l)
  BY <1>0, <1>1 DEF UpInv, EarlyInv, BindingInv, BoundInv, Unread, SamePeer, SameUp
<1> QED
  BY <1>0, <1>1, <1>2, <1>3, <1>4, <1>5 DEF RelayInv, UpInv, SameUp, d

\* The connection of the client is closed; q: what it still has to read.
LEMMA FreeKeeps ==
    ASSUME NEW r, NEW a, RelayInv(r, a), r.conn \in {"binding", "bound", "deaf"},
           NEW q \in Seq(Int), r.pair # "gone" => NoEof(q), r.s2c = <<>> => q = <<>>
    PROVE  RelayInv(freeConnection([r EXCEPT !.s2c = q]), a)
<1> DEFINE d == freeConnection([r EXCEPT !.s2c = q])
<1>0. r \in Relay /\ BirthInv(r) /\ BindInv(r) /\ DownInv(r, a) /\ UpInv(r, a)
  BY DEF RelayInv
<1>1. /\ r.c2s \in Seq(Int) /\ Len(r.c2s) \in Nat /\ Eof \in Int /\ Bind # Eof
      /\ Append(r.c2s, Eof) \in Seq(Int) /\ Len(Append(r.c2s, Eof)) = Len(r.c2s) + 1
      /\ \A i \in 1..Len(r.c2s) : Append(r.c2s, Eof)[i] = r.c2s[i]
      /\ Append(r.c2s, Eof)[Len(r.c2s) + 1] = Eof
  BY <1>0, LenProperties, AppendFacts DEF Relay, Eof, Bind
<1>2. /\ d \in Relay /\ SamePeer(d, r)
      /\ d.peer = r.peer /\ d.pair = r.pair /\ d.conn = "freed"
      /\ d.c2s = Append(r.c2s, Eof) /\ d.s2p = r.s2p /\ d.pgot = r.pgot /\ d.nc = r.nc
      /\ d.s2c = q /\ d.got = r.got /\ d.lost = r.lost
  BY <1>0, <1>1, ZenonT(60) DEF Relay, freeConnection, SamePeer
<1> HIDE DEF d
<1>3. r.pair # "none" /\ (r.pair = "pending" => q = <<>>)
  BY <1>0 DEF BirthInv
<1>4. \A i \in 1..Len(d.c2s) : (i \in 1..Len(r.c2s) /\ d.c2s[i] = r.c2s[i]) \/ (i = Len(d.c2s) /\ d.c2s[i] = Eof)
  BY <1>1, <1>2
<1>5. \A i \in 1..Len(r.c2s) : r.c2s[i] # Eof
  BY <1>0 DEF BindInv
<1>6. BirthInv(d)
  BY <1>0, <1>2, <1>3, <1>4 DEF BirthInv, SamePeer
<1>7. BindInv(d)
  BY <1>0, <1>1, <1>2, <1>4, <1>5 DEF BindInv
<1>8. r.pair = "bound" /\ a = "open" => Counts(d.c2s, Len(d.pgot) + Len(d.s2p))
  <2>1. r.pair = "bound" /\ a = "open" => Counts(r.c2s, Len(r.pgot) + Len(r.s2p))
    BY <1>0 DEF DownInv
  <2> QED
    BY <1>2, <1>4, <1>5, <2>1 DEF Counts
<1>9. DownInv(d, a)
  BY <1>0, <1>2, <1>8 DEF DownInv
<1>10. EarlyInv(d) /\ BindingInv(d, a) /\ \E l \in Nat : BoundInv(d, a, l)
  BY <1>0, <1>2 DEF UpInv, EarlyInv, BindingInv, BoundInv, Unread, SamePeer
<1> QED
  BY <1>2, <1>6, <1>7, <1>9, <1>10 DEF RelayInv, UpInv, d

\* The application closes the connection, or the client is shut down.
LEMMA CloseKeeps ==
    ASSUME NEW r, NEW a, RelayInv(r, a), r.conn \in {"binding", "bound", "deaf"}
    PROVE  RelayInv(freeConnection(r), a)
<1>1. r \in Relay /\ r.s2c \in Seq(Int) /\ (r.pair # "gone" => NoEof(r.s2c))
  BY DEF RelayInv, UpInv, Relay
<1>2. [r EXCEPT !.s2c = r.s2c] = r
  BY <1>1, ZenonT(60) DEF Relay
<1>3. RelayInv(freeConnection([r EXCEPT !.s2c = r.s2c]), a)
  BY <1>1, FreeKeeps
<1> QED
  BY <1>2, <1>3

\* The end of the stream, or an error, is read, and the connection closed.
LEMMA TakeAndCloseKeeps ==
    ASSUME NEW r, NEW a, RelayInv(r, a), r.conn \in {"binding", "bound", "deaf"}, r.s2c # <<>>
    PROVE  RelayInv(freeConnection([r EXCEPT !.s2c = Tail(@)]), a)
<1>1. r \in Relay /\ r.s2c \in Seq(Int) /\ (r.pair # "gone" => NoEof(r.s2c))
  BY DEF RelayInv, UpInv, Relay
<1>2. Tail(r.s2c) \in Seq(Int) /\ (r.pair # "gone" => NoEof(Tail(r.s2c)))
  BY <1>1, TailFacts, NoEofTail
<1> QED
  BY <1>2, FreeKeeps

\* The observer is given data, unless its connection is deaf.
LEMMA DataKeeps ==
    ASSUME NEW r, NEW a, RelayInv(r, a), r.conn \in {"bound", "deaf"}, r.s2c # <<>>, Head(r.s2c) # Eof
    PROVE  RelayInv([r EXCEPT !.s2c = Tail(@),
                       !.got = IF r.conn = "deaf" THEN @ ELSE Append(@, Head(r.s2c))], a)
<1> DEFINE g == IF r.conn = "deaf" THEN r.got ELSE Append(r.got, Head(r.s2c))
<1> DEFINE d == [r EXCEPT !.s2c = Tail(@),
                   !.got = IF r.conn = "deaf" THEN @ ELSE Append(@, Head(r.s2c))]
<1>0. r \in Relay /\ BirthInv(r) /\ BindInv(r) /\ DownInv(r, a) /\ UpInv(r, a)
  BY DEF RelayInv
<1>1. /\ r.s2c \in Seq(Int) /\ r.got \in Seq(Int) /\ Tail(r.s2c) \in Seq(Int) /\ Head(r.s2c) \in Int
      /\ Len(Tail(r.s2c)) = Len(r.s2c) - 1 /\ Len(r.s2c) \in Nat /\ Len(r.got) \in Nat
  BY <1>0, TailFacts, LenProperties DEF Relay
<1>2. /\ Append(r.got, Head(r.s2c)) \in Seq(Int)
      /\ Len(Append(r.got, Head(r.s2c))) = Len(r.got) + 1
      /\ \A i \in 1..Len(r.got) : Append(r.got, Head(r.s2c))[i] = r.got[i]
      /\ Append(r.got, Head(r.s2c))[Len(r.got) + 1] = Head(r.s2c)
  BY <1>1, AppendFacts
<1>3. g \in Seq(Int) /\ (r.conn = "deaf" => g = r.got) /\ (r.conn = "bound" => g = Append(r.got, Head(r.s2c)))
  BY <1>1, <1>2
<1>4. /\ d \in Relay /\ SameEnds(d, r) /\ SamePeer(d, r) /\ SameDown(d, r)
      /\ d.s2c = Tail(r.s2c) /\ d.got = g /\ d.lost = r.lost
  BY <1>0, <1>1, <1>3, ZenonT(60) DEF Relay, SameEnds, SamePeer, SameDown
<1> HIDE DEF d, g
<1>5. r.pair \in {"bound", "gone"}
  BY <1>0 DEF BirthInv, Relay
<1>6. BirthInv(d) /\ BindInv(d) /\ DownInv(d, a)
  BY <1>0, <1>3, <1>4, <1>5 DEF BirthInv, BindInv, DownInv, SameEnds, SamePeer, SameDown
<1>7. EarlyInv(d) /\ BindingInv(d, a) /\ (d.pair # "gone" => NoEof(d.s2c))
  BY <1>0, <1>1, <1>4, <1>5, NoEofTail DEF UpInv, EarlyInv, BindingInv, SameEnds
<1>8. PICK l \in Nat : BoundInv(r, a, l)
  BY <1>0 DEF UpInv
<1>9. CASE r.conn = "deaf"
  <2>1. BoundInv(d, a, l)
    BY <1>3, <1>4, <1>8, <1>9 DEF BoundInv, SameEnds
  <2> QED
    BY <1>4, <1>6, <1>7, <1>8, <2>1 DEF RelayInv, UpInv, d
<1>10. CASE r.conn = "bound"
  <2> DEFINE b == l + Len(r.got)
  <2>1. b \in Int /\ b >= -1 /\ l + (Len(r.got) + 1) = b + 1
    <3>1. \A i, j \in Nat : i + j \in Int /\ i + j >= -1 /\ i + (j + 1) = i + j + 1
      OBVIOUS
    <3> QED
      BY <1>1, <1>8, <3>1, Zenon
  <2>2. /\ Counts(r.s2c, b) /\ r.lost = 1..l /\ \A i \in 1..Len(r.got) : r.got[i] = l + i
        /\ r.pair = "bound" /\ a = "open" => Unread(r, b + Len(r.s2c))
    BY <1>8, <1>10 DEF BoundInv
  <2> HIDE DEF b
  <2>3. Counts(Tail(r.s2c), b + 1) /\ Head(r.s2c) = b + 1
    BY <1>1, <2>1, <2>2, CountsTail
  <2>4. Len(g) = Len(r.got) + 1
    BY <1>2, <1>3, <1>10
  <2>5. \A i \in 1..Len(g) : g[i] = l + i
    <3>1. ASSUME NEW i \in 1..Len(g), i # Len(r.got) + 1 PROVE g[i] = l + i
      <4>1. i \in 1..Len(r.got)
        BY <1>1, <2>4, <3>1
      <4> QED
        BY <1>2, <1>3, <1>10, <2>2, <4>1
    <3>2. g[Len(r.got) + 1] = l + (Len(r.got) + 1)
      BY <1>2, <1>3, <1>10, <2>1, <2>3
    <3> QED
      BY <3>1, <3>2
  <2>6. l + Len(g) = b + 1
    BY <2>1, <2>4
  <2>7. (b + 1) + Len(Tail(r.s2c)) = b + Len(r.s2c)
    <3>1. \A i \in Int, j \in Nat : (i + 1) + (j - 1) = i + j
      OBVIOUS
    <3>2. Len(Tail(r.s2c)) = Len(r.s2c) - 1 /\ Len(r.s2c) \in Nat
      BY <1>1
    <3> QED
      BY <2>1, <3>1, <3>2, Zenon
  <2>8. r.pair = "bound" /\ a = "open" => Unread(d, b + Len(r.s2c))
    BY <1>4, <2>2 DEF Unread, SameEnds, SamePeer
  <2>9. Counts(d.s2c, l + Len(g)) /\ (r.pair = "bound" /\ a = "open" => Unread(d, l + Len(g) + Len(d.s2c)))
    BY <1>4, <2>3, <2>6, <2>7, <2>8, Zenon
  <2>10. BoundInv(d, a, l)
    BY <1>4, <2>2, <2>5, <2>9 DEF BoundInv, SameEnds
  <2> QED
    BY <1>4, <1>6, <1>7, <1>8, <2>10 DEF RelayInv, UpInv, d
<1> QED
  BY <1>9, <1>10

\* The application sends on a connection that is bound.
LEMMA SendKeeps ==
    ASSUME NEW r, NEW a, RelayInv(r, a), r.conn = "bound"
    PROVE  RelayInv([r EXCEPT !.c2s = Append(@, r.nc + 1), !.nc = @ + 1], a)
<1> DEFINE d == [r EXCEPT !.c2s = Append(@, r.nc + 1), !.nc = @ + 1]
<1> DEFINE b == Len(r.pgot) + Len(r.s2p)
<1>0. r \in Relay /\ BirthInv(r) /\ BindInv(r) /\ DownInv(r, a) /\ UpInv(r, a)
  BY DEF RelayInv
<1>1. /\ r.c2s \in Seq(Int) /\ Len(r.c2s) \in Nat /\ r.nc \in Nat /\ r.nc + 1 \in Nat /\ r.nc + 1 \in Int
      /\ r.nc + 1 # Bind /\ r.nc + 1 # Eof /\ Len(r.pgot) \in Nat /\ Len(r.s2p) \in Nat
  BY <1>0, LenProperties DEF Relay, Bind, Eof
<1>2. /\ Append(r.c2s, r.nc + 1) \in Seq(Int) /\ Len(Append(r.c2s, r.nc + 1)) = Len(r.c2s) + 1
      /\ \A i \in 1..Len(r.c2s) : Append(r.c2s, r.nc + 1)[i] = r.c2s[i]
      /\ Append(r.c2s, r.nc + 1)[Len(r.c2s) + 1] = r.nc + 1
  BY <1>1, AppendFacts
<1>3. /\ d \in Relay /\ SameEnds(d, r) /\ SamePeer(d, r) /\ SameUp(d, r)
      /\ d.c2s = Append(r.c2s, r.nc + 1) /\ d.s2p = r.s2p /\ d.pgot = r.pgot /\ d.nc = r.nc + 1
  BY <1>0, <1>1, <1>2, ZenonT(60) DEF Relay, SameEnds, SamePeer, SameUp
<1>4. r.pair = "bound" /\ a = "open" => Counts(r.c2s, b) /\ b + Len(r.c2s) = r.nc
  BY <1>0 DEF DownInv
<1>5. b \in Int /\ b >= -1
  <2>1. \A i, j \in Nat : i + j \in Int /\ i + j >= -1
    OBVIOUS
  <2> QED
    BY <1>1, <2>1, Zenon
<1> HIDE DEF d, b
<1>6. r.pair \in {"bound", "gone"}
  BY <1>0 DEF BirthInv
<1>7. \A i \in 1..Len(r.c2s) : r.c2s[i] # Eof /\ r.c2s[i] # Bind
  BY <1>0 DEF BindInv
<1>8. \A i \in 1..Len(d.c2s) : d.c2s[i] # Eof /\ d.c2s[i] # Bind
  BY <1>1, <1>2, <1>3, <1>7
<1>9. BirthInv(d) /\ BindInv(d)
  BY <1>0, <1>3, <1>6, <1>8 DEF BirthInv, BindInv, SameEnds, SamePeer, SameUp
<1>10. r.pair = "bound" /\ a = "open" => Counts(d.c2s, b) /\ b + Len(d.c2s) = r.nc + 1
  <2> SUFFICES ASSUME r.pair = "bound", a = "open" PROVE Counts(d.c2s, b) /\ b + Len(d.c2s) = r.nc + 1
    OBVIOUS
  <2>1. Counts(r.c2s, b) /\ NoEof(r.c2s)
    BY <1>4, <1>7 DEF NoEof
  <2>2. Counts(Append(r.c2s, b + Len(r.c2s) + 1), b)
    BY <1>1, <1>5, <2>1, CountsAppend
  <2>3. b + Len(r.c2s) = r.nc
    BY <1>4
  <2>4. b + (Len(r.c2s) + 1) = b + Len(r.c2s) + 1
    BY <1>1, <1>5
  <2>5. Len(d.c2s) = Len(r.c2s) + 1
    BY <1>2, <1>3
  <2> QED
    BY <1>3, <2>2, <2>3, <2>4, <2>5, Zenon
<1>11. DownInv(d, a)
  BY <1>0, <1>3, <1>10 DEF DownInv, SameEnds, b
<1>12. EarlyInv(d) /\ \A u \in Int : Unread(r, u) => Unread(d, u)
  BY <1>0, <1>3 DEF UpInv, EarlyInv, Unread, SameEnds, SamePeer
<1>13. UpInv(d, a)
  BY <1>0, <1>3, <1>12, UpFrame DEF SameEnds
<1> QED
  BY <1>3, <1>9, <1>11, <1>13 DEF RelayInv, d

\* The response arrives in one read with what is behind it, up to the k-th item.
LEMMA ResponseKeeps ==
    ASSUME NEW r, NEW a, RelayInv(r, a), r.conn = "binding", NEW k \in DOMAIN r.s2c,
           Head(r.s2c) = Ok, \A i \in 2..k : r.s2c[i] # Eof
    PROVE  RelayInv([r EXCEPT !.conn = "bound", !.s2c = SubSeq(r.s2c, k + 1, Len(r.s2c)),
                              !.lost = {r.s2c[i] : i \in 2..k}], a)
<1> DEFINE q == SubSeq(r.s2c, k + 1, Len(r.s2c))
<1> DEFINE lost == {r.s2c[i] : i \in 2..k}
<1> DEFINE d == [r EXCEPT !.conn = "bound", !.s2c = q, !.lost = lost]
<1> DEFINE l == k - 1
<1> DEFINE n == Len(r.s2c)
<1>0. r \in Relay /\ BirthInv(r) /\ BindInv(r) /\ DownInv(r, a) /\ UpInv(r, a)
  BY DEF RelayInv
<1>1. /\ r.s2c \in Seq(Int) /\ n \in Nat /\ DOMAIN r.s2c = 1..n
      /\ r.s2c # <<>> /\ Head(r.s2c) = r.s2c[1]
  BY <1>0, LenProperties, TailFacts, EmptySeq DEF Relay
<1>2. k \in 1..n /\ k \in Nat /\ l \in Nat
  BY <1>1
<1>3. Counts(r.s2c, -1) /\ (r.pair = "bound" /\ a = "open" => Unread(r, n - 1))
  <2>1. r.s2c # <<Error400>>
    BY <1>1 DEF Ok, Error400
  <2> QED
    BY <1>0, <2>1 DEF UpInv, BindingInv
<1>4. \A i \in 1..n : r.s2c[i] \in Int /\ (r.s2c[i] = i - 1 \/ (i = n /\ r.s2c[i] = Eof))
  BY <1>1, <1>3, ElementOfSeq DEF Counts
<1>5. /\ q \in Seq(Int) /\ Len(q) = n - k
      /\ \A i \in 1..(n - k) : q[i] = r.s2c[k + i]
  BY <1>1, <1>2, SuffixFacts
<1>6. lost = 1..l /\ lost \in SUBSET Int
  <2>1. \A i \in 2..k : r.s2c[i] = i - 1
    <3>1. \A i \in 2..k : i \in 1..n
      BY <1>2
    <3> QED
      BY <1>4, <3>1, Zenon
  <2>2. lost = {i - 1 : i \in 2..k}
    BY <2>1
  <2>3. {i - 1 : i \in 2..k} = 1..l
    <3>1. \A j \in 1..l : j + 1 \in 2..k /\ (j + 1) - 1 = j
      BY <1>2
    <3>2. \A i \in 2..k : i - 1 \in 1..l
      BY <1>2
    <3> QED
      BY <3>1, <3>2
  <2>4. 1..l \in SUBSET Int
    OBVIOUS
  <2> QED
    BY <2>2, <2>3, <2>4
<1>7. /\ d \in Relay /\ SamePeer(d, r) /\ SameDown(d, r)
      /\ d.peer = r.peer /\ d.pair = r.pair /\ d.conn = "bound"
      /\ d.s2c = q /\ d.got = r.got /\ d.lost = lost
  BY <1>0, <1>5, <1>6, ZenonT(60) DEF Relay, SamePeer, SameDown
<1> HIDE DEF d, q, lost
<1>8. r.pair \in {"bound", "gone"} /\ r.got = <<>>
  BY <1>0, <1>1 DEF BirthInv, Relay
<1>9. \A i \in 1..Len(r.c2s) : r.c2s[i] # Bind /\ r.c2s[i] # Eof
  BY <1>0, <1>1 DEF BindInv
<1>10. BirthInv(d) /\ BindInv(d)
  BY <1>0, <1>7, <1>8, <1>9 DEF BirthInv, BindInv, SamePeer, SameDown
<1>11. DownInv(d, a)
  BY <1>0, <1>7 DEF DownInv, SameDown
<1>12. Counts(q, l)
  <2>1. ASSUME NEW i \in 1..(n - k) PROVE q[i] = l + i \/ (i = n - k /\ q[i] = Eof)
    <3>1. k + i \in 1..n /\ (k + i) - 1 = l + i /\ (k + i = n => i = n - k)
      <4> HIDE DEF n
      <4>1. k + i \in 1..n
        BY <1>1, <1>2
      <4>2. (k + i) - 1 = l + i /\ (k + i = n => i = n - k)
        BY <1>1, <1>2
      <4> QED
        BY <4>1, <4>2
    <3> QED
      BY <1>4, <1>5, <3>1
  <2> QED
    BY <1>5, <2>1 DEF Counts
<1>13. r.pair # "gone" => NoEof(q)
  <2>1. r.pair # "gone" => \A i \in 1..n : r.s2c[i] # Eof
    BY <1>0 DEF UpInv, NoEof
  <2>2. \A i \in 1..(n - k) : k + i \in 1..n
    <3> HIDE DEF n
    <3> QED
      BY <1>1, <1>2
  <2> QED
    BY <1>5, <2>1, <2>2 DEF NoEof
<1>14. Len(r.got) = 0 /\ l + 0 = l /\ l + 0 + (n - k) = n - 1
  BY <1>1, <1>2, <1>8
<1>15. BoundInv(d, a, l)
  <2>1. r.pair = "bound" /\ a = "open" => Unread(d, n - 1)
    BY <1>3, <1>7 DEF Unread, SamePeer
  <2>2. \A i \in 1..Len(d.got) : d.got[i] = l + i
    BY <1>7, <1>14
  <2>3. Counts(d.s2c, l + Len(d.got))
    BY <1>7, <1>12, <1>14
  <2>4. l + Len(d.got) + Len(d.s2c) = n - 1
    BY <1>5, <1>7, <1>14
  <2> QED
    BY <1>6, <1>7, <2>1, <2>2, <2>3, <2>4 DEF BoundInv
<1>16. EarlyInv(d) /\ BindingInv(d, a)
  BY <1>7, <1>8 DEF EarlyInv, BindingInv
<1>17. UpInv(d, a)
  BY <1>2, <1>7, <1>13, <1>15, <1>16 DEF UpInv
<1> QED
  BY <1>7, <1>10, <1>11, <1>17 DEF RelayInv, d, q, lost

-----------------------------------------------------------------------------
(* All relays. *)

\* An action of one relay.
LEMMA UpdateKeeps ==
    ASSUME TcpInv, NEW p \in RelayPeer, NEW x, RelayInv(x, control.alloc),
           rel' = [rel EXCEPT ![p] = x], control' = control,
           rel[p].peer # "none" => x.peer # "none",
           rel[p].conn = "none" => x.conn = "none",
           control.alloc = "gone" => x.pair \in {"none", "gone"}
    PROVE  TcpInv'
<1>0. x \in Relay /\ rel \in [RelayPeer -> Relay]
  BY DEF RelayInv, TcpInv
<1>1. rel' \in [RelayPeer -> Relay] /\ \A q \in RelayPeer : rel'[q] = IF q = p THEN x ELSE rel[q]
  BY <1>0
<1>2. \A q \in RelayPeer : RelayInv(rel'[q], control'.alloc)
  BY <1>1 DEF TcpInv
<1>3. \A q \in RelayPeer : control'.alloc = "gone" => rel'[q].pair \in {"none", "gone"}
  BY <1>1 DEF TcpInv
<1>4. AttemptInv'
  <2>1. \A i \in 1..Len(control.attempts) : control.attempts[i] \in RelayPeer
    BY ElementOfSeq DEF TcpInv, AttemptInv
  <2>2. \A q \in RelayPeer : /\ rel[q].peer # "none" => rel'[q].peer # "none"
                             /\ rel[q].conn = "none" => rel'[q].conn = "none"
    BY <1>1
  <2> QED
    BY <2>1, <2>2 DEF TcpInv, AttemptInv
<1> QED
  BY <1>1, <1>2, <1>3, <1>4 DEF TcpInv

\* At first there is no relay.
LEMMA TcpInitInv == TcpInit => TcpInv
<1> SUFFICES ASSUME TcpInit PROVE TcpInv
  OBVIOUS
<1>1. <<>> \in Seq(Int) /\ Len(<<>>) = 0
  BY EmptySeq
<1>2. NewRelay \in Relay
  BY <1>1 DEF NewRelay, Relay
<1>3. BirthInv(NewRelay) /\ BindInv(NewRelay) /\ DownInv(NewRelay, "open")
  BY <1>1 DEF BirthInv, BindInv, DownInv, NewRelay, Counts, NoEof
<1>4. BoundInv(NewRelay, "open", 0)
  <2>1. 1..0 = {}
    OBVIOUS
  <2> QED
    BY <1>1, <2>1 DEF BoundInv, NewRelay
<1>5. UpInv(NewRelay, "open")
  BY <1>1, <1>4 DEF UpInv, EarlyInv, BindingInv, NewRelay, Counts, NoEof
<1>6. RelayInv(NewRelay, "open")
  BY <1>2, <1>3, <1>5 DEF RelayInv
<1>7. rel \in [RelayPeer -> Relay] /\ \A p \in RelayPeer : rel[p] = NewRelay
  BY <1>2 DEF TcpInit
<1>8. control.alloc = "open" /\ AttemptInv
  BY <1>1, EmptySeq DEF TcpInit, AttemptInv
<1> QED
  BY <1>6, <1>7, <1>8 DEF TcpInv

\* Every step keeps the invariant: an action of one relay by the lemma of its
\* handler, one of all relays, or of the list of attempts, directly.
LEMMA TcpNextInv == TcpInv /\ [TcpNext]_tcpvars => TcpInv'
<1> SUFFICES ASSUME TcpInv, [TcpNext]_tcpvars PROVE TcpInv'
  OBVIOUS
<1>0. /\ rel \in [RelayPeer -> Relay]
      /\ \A p \in RelayPeer : RelayInv(rel[p], control.alloc) /\ rel[p] \in Relay
      /\ \A p \in RelayPeer : control.alloc = "gone" => rel[p].pair \in {"none", "gone"}
      /\ AttemptInv
      /\ control.alloc \in {"open", "deleted", "gone"}
  BY DEF TcpInv, AttemptInv
<1>1. ASSUME NEW p \in RelayPeer, onPeerAccept(p) PROVE TcpInv'
  <2> DEFINE x == [rel[p] EXCEPT !.peer = "open", !.pair = "pending"]
  <2>1. /\ rel[p].peer = "none" /\ control.alloc # "gone" /\ rel[p].conn = "none"
        /\ rel' = [rel EXCEPT ![p] = x] /\ control' = [control EXCEPT !.attempts = Append(@, p)]
    BY <1>0, <1>1 DEF onPeerAccept, RelayInv, BirthInv
  <2>2. x \in Relay /\ x.peer = "open" /\ x.pair = "pending" /\ x.conn = "none" /\ RelayInv(x, control.alloc)
    <3>1. RelayInv(x, control.alloc)
      BY <1>0, <2>1, AcceptKeeps
    <3> QED
      BY <1>0, <2>1, <3>1 DEF Relay, RelayInv
  <2> HIDE DEF x
  <2>3. rel' \in [RelayPeer -> Relay] /\ \A q \in RelayPeer : rel'[q] = IF q = p THEN x ELSE rel[q]
    BY <1>0, <2>1, <2>2
  <2>4. /\ control.attempts \in Seq(RelayPeer) /\ Len(control.attempts) \in Nat
        /\ control.client \in {"open", "closed"}
        /\ \A i \in 1..Len(control.attempts) : control.attempts[i] \in RelayPeer
    BY <1>0, LenProperties, ElementOfSeq DEF AttemptInv
  <2>5. control'.attempts = Append(control.attempts, p) /\ control'.alloc = control.alloc
        /\ control' \in [attempts : Seq(RelayPeer), client : {"open", "closed"}, alloc : {"open", "deleted", "gone"}]
    <3>1. Append(control.attempts, p) \in Seq(RelayPeer)
      BY <2>4, AppendProperties
    <3> QED
      BY <1>0, <2>1, <3>1, ZenonT(60) DEF AttemptInv
  <2>6. /\ Len(control'.attempts) = Len(control.attempts) + 1
        /\ \A i \in 1..Len(control.attempts) : control'.attempts[i] = control.attempts[i]
        /\ control'.attempts[Len(control.attempts) + 1] = p
    BY <2>4, <2>5, AppendProperties
  <2>7. \A i \in 1..Len(control.attempts) : control.attempts[i] # p
    BY <1>0, <2>1 DEF AttemptInv
  <2>8. AttemptInv'
    <3>1. \A i \in 1..Len(control'.attempts) : i \in 1..Len(control.attempts) \/ i = Len(control.attempts) + 1
      BY <2>4, <2>6
    <3>2. \A i \in 1..Len(control'.attempts) :
            rel'[control'.attempts[i]].peer # "none" /\ rel'[control'.attempts[i]].conn = "none"
      BY <1>0, <2>2, <2>3, <2>4, <2>6, <2>7, <3>1 DEF AttemptInv
    <3>3. \A i, j \in 1..Len(control'.attempts) : control'.attempts[i] = control'.attempts[j] => i = j
      BY <1>0, <2>6, <2>7, <3>1 DEF AttemptInv
    <3> QED
      BY <2>5, <3>2, <3>3 DEF AttemptInv
  <2> QED
    BY <1>0, <2>1, <2>2, <2>3, <2>5, <2>8 DEF TcpInv
<1>2. ASSUME NEW p \in RelayPeer, ReadPeer(p) PROVE TcpInv'
  <2> DEFINE r == rel[p]
  <2> DEFINE s == [r EXCEPT !.p2s = Tail(@)]
  <2> DEFINE x == IF Head(r.p2s) = Eof THEN DeletePair(s) ELSE onPeerDataReceived(s, Head(r.p2s))
  <2>1. /\ r.pair \in {"pending", "bound"} /\ r.p2s # <<>> /\ control.alloc # "gone"
        /\ rel' = [rel EXCEPT ![p] = x] /\ control' = control
    BY <1>0, <1>2 DEF ReadPeer
  <2>2. r \in Relay /\ RelayInv(r, control.alloc) /\ s.pair = r.pair /\ s.conn = r.conn
    BY <1>0 DEF Relay
  <2>3. CASE Head(r.p2s) = Eof
    <3>1. RelayInv(s, control.alloc) /\ x = DeletePair(s)
      BY <2>1, <2>2, <2>3, ShiftPeerKeeps
    <3>2. RelayInv(x, control.alloc) /\ x.pair = "gone" /\ x.conn = r.conn
      <4>1. s.pair \in {"pending", "bound"} /\ s.conn = r.conn
        BY <2>1, <2>2
      <4> HIDE DEF s, r, x
      <4> QED
        BY <3>1, <4>1, DeleteKeeps
    <3> HIDE DEF x
    <3>3. x.peer # "none"
      BY <3>2 DEF RelayInv, BirthInv
    <3> QED
      BY <2>1, <3>2, <3>3, UpdateKeeps
  <2>4. CASE Head(r.p2s) # Eof
    <3>1. x = onPeerDataReceived(s, Head(r.p2s))
      BY <2>4
    <3>2. RelayInv(x, control.alloc)
      <4>1. CASE r.pair = "pending"
        BY <2>1, <2>2, <2>4, <3>1, <4>1, EarlyDataKeeps DEF onPeerDataReceived
      <4>2. CASE r.pair = "bound" /\ control.alloc = "deleted"
        BY <2>1, <2>2, <2>4, <3>1, <4>2, ShiftPeerKeeps DEF onPeerDataReceived
      <4>3. CASE r.pair = "bound" /\ control.alloc = "open"
        BY <2>1, <2>2, <2>4, <3>1, <4>3, PeerDataKeeps DEF onPeerDataReceived
      <4> QED
        BY <1>0, <2>1, <4>1, <4>2, <4>3
    <3>3. x.peer = r.peer /\ x.conn = r.conn
      BY <2>2, <3>1 DEF onPeerDataReceived, Relay
    <3> HIDE DEF x
    <3> QED
      BY <2>1, <3>2, <3>3, UpdateKeeps
  <2> QED
    BY <2>3, <2>4
<1>3. ASSUME NEW p \in RelayPeer, handleConnectionBindRequest(p) PROVE TcpInv'
  <2> DEFINE r == rel[p]
  <2> DEFINE s == [r EXCEPT !.c2s = Tail(@)]
  <2>1. /\ r.c2s # <<>> /\ Head(r.c2s) = Bind /\ control' = control
        /\ \/ r.pair = "pending" /\ rel' = [rel EXCEPT ![p] = makeDataConnection(s)]
           \/ r.pair # "pending" /\ rel' = [rel EXCEPT ![p] = respondError(s)]
           \/ rel' = [rel EXCEPT ![p] = s]
    BY <1>3 DEF handleConnectionBindRequest
  <2>2. r \in Relay /\ RelayInv(r, control.alloc) /\ r.pair # "bound" /\ r.pair # "none"
    BY <1>0, <2>1, ClientTail
  <2>3. CASE r.pair = "pending" /\ rel' = [rel EXCEPT ![p] = makeDataConnection(s)]
    <3> DEFINE x == makeDataConnection(s)
    <3>1. RelayInv(x, control.alloc)
      BY <2>1, <2>2, <2>3, MakeDataKeeps
    <3>2. x.peer = r.peer /\ x.conn = r.conn /\ control.alloc # "gone"
      BY <1>0, <2>2, <2>3 DEF makeDataConnection, Relay
    <3> HIDE DEF x
    <3> QED
      BY <2>1, <2>3, <3>1, <3>2, UpdateKeeps DEF x
  <2>4. CASE r.pair # "pending" /\ rel' = [rel EXCEPT ![p] = respondError(s)]
    <3> DEFINE x == respondError(s)
    <3>1. RelayInv(x, control.alloc)
      BY <2>1, <2>2, <2>4, RespondErrorKeeps
    <3>2. x.peer = r.peer /\ x.conn = r.conn /\ x.pair = r.pair
      BY <2>2 DEF respondError, Relay
    <3> HIDE DEF x
    <3> QED
      BY <1>0, <2>1, <2>4, <3>1, <3>2, UpdateKeeps DEF x
  <2>5. CASE rel' = [rel EXCEPT ![p] = s]
    <3>1. RelayInv(s, control.alloc)
      BY <2>1, <2>2, ShiftClientKeeps
    <3>2. s.peer = r.peer /\ s.conn = r.conn /\ s.pair = r.pair
      BY <2>2 DEF Relay
    <3> HIDE DEF s
    <3> QED
      BY <1>0, <2>1, <2>5, <3>1, <3>2, UpdateKeeps
  <2> QED
    BY <2>1, <2>3, <2>4, <2>5
<1>4. ASSUME NEW p \in RelayPeer, ReadClient(p) PROVE TcpInv'
  <2> DEFINE r == rel[p]
  <2> DEFINE s == [r EXCEPT !.c2s = Tail(@)]
  <2> DEFINE x == IF r.pair # "bound" THEN s
                  ELSE IF Head(r.c2s) = Eof THEN DeletePair(s)
                  ELSE onClientDataReceived(s, Head(r.c2s))
  <2>1. r.c2s # <<>> /\ control' = control /\ rel' = [rel EXCEPT ![p] = x]
    BY <1>4 DEF ReadClient
  <2>2. r \in Relay /\ RelayInv(r, control.alloc) /\ s.pair = r.pair /\ s.conn = r.conn /\ s.peer = r.peer
    BY <1>0 DEF Relay
  <2>3. r.pair = "bound" => control.alloc # "gone"
    BY <1>0
  <2>4. CASE r.pair = "bound" /\ Head(r.c2s) = Eof
    <3>1. RelayInv(s, control.alloc) /\ x = DeletePair(s)
      BY <2>1, <2>2, <2>4, ShiftClientKeeps
    <3>2. RelayInv(x, control.alloc) /\ x.pair = "gone" /\ x.conn = r.conn
      BY <2>2, <2>4, <3>1, DeleteKeeps
    <3> HIDE DEF x
    <3>3. x.peer # "none"
      BY <3>2 DEF RelayInv, BirthInv
    <3> QED
      BY <2>1, <3>2, <3>3, UpdateKeeps
  <2>5. CASE r.pair # "bound" \/ Head(r.c2s) # Eof
    <3>1. RelayInv(x, control.alloc)
      <4>1. CASE r.pair # "bound"
        BY <2>1, <2>2, <4>1, ShiftClientKeeps
      <4>2. CASE r.pair = "bound" /\ control.alloc = "deleted"
        BY <2>1, <2>2, <2>5, <4>2, ShiftClientKeeps DEF onClientDataReceived
      <4>3. CASE r.pair = "bound" /\ control.alloc = "open"
        BY <2>1, <2>2, <2>5, <4>3, ClientDataKeeps DEF onClientDataReceived
      <4> QED
        BY <1>0, <2>3, <4>1, <4>2, <4>3
    <3>2. x.peer = r.peer /\ x.conn = r.conn /\ x.pair = r.pair
      BY <2>2, <2>5 DEF onClientDataReceived, Relay
    <3> HIDE DEF x
    <3> QED
      BY <1>0, <2>1, <3>1, <3>2, UpdateKeeps
  <2> QED
    BY <2>4, <2>5
<1>5. ASSUME NEW p \in RelayPeer, onRelayConnectionConnect(p) PROVE TcpInv'
  <2> DEFINE x == [rel[p] EXCEPT !.c2s = Append(@, Bind), !.conn = "binding"]
  <2>1. rel[p].conn = "connecting" /\ rel' = [rel EXCEPT ![p] = x] /\ control' = control
    BY <1>5 DEF onRelayConnectionConnect
  <2>2. RelayInv(x, control.alloc) /\ x.peer = rel[p].peer /\ x.pair = rel[p].pair
    BY <1>0, <2>1, ConnectKeeps DEF Relay
  <2> HIDE DEF x
  <2> QED
    BY <1>0, <2>1, <2>2, UpdateKeeps
<1>6. ASSUME NEW p \in RelayPeer, onRelayConnectionError(p) PROVE TcpInv'
  <2> DEFINE x == [rel[p] EXCEPT !.conn = "freed"]
  <2>1. rel[p].conn = "connecting" /\ rel' = [rel EXCEPT ![p] = x] /\ control' = control
    BY <1>0, <1>6 DEF onRelayConnectionError
  <2>2. RelayInv(x, control.alloc)
    BY <1>0, <2>1, GiveUpKeeps
  <2>3. x.peer = rel[p].peer /\ x.pair = rel[p].pair
    BY <1>0 DEF Relay
  <2> HIDE DEF x
  <2> QED
    BY <1>0, <2>1, <2>2, <2>3, UpdateKeeps
<1>7. ASSUME NEW p \in RelayPeer, onBindTimeout(p) PROVE TcpInv'
  <2> DEFINE x == [rel[p] EXCEPT !.conn = "deaf"]
  <2>1. rel[p].conn = "binding" /\ rel' = [rel EXCEPT ![p] = x] /\ control' = control
    BY <1>0, <1>7 DEF onBindTimeout
  <2>2. RelayInv(x, control.alloc)
    BY <1>0, <2>1, GiveUpKeeps
  <2>3. x.peer = rel[p].peer /\ x.pair = rel[p].pair
    BY <1>0 DEF Relay
  <2> HIDE DEF x
  <2> QED
    BY <1>0, <2>1, <2>2, <2>3, UpdateKeeps
<1>8. ASSUME NEW p \in RelayPeer, NEW k \in DOMAIN rel[p].s2c, handleConnectionBindResponse(p, k) PROVE TcpInv'
  <2> DEFINE r == rel[p]
  <2> DEFINE x == [r EXCEPT !.conn = "bound", !.s2c = SubSeq(r.s2c, k + 1, Len(r.s2c)),
                            !.lost = {r.s2c[i] : i \in 2..k}]
  <2>1. /\ r.conn = "binding" /\ Head(r.s2c) = Ok /\ \A i \in 2..k : r.s2c[i] # Eof
        /\ rel' = [rel EXCEPT ![p] = x] /\ control' = control
    BY <1>8 DEF handleConnectionBindResponse
  <2>2. RelayInv(x, control.alloc)
    BY <1>0, <2>1, ResponseKeeps
  <2>3. x.peer = r.peer /\ x.pair = r.pair
    BY <1>0 DEF Relay
  <2> HIDE DEF x
  <2> QED
    BY <1>0, <2>1, <2>2, <2>3, UpdateKeeps
<1>9. ASSUME NEW p \in RelayPeer, handleConnectionBindErrorResponse(p) \/ onRelayConnectionClosed(p)
      PROVE  TcpInv'
  <2> DEFINE r == rel[p]
  <2> DEFINE x == freeConnection([r EXCEPT !.s2c = Tail(@)])
  <2>1. /\ r.conn \in {"binding", "bound", "deaf"} /\ r.s2c # <<>>
        /\ rel' = [rel EXCEPT ![p] = x] /\ control' = control
    BY <1>9 DEF handleConnectionBindErrorResponse, onRelayConnectionClosed
  <2>2. RelayInv(x, control.alloc) /\ x.peer = r.peer /\ x.pair = r.pair
    BY <1>0, <2>1, TakeAndCloseKeeps DEF freeConnection, Relay
  <2> HIDE DEF x
  <2> QED
    BY <1>0, <2>1, <2>2, UpdateKeeps
<1>10. ASSUME NEW p \in RelayPeer, onRelayDataReceived(p) PROVE TcpInv'
  <2> DEFINE r == rel[p]
  <2> DEFINE x == [r EXCEPT !.s2c = Tail(@), !.got = IF r.conn = "deaf" THEN @ ELSE Append(@, Head(r.s2c))]
  <2>1. /\ r.conn \in {"bound", "deaf"} /\ r.s2c # <<>> /\ Head(r.s2c) # Eof
        /\ rel' = [rel EXCEPT ![p] = x] /\ control' = control
    BY <1>10 DEF onRelayDataReceived
  <2>2. RelayInv(x, control.alloc)
    BY <1>0, <2>1, DataKeeps
  <2>3. x.peer = r.peer /\ x.pair = r.pair
    BY <1>0 DEF Relay
  <2> HIDE DEF x
  <2> QED
    BY <1>0, <2>1, <2>2, <2>3, UpdateKeeps
<1>11. ASSUME NEW p \in RelayPeer, sendRelayData(p) PROVE TcpInv'
  <2> DEFINE x == [rel[p] EXCEPT !.c2s = Append(@, rel[p].nc + 1), !.nc = @ + 1]
  <2>1. rel[p].conn = "bound" /\ rel' = [rel EXCEPT ![p] = x] /\ control' = control
    BY <1>11 DEF sendRelayData
  <2>2. RelayInv(x, control.alloc) /\ x.peer = rel[p].peer /\ x.pair = rel[p].pair
    BY <1>0, <2>1, SendKeeps DEF Relay
  <2> HIDE DEF x
  <2> QED
    BY <1>0, <2>1, <2>2, UpdateKeeps
<1>12. ASSUME NEW p \in RelayPeer, CloseRelay(p) PROVE TcpInv'
  <2> DEFINE x == freeConnection(rel[p])
  <2>1. rel[p].conn = "bound" /\ rel' = [rel EXCEPT ![p] = x] /\ control' = control
    BY <1>12 DEF CloseRelay
  <2>2. RelayInv(x, control.alloc) /\ x.peer = rel[p].peer /\ x.pair = rel[p].pair
    BY <1>0, <2>1, CloseKeeps DEF freeConnection, Relay
  <2> HIDE DEF x
  <2> QED
    BY <1>0, <2>1, <2>2, UpdateKeeps
<1>13. ASSUME NEW p \in RelayPeer, PeerSend(p) PROVE TcpInv'
  <2> DEFINE x == [rel[p] EXCEPT !.p2s = Append(@, rel[p].np + 1), !.np = @ + 1]
  <2>1. rel[p].peer = "open" /\ rel' = [rel EXCEPT ![p] = x] /\ control' = control
    BY <1>13 DEF PeerSend
  <2>2. RelayInv(x, control.alloc) /\ x.peer = rel[p].peer /\ x.pair = rel[p].pair /\ x.conn = rel[p].conn
    BY <1>0, <2>1, PeerSendKeeps DEF Relay
  <2> HIDE DEF x
  <2> QED
    BY <1>0, <2>1, <2>2, UpdateKeeps
<1>14. ASSUME NEW p \in RelayPeer, PeerClose(p) PROVE TcpInv'
  <2> DEFINE x == [rel[p] EXCEPT !.p2s = Append(@, Eof), !.peer = "closed"]
  <2>1. rel[p].peer = "open" /\ rel' = [rel EXCEPT ![p] = x] /\ control' = control
    BY <1>14 DEF PeerClose
  <2>2. RelayInv(x, control.alloc) /\ x.peer = "closed" /\ x.pair = rel[p].pair /\ x.conn = rel[p].conn
    BY <1>0, <2>1, PeerCloseKeeps DEF Relay
  <2> HIDE DEF x
  <2> QED
    BY <1>0, <2>1, <2>2, UpdateKeeps
<1>15. ASSUME NEW p \in RelayPeer, PeerRead(p) PROVE TcpInv'
  <2> DEFINE r == rel[p]
  <2> DEFINE x == IF Head(r.s2p) = Eof
                  THEN [r EXCEPT !.s2p = Tail(@), !.peer = "closed"]
                  ELSE [r EXCEPT !.s2p = Tail(@), !.pgot = Append(@, Head(r.s2p))]
  <2>1. r.peer = "open" /\ r.s2p # <<>> /\ rel' = [rel EXCEPT ![p] = x] /\ control' = control
    BY <1>15 DEF PeerRead
  <2>2. RelayInv(x, control.alloc)
    BY <1>0, <2>1, PeerReadKeeps
  <2>3. x.peer # "none" /\ x.pair = r.pair /\ x.conn = r.conn
    BY <1>0, <2>1 DEF Relay
  <2> HIDE DEF x
  <2> QED
    BY <1>0, <2>1, <2>2, <2>3, UpdateKeeps
<1>16. CASE handleConnectionAttemptIndication
  <2> DEFINE p == Head(control.attempts)
  <2> DEFINE t == Tail(control.attempts)
  <2> DEFINE x == [rel[p] EXCEPT !.conn = "connecting"]
  <2>1. /\ control.attempts # <<>> /\ control' = [control EXCEPT !.attempts = t]
        /\ rel' = [rel EXCEPT ![p].conn = "connecting"] \/ rel' = rel
    BY <1>16 DEF handleConnectionAttemptIndication
  <2>2. /\ control.attempts \in Seq(RelayPeer) /\ control.client \in {"open", "closed"}
        /\ t \in Seq(RelayPeer) /\ Len(t) = Len(control.attempts) - 1
        /\ Len(control.attempts) \in Nat \ {0} /\ p = control.attempts[1] /\ p \in RelayPeer
    BY <1>0, <2>1, HeadTailProperties, EmptySeq, LenProperties DEF AttemptInv
  <2>3. \A i \in 1..Len(t) : i + 1 \in 1..Len(control.attempts) /\ t[i] = control.attempts[i + 1] /\ i + 1 # 1
    BY <2>2
  <2>4. rel[p].peer # "none" /\ rel[p].conn = "none" /\ \A i \in 1..Len(t) : t[i] # p
    BY <1>0, <2>2, <2>3 DEF AttemptInv
  <2>5. x \in Relay /\ RelayInv(x, control.alloc) /\ x.peer = rel[p].peer /\ x.pair = rel[p].pair
    <3>1. RelayInv(x, control.alloc)
      BY <1>0, <2>2, <2>4, ConnectingKeeps
    <3>2. rel[p] \in Relay
      BY <1>0, <2>2
    <3> QED
      BY <3>1, <3>2 DEF RelayInv, Relay
  <2>6. rel' = [rel EXCEPT ![p] = x] \/ rel' = rel
    BY <1>0, <2>1, <2>2
  <2>7. /\ control' \in [attempts : Seq(RelayPeer), client : {"open", "closed"}, alloc : {"open", "deleted", "gone"}]
        /\ control'.attempts = t /\ control'.alloc = control.alloc
    BY <1>0, <2>1, <2>2, ZenonT(60) DEF AttemptInv
  <2> HIDE DEF x, p, t
  <2>8. /\ rel' \in [RelayPeer -> Relay]
        /\ \A q \in RelayPeer : rel'[q] = rel[q] \/ (q = p /\ rel'[q] = x)
    BY <1>0, <2>2, <2>5, <2>6
  <2>9. AttemptInv'
    <3>1. \A i \in 1..Len(t) : t[i] \in RelayPeer /\ rel'[t[i]] = rel[t[i]]
      BY <2>2, <2>4, <2>8, ElementOfSeq
    <3>2. ASSUME NEW i \in 1..Len(t) PROVE rel'[t[i]].peer # "none" /\ rel'[t[i]].conn = "none"
      <4>1. i + 1 \in 1..Len(control.attempts) /\ t[i] = control.attempts[i + 1] /\ rel'[t[i]] = rel[t[i]]
        BY <2>3, <3>1
      <4> QED
        BY <1>0, <4>1 DEF AttemptInv
    <3>3. \A i, j \in 1..Len(t) : t[i] = t[j] => i = j
      <4> SUFFICES ASSUME NEW i \in 1..Len(t), NEW j \in 1..Len(t), t[i] = t[j] PROVE i = j
        OBVIOUS
      <4>1. i + 1 = j + 1
        BY <1>0, <2>3 DEF AttemptInv
      <4> QED
        BY <4>1
    <3> QED
      BY <2>7, <3>2, <3>3 DEF AttemptInv
  <2> QED
    BY <1>0, <2>5, <2>7, <2>8, <2>9 DEF TcpInv
<1>17. CASE shutdownRelays
  <2> DEFINE x(p) == IF rel[p].conn \in {"binding", "bound", "deaf"} THEN freeConnection(rel[p])
                     ELSE IF rel[p].conn = "connecting" THEN [rel[p] EXCEPT !.conn = "freed"]
                     ELSE rel[p]
  <2>1. /\ control' = [control EXCEPT !.client = "closed", !.attempts = <<>>]
        /\ rel' = [p \in RelayPeer |-> x(p)]
    BY <1>17 DEF shutdownRelays
  <2>2. ASSUME NEW p \in RelayPeer PROVE RelayInv(x(p), control.alloc) /\ x(p) \in Relay /\ x(p).pair = rel[p].pair
    <3>1. CASE rel[p].conn \in {"binding", "bound", "deaf"}
      <4>1. x(p) = freeConnection(rel[p]) /\ RelayInv(freeConnection(rel[p]), control.alloc)
        BY <1>0, <3>1, CloseKeeps
      <4>2. freeConnection(rel[p]).pair = rel[p].pair
        BY <1>0 DEF freeConnection, Relay
      <4> HIDE DEF x
      <4> QED
        BY <4>1, <4>2 DEF RelayInv
    <3>2. CASE rel[p].conn = "connecting"
      <4>1. x(p) = [rel[p] EXCEPT !.conn = "freed"]
        BY <3>2
      <4>2. RelayInv([rel[p] EXCEPT !.conn = "freed"], control.alloc)
        BY <1>0, <3>2, GiveUpKeeps
      <4>3. [rel[p] EXCEPT !.conn = "freed"].pair = rel[p].pair
        BY <1>0 DEF Relay
      <4> HIDE DEF x
      <4> QED
        BY <4>1, <4>2, <4>3 DEF RelayInv
    <3>3. CASE rel[p].conn \notin {"connecting", "binding", "bound", "deaf"}
      BY <1>0, <3>3
    <3> QED
      BY <3>1, <3>2, <3>3
  <2>3. <<>> \in Seq(RelayPeer)
    BY EmptySeq
  <2>4. /\ control' \in [attempts : Seq(RelayPeer), client : {"open", "closed"}, alloc : {"open", "deleted", "gone"}]
        /\ control'.attempts = <<>> /\ control'.alloc = control.alloc
    BY <1>0, <2>1, <2>3, ZenonT(60) DEF AttemptInv
  <2> HIDE DEF x
  <2>5. AttemptInv'
    BY <2>4 DEF AttemptInv
  <2> QED
    BY <1>0, <2>1, <2>2, <2>4, <2>5 DEF TcpInv
<1>18. CASE onControlClosed
  <2>1. control.alloc = "open" /\ control' = [control EXCEPT !.alloc = "deleted"] /\ rel' = rel
    BY <1>18 DEF onControlClosed
  <2>2. control'.alloc = "deleted" /\ AttemptInv'
    BY <1>0, <2>1 DEF AttemptInv
  <2> QED
    BY <1>0, <2>1, <2>2, ClosedKeeps DEF TcpInv
<1>19. CASE onServerTimer
  <2> DEFINE x(p) == IF rel[p].pair \in {"pending", "bound"} THEN DeletePair(rel[p]) ELSE rel[p]
  <2>1. /\ control.alloc = "deleted" /\ control' = [control EXCEPT !.alloc = "gone"]
        /\ rel' = [p \in RelayPeer |-> x(p)]
    BY <1>19 DEF onServerTimer
  <2>2. ASSUME NEW p \in RelayPeer
        PROVE  RelayInv(x(p), "gone") /\ x(p) \in Relay /\ x(p).pair \in {"none", "gone"}
               /\ x(p).conn = rel[p].conn /\ (rel[p].peer # "none" => x(p).peer # "none")
    <3>1. CASE rel[p].pair \in {"pending", "bound"}
      <4>1. /\ x(p) = DeletePair(rel[p]) /\ RelayInv(x(p), control.alloc)
            /\ x(p).pair = "gone" /\ x(p).conn = rel[p].conn
        BY <1>0, <3>1, DeleteKeeps
      <4> HIDE DEF x
      <4>2. RelayInv(x(p), "gone") /\ x(p) \in Relay /\ x(p).peer # "none"
        BY <4>1, ClosedKeeps DEF RelayInv, BirthInv
      <4> QED
        BY <4>1, <4>2
    <3>2. CASE rel[p].pair \notin {"pending", "bound"}
      <4>1. x(p) = rel[p] /\ RelayInv(rel[p], "gone")
        BY <1>0, <3>2, ClosedKeeps
      <4> QED
        BY <1>0, <3>2, <4>1 DEF Relay
    <3> QED
      BY <3>1, <3>2
  <2> HIDE DEF x
  <2>3. /\ rel' \in [RelayPeer -> Relay] /\ control'.attempts = control.attempts /\ control'.alloc = "gone"
        /\ control' \in [attempts : Seq(RelayPeer), client : {"open", "closed"}, alloc : {"open", "deleted", "gone"}]
    BY <1>0, <2>1, <2>2 DEF AttemptInv
  <2>4. AttemptInv'
    <3>1. \A i \in 1..Len(control.attempts) : control.attempts[i] \in RelayPeer
      BY <1>0, ElementOfSeq DEF AttemptInv
    <3>2. \A i \in 1..Len(control.attempts) :
            rel'[control.attempts[i]].peer # "none" /\ rel'[control.attempts[i]].conn = "none"
      BY <1>0, <2>1, <2>2, <3>1 DEF AttemptInv
    <3> QED
      BY <1>0, <2>3, <3>2 DEF AttemptInv
  <2> QED
    BY <2>1, <2>2, <2>3, <2>4 DEF TcpInv
<1>20. CASE UNCHANGED tcpvars
  BY <1>0, <1>20 DEF TcpInv, AttemptInv, tcpvars
<1> QED
  BY <1>1, <1>2, <1>3, <1>4, <1>5, <1>6, <1>7, <1>8, <1>9, <1>10, <1>11, <1>12, <1>13, <1>14,
     <1>15, <1>16, <1>17, <1>18, <1>19, <1>20 DEF TcpNext, ServerReads, ClientReads, Connected

\* What the invariant says of the two ends.
LEMMA TcpInvFaithful == TcpInv => RelayFaithful
<1> SUFFICES ASSUME TcpInv, NEW p \in RelayPeer
             PROVE  /\ Increasing(rel[p].got)
                    /\ rel[p].got # <<>> =>
                          \A d \in 1..Last(rel[p].got) : d \in ToSet(rel[p].got) \cup rel[p].lost
                    /\ rel[p].pgot = [i \in 1..Len(rel[p].pgot) |-> i]
  BY DEF RelayFaithful
<1> DEFINE r == rel[p]
<1> DEFINE g == r.got
<1>1. r \in Relay /\ DownInv(r, control.alloc) /\ UpInv(r, control.alloc)
  BY DEF TcpInv, RelayInv
<1>2. g \in Seq(Int) /\ Len(g) \in Nat /\ DOMAIN g = 1..Len(g) /\ r.pgot \in Seq(Int)
  BY <1>1, LenProperties DEF Relay
<1>3. PICK l \in Nat : r.lost = 1..l /\ \A i \in 1..Len(g) : g[i] = l + i
  BY <1>1 DEF UpInv, BoundInv
<1> HIDE DEF g
<1>4. Increasing(g)
  <2> SUFFICES ASSUME NEW i \in 1..Len(g), NEW j \in 1..Len(g), i < j PROVE g[i] < g[j]
    BY <1>2 DEF Increasing
  <2>1. g[i] = l + i /\ g[j] = l + j
    BY <1>3
  <2> QED
    BY <1>2, <1>3, <2>1
<1>5. ASSUME g # <<>>, NEW d \in 1..Last(g) PROVE d \in ToSet(g) \cup r.lost
  <2>1. Len(g) # 0
    BY <1>2, <1>5, EmptySeq
  <2>2. Last(g) = l + Len(g)
    BY <1>2, <1>3, <2>1 DEF Last
  <2>3. CASE d \in 1..l
    BY <1>3, <2>3
  <2>4. CASE d \notin 1..l
    <3>1. d - l \in 1..Len(g) /\ l + (d - l) = d
      BY <1>2, <1>3, <1>5, <2>2, <2>4
    <3>2. g[d - l] = d
      BY <1>3, <3>1
    <3> QED
      BY <1>2, <3>1, <3>2 DEF ToSet
  <2> QED
    BY <2>3, <2>4
<1>6. r.pgot = [i \in 1..Len(r.pgot) |-> i]
  <2>1. \A i \in 1..Len(r.pgot) : r.pgot[i] = i
    BY <1>1 DEF DownInv
  <2>2. r.pgot \in [1..Len(r.pgot) -> Int]
    BY <1>2, LenProperties
  <2> QED
    BY <2>1, <2>2
<1> QED
  BY <1>4, <1>5, <1>6 DEF g

(* Of the peer's data the observer of a relay connection receives, in       *)
(* order, all but the beginning that came with the bind response, and      *)
(* the peer receives what the client sent (makeDataConnection(),           *)
(* onPeerDataReceived(), onClientDataReceived()), for any peers, any       *)
(* numbers of writes, and whoever closes first.                            *)
THEOREM RelayedInOrder == TcpSpec => []RelayFaithful
<1>1. TcpSpec => []TcpInv
  BY TcpInitInv, TcpNextInv, PTL DEF TcpSpec
<1> QED
  BY <1>1, TcpInvFaithful, PTL

-----------------------------------------------------------------------------
(* The garbage collector.                                                  *)

Places == pending \cup ready \cup deletable \cup deleted

\* An object is in one place: a queue, a scheduling thread, the running
\* destructor, or deleted.
OnePlace ==
    /\ pending \cap ready = {} /\ pending \cap deletable = {} /\ pending \cap deleted = {}
    /\ ready \cap deletable = {} /\ ready \cap deleted = {} /\ deletable \cap deleted = {}
    /\ \A t \in Thread : arg[t] \notin Places
    /\ \A t, u \in Thread : arg[t] = arg[u] /\ arg[t] # NoObj => t = u
    /\ child \notin Places
    /\ \A t \in Thread : arg[t] = child => child = NoObj

\* Whatever is in a place was given to deleteLater(), and what a destructor
\* schedules is given after that destructor ran: this is why no destructor
\* schedules an object that is in a place already.
GivenInv ==
    /\ Places \subseteq given
    /\ \A t \in Thread : arg[t] # NoObj => arg[t] \in given
    /\ work \notin {"chain", "push"} => child = NoObj
    /\ work \in {"idle", "check"} => deletable = {}
    /\ work = "chain" => child \in Obj \ given
    /\ work = "push" => child \in given
    /\ child # NoObj => \E p \in Obj : Chain[p] = child
    /\ \A p \in Obj : Chain[p] # NoObj /\ (Chain[p] \in given \/ Chain[p] = child) => p \in deleted

GcInv == GcTypeOK /\ OnePlace /\ GivenInv

LEMMA GcTypes ==
    ASSUME GcTypeOK
    PROVE  /\ pending \subseteq Obj /\ ready \subseteq Obj /\ deletable \subseteq Obj
           /\ deleted \subseteq Obj /\ given \subseteq Obj
           /\ arg \in [Thread -> Obj \cup {NoObj}] /\ child \in Obj \cup {NoObj}
           /\ NoObj \notin Places
  BY CollectorAssumption DEF GcTypeOK, Places

LEMMA GcStep == GcInv /\ [GcNext]_gcvars => GcInv'
<1> SUFFICES ASSUME GcInv, [GcNext]_gcvars PROVE GcInv'
  OBVIOUS
<1> USE CollectorAssumption DEF queues
<1>0. GcTypeOK /\ OnePlace /\ GivenInv
  BY DEF GcInv
<1>1. ASSUME NEW t \in Thread, NEW o \in Obj, GetCleaner(t, o) PROVE GcInv'
  <2>1. /\ o \notin given /\ \A p \in Obj : Chain[p] # o
        /\ arg' = [arg EXCEPT ![t] = o] /\ given' = given \cup {o}
        /\ UNCHANGED <<pending, ready, deletable, deleted, lock, work, child, phase, timer>>
    BY <1>1 DEF GetCleaner, Roots
  <2>2. GcTypeOK'
    BY <1>0, <2>1 DEF GcTypeOK
  <2>3. o # child /\ o # NoObj
    BY <1>0, <2>1 DEF GivenInv
  <2>4. GivenInv'
    BY <1>0, <2>1, <2>3, GcTypes DEF GivenInv, Places
  <2>5. OnePlace'
    BY <1>0, <2>1, <2>3, GcTypes DEF OnePlace, GivenInv, Places
  <2> QED
    BY <2>2, <2>4, <2>5 DEF GcInv
<1>2. ASSUME NEW t \in Thread, Schedule(t) PROVE GcInv'
  <2>1. GcTypeOK'
    BY <1>0, <1>2 DEF GcTypeOK, Schedule
  <2>2. GivenInv'
    BY <1>0, <1>2, GcTypes DEF GivenInv, Places, Schedule
  <2>3. OnePlace'
    BY <1>0, <1>2, GcTypes DEF OnePlace, GivenInv, Places, Schedule
  <2> QED
    BY <2>1, <2>2, <2>3 DEF GcInv
<1>3. CASE Take
  <2>1. /\ deletable' = ready /\ ready' = pending /\ pending' = {} /\ work' = "delete"
        /\ work = "idle" /\ deletable = {} /\ child = NoObj
        /\ UNCHANGED <<deleted, given, arg, lock, child, phase, timer>>
    BY <1>0, <1>3 DEF Take, GivenInv
  <2>2. GcTypeOK'
    BY <1>0, <2>1 DEF GcTypeOK
  <2>3. Places' = Places
    BY <2>1 DEF Places
  <2>4. OnePlace'
    BY <1>0, <2>1, <2>3 DEF OnePlace
  <2>5. GivenInv'
    BY <1>0, <2>1, <2>3 DEF GivenInv
  <2> QED
    BY <2>2, <2>4, <2>5 DEF GcInv
<1>4. ASSUME NEW o \in Obj, DeleteNext(o) PROVE GcInv'
  <2>1. /\ o \in deletable /\ deletable' = deletable \ {o} /\ deleted' = deleted \cup {o}
        /\ child' = Chain[o] /\ work' = IF Chain[o] = NoObj THEN "delete" ELSE "chain"
        /\ child = NoObj
        /\ UNCHANGED <<pending, ready, given, arg, lock, phase, timer>>
    BY <1>0, <1>4 DEF DeleteNext, GivenInv
  <2>2. Chain[o] \in Obj \cup {NoObj} /\ (Chain[o] # NoObj => Chain[o] \notin given)
    BY <1>0, <2>1 DEF GivenInv, OnePlace
  <2>3. GcTypeOK'
    BY <1>0, <2>1, <2>2 DEF GcTypeOK
  <2>4. Places' = Places
    BY <2>1 DEF Places
  <2>5. OnePlace'
    BY <1>0, <2>1, <2>2, <2>4, GcTypes DEF OnePlace, GivenInv
  <2>6. GivenInv'
    BY <1>0, <2>1, <2>2, <2>4 DEF GivenInv
  <2> QED
    BY <2>3, <2>5, <2>6 DEF GcInv
<1>5. CASE ChildCleaner
  <2>1. /\ given' = given \cup {child} /\ work' = "push" /\ work = "chain"
        /\ UNCHANGED <<pending, ready, deletable, deleted, arg, lock, child, phase, timer>>
    BY <1>5 DEF ChildCleaner
  <2>2. child \in Obj /\ child # NoObj
    BY <1>0, <2>1 DEF GivenInv
  <2>3. Places' = Places
    BY <2>1 DEF Places
  <2>4. GcTypeOK'
    BY <1>0, <2>1, <2>2 DEF GcTypeOK
  <2>5. OnePlace'
    BY <1>0, <2>1, <2>3 DEF OnePlace
  <2>6. GivenInv'
    BY <1>0, <2>1, <2>2, <2>3 DEF GivenInv
  <2> QED
    BY <2>4, <2>5, <2>6 DEF GcInv
<1>6. CASE ChildSchedule
  <2>1. /\ pending' = pending \cup {child} /\ child' = NoObj /\ work' = "delete" /\ work = "push"
        /\ UNCHANGED <<ready, deletable, deleted, given, arg, lock, phase, timer>>
    BY <1>6 DEF ChildSchedule
  <2>2. child \in Obj /\ child # NoObj /\ child \in given
    BY <1>0, <2>1, GcTypes DEF GivenInv
  <2>3. Places' = Places \cup {child}
    BY <2>1 DEF Places
  <2>4. GcTypeOK'
    BY <1>0, <2>1, <2>2 DEF GcTypeOK
  <2>5. OnePlace'
    BY <1>0, <2>1, <2>2, <2>3, GcTypes DEF OnePlace, Places
  <2>6. GivenInv'
    BY <1>0, <2>1, <2>2, <2>3 DEF GivenInv
  <2> QED
    BY <2>4, <2>5, <2>6 DEF GcInv
<1>7. CASE Deleted \/ Check \/ Finalize \/ FinalizeEnds \/ UNCHANGED gcvars
  <2>1. /\ UNCHANGED <<pending, ready, deletable, deleted, given, arg, child>>
        /\ work' = work \/ (work \in {"delete", "check"} /\ work' \in {"idle", "check"} /\ deletable = {})
    BY <1>0, <1>7 DEF Deleted, Check, Finalize, FinalizeEnds, gcvars, GivenInv
  <2>2. GcTypeOK'
    BY <1>0, <1>7 DEF Deleted, Check, Finalize, FinalizeEnds, gcvars, GcTypeOK
  <2>3. Places' = Places
    BY <2>1 DEF Places
  <2>4. OnePlace'
    BY <1>0, <2>1, <2>3 DEF OnePlace
  <2>5. GivenInv'
    BY <1>0, <2>1, <2>3 DEF GivenInv
  <2> QED
    BY <2>2, <2>4, <2>5 DEF GcInv
<1> QED
  BY <1>1, <1>2, <1>3, <1>4, <1>5, <1>6, <1>7 DEF GcNext, Main

\* Whatever the threads, the destructors and the timer interleave, an object is in
\* one place at a time, so it is deleted at most once, for any number of objects
\* and threads.
THEOREM CollectorCorrect == GcSpec => []DeletedOnce
<1>1. GcInit => GcInv
  BY CollectorAssumption DEF GcInit, GcInv, GcTypeOK, OnePlace, GivenInv, Places
<1>2. GcInv => DeletedOnce
  <2> SUFFICES ASSUME GcInv PROVE DeletedOnce
    OBVIOUS
  <2>1. OnePlace
    BY DEF GcInv
  <2> QED
    BY <2>1 DEF OnePlace, Places, DeletedOnce
<1> QED
  BY <1>1, <1>2, GcStep, PTL DEF GcSpec

-----------------------------------------------------------------------------
(* The lists of the task runner.                                           *)

\* What Rotate does to a list: the same entries in other places.
LEMMA RotateKeeps ==
    ASSUME NEW S, NEW s \in Seq(S)
    PROVE  /\ Rotate(s) \in Seq(S)
           /\ \A i \in 1..Len(Rotate(s)) : \E j \in 1..Len(s) : Rotate(s)[i] = s[j]
           /\ \A j \in 1..Len(s) : \E i \in 1..Len(Rotate(s)) : Rotate(s)[i] = s[j]
           /\ IsInjective(s) => IsInjective(Rotate(s))
<1>1. CASE s = <<>>
  BY <1>1 DEF Rotate
<1>2. CASE s # <<>>
  <2>1. /\ Head(s) \in S /\ Tail(s) \in Seq(S) /\ Len(Tail(s)) = Len(s) - 1 /\ Len(s) \in Nat \ {0}
        /\ \A i \in 1..(Len(s) - 1) : Tail(s)[i] = s[i + 1]
        /\ Head(s) = s[1]
    BY <1>2, HeadTailProperties, EmptySeq, LenProperties
  <2> DEFINE r == Append(Tail(s), Head(s))
  <2>2. /\ Rotate(s) = r /\ r \in Seq(S) /\ Len(r) = Len(s)
        /\ \A i \in 1..(Len(s) - 1) : r[i] = s[i + 1]
        /\ r[Len(s)] = s[1]
    BY <1>2, <2>1, AppendProperties DEF Rotate
  <2> HIDE DEF r
  <2>3. \A i \in 1..Len(r) : \E j \in 1..Len(s) : r[i] = s[j]
    BY <2>1, <2>2
  <2>4. \A j \in 1..Len(s) : \E i \in 1..Len(r) : r[i] = s[j]
    <3> SUFFICES ASSUME NEW j \in 1..Len(s) PROVE \E i \in 1..Len(r) : r[i] = s[j]
      OBVIOUS
    <3>1. CASE j = 1
      BY <3>1, <2>1, <2>2
    <3>2. CASE j # 1
      <4>1. j - 1 \in 1..(Len(s) - 1) /\ (j - 1) + 1 = j
        BY <3>2, <2>1
      <4>2. r[j - 1] = s[j]
        BY <4>1, <2>2
      <4>3. QED BY <4>1, <4>2, <2>1, <2>2
    <3>3. QED BY <3>1, <3>2
  <2>5. ASSUME IsInjective(s), NEW a \in 1..Len(s), NEW b \in 1..Len(s), r[a] = r[b]
        PROVE  a = b
    <3>1. \A i, j \in 1..Len(s) : s[i] = s[j] => i = j
      BY <2>5, LenProperties DEF IsInjective
    <3>2. CASE a = Len(s)
      BY <3>1, <3>2, <2>5, <2>1, <2>2
    <3>3. CASE b = Len(s)
      BY <3>1, <3>3, <2>5, <2>1, <2>2
    <3>4. CASE a # Len(s) /\ b # Len(s)
      <4>1. /\ a \in 1..(Len(s) - 1) /\ b \in 1..(Len(s) - 1)
            /\ a + 1 \in 1..Len(s) /\ b + 1 \in 1..Len(s)
        <5>1. \A n \in Nat : \A x \in 1..n : x # n => x \in 1..(n - 1) /\ x + 1 \in 1..n
          OBVIOUS
        <5>2. Len(s) \in Nat
          BY <2>1
        <5>3. QED BY <3>4, <5>1, <5>2
      <4>2. s[a + 1] = s[b + 1]
        BY <4>1, <2>5, <2>2
      <4>3. a + 1 = b + 1
        BY <4>1, <4>2, <3>1
      <4>4. QED BY <4>1, <4>3
    <3>5. QED BY <3>2, <3>3, <3>4
  <2>6. DOMAIN r = 1..Len(s)
    BY <2>2, LenProperties
  <2>7. IsInjective(s) => IsInjective(r)
    BY <2>5, <2>6 DEF IsInjective
  <2>8. QED BY <2>2, <2>3, <2>4, <2>7
<1>3. QED BY <1>1, <1>2

\* What RemoveAt does to a list without duplicates: the entry goes, the others stay.
LEMMA RemoveAtKeeps ==
    ASSUME NEW S, NEW s \in Seq(S), NEW i \in 1..Len(s), IsInjective(s)
    PROVE  /\ RemoveAt(s, i) \in Seq(S)
           /\ IsInjective(RemoveAt(s, i))
           /\ \A k \in 1..Len(RemoveAt(s, i)) :
                 RemoveAt(s, i)[k] # s[i] /\ \E j \in 1..Len(s) : RemoveAt(s, i)[k] = s[j]
<1> DEFINE p == SubSeq(s, 1, i - 1)
           q == SubSeq(s, i + 1, Len(s))
           r == p \o q
<1>1. Len(s) \in Nat /\ i \in Nat /\ i >= 1 /\ i <= Len(s)
  BY LenProperties
<1>2. /\ p \in Seq(S) /\ Len(p) = i - 1
      /\ \A k \in 1..(i - 1) : p[k] = s[k]
  <2>1. \A k \in 1..(i - 1) : k \in 1..Len(s)
    BY <1>1
  <2>2. \A k \in 1..Len(s) : s[k] \in S
    BY ElementOfSeq
  <2>3. QED BY <1>1, <2>1, <2>2, SubSeqProperties
<1>3. /\ q \in Seq(S) /\ Len(q) = Len(s) - i
      /\ \A k \in 1..(Len(s) - i) : q[k] = s[k + i]
  BY <1>1, SubSeqProperties
<1> HIDE DEF p, q
<1>4. /\ r \in Seq(S) /\ Len(r) = Len(s) - 1
      /\ \A k \in 1..(i - 1) : r[k] = s[k]
      /\ \A k \in i..(Len(s) - 1) : r[k] = s[k + 1]
  <2>1. r \in Seq(S) /\ Len(r) = Len(p) + Len(q)
        /\ \A k \in 1..(Len(p) + Len(q)) : r[k] = IF k <= Len(p) THEN p[k] ELSE q[k - Len(p)]
    BY <1>2, <1>3, ConcatProperties
  <2>2. Len(r) = Len(s) - 1
    BY <2>1, <1>1, <1>2, <1>3
  <2>3. ASSUME NEW k \in 1..(i - 1) PROVE r[k] = s[k]
    BY <2>1, <2>3, <1>1, <1>2, <1>3
  <2>4. ASSUME NEW k \in i..(Len(s) - 1) PROVE r[k] = s[k + 1]
    <3>1. k \in 1..(Len(p) + Len(q)) /\ ~(k <= Len(p)) /\ k - Len(p) = k - i + 1
      BY <1>1, <1>2, <1>3
    <3>2. k - i + 1 \in 1..(Len(s) - i) /\ (k - i + 1) + i = k + 1
      BY <1>1
    <3>3. r[k] = q[k - i + 1]
      BY <2>1, <3>1
    <3>4. QED BY <1>3, <3>2, <3>3
  <2>5. QED BY <2>1, <2>2, <2>3, <2>4
<1> HIDE DEF r
<1> DEFINE at(k) == IF k < i THEN k ELSE k + 1
<1>5. \A k \in 1..Len(r) : at(k) \in 1..Len(s) /\ at(k) # i /\ r[k] = s[at(k)]
  <2> SUFFICES ASSUME NEW k \in 1..Len(r)
               PROVE  at(k) \in 1..Len(s) /\ at(k) # i /\ r[k] = s[at(k)]
    OBVIOUS
  <2>1. k \in Nat /\ 1 <= k /\ k <= Len(s) - 1
    BY <1>1, <1>4
  <2>2. CASE k < i
    <3>1. k \in 1..(i - 1) /\ at(k) = k /\ k \in 1..Len(s) /\ k # i
      BY <1>1, <2>1, <2>2
    <3>2. QED BY <1>4, <3>1
  <2>3. CASE ~(k < i)
    <3>1. k \in i..(Len(s) - 1) /\ at(k) = k + 1 /\ k + 1 \in 1..Len(s) /\ k + 1 # i
      BY <1>1, <2>1, <2>3
    <3>2. QED BY <1>4, <3>1
  <2>4. QED BY <2>2, <2>3
<1>6. ASSUME NEW k \in 1..Len(r), NEW l \in 1..Len(r), at(k) = at(l) PROVE k = l
  <2>1. k \in Int /\ l \in Int /\ i \in Int
    BY <1>1
  <2>2. (k < i /\ l < i) \/ (k < i /\ ~(l < i)) \/ (~(k < i) /\ l < i) \/ (~(k < i) /\ ~(l < i))
    OBVIOUS
  <2>3. QED BY <1>6, <2>1, <2>2
<1>7. \A k, l \in 1..Len(s) : s[k] = s[l] => k = l
  BY LenProperties DEF IsInjective
<1>8. DOMAIN r = 1..Len(r)
  BY <1>4, LenProperties
<1> HIDE DEF at
<1>9. IsInjective(r)
  <2>1. SUFFICES ASSUME NEW k \in 1..Len(r), NEW l \in 1..Len(r), r[k] = r[l] PROVE k = l
    BY <1>8 DEF IsInjective
  <2>2. s[at(k)] = s[at(l)]
    BY <1>5, <2>1
  <2>3. at(k) = at(l)
    BY <1>5, <1>7, <2>2
  <2>4. QED BY <1>6, <2>3
<1>10. RemoveAt(s, i) = r
  BY DEF RemoveAt, r, p, q
<1>11. \A k \in 1..Len(r) : r[k] # s[i] /\ \E j \in 1..Len(s) : r[k] = s[j]
  BY <1>5, <1>7
<1>12. QED BY <1>4, <1>9, <1>10, <1>11

-----------------------------------------------------------------------------
(* The task runner.                                                        *)

TaskRecord == [life : {"new", "alive", "deleted"}, cancelled : BOOLEAN, destroyed : BOOLEAN, repeating : BOOLEAN]

ThreadAt == {"next", "picked", "running", "advance", "check", "look", "before"}

TasksTypeOK ==
    /\ tasks \in Seq(TaskId)
    /\ task \in [TaskId -> TaskRecord]
    /\ thread \in [at : ThreadAt, t : TaskId \cup {None}]
    /\ thread.at \in {"next", "look"} <=> thread.t = None
    /\ app \in [t : TaskId \cup {None}, listed : BOOLEAN]
    /\ runner \in {"up", "down"}

\* No entry of the list dangles, and none is there twice.
ListAlive ==
    /\ \A i \in 1..Len(tasks) : task[tasks[i]].life = "alive"
    /\ IsInjective(tasks)

\* The task the thread holds is in the list: only the thread takes tasks out of
\* it, until the runner is destroyed.  A task that destroy() did not find is not there.
HeldIsListed ==
    /\ runner = "up" /\ thread.t # None => exists(thread.t)
    /\ runner = "down" => tasks = <<>> /\ app.t = None
    /\ app.t # None /\ ~app.listed => ~exists(app.t)

TasksInv == TasksTypeOK /\ ListAlive /\ HeldIsListed

LEMMA NoneIsNoTask == None \notin TaskId
BY DEF None, TaskId

LEMMA TasksInvSound == TasksInv => TasksOutliveTheirRun
<1> SUFFICES ASSUME TasksInv PROVE TasksOutliveTheirRun
  OBVIOUS
<1>1. ASSUME runner = "up", thread.t # None PROVE task[thread.t].life = "alive"
  <2>1. PICK i \in 1..Len(tasks) : tasks[i] = thread.t
    BY <1>1 DEF TasksInv, HeldIsListed, exists, Contains
  <2>2. QED BY <2>1 DEF TasksInv, ListAlive
<1>2. QED BY <1>1 DEF TasksOutliveTheirRun, TasksInv, ListAlive

LEMMA TasksInvInit == TaskInit => TasksInv
<1> SUFFICES ASSUME TaskInit PROVE TasksInv
  OBVIOUS
<1>1. tasks = <<>> /\ Len(tasks) = 0 /\ tasks \in Seq(TaskId) /\ DOMAIN tasks = {}
  BY EmptySeq, LenProperties DEF TaskInit
<1>2. task \in [TaskId -> TaskRecord]
  <2>1. {NewTask(r) : r \in BOOLEAN} \subseteq TaskRecord
    <3>1. \A r \in BOOLEAN : NewTask(r) \in TaskRecord
      BY DEF NewTask, TaskRecord
    <3>2. QED BY <3>1
  <2>2. QED BY <2>1 DEF TaskInit
<1>3. TasksTypeOK
  BY <1>1, <1>2 DEF TaskInit, NoCall, TasksTypeOK, ThreadAt
<1>4. ListAlive
  BY <1>1 DEF ListAlive, IsInjective
<1>5. HeldIsListed
  BY DEF TaskInit, NoCall, HeldIsListed
<1>6. QED BY <1>3, <1>4, <1>5 DEF TasksInv

\* A step that leaves the list alone and deletes no task of the list.
LEMMA ListKept ==
    ASSUME ListAlive, UNCHANGED tasks,
           \A i \in 1..Len(tasks) : task'[tasks[i]].life = task[tasks[i]].life
    PROVE  ListAlive'
BY DEF ListAlive

\* The application's calls.
LEMMA AppKeeps ==
    ASSUME TasksInv, App PROVE TasksInv'
<1> USE DEF TasksInv
<1>1. ASSUME NEW t \in TaskId, start(t) PROVE TasksInv'
  <2> DEFINE l == Append(tasks, t)
  <2>1. /\ l \in Seq(TaskId) /\ Len(l) = Len(tasks) + 1 /\ Len(tasks) \in Nat
        /\ \A i \in 1..Len(tasks) : l[i] = tasks[i]
        /\ l[Len(tasks) + 1] = t
    BY AppendProperties, LenProperties DEF TasksTypeOK
  <2>2. tasks' = l
    BY <1>1 DEF start
  <2> HIDE DEF l
  <2>3. /\ task' \in [TaskId -> TaskRecord] /\ task'[t].life = "alive"
        /\ \A u \in TaskId : u # t => task'[u] = task[u]
    BY <1>1 DEF start, TasksTypeOK, TaskRecord
  <2>4. TasksTypeOK'
    BY <1>1, <2>1, <2>2, <2>3 DEF start, TasksTypeOK
  <2>5. \A i \in 1..Len(tasks) : tasks[i] \in TaskId /\ tasks[i] # t
    BY <1>1, ElementOfSeq DEF start, TasksTypeOK, ListAlive
  <2>6. \A i \in 1..Len(l) : i \in 1..Len(tasks) \/ i = Len(tasks) + 1
    BY <2>1
  <2>7. IsInjective(l)
    <3>1. DOMAIN l = 1..Len(l) /\ DOMAIN tasks = 1..Len(tasks)
      BY <2>1, LenProperties DEF TasksTypeOK
    <3>2. SUFFICES ASSUME NEW a \in 1..Len(l), NEW b \in 1..Len(l), l[a] = l[b] PROVE a = b
      BY <3>1 DEF IsInjective
    <3>3. QED BY <3>1, <3>2, <2>1, <2>5, <2>6 DEF ListAlive, IsInjective
  <2>8. \A i \in 1..Len(l) : task'[l[i]].life = "alive"
    BY <2>1, <2>3, <2>5, <2>6 DEF ListAlive
  <2>9. ListAlive'
    BY <2>2, <2>7, <2>8 DEF ListAlive
  <2>10. \A u : exists(u) => exists(u)'
    BY <2>1, <2>2 DEF exists, Contains
  <2>11. HeldIsListed'
    BY <1>1, <2>10 DEF start, HeldIsListed
  <2>12. QED BY <2>4, <2>9, <2>11
<1>2. ASSUME NEW t \in TaskId, cancel(t) \/ destroy(t) PROVE TasksInv'
  <2>1. /\ UNCHANGED <<tasks, thread, runner>> /\ app' \in [t : TaskId \cup {None}, listed : BOOLEAN]
        /\ app' = app \/ (runner = "up" /\ app'.t = t /\ app'.listed = exists(t))
    <3>1. CASE cancel(t)
      BY <3>1 DEF cancel, TasksTypeOK
    <3>2. CASE destroy(t)
      <4>1. exists(t) \in BOOLEAN
        BY DEF exists, Contains
      <4>2. app' = [t |-> t, listed |-> exists(t)] /\ runner = "up" /\ UNCHANGED <<tasks, thread, runner>>
        BY <3>2 DEF destroy
      <4>3. QED BY <4>1, <4>2
    <3>3. QED BY <1>2, <3>1, <3>2
  <2>2. /\ task' \in [TaskId -> TaskRecord]
        /\ \A u \in TaskId : task'[u].life = task[u].life
    <3>1. CASE cancel(t)
      BY <3>1 DEF cancel, TasksTypeOK, TaskRecord
    <3>2. CASE destroy(t)
      BY <3>2 DEF destroy, TasksTypeOK
    <3>3. QED BY <1>2, <3>1, <3>2
  <2>3. \A i \in 1..Len(tasks) : tasks[i] \in TaskId
    BY ElementOfSeq DEF TasksTypeOK
  <2>4. TasksTypeOK'
    BY <2>1, <2>2 DEF TasksTypeOK
  <2>5. ListAlive'
    BY <2>1, <2>2, <2>3, ListKept
  <2>6. HeldIsListed'
    BY <2>1 DEF HeldIsListed, exists
  <2>7. QED BY <2>4, <2>5, <2>6
<1>3. ASSUME NEW t \in TaskId, destroyAct(t) PROVE TasksInv'
  <2>1. /\ UNCHANGED <<tasks, thread, runner>> /\ app' \in [t : TaskId \cup {None}, listed : BOOLEAN]
        /\ app'.t = None /\ app.t = t
        /\ ~app.listed => ~exists(t)
    BY <1>3, NoneIsNoTask DEF destroyAct, NoCall, HeldIsListed
  <2>2. /\ task' \in [TaskId -> TaskRecord]
        /\ \A u \in TaskId : task'[u].life = task[u].life \/ (u = t /\ ~exists(t))
    <3> DEFINE w == [task[t] EXCEPT !.destroyed = TRUE]
               x == [task[t] EXCEPT !.life = "deleted"]
    <3>1. w \in TaskRecord /\ w.life = task[t].life /\ x \in TaskRecord
      BY ZenonT(60) DEF TasksTypeOK, TaskRecord
    <3>2. task' = [task EXCEPT ![t] = IF app.listed THEN w ELSE x]
      BY <1>3 DEF destroyAct
    <3> HIDE DEF w, x
    <3>3. QED BY <2>1, <3>1, <3>2 DEF TasksTypeOK
  <2>3. \A i \in 1..Len(tasks) : tasks[i] \in TaskId /\ exists(tasks[i])
    BY ElementOfSeq DEF TasksTypeOK, exists, Contains
  <2>4. TasksTypeOK'
    BY <2>1, <2>2 DEF TasksTypeOK
  <2>5. ListAlive'
    BY <2>1, <2>2, <2>3, ListKept
  <2>6. HeldIsListed'
    BY <2>1 DEF HeldIsListed, exists
  <2>7. QED BY <2>4, <2>5, <2>6
<1>4. QED BY <1>1, <1>2, <1>3 DEF App

\* ~TaskRunner.
LEMMA RunnerDeleteKeeps ==
    ASSUME TasksInv, Delete PROVE TasksInv'
<1> USE DEF TasksInv
<1>1. tasks' = <<>> /\ runner' = "down" /\ app.t = None /\ UNCHANGED <<thread, app>>
  BY DEF Delete
<1>2. task' \in [TaskId -> TaskRecord]
  <2> DEFINE w(t) == [task[t] EXCEPT !.life = "deleted"]
  <2>1. \A t \in TaskId : w(t) \in TaskRecord
    BY ZenonT(60) DEF TasksTypeOK, TaskRecord
  <2>2. task' = [t \in TaskId |-> IF exists(t) THEN w(t) ELSE task[t]]
    BY DEF Delete
  <2> HIDE DEF w
  <2>3. QED BY <2>1, <2>2 DEF TasksTypeOK
<1>3. tasks' \in Seq(TaskId) /\ Len(tasks') = 0 /\ DOMAIN tasks' = {}
  BY <1>1, EmptySeq, LenProperties
<1>4. TasksTypeOK'
  BY <1>1, <1>2, <1>3 DEF TasksTypeOK
<1>5. ListAlive'
  BY <1>3 DEF ListAlive, IsInjective
<1>6. HeldIsListed'
  BY <1>1 DEF HeldIsListed
<1>7. QED BY <1>4, <1>5, <1>6

\* The end of run(), in the runner and in the scheduler: the task that the thread
\* held leaves the list when it is deleted.
LEMMA RemovalKeeps ==
    ASSUME TasksInv, thread.at = "check", UNCHANGED <<app, runner>>,
           thread' = [at |-> "next", t |-> None],
           IF task[thread.t].destroyed
           THEN remove(thread.t) /\ task' = [task EXCEPT ![thread.t].life = "deleted"]
           ELSE UNCHANGED <<tasks, task>>
    PROVE  TasksInv'
<1> USE DEF TasksInv
<1> DEFINE h == thread.t
<1>0. h \in TaskId
  BY DEF TasksTypeOK
<1>1. thread' \in [at : ThreadAt, t : TaskId \cup {None}] /\ thread'.t = None /\ thread'.at = "next"
  BY DEF ThreadAt
<1>2. CASE ~task[h].destroyed
  <2>1. UNCHANGED <<tasks, task>>
    BY <1>2
  <2>2. TasksTypeOK'
    BY <1>1, <2>1 DEF TasksTypeOK
  <2>3. ListAlive' /\ HeldIsListed'
    BY <1>1, <2>1 DEF ListAlive, HeldIsListed, exists
  <2>4. QED BY <2>2, <2>3
<1>3. CASE task[h].destroyed
  <2>1. remove(h) /\ task' = [task EXCEPT ![h].life = "deleted"]
    BY <1>3
  <2> HIDE DEF h
  <2>2. /\ task' \in [TaskId -> TaskRecord]
        /\ \A u \in TaskId : u # h => task'[u] = task[u]
    BY <1>0, <2>1 DEF TasksTypeOK, TaskRecord
  <2>3. /\ tasks' \in Seq(TaskId) /\ IsInjective(tasks')
        /\ \A k \in 1..Len(tasks') : tasks'[k] # h /\ \E j \in 1..Len(tasks) : tasks'[k] = tasks[j]
        /\ tasks = <<>> => tasks' = <<>>
    <3>1. CASE ~exists(h) /\ UNCHANGED tasks
      BY <3>1 DEF TasksTypeOK, ListAlive, exists, Contains
    <3>2. CASE \E i \in 1..Len(tasks) : tasks[i] = h /\ tasks' = RemoveAt(tasks, i)
      <4>1. PICK i \in 1..Len(tasks) : tasks[i] = h /\ tasks' = RemoveAt(tasks, i)
        BY <3>2
      <4>2. tasks # <<>>
        BY <4>1, EmptySeq
      <4>3. /\ tasks' \in Seq(TaskId) /\ IsInjective(tasks')
            /\ \A k \in 1..Len(tasks') : tasks'[k] # h /\ \E j \in 1..Len(tasks) : tasks'[k] = tasks[j]
        <5>1. tasks \in Seq(TaskId) /\ IsInjective(tasks)
          BY DEF TasksTypeOK, ListAlive
        <5>2. RemoveAt(tasks, i) \in Seq(TaskId) /\ IsInjective(RemoveAt(tasks, i))
          BY <5>1, RemoveAtKeeps
        <5>3. \A k \in 1..Len(RemoveAt(tasks, i)) : RemoveAt(tasks, i)[k] # tasks[i]
          BY <5>1, RemoveAtKeeps
        <5>4. \A k \in 1..Len(RemoveAt(tasks, i)) : \E j \in 1..Len(tasks) : RemoveAt(tasks, i)[k] = tasks[j]
          BY <5>1, RemoveAtKeeps
        <5>5. QED BY <4>1, <5>2, <5>3, <5>4
      <4>4. QED BY <4>2, <4>3
    <3>3. QED BY <2>1, <3>1, <3>2 DEF remove
  <2>4. TasksTypeOK'
    BY <1>1, <2>2, <2>3 DEF TasksTypeOK
  <2>5. \A j \in 1..Len(tasks) : tasks[j] \in TaskId
    BY ElementOfSeq DEF TasksTypeOK
  <2>6. ListAlive'
    BY <2>2, <2>3, <2>5 DEF ListAlive
  <2>7. \A u : exists(u)' => exists(u)
    BY <2>3 DEF exists, Contains
  <2>8. HeldIsListed'
    BY <1>1, <2>3, <2>7 DEF HeldIsListed
  <2>9. QED BY <2>4, <2>6, <2>8
<1>4. QED BY <1>2, <1>3

\* A step of the thread that leaves the list and the lives of the tasks alone.
LEMMA ThreadKeeps ==
    ASSUME TasksInv, UNCHANGED <<tasks, app, runner>>,
           task' \in [TaskId -> TaskRecord], \A u \in TaskId : task'[u].life = task[u].life,
           thread' \in [at : ThreadAt, t : TaskId \cup {None}],
           thread'.at \in {"next", "look"} <=> thread'.t = None,
           thread'.t \in {None, thread.t} \/ exists(thread'.t)
    PROVE  TasksInv'
<1> USE DEF TasksInv
<1>1. TasksTypeOK'
  BY DEF TasksTypeOK
<1>2. ListAlive'
  BY ElementOfSeq, ListKept DEF TasksTypeOK
<1>3. HeldIsListed'
  BY DEF HeldIsListed, exists
<1>4. QED BY <1>1, <1>2, <1>3

LEMMA NextIsListed ==
    ASSUME NEW t \in TaskId, IsNext(t) PROVE exists(t)
BY DEF IsNext, exists, Contains

LEMMA RunnerThreadKeeps ==
    ASSUME TasksInv, RunnerThread PROVE TasksInv'
<1> USE DEF TasksInv
<1>1. ASSUME Next1 PROVE TasksInv'
  <2>1. PICK t \in TaskId : IsNext(t) /\ thread' = [at |-> "picked", t |-> t]
    BY <1>1 DEF Next1
  <2>2. UNCHANGED <<tasks, task, app, runner>>
    BY <1>1 DEF Next1
  <2>3. /\ thread' \in [at : ThreadAt, t : TaskId \cup {None}] /\ thread'.t = t /\ thread'.at = "picked"
    BY <2>1 DEF ThreadAt
  <2>4. exists(thread'.t)
    BY <2>1, <2>3, NextIsListed
  <2>5. thread'.at \in {"next", "look"} <=> thread'.t = None
    BY <2>3, NoneIsNoTask
  <2>6. task' \in [TaskId -> TaskRecord] /\ \A u \in TaskId : task'[u].life = task[u].life
    BY <2>2 DEF TasksTypeOK
  <2>7. QED BY <2>2, <2>3, <2>4, <2>5, <2>6, ThreadKeeps
<1>2. ASSUME Enter PROVE TasksInv'
  <2>1. UNCHANGED <<tasks, task, app, runner>> /\ thread.at = "picked"
    BY <1>2 DEF Enter
  <2>2. /\ thread' \in [at : ThreadAt, t : TaskId \cup {None}]
        /\ thread'.t = thread.t /\ thread'.at \in {"advance", "running"}
    BY <1>2 DEF Enter, TasksTypeOK, ThreadAt
  <2>3. thread'.at \in {"next", "look"} <=> thread'.t = None
    BY <2>1, <2>2 DEF TasksTypeOK
  <2>4. task' \in [TaskId -> TaskRecord] /\ \A u \in TaskId : task'[u].life = task[u].life
    BY <2>1 DEF TasksTypeOK
  <2>5. QED BY <2>1, <2>2, <2>3, <2>4, ThreadKeeps
<1>3. ASSUME NEW self \in {"none", "cancel", "destroy"}, Leave(self) PROVE TasksInv'
  <2>1. UNCHANGED <<tasks, app, runner>> /\ thread.at = "running"
    BY <1>3 DEF Leave
  <2>2. /\ thread' \in [at : ThreadAt, t : TaskId \cup {None}]
        /\ thread'.t = thread.t /\ thread'.at = "advance"
    BY <1>3 DEF Leave, TasksTypeOK, ThreadAt
  <2>3. thread.t \in TaskId
    BY <2>1 DEF TasksTypeOK
  <2>4. thread'.at \in {"next", "look"} <=> thread'.t = None
    BY <2>2, <2>3, NoneIsNoTask
  <2>5. task' \in [TaskId -> TaskRecord] /\ \A u \in TaskId : task'[u].life = task[u].life
    <3> DEFINE w == [task[thread.t] EXCEPT !.cancelled = @ \/ self = "cancel" \/ ~task[thread.t].repeating,
                                           !.destroyed = @ \/ self = "destroy"]
    <3>1. task' = [task EXCEPT ![thread.t] = w]
      BY <1>3 DEF Leave
    <3>2. w \in TaskRecord /\ w.life = task[thread.t].life
      BY <2>3, ZenonT(60) DEF TasksTypeOK, TaskRecord
    <3> HIDE DEF w
    <3>3. QED BY <2>3, <3>1, <3>2 DEF TasksTypeOK
  <2>6. QED BY <2>1, <2>2, <2>4, <2>5, ThreadKeeps
<1>4. ASSUME Advance PROVE TasksInv'
  <2>1. UNCHANGED <<task, app, runner>> /\ thread.at = "advance" /\ tasks' = Rotate(tasks)
    BY <1>4 DEF Advance
  <2>2. /\ thread' \in [at : ThreadAt, t : TaskId \cup {None}]
        /\ thread'.t = thread.t /\ thread'.at = "check"
    BY <1>4 DEF Advance, TasksTypeOK, ThreadAt
  <2> DEFINE r == Rotate(tasks)
  <2>a. tasks \in Seq(TaskId)
    BY DEF TasksTypeOK
  <2>b. r \in Seq(TaskId) /\ (IsInjective(tasks) => IsInjective(r))
    BY <2>a, RotateKeeps
  <2>c. \A i \in 1..Len(r) : \E j \in 1..Len(tasks) : r[i] = tasks[j]
    BY <2>a, RotateKeeps
  <2>d. \A j \in 1..Len(tasks) : \E i \in 1..Len(r) : r[i] = tasks[j]
    BY <2>a, RotateKeeps
  <2>e. tasks' = r
    BY <2>1
  <2> HIDE DEF r
  <2>3. tasks' \in Seq(TaskId) /\ (IsInjective(tasks) => IsInjective(tasks'))
    BY <2>b, <2>e
  <2>4. \A i \in 1..Len(tasks') : \E j \in 1..Len(tasks) : tasks'[i] = tasks[j]
    BY <2>c, <2>e
  <2>5. \A j \in 1..Len(tasks) : \E i \in 1..Len(tasks') : tasks'[i] = tasks[j]
    BY <2>d, <2>e
  <2>6. TasksTypeOK'
    BY <2>1, <2>2, <2>3 DEF TasksTypeOK
  <2>7. ListAlive'
    BY <2>1, <2>3, <2>4 DEF ListAlive
  <2>8. \A u : exists(u) <=> exists(u)'
    BY <2>4, <2>5 DEF exists, Contains
  <2>9. HeldIsListed'
    BY <2>1, <2>2, <2>8 DEF HeldIsListed, Rotate
  <2>10. QED BY <2>6, <2>7, <2>9
<1>5. ASSUME DestroyIfAsked PROVE TasksInv'
  BY <1>5, RemovalKeeps DEF DestroyIfAsked
<1>6. QED BY <1>1, <1>2, <1>3, <1>4, <1>5 DEF RunnerThread

\* Module TaskRunner: however calls of the application (start, cancel, destroy) fall
\* between the steps of run(), the thread never touches a deleted task, and the
\* list holds living tasks, each once.
THEOREM TasksCorrect == TaskSpec => []TasksOutliveTheirRun
<1>1. TaskInit => TasksInv
  BY TasksInvInit
<1>2. TasksInv /\ [TaskNext]_trvars => TasksInv'
  <2> SUFFICES ASSUME TasksInv, [TaskNext]_trvars PROVE TasksInv'
    OBVIOUS
  <2>1. CASE RunnerThread
    BY <2>1, RunnerThreadKeeps
  <2>2. CASE App
    BY <2>2, AppKeeps
  <2>3. CASE Delete
    BY <2>3, RunnerDeleteKeeps
  <2>4. CASE UNCHANGED trvars
    BY <2>4 DEF trvars, TasksInv, TasksTypeOK, ListAlive, HeldIsListed, exists
  <2>5. QED BY <2>1, <2>2, <2>3, <2>4 DEF TaskNext
<1>3. QED BY <1>1, <1>2, TasksInvSound, PTL DEF TaskSpec

-----------------------------------------------------------------------------
(* The scheduler.                                                          *)

Trigger == [at : Nat, every : Nat, max : Nat, timesRun : Nat]

\* A trigger that repeats is as far ahead as its task has run; one that has run out
\* belongs to a task that will be deleted, so that it is not run again.
TriggersHold ==
    \A t \in TaskId :
        /\ trig[t].every > 0 => trig[t].timesRun < trig[t].at /\ trig[t].timesRun <= now
        /\ trig[t].every = 0 => trig[t].timesRun <= 1
        /\ trig[t].max > 0 => trig[t].timesRun <= trig[t].max
        /\ triggerExpired(trig[t]) => task[t].destroyed

\* What the thread runs is due and has not run out.
RunIsDue ==
    thread.at = "running" => ~triggerExpired(trig[thread.t]) /\ trig[thread.t].at <= now

SchedInv ==
    /\ TasksInv
    /\ now \in 0..MaxTime /\ early = FALSE
    /\ trig \in [TaskId -> Trigger]
    /\ TriggersHold /\ RunIsDue

LEMMA SchedInvSound == SchedInv => ScheduledRunsSound
<1> SUFFICES ASSUME SchedInv PROVE ScheduledRunsSound
  OBVIOUS
<1>1. TasksOutliveTheirRun
  BY TasksInvSound DEF SchedInv
<1>2. ASSUME NEW t \in TaskId
      PROVE  trig[t].timesRun <= (IF trig[t].every = 0 THEN 1
                                  ELSE IF trig[t].max > 0 THEN trig[t].max ELSE MaxTime)
  <2>1. /\ trig[t].timesRun \in Nat /\ trig[t].every \in Nat /\ trig[t].max \in Nat
        /\ now \in Nat /\ now <= MaxTime
    BY ClockAssumption DEF SchedInv, Trigger
  <2>2. QED BY <2>1, ClockAssumption DEF SchedInv, TriggersHold
<1>3. QED BY <1>1, <1>2 DEF ScheduledRunsSound, SchedInv

LEMMA SchedInvInit == SInit => SchedInv
<1> SUFFICES ASSUME SInit PROVE SchedInv
  OBVIOUS
<1>1. TasksInv
  BY TasksInvInit DEF SInit
<1>2. \A t \in TaskId : trig[t] \in {NewTrigger(1, 0, 0), NewTrigger(1, 1, 2)}
  BY DEF SInit
<1>3. {NewTrigger(1, 0, 0), NewTrigger(1, 1, 2)} \subseteq Trigger
  BY DEF NewTrigger, Trigger
<1>4. trig \in [TaskId -> Trigger]
  BY <1>3 DEF SInit
<1>5. \A t \in TaskId : /\ trig[t].at = 1 /\ trig[t].timesRun = 0 /\ trig[t].every \in {0, 1}
                        /\ ~triggerExpired(trig[t])
  BY <1>2 DEF NewTrigger, triggerExpired
<1>6. now = 0 /\ early = FALSE /\ thread.at = "next"
  BY DEF SInit, TaskInit
<1>7. TriggersHold
  BY <1>4, <1>5, <1>6 DEF TriggersHold, Trigger
<1>8. RunIsDue
  BY <1>6 DEF RunIsDue
<1>9. QED BY <1>1, <1>4, <1>6, <1>7, <1>8, ClockAssumption DEF SchedInv

\* A step that leaves the clock and the triggers alone, takes no flag back and
\* does not begin a run.
LEMMA TriggersKept ==
    ASSUME SchedInv, TasksInv', UNCHANGED <<now, trig, early>>,
           \A t \in TaskId : task[t].destroyed => task'[t].destroyed,
           thread'.at = "running" => thread' = thread
    PROVE  SchedInv'
<1>1. TriggersHold'
  BY DEF SchedInv, TriggersHold
<1>2. RunIsDue'
  BY DEF SchedInv, RunIsDue
<1>3. QED BY <1>1, <1>2 DEF SchedInv

LEMMA SchedUpdateKeeps ==
    ASSUME SchedInv, Update PROVE SchedInv'
<1> DEFINE kept == {i \in 1..Len(tasks) : ~task[tasks[i]].destroyed}
           n == Cardinality(kept)
<1>1. PICK f \in Sorted(kept) : tasks' = [i \in 1..n |-> tasks[f[i]]]
  BY DEF Update
<1>2. n \in Nat
  <2>1. kept \subseteq 1..Len(tasks) /\ Len(tasks) \in Nat
    BY LenProperties DEF SchedInv, TasksInv, TasksTypeOK
  <2>2. IsFiniteSet(kept)
    <3>1. IsFiniteSet(1..Len(tasks))
      BY <2>1, FS_Interval
    <3>2. QED BY <2>1, <3>1, FS_Subset
  <2>3. QED BY <2>2, FS_CardinalityType
<1>3. f \in [1..n -> kept] /\ \A i, j \in 1..n : f[i] = f[j] => i = j
  BY <1>1 DEF Sorted, Bijection, Injection, IsInjective
<1>4. \A i \in 1..n : f[i] \in 1..Len(tasks) /\ ~task[tasks[f[i]]].destroyed
  BY <1>3
<1> HIDE DEF kept, n
<1>5. \A i \in 1..Len(tasks) : tasks[i] \in TaskId
  BY ElementOfSeq DEF SchedInv, TasksInv, TasksTypeOK
<1>6. tasks' \in Seq(TaskId) /\ Len(tasks') = n /\ DOMAIN tasks' = 1..n
  <2>1. tasks' \in [1..n -> TaskId]
    BY <1>1, <1>4, <1>5
  <2>2. tasks' \in Seq(TaskId)
    BY <1>2, <2>1
  <2>3. QED BY <1>2, <2>1, <2>2, LenProperties
<1>7. \A i \in 1..n : tasks'[i] = tasks[f[i]]
  BY <1>1
<1>8. IsInjective(tasks')
  <2>1. \A i, j \in 1..Len(tasks) : tasks[i] = tasks[j] => i = j
    BY LenProperties DEF IsInjective, SchedInv, TasksInv, TasksTypeOK, ListAlive
  <2>2. SUFFICES ASSUME NEW i \in 1..n, NEW j \in 1..n, tasks'[i] = tasks'[j] PROVE i = j
    BY <1>6 DEF IsInjective
  <2>3. f[i] = f[j]
    BY <1>4, <1>7, <2>1, <2>2
  <2>4. QED BY <1>3, <2>3
<1>9. /\ task' \in [TaskId -> TaskRecord]
      /\ \A t \in TaskId : /\ ~task[t].destroyed => task'[t] = task[t]
                           /\ task'[t].destroyed = task[t].destroyed
  <2> DEFINE w(t) == [task[t] EXCEPT !.life = "deleted"]
  <2>1. \A t \in TaskId : w(t) \in TaskRecord /\ w(t).destroyed = task[t].destroyed
    BY ZenonT(60) DEF SchedInv, TasksInv, TasksTypeOK, TaskRecord
  <2>2. task' = [t \in TaskId |-> IF exists(t) /\ task[t].destroyed THEN w(t) ELSE task[t]]
    BY DEF Update
  <2> HIDE DEF w
  <2>3. QED BY <2>1, <2>2 DEF SchedInv, TasksInv, TasksTypeOK
<1>10. \A i \in 1..Len(tasks') : task'[tasks'[i]].life = "alive"
  BY <1>4, <1>5, <1>6, <1>7, <1>9 DEF SchedInv, TasksInv, ListAlive
<1>11. /\ UNCHANGED <<app, runner, now, trig, early>> /\ runner = "up"
       /\ thread' = [thread EXCEPT !.at = "look"] /\ thread.at = "next"
  BY DEF Update
<1>12. /\ thread' \in [at : ThreadAt, t : TaskId \cup {None}]
       /\ thread'.t = None /\ thread'.at = "look"
  BY <1>11 DEF SchedInv, TasksInv, TasksTypeOK, ThreadAt
<1>13. TasksTypeOK'
  BY <1>6, <1>9, <1>11, <1>12 DEF SchedInv, TasksInv, TasksTypeOK
<1>14. HeldIsListed'
  <2>1. \A u : exists(u)' => exists(u)
    BY <1>4, <1>6, <1>7 DEF exists, Contains
  <2>2. QED BY <1>11, <1>12, <2>1 DEF HeldIsListed, SchedInv, TasksInv
<1>15. TasksInv'
  BY <1>8, <1>10, <1>13, <1>14 DEF TasksInv, ListAlive
<1>16. QED BY <1>9, <1>11, <1>12, <1>15, TriggersKept

LEMMA LookKeeps ==
    ASSUME SchedInv, Look PROVE SchedInv'
<1>1. /\ UNCHANGED <<tasks, task, app, runner, now, trig, early>>
      /\ \/ \E t \in TaskId : IsNext(t) /\ thread' = [at |-> "before", t |-> t]
         \/ thread' = [at |-> "next", t |-> None]
  BY DEF Look
<1>2. /\ thread' \in [at : ThreadAt, t : TaskId \cup {None}]
      /\ thread'.at \in {"next", "look"} <=> thread'.t = None
      /\ thread'.t = None \/ exists(thread'.t)
      /\ thread'.at # "running"
  <2>1. CASE thread' = [at |-> "next", t |-> None]
    BY <2>1 DEF ThreadAt
  <2>2. CASE \E t \in TaskId : IsNext(t) /\ thread' = [at |-> "before", t |-> t]
    <3>1. PICK t \in TaskId : IsNext(t) /\ thread' = [at |-> "before", t |-> t]
      BY <2>2
    <3>2. thread' \in [at : ThreadAt, t : TaskId \cup {None}] /\ thread'.t = t /\ thread'.at = "before"
      BY <3>1 DEF ThreadAt
    <3>3. exists(t) /\ t # None
      BY <3>1, NextIsListed, NoneIsNoTask
    <3>4. QED BY <3>2, <3>3
  <2>3. QED BY <1>1, <2>1, <2>2
<1>3. task' \in [TaskId -> TaskRecord] /\ \A u \in TaskId : task'[u].life = task[u].life
  BY <1>1 DEF SchedInv, TasksInv, TasksTypeOK
<1>4. TasksInv'
  BY <1>1, <1>2, <1>3, ThreadKeeps DEF SchedInv
<1>5. QED BY <1>1, <1>2, <1>4, TriggersKept

LEMMA BeforeRunKeeps ==
    ASSUME SchedInv, BeforeRun PROVE SchedInv'
<1> DEFINE h == thread.t
<1>1. h \in TaskId /\ thread.at = "before"
  BY DEF BeforeRun, SchedInv, TasksInv, TasksTypeOK
<1>2. UNCHANGED <<tasks, task, app, runner, now, trig>>
  BY DEF BeforeRun
<1>3. /\ thread' \in [at : ThreadAt, t : TaskId \cup {None}] /\ thread'.t = h
      /\ \/ thread'.at = "running" /\ timeout(h) /\ ~task[h].destroyed /\ early' = (early \/ now < trig[h].at)
         \/ thread'.at = "check" /\ early' = early
  BY DEF BeforeRun, SchedInv, TasksInv, TasksTypeOK, ThreadAt
<1>4. trig[h].at \in Nat /\ now \in Nat
  BY <1>1, ClockAssumption DEF SchedInv, Trigger
<1> HIDE DEF h
<1>5. early' = FALSE
  <2>1. early = FALSE
    BY DEF SchedInv
  <2>2. timeout(h) => ~(now < trig[h].at)
    BY <1>4 DEF timeout
  <2>3. QED BY <1>3, <2>1, <2>2
<1>6. task' \in [TaskId -> TaskRecord] /\ \A u \in TaskId : task'[u].life = task[u].life
  BY <1>2 DEF SchedInv, TasksInv, TasksTypeOK
<1>7. TasksInv'
  <2>1. thread'.at \in {"next", "look"} <=> thread'.t = None
    BY <1>1, <1>3, NoneIsNoTask
  <2>2. thread'.t \in {None, thread.t}
    BY <1>3 DEF h
  <2>3. QED BY <1>2, <1>3, <1>6, <2>1, <2>2, ThreadKeeps DEF SchedInv
<1>8. TriggersHold'
  BY <1>2 DEF SchedInv, TriggersHold
<1>9. RunIsDue'
  BY <1>1, <1>2, <1>3, <1>4 DEF RunIsDue, SchedInv, TriggersHold, timeout
<1>10. QED BY <1>2, <1>5, <1>7, <1>8, <1>9 DEF SchedInv

LEMMA AfterRunKeeps ==
    ASSUME SchedInv, NEW self \in {"none", "cancel", "destroy"}, AfterRun(self) PROVE SchedInv'
<1> DEFINE h == thread.t
           g == afterRun(trig[h])
           w == [task[h] EXCEPT !.cancelled = @ \/ self = "cancel",
                                !.destroyed = @ \/ self = "destroy" \/ triggerExpired(g)]
<1>1. h \in TaskId /\ thread.at = "running"
  BY DEF AfterRun, SchedInv, TasksInv, TasksTypeOK
<1>2. UNCHANGED <<tasks, app, runner, now, early>>
  BY DEF AfterRun
<1>3. trig' = [trig EXCEPT ![h] = g] /\ task' = [task EXCEPT ![h] = w]
  BY DEF AfterRun
<1>4. /\ thread' \in [at : ThreadAt, t : TaskId \cup {None}]
      /\ thread'.t = h /\ thread'.at = "check"
  BY DEF AfterRun, SchedInv, TasksInv, TasksTypeOK, ThreadAt
<1>5. /\ trig[h] \in Trigger /\ ~triggerExpired(trig[h]) /\ trig[h].at <= now /\ now \in Nat
  BY <1>1, ClockAssumption DEF SchedInv, RunIsDue
<1>6. /\ g \in Trigger /\ g.at = trig[h].at + trig[h].every
      /\ g.every = trig[h].every /\ g.max = trig[h].max /\ g.timesRun = trig[h].timesRun + 1
  <2> DEFINE u == update(trig[h])
  <2>1. /\ trig[h].at + trig[h].every \in Nat /\ trig[h].timesRun + 1 \in Nat
    BY <1>5 DEF Trigger
  <2>2. /\ u \in Trigger /\ u.at = trig[h].at + trig[h].every
        /\ u.every = trig[h].every /\ u.max = trig[h].max /\ u.timesRun = trig[h].timesRun
    BY <1>5, <2>1, ZenonT(60) DEF update, Trigger
  <2> HIDE DEF u
  <2>3. g = [u EXCEPT !.timesRun = u.timesRun + 1]
    BY DEF afterRun, u
  <2>4. u.timesRun + 1 \in Nat
    BY <2>1, <2>2
  <2> HIDE DEF g
  <2>5. /\ g \in Trigger /\ g.at = u.at /\ g.every = u.every /\ g.max = u.max
        /\ g.timesRun = u.timesRun + 1
    BY <2>2, <2>3, <2>4, ZenonT(60) DEF Trigger
  <2>6. QED BY <2>2, <2>5
<1>7. w \in TaskRecord /\ w.life = task[h].life
  BY <1>1, ZenonT(60) DEF SchedInv, TasksInv, TasksTypeOK, TaskRecord
<1>8. triggerExpired(g) => w.destroyed
  <2> DEFINE x == triggerExpired(g)
  <2>1. w.destroyed = (task[h].destroyed \/ self = "destroy" \/ x)
    BY <1>1, ZenonT(60) DEF SchedInv, TasksInv, TasksTypeOK, TaskRecord
  <2>2. QED BY <2>1
<1> HIDE DEF g, w, h
<1>9. /\ task' \in [TaskId -> TaskRecord] /\ \A u \in TaskId : task'[u].life = task[u].life
      /\ task'[h] = w /\ \A u \in TaskId : u # h => task'[u] = task[u]
  BY <1>1, <1>3, <1>7 DEF SchedInv, TasksInv, TasksTypeOK
<1>10. /\ trig' \in [TaskId -> Trigger]
       /\ trig'[h] = g /\ \A u \in TaskId : u # h => trig'[u] = trig[u]
  BY <1>1, <1>3, <1>6 DEF SchedInv
<1>11. TasksInv'
  <2>1. thread'.at \in {"next", "look"} <=> thread'.t = None
    BY <1>1, <1>4, NoneIsNoTask
  <2>2. thread'.t \in {None, thread.t}
    BY <1>4 DEF h
  <2>3. QED BY <1>2, <1>4, <1>9, <2>1, <2>2, ThreadKeeps DEF SchedInv
<1>12. TriggersHold'
  <2>1. ASSUME NEW t \in TaskId, t # h
        PROVE  /\ trig'[t].every > 0 => trig'[t].timesRun < trig'[t].at /\ trig'[t].timesRun <= now'
               /\ trig'[t].every = 0 => trig'[t].timesRun <= 1
               /\ trig'[t].max > 0 => trig'[t].timesRun <= trig'[t].max
               /\ triggerExpired(trig'[t]) => task'[t].destroyed
    BY <1>2, <1>9, <1>10, <2>1 DEF SchedInv, TriggersHold
  <2>2. /\ trig[h].at \in Nat /\ trig[h].every \in Nat /\ trig[h].max \in Nat /\ trig[h].timesRun \in Nat
    BY <1>5 DEF Trigger
  <2>3. g.every > 0 => g.timesRun < g.at /\ g.timesRun <= now
    BY <1>1, <1>5, <1>6, <2>2 DEF SchedInv, TriggersHold
  <2>4. g.every = 0 => g.timesRun <= 1
    BY <1>5, <1>6, <2>2 DEF triggerExpired
  <2>5. g.max > 0 => g.timesRun <= g.max
    BY <1>1, <1>5, <1>6, <2>2 DEF triggerExpired, SchedInv, TriggersHold
  <2>6. QED BY <1>1, <1>2, <1>8, <1>9, <1>10, <2>1, <2>3, <2>4, <2>5 DEF TriggersHold
<1>13. RunIsDue'
  BY <1>4 DEF RunIsDue
<1>14. QED BY <1>2, <1>10, <1>11, <1>12, <1>13 DEF SchedInv

LEMMA ReloadKeeps ==
    ASSUME SchedInv, Reload PROVE SchedInv'
<1>1. UNCHANGED <<trvars, now, early>> /\ thread.at = "next"
  BY DEF Reload
<1>2. now \in Nat /\ now' = now
  BY <1>1, ClockAssumption DEF SchedInv
<1>3. TasksInv'
  BY <1>1 DEF SchedInv, trvars, TasksInv, TasksTypeOK, ListAlive, HeldIsListed, exists
<1> DEFINE w(t) == [trig[t] EXCEPT !.max = 0, !.at = now + trig[t].every]
<1>4. \A t \in TaskId : /\ w(t) \in Trigger /\ w(t).max = 0 /\ w(t).at = now + trig[t].every
                        /\ w(t).every = trig[t].every /\ w(t).timesRun = trig[t].timesRun
  <2> SUFFICES ASSUME NEW t \in TaskId
               PROVE  /\ w(t) \in Trigger /\ w(t).max = 0 /\ w(t).at = now + trig[t].every
                      /\ w(t).every = trig[t].every /\ w(t).timesRun = trig[t].timesRun
    OBVIOUS
  <2>1. trig[t] \in Trigger /\ trig[t].every \in Nat
    BY DEF SchedInv, Trigger
  <2>2. now + trig[t].every \in Nat /\ 0 \in Nat
    BY <1>2, <2>1
  <2>3. QED BY <2>1, <2>2, ZenonT(60) DEF Trigger
<1>5. trig' = [t \in TaskId |-> IF exists(t) /\ trig[t].every > 0 THEN w(t) ELSE trig[t]]
  BY DEF Reload
<1> HIDE DEF w
<1>6. trig' \in [TaskId -> Trigger]
  BY <1>4, <1>5 DEF SchedInv
<1>7. \A t \in TaskId : \/ trig'[t] = trig[t]
                        \/ trig[t].every > 0 /\ trig'[t] = w(t)
  BY <1>5
<1>8. task' = task
  BY <1>1 DEF trvars
<1>9. ASSUME NEW t \in TaskId
      PROVE  /\ trig'[t].every > 0 => trig'[t].timesRun < trig'[t].at /\ trig'[t].timesRun <= now'
             /\ trig'[t].every = 0 => trig'[t].timesRun <= 1
             /\ trig'[t].max > 0 => trig'[t].timesRun <= trig'[t].max
             /\ triggerExpired(trig'[t]) => task'[t].destroyed
  <2>1. CASE trig'[t] = trig[t]
    BY <1>2, <1>8, <2>1 DEF SchedInv, TriggersHold
  <2>2. CASE trig[t].every > 0 /\ trig'[t] = w(t)
    <3>1. trig[t].every \in Nat /\ trig[t].timesRun \in Nat /\ trig[t].timesRun <= now
      BY <2>2 DEF SchedInv, Trigger, TriggersHold
    <3>2. ~triggerExpired(w(t))
      BY <1>4, <2>2, <3>1 DEF triggerExpired
    <3>3. /\ trig'[t].timesRun = trig[t].timesRun /\ trig'[t].every = trig[t].every
          /\ trig'[t].max = 0 /\ trig'[t].at = now + trig[t].every
      BY <1>4, <2>2
    <3>4. QED BY <1>2, <2>2, <3>1, <3>2, <3>3
  <2>3. QED BY <1>7, <2>1, <2>2
<1>10. TriggersHold'
  BY <1>9 DEF TriggersHold
<1>11. RunIsDue'
  BY <1>1 DEF RunIsDue, trvars
<1>12. QED BY <1>1, <1>3, <1>6, <1>10, <1>11 DEF SchedInv

LEMMA SchedTickKeeps ==
    ASSUME SchedInv, SchedTick PROVE SchedInv'
<1>1. UNCHANGED <<trvars, trig, early>> /\ now' = now + 1 /\ now < MaxTime
  BY DEF SchedTick
<1>2. now \in Nat /\ now' \in 0..MaxTime
  BY <1>1, ClockAssumption DEF SchedInv
<1>3. TasksInv'
  BY <1>1 DEF SchedInv, trvars, TasksInv, TasksTypeOK, ListAlive, HeldIsListed, exists
<1>4. \A t \in TaskId : trig[t].at \in Nat /\ trig[t].timesRun \in Nat
  BY DEF SchedInv, Trigger
<1>5. TriggersHold'
  <2>1. \A t \in TaskId : trig[t].timesRun <= now => trig[t].timesRun <= now'
    BY <1>1, <1>2, <1>4
  <2>2. task' = task
    BY <1>1 DEF trvars
  <2>3. QED BY <1>1, <2>1, <2>2 DEF SchedInv, TriggersHold
<1>6. RunIsDue'
  <2>1. thread' = thread
    BY <1>1 DEF trvars
  <2>2. ASSUME thread.at = "running" PROVE trig[thread.t].at \in Nat
    BY <1>4, <2>2 DEF SchedInv, TasksInv, TasksTypeOK
  <2>3. QED BY <1>1, <1>2, <2>1, <2>2 DEF SchedInv, RunIsDue
<1>7. QED BY <1>1, <1>2, <1>3, <1>5, <1>6 DEF SchedInv

\* A call never takes a flag back; a task that is deleted keeps its flags.
LEMMA FlagsStay ==
    ASSUME SchedInv, App \/ Delete
    PROVE  \A t \in TaskId : task[t].destroyed => task'[t].destroyed
<1> USE DEF SchedInv, TasksInv, TasksTypeOK
<1>1. CASE Delete
  <2> DEFINE w(t) == [task[t] EXCEPT !.life = "deleted"]
  <2>1. \A t \in TaskId : w(t).destroyed = task[t].destroyed
    BY ZenonT(60) DEF TaskRecord
  <2>2. task' = [t \in TaskId |-> IF exists(t) THEN w(t) ELSE task[t]]
    BY <1>1 DEF Delete
  <2> HIDE DEF w
  <2>3. QED BY <2>1, <2>2
<1>2. CASE App
  <2>1. PICK u \in TaskId : start(u) \/ cancel(u) \/ destroy(u) \/ destroyAct(u)
    BY <1>2 DEF App
  <2>2. CASE start(u)
    BY <2>2 DEF start, TaskRecord
  <2>3. CASE cancel(u)
    BY <2>3 DEF cancel, TaskRecord
  <2>4. CASE destroy(u)
    BY <2>4 DEF destroy
  <2>5. CASE destroyAct(u)
    BY <2>5 DEF destroyAct, TaskRecord
  <2>6. QED BY <2>1, <2>2, <2>3, <2>4, <2>5
<1>3. QED BY <1>1, <1>2

\* Module Scheduler: a task that is looked up, checked and run in separate steps
\* still runs at its time, no more often than its trigger allows, and is never a
\* deleted one (Scheduler::run, Trigger::expired).
THEOREM SchedulingCorrect == SSpec => []ScheduledRunsSound
<1>1. SInit => SchedInv
  BY SchedInvInit
<1>2. SchedInv /\ [SNext]_svars => SchedInv'
  <2> SUFFICES ASSUME SchedInv, [SNext]_svars PROVE SchedInv'
    OBVIOUS
  <2>1. CASE Update
    BY <2>1, SchedUpdateKeeps
  <2>2. CASE Look
    BY <2>2, LookKeeps
  <2>3. CASE BeforeRun
    BY <2>3, BeforeRunKeeps
  <2>4. CASE \E self \in {"none", "cancel", "destroy"} : AfterRun(self)
    BY <2>4, AfterRunKeeps
  <2>5. CASE SCheck
    <3>1. TasksInv'
      BY <2>5, RemovalKeeps DEF SCheck, SchedInv
    <3>2. \A t \in TaskId : task[t].destroyed => task'[t].destroyed
      <4>1. thread.t \in TaskId
        BY <2>5 DEF SCheck, SchedInv, TasksInv, TasksTypeOK
      <4>2. task' \in {task, [task EXCEPT ![thread.t].life = "deleted"]}
        BY <2>5 DEF SCheck
      <4>3. [task[thread.t] EXCEPT !.life = "deleted"].destroyed = task[thread.t].destroyed
        BY <4>1, ZenonT(60) DEF SchedInv, TasksInv, TasksTypeOK, TaskRecord
      <4>4. QED BY <4>1, <4>2, <4>3 DEF SchedInv, TasksInv, TasksTypeOK
    <3>3. UNCHANGED <<now, trig, early>> /\ thread'.at = "next"
      BY <2>5 DEF SCheck
    <3>4. QED BY <3>1, <3>2, <3>3, TriggersKept
  <2>6. CASE SchedTick
    BY <2>6, SchedTickKeeps
  <2>7. CASE Reload
    BY <2>7, ReloadKeeps
  <2>8. CASE (App \/ Delete) /\ UNCHANGED <<now, trig, early>>
    <3>1. TasksInv'
      BY <2>8, AppKeeps, RunnerDeleteKeeps DEF SchedInv
    <3>2. thread' = thread
      BY <2>8 DEF App, start, cancel, destroy, destroyAct, Delete
    <3>3. QED BY <2>8, <3>1, <3>2, FlagsStay, TriggersKept
  <2>9. CASE UNCHANGED svars
    BY <2>9 DEF svars, trvars, SchedInv, TasksInv, TasksTypeOK, ListAlive, HeldIsListed, exists,
                TriggersHold, RunIsDue
  <2>10. QED BY <2>1, <2>2, <2>3, <2>4, <2>5, <2>6, <2>7, <2>8, <2>9 DEF SNext, SThread
<1>3. QED BY <1>1, <1>2, SchedInvSound, PTL DEF SSpec
-----------------------------------------------------------------------------
(* The Symple client.                                                      *)

\* Of the announcement: none, accepted, refused.
Status == {0, 200, 401}

Session == [ state : {"Closed", "Connecting", "Connected", "Online", "Error"},
             socket : {"closed", "connecting", "open"}, sid : BOOLEAN, retry : BOOLEAN,
             reconnecting : BOOLEAN, wasOnline : BOOLEAN, ping : BOOLEAN, waiting : BOOLEAN,
             status : Status, roster : SUBSET (Buddy \cup {Me}), txns : SUBSET Nat,
             reconnection : BOOLEAN ]

\* What the server may send.
Sayable == {"open", "connect", "accept", "reject", "on", "off", "disconnect", "close", "pong"}
               \X (Buddy \cup {Me})

Connection == [ n : Nat, in : Seq(Sayable), told : Nat, asked : BOOLEAN,
                accepted : BOOLEAN, online : SUBSET (Buddy \cup {Me}), shut : BOOLEAN ]

SympleTypeOK == sio \in Session /\ link \in Connection

\* What the server sends says nothing that is not so: an acceptance follows the
\* decision, and a peer is told of after it is counted.
ToldTrue ==
    \A i \in 1..Len(link.in) :
        /\ link.in[i][1] = "accept" => link.accepted
        /\ link.in[i][1] = "on" => link.in[i][2] \in link.online

\* Until the client has read that it is connected, it has not announced itself on
\* this connection, nothing was answered and nobody was told of.
Unannounced == ~link.asked /\ ~link.accepted /\ sio.status = 0

HandshakeFirst ==
    /\ \A i \in 1..Len(link.in) : link.in[i][1] = "connect" =>
          /\ Unannounced
          /\ \A j \in 1..Len(link.in) : i # j => link.in[j][1] = "open"
    /\ sio.socket = "connecting" => Unannounced /\ link.in = <<>>
    /\ link.asked => ~link.accepted

SympleInv ==
    /\ SympleTypeOK /\ ToldTrue /\ HandshakeFirst
    /\ sio.state = "Online" => link.accepted
    /\ sio.roster \subseteq link.online \cup (IF link.accepted THEN {Me} ELSE {})

LEMMA SympleInvSound == SympleInv => SessionIsolated
BY DEF SympleInv, SessionIsolated

-----------------------------------------------------------------------------
(* The handlers of the client.                                             *)

\* What errors and closing do to a session: it does not come Online, and forgets.
Quiet(s, u) ==
    /\ u \in Session
    /\ u.state = "Online" => s.state = "Online"
    /\ u.socket \in {s.socket, "closed"}
    /\ u.status \in {s.status, 0}
    /\ u.roster \in {s.roster, {}}

LEMMA TypeOfRoster ==
    ASSUME NEW s \in Session, NEW r \in SUBSET (Buddy \cup {Me}), NEW a \in Status
    PROVE  [s EXCEPT !.roster = r, !.status = a] \in Session
BY ZenonT(60) DEF Session

LEMMA TypeOfPings ==
    ASSUME NEW s \in Session PROVE [s EXCEPT !.ping = FALSE, !.waiting = FALSE] \in Session
BY ZenonT(60) DEF Session

LEMMA TypeOfSocket ==
    ASSUME NEW s \in Session PROVE [s EXCEPT !.retry = FALSE, !.socket = "closed"] \in Session
BY ZenonT(60) DEF Session

LEMMA TypeOfSid ==
    ASSUME NEW s \in Session, NEW b \in BOOLEAN PROVE [s EXCEPT !.sid = b] \in Session
BY ZenonT(60) DEF Session

LEMMA ResetQuiet ==
    ASSUME NEW s \in Session PROVE Quiet(s, reset(s)) /\ reset(s).status = 0 /\ reset(s).roster = {}
<1> DEFINE u == reset(s)
<1>1. u \in Session
  <2> DEFINE a == [s EXCEPT !.roster = {}, !.status = 0]
             b == [a EXCEPT !.ping = FALSE, !.waiting = FALSE]
             c == [b EXCEPT !.retry = FALSE, !.socket = "closed"]
             d == [c EXCEPT !.sid = FALSE]
  <2>1. {} \in SUBSET (Buddy \cup {Me}) /\ 0 \in Status /\ FALSE \in BOOLEAN
    BY DEF Status
  <2>2. a \in Session
    BY <2>1, TypeOfRoster
  <2>3. b \in Session
    BY <2>2, TypeOfPings
  <2>4. c \in Session
    BY <2>3, TypeOfSocket
  <2>5. d \in Session
    BY <2>1, <2>4, TypeOfSid
  <2>6. u = d
    BY DEF reset
  <2>7. QED BY <2>5, <2>6
<1>2. u.state = s.state /\ u.socket = "closed" /\ u.status = 0 /\ u.roster = {}
  BY DEF reset, Session
<1>3. QED BY <1>1, <1>2 DEF Quiet

LEMMA StopQuiet ==
    ASSUME NEW s \in Session
    PROVE  /\ stopReconnectTimer(s) \in Session
           /\ stopReconnectTimer(s).state = s.state /\ stopReconnectTimer(s).socket = s.socket
           /\ stopReconnectTimer(s).status = s.status /\ stopReconnectTimer(s).roster = s.roster
<1> DEFINE u == [s EXCEPT !.retry = FALSE, !.reconnecting = FALSE]
<1>1. u \in Session
  BY ZenonT(60) DEF Session
<1>2. u.state = s.state /\ u.socket = s.socket /\ u.status = s.status /\ u.roster = s.roster
  BY DEF Session
<1>3. stopReconnectTimer(s) \in {s, u}
  BY DEF stopReconnectTimer
<1> HIDE DEF u
<1>4. QED BY <1>1, <1>2, <1>3

LEMMA CloseQuiet ==
    ASSUME NEW s \in Session PROVE Quiet(s, close(s))
<1>1. CASE ~s.sid
  BY <1>1 DEF close, Quiet
<1>2. CASE s.sid
  <2> DEFINE r == reset(s)
             t == stopReconnectTimer(r)
             u == [t EXCEPT !.state = "Closed", !.wasOnline = FALSE]
  <2>1. Quiet(s, r)
    BY ResetQuiet
  <2>2. r \in Session
    BY <2>1 DEF Quiet
  <2>3. t \in Session /\ t.socket = r.socket /\ t.status = r.status /\ t.roster = r.roster
    BY <2>2, StopQuiet
  <2> HIDE DEF t
  <2>a. t \in Session
    BY <2>3
  <2>4. u \in Session
    BY <2>a, ZenonT(60) DEF Session
  <2>5. u.state = "Closed" /\ u.socket = t.socket /\ u.status = t.status /\ u.roster = t.roster
    BY <2>3 DEF Session
  <2>6. close(s) = u
    BY <1>2 DEF close, onClose, t
  <2> HIDE DEF u, r
  <2>7. QED BY <2>1, <2>3, <2>4, <2>5, <2>6 DEF Quiet
<1>3. QED BY <1>1, <1>2

LEMMA ErrorQuiet ==
    ASSUME NEW s \in Session
    PROVE  Quiet(s, sioSetError(s)) /\ sioSetError(s).state # "Online"
<1> DEFINE e == [s EXCEPT !.state = "Error", !.wasOnline = @ \/ s.state = "Online"]
           u == startReconnectTimer(e)
<1>1. e \in Session
  <2>1. (s.wasOnline \/ s.state = "Online") \in BOOLEAN
    BY DEF Session
  <2> DEFINE w == s.wasOnline \/ s.state = "Online"
  <2>2. e = [s EXCEPT !.state = "Error", !.wasOnline = w]
    OBVIOUS
  <2>3. w \in BOOLEAN
    BY <2>1
  <2> HIDE DEF w, e
  <2>4. QED BY <2>2, <2>3, ZenonT(60) DEF Session
<1>2. e.state = "Error" /\ e.socket = s.socket /\ e.status = s.status /\ e.roster = s.roster
  BY DEF Session
<1> HIDE DEF e
<1>3. u \in Session
  BY <1>1, ZenonT(60) DEF Session, startReconnectTimer
<1>4. u.state = "Error" /\ u.socket = e.socket /\ u.status = e.status /\ u.roster = e.roster
  BY <1>1, <1>2 DEF Session, startReconnectTimer
<1>5. Quiet(e, close(e))
  BY <1>1, CloseQuiet
<1>6. sioSetError(s) \in {u, close(e)}
  BY DEF sioSetError, e
<1> HIDE DEF u
<1>7. QED BY <1>1, <1>2, <1>3, <1>4, <1>5, <1>6 DEF Quiet

LEMMA ConnectingFresh ==
    ASSUME NEW s \in Session
    PROVE  /\ Connecting(s) \in Session /\ Connecting(s).state = "Connecting"
           /\ Connecting(s).status = 0 /\ Connecting(s).roster = {}
<1> DEFINE r == reset(s)
<1>1. r \in Session /\ r.status = 0 /\ r.roster = {}
  BY ResetQuiet DEF Quiet
<1> HIDE DEF r
<1>2. Connecting(s) = [r EXCEPT !.state = "Connecting", !.socket = "connecting"]
  BY DEF Connecting, r
<1> DEFINE u == [r EXCEPT !.state = "Connecting", !.socket = "connecting"]
<1>a. r \in Session
  BY <1>1
<1>3. u \in Session
  BY <1>a, ZenonT(60) DEF Session
<1>4. u.state = "Connecting" /\ u.status = 0 /\ u.roster = {}
  BY <1>1 DEF Session
<1> HIDE DEF u
<1>5. Connecting(s) = u
  BY <1>2 DEF u
<1>6. QED BY <1>3, <1>4, <1>5

LEMMA ArrivalType ==
    ASSUME NEW s \in Session, NEW p \in Buddy \cup {Me}
    PROVE  /\ onPresenceData(s, TRUE, p) \in Session
           /\ onPresenceData(s, TRUE, p).state = s.state
           /\ onPresenceData(s, TRUE, p).socket = s.socket
           /\ onPresenceData(s, TRUE, p).status = s.status
           /\ onPresenceData(s, TRUE, p).roster = s.roster \cup {p}
<1> DEFINE r == s.roster \cup {p}
           v == [s EXCEPT !.roster = r]
<1>1. r \in SUBSET (Buddy \cup {Me})
  BY DEF Session
<1>2. onPresenceData(s, TRUE, p) = v
  BY DEF onPresenceData
<1>3. v.state = s.state /\ v.socket = s.socket /\ v.status = s.status /\ v.roster = r
  BY DEF Session
<1>4. v \in Session
  <2> HIDE DEF r
  <2>1. QED BY <1>1, ZenonT(60) DEF Session
<1> HIDE DEF v
<1>5. QED BY <1>2, <1>3, <1>4

LEMMA DepartureType ==
    ASSUME NEW s \in Session, NEW p \in Buddy \cup {Me}
    PROVE  /\ onPresenceData(s, FALSE, p) \in Session
           /\ onPresenceData(s, FALSE, p).state = s.state
           /\ onPresenceData(s, FALSE, p).socket = s.socket
           /\ onPresenceData(s, FALSE, p).status = s.status
           /\ onPresenceData(s, FALSE, p).roster = s.roster \ {p}
<1> DEFINE r == s.roster \ {p}
           v == [s EXCEPT !.roster = r]
<1>1. r \in SUBSET (Buddy \cup {Me})
  BY DEF Session
<1>2. onPresenceData(s, FALSE, p) = v
  BY DEF onPresenceData
<1>3. v.state = s.state /\ v.socket = s.socket /\ v.status = s.status /\ v.roster = r
  BY DEF Session
<1>4. v \in Session
  <2> HIDE DEF r
  <2>1. QED BY <1>1, ZenonT(60) DEF Session
<1> HIDE DEF v
<1>5. QED BY <1>2, <1>3, <1>4

-----------------------------------------------------------------------------
(* The steps of the client.                                                *)

\* A step that neither adds to what the server sent nor brings the client Online.
LEMMA QuietKeeps ==
    ASSUME SympleInv, Quiet(sio, sio'), UNCHANGED link PROVE SympleInv'
<1>1. SympleTypeOK'
  BY DEF SympleInv, SympleTypeOK, Quiet
<1>2. ToldTrue'
  BY DEF SympleInv, ToldTrue
<1>3. HandshakeFirst'
  BY DEF SympleInv, HandshakeFirst, Unannounced, Quiet
<1>4. QED BY <1>1, <1>2, <1>3 DEF SympleInv, Quiet

LEMMA FreshKeeps ==
    ASSUME SympleInv, sio' = Connecting(sio), link' = NewLink(link.n + 1) PROVE SympleInv'
<1>1. /\ sio' \in Session /\ sio'.state = "Connecting" /\ sio'.status = 0 /\ sio'.roster = {}
  BY ConnectingFresh DEF SympleInv, SympleTypeOK
<1>2. link.n + 1 \in Nat
  BY DEF SympleInv, SympleTypeOK, Connection
<1>3. /\ link' \in Connection /\ link'.in = <<>> /\ Len(link'.in) = 0
      /\ ~link'.asked /\ ~link'.accepted
  <2>1. <<>> \in Seq(Sayable) /\ Len(<<>>) = 0
    BY EmptySeq
  <2>2. 0 \in Nat
    OBVIOUS
  <2> DEFINE k == link.n + 1
  <2>3. k \in Nat /\ link' = NewLink(k)
    BY <1>2
  <2> HIDE DEF k
  <2>4. QED BY <2>1, <2>2, <2>3 DEF NewLink, Connection
<1>4. ToldTrue' /\ HandshakeFirst'
  BY <1>1, <1>3 DEF ToldTrue, HandshakeFirst, Unannounced
<1>5. QED BY <1>1, <1>3, <1>4 DEF SympleInv, SympleTypeOK

LEMMA SocketConnectKeeps ==
    ASSUME SympleInv, sioSocketConnect PROVE SympleInv'
<1> DEFINE t == [sio EXCEPT !.socket = "open", !.state = "Connected"]
           m == << <<"open", Me>>, <<"connect", Me>> >>
<1>1. sio' = stopReconnectTimer(t) /\ link' = [link EXCEPT !.in = m] /\ sio.socket = "connecting"
  BY DEF sioSocketConnect
<1>2. sio \in Session /\ link \in Connection
  BY DEF SympleInv, SympleTypeOK
<1>a. t \in Session
  BY <1>2, ZenonT(60) DEF Session
<1>b. t.state = "Connected" /\ t.socket = "open" /\ t.status = sio.status /\ t.roster = sio.roster
  BY <1>2 DEF Session
<1>c. m \in Seq(Sayable)
  <2> DEFINE a == <<"open", Me>>
             b == <<"connect", Me>>
  <2>1. a \in Sayable /\ b \in Sayable
    BY DEF Sayable
  <2> HIDE DEF a, b
  <2>2. <<a, b>> \in Seq(Sayable)
    BY <2>1
  <2>3. QED BY <2>2 DEF a, b
<1>3. Len(m) = 2 /\ m[1][1] = "open" /\ m[2][1] = "connect"
  OBVIOUS
<1> HIDE DEF t, m
<1>4. /\ sio' \in Session /\ sio'.state = "Connected" /\ sio'.socket = "open"
      /\ sio'.status = sio.status /\ sio'.roster = sio.roster
  BY <1>1, <1>a, <1>b, StopQuiet
<1>d. link' \in Connection
  BY <1>1, <1>2, <1>c, ZenonT(60) DEF Connection
<1>5. /\ link'.in = m /\ link'.asked = link.asked
      /\ link'.accepted = link.accepted /\ link'.online = link.online
  BY <1>1, <1>2 DEF Connection
<1>6. Unannounced
  BY <1>1 DEF SympleInv, HandshakeFirst
<1>7. \A i \in 1..Len(m) : i = 1 \/ i = 2
  BY <1>3
<1>8. ToldTrue'
  BY <1>3, <1>5, <1>7 DEF ToldTrue
<1>9. HandshakeFirst'
  BY <1>3, <1>4, <1>5, <1>6, <1>7 DEF HandshakeFirst, Unannounced
<1>10. QED BY <1>4, <1>5, <1>d, <1>6, <1>8, <1>9 DEF SympleInv, SympleTypeOK, Unannounced

-----------------------------------------------------------------------------
(* What the client reads.                                                  *)

LEMMA TypeOfAnswer ==
    ASSUME NEW s \in Session, NEW a \in Status, NEW x \in SUBSET Nat
    PROVE  [s EXCEPT !.status = a, !.txns = x] \in Session
BY ZenonT(60) DEF Session

LEMMA TypeOfTxns ==
    ASSUME NEW s \in Session, NEW x \in SUBSET Nat PROVE [s EXCEPT !.txns = x] \in Session
BY ZenonT(60) DEF Session

LEMMA TypeOfOnline ==
    ASSUME NEW s \in Session PROVE [s EXCEPT !.state = "Online", !.ping = TRUE] \in Session
BY ZenonT(60) DEF Session

LEMMA TypeOfWaiting ==
    ASSUME NEW s \in Session, NEW b \in BOOLEAN PROVE [s EXCEPT !.waiting = b] \in Session
BY ZenonT(60) DEF Session

LEMMA TypeOfRead ==
    ASSUME NEW c \in Connection, NEW q \in Seq(Sayable), NEW a \in BOOLEAN, NEW b \in BOOLEAN
    PROVE  [c EXCEPT !.in = q, !.asked = a, !.shut = b] \in Connection
BY ZenonT(60) DEF Connection

\* A transaction taken from those that run.
LEMMA TxnsShrink ==
    ASSUME NEW s \in Session, NEW k, NEW u, u = [s EXCEPT !.txns = @ \ {k}]
    PROVE  /\ u \in Session /\ u.state = s.state /\ u.socket = s.socket
           /\ u.status = s.status /\ u.roster = s.roster
<1> DEFINE x == s.txns \ {k}
<1>1. x \in SUBSET Nat
  BY DEF Session
<1>2. u = [s EXCEPT !.txns = x]
  OBVIOUS
<1> HIDE DEF x
<1>3. u \in Session
  BY <1>1, <1>2, TypeOfTxns
<1>4. u.state = s.state /\ u.socket = s.socket /\ u.status = s.status /\ u.roster = s.roster
  BY <1>2 DEF Session
<1>5. QED BY <1>3, <1>4

\* What a session may become when the client reads a message of the server.
ReadOnly(u, m) ==
    /\ u \in Session
    /\ u.state = "Online" => link.accepted
    /\ u.socket \in {sio.socket, "closed"}
    /\ u.status \in {sio.status, 0} \/ m[1] \in {"accept", "reject"}
    /\ u.roster \subseteq link.online \cup (IF link.accepted THEN {Me} ELSE {})

LEMMA QuietReadOnly ==
    ASSUME SympleInv, NEW u, NEW m, Quiet(sio, u) PROVE ReadOnly(u, m)
BY DEF SympleInv, Quiet, ReadOnly

LEMMA OpenRead ==
    ASSUME SympleInv, NEW m PROVE ReadOnly([sio EXCEPT !.sid = TRUE], m)
<1> DEFINE u == [sio EXCEPT !.sid = TRUE]
<1>1. sio \in Session
  BY DEF SympleInv, SympleTypeOK
<1>2. TRUE \in BOOLEAN
  OBVIOUS
<1>3. u \in Session
  BY <1>1, <1>2, TypeOfSid
<1>4. u.state = sio.state /\ u.socket = sio.socket /\ u.status = sio.status /\ u.roster = sio.roster
  BY <1>1 DEF Session
<1> HIDE DEF u
<1>5. Quiet(sio, u)
  BY <1>3, <1>4 DEF Quiet
<1>6. QED BY <1>5, QuietReadOnly DEF u

LEMMA ConnectRead ==
    ASSUME SympleInv, NEW m, sio.status = 0 PROVE ReadOnly(onOnline(sio), m)
<1> DEFINE x == sio.txns \cup {link.n}
           u == [sio EXCEPT !.txns = x]
<1>1. sio \in Session /\ link.n \in Nat
  BY DEF SympleInv, SympleTypeOK, Connection
<1>2. x \in SUBSET Nat
  BY <1>1 DEF Session
<1>3. u.state = sio.state /\ u.socket = sio.socket /\ u.status = sio.status /\ u.roster = sio.roster
  BY <1>1 DEF Session
<1>4. onOnline(sio) = u
  BY DEF onOnline
<1>5. u \in Session
  <2> HIDE DEF x
  <2>1. QED BY <1>1, <1>2, TypeOfTxns
<1> HIDE DEF u
<1>6. Quiet(sio, u)
  BY <1>3, <1>5 DEF Quiet
<1>7. QED BY <1>4, <1>6, QuietReadOnly

\* The announcement of this connection is answered.
LEMMA AcceptRead ==
    ASSUME SympleInv, NEW m, m[1] = "accept", link.accepted
    PROVE  ReadOnly(onAnnounceState(sio, 200), m)
<1> DEFINE a == 200
           x == sio.txns \ {link.n}
           t == [sio EXCEPT !.status = a, !.txns = x]
           p == onPresenceData(t, TRUE, Me)
           u == [p EXCEPT !.state = "Online", !.ping = TRUE]
<1>1. sio \in Session /\ a \in Status /\ a # 0 /\ Me \in Buddy \cup {Me}
  BY DEF SympleInv, SympleTypeOK, Status
<1>a. x \in SUBSET Nat
  BY <1>1 DEF Session
<1>2. onAnnounceState(sio, 200) = onOnline(p)
  BY DEF onAnnounceState
<1> HIDE DEF a
<1> HIDE DEF x
<1>b. t \in Session
  BY <1>1, <1>a, TypeOfAnswer
<1>3. t.socket = sio.socket /\ t.status = a /\ t.roster = sio.roster
  BY <1>1 DEF Session
<1> HIDE DEF t
<1>4. p \in Session /\ p.socket = sio.socket /\ p.status = a /\ p.roster = sio.roster \cup {Me}
  BY <1>1, <1>3, <1>b, ArrivalType
<1> HIDE DEF p
<1>5. onOnline(p) = u
  BY <1>1, <1>4 DEF onOnline
<1>6. u \in Session
  BY <1>4, TypeOfOnline
<1>7. u.socket = p.socket /\ u.roster = p.roster
  BY <1>4 DEF Session
<1> HIDE DEF u
<1>8. u.roster \subseteq link.online \cup (IF link.accepted THEN {Me} ELSE {})
  BY <1>4, <1>7 DEF SympleInv
<1>9. QED BY <1>2, <1>4, <1>5, <1>6, <1>7, <1>8 DEF ReadOnly

LEMMA RejectRead ==
    ASSUME SympleInv, NEW m, m[1] = "reject" PROVE ReadOnly(onAnnounceState(sio, 401), m)
<1> DEFINE a == 401
           x == sio.txns \ {link.n}
           t == [sio EXCEPT !.status = a, !.txns = x]
<1>1. sio \in Session /\ a \in Status
  BY DEF SympleInv, SympleTypeOK, Status
<1>a. x \in SUBSET Nat
  BY <1>1 DEF Session
<1>2. onAnnounceState(sio, 401) = sioSetError(t)
  BY DEF onAnnounceState
<1> HIDE DEF a
<1> HIDE DEF x
<1>b. t \in Session
  BY <1>1, <1>a, TypeOfAnswer
<1>3. t.socket = sio.socket /\ t.roster = sio.roster
  BY <1>1 DEF Session
<1> HIDE DEF t
<1>4. Quiet(t, sioSetError(t)) /\ sioSetError(t).state # "Online"
  BY <1>b, ErrorQuiet
<1> DEFINE u == sioSetError(t)
<1>5. onAnnounceState(sio, 401) = u /\ Quiet(t, u) /\ u.state # "Online"
  BY <1>2, <1>4
<1> HIDE DEF u
<1>6. QED BY <1>3, <1>5 DEF Quiet, ReadOnly, SympleInv

LEMMA PresenceRead ==
    ASSUME SympleInv, NEW m, NEW u \in Session, NEW p,
           u.state = sio.state, u.socket = sio.socket, u.status = sio.status,
           \/ p \in link.online /\ u.roster = sio.roster \cup {p}
           \/ u.roster = sio.roster \ {p}
    PROVE  ReadOnly(u, m)
<1>1. u.roster \subseteq link.online \cup (IF link.accepted THEN {Me} ELSE {})
  BY DEF SympleInv
<1>2. QED BY <1>1 DEF ReadOnly, SympleInv

LEMMA PacketRead ==
    ASSUME SympleInv, NEW m \in Sayable,
           m[1] = "connect" => sio.status = 0,
           m[1] = "accept" => link.accepted,
           m[1] = "on" => m[2] \in link.online
    PROVE  ReadOnly(onPacket(sio, m), m)
<1>1. m[2] \in Buddy \cup {Me} /\ TRUE \in BOOLEAN /\ FALSE \in BOOLEAN
  BY DEF Sayable
<1>2. sio \in Session
  BY DEF SympleInv, SympleTypeOK
<1>3. ReadOnly(sio, m)
  BY <1>2 DEF ReadOnly, SympleInv
<1>4. CASE m[1] = "open"
  BY <1>4, OpenRead DEF onPacket
<1>5. CASE m[1] = "connect"
  BY <1>5, ConnectRead DEF onPacket
<1>6. CASE m[1] = "accept"
  BY <1>3, <1>6, AcceptRead DEF onPacket
<1>7. CASE m[1] = "reject"
  BY <1>3, <1>7, RejectRead DEF onPacket
<1> DEFINE p == m[2]
<1>a. p \in Buddy \cup {Me}
  BY <1>1
<1>8. CASE m[1] = "on"
  <2> DEFINE u == onPresenceData(sio, TRUE, p)
  <2>1. onPacket(sio, m) = u
    BY <1>8 DEF onPacket
  <2>2. /\ u \in Session /\ u.state = sio.state /\ u.socket = sio.socket
        /\ u.status = sio.status /\ u.roster = sio.roster \cup {p}
    <3> HIDE DEF p
    <3>1. QED BY <1>2, <1>a, ArrivalType
  <2>3. p \in link.online
    BY <1>8
  <2> HIDE DEF u, p
  <2>4. QED BY <2>1, <2>2, <2>3, PresenceRead
<1>9. CASE m[1] = "off"
  <2> DEFINE u == onPresenceData(sio, FALSE, p)
  <2>1. onPacket(sio, m) = u
    BY <1>9 DEF onPacket
  <2>2. /\ u \in Session /\ u.state = sio.state /\ u.socket = sio.socket
        /\ u.status = sio.status /\ u.roster = sio.roster \ {p}
    <3> HIDE DEF p
    <3>1. QED BY <1>2, <1>a, DepartureType
  <2> HIDE DEF u, p
  <2>3. QED BY <2>1, <2>2, PresenceRead
<1>10. CASE m[1] = "close"
  <2>1. onPacket(sio, m) = reset(sio)
    BY <1>10 DEF onPacket
  <2>2. Quiet(sio, reset(sio))
    BY <1>2, ResetQuiet
  <2>3. QED BY <2>1, <2>2, QuietReadOnly
<1>11. CASE m[1] \notin {"open", "connect", "accept", "reject", "on", "off", "close"}
  BY <1>3, <1>11 DEF onPacket
<1>12. QED BY <1>4, <1>5, <1>6, <1>7, <1>8, <1>9, <1>10, <1>11

\* The head of what the server sent is taken, and the session is what it may become.
LEMMA ReadKeeps ==
    ASSUME SympleInv, sio.socket = "open", link.in # <<>>,
           ReadOnly(sio', Head(link.in)), link' \in Connection, link'.in = Tail(link.in),
           link'.accepted = link.accepted, link'.online = link.online,
           link'.asked = (link.asked \/ (Head(link.in)[1] = "connect" /\ sio.status = 0))
    PROVE  SympleInv'
<1>1. link.in \in Seq(Sayable)
  BY DEF SympleInv, SympleTypeOK, Connection
<1>2. /\ Len(link.in) \in Nat /\ Len(link.in) >= 1 /\ Head(link.in) = link.in[1]
      /\ Len(link'.in) = Len(link.in) - 1
      /\ \A i \in 1..Len(link'.in) : link'.in[i] = link.in[i + 1]
  BY <1>1, HeadTailProperties, EmptySeq, LenProperties
<1>3. \A i \in 1..Len(link'.in) : i + 1 \in 1..Len(link.in) /\ i + 1 # 1
  <2>1. \A n \in Nat, k \in Nat : n >= 1 /\ k = n - 1 => \A i \in 1..k : i + 1 \in 1..n /\ i + 1 # 1
    OBVIOUS
  <2>2. QED BY <1>2, <2>1
<1>4. 1 \in 1..Len(link.in)
  BY <1>2
<1>5. SympleTypeOK'
  BY DEF SympleTypeOK, ReadOnly
<1>6. ToldTrue'
  BY <1>2, <1>3 DEF SympleInv, ToldTrue
<1>7. \A i \in 1..Len(link'.in) : link'.in[i][1] = "connect" =>
          Unannounced' /\ \A j \in 1..Len(link'.in) : i # j => link'.in[j][1] = "open"
  <2> SUFFICES ASSUME NEW i \in 1..Len(link'.in), link'.in[i][1] = "connect"
               PROVE  Unannounced' /\ \A j \in 1..Len(link'.in) : i # j => link'.in[j][1] = "open"
    OBVIOUS
  <2>1. i + 1 \in 1..Len(link.in) /\ i + 1 # 1 /\ link.in[i + 1][1] = "connect"
    BY <1>2, <1>3
  <2>2. /\ Unannounced
        /\ \A j \in 1..Len(link.in) : i + 1 # j => link.in[j][1] = "open"
    BY <2>1 DEF SympleInv, HandshakeFirst
  <2>3. Head(link.in)[1] = "open"
    BY <1>2, <1>4, <2>1, <2>2
  <2>4. sio'.status \in {sio.status, 0}
    BY <2>3 DEF ReadOnly
  <2>5. Unannounced'
    BY <2>2, <2>3, <2>4 DEF Unannounced
  <2>6. \A j \in 1..Len(link'.in) : i # j => link'.in[j][1] = "open"
    <3> SUFFICES ASSUME NEW j \in 1..Len(link'.in), i # j PROVE link'.in[j][1] = "open"
      OBVIOUS
    <3>1. j + 1 \in 1..Len(link.in) /\ link'.in[j] = link.in[j + 1]
      BY <1>2, <1>3
    <3>2. i \in Int /\ j \in Int
      BY <1>2
    <3>3. i + 1 # j + 1
      BY <3>2
    <3>4. QED BY <2>2, <3>1, <3>3
  <2>7. QED BY <2>5, <2>6
<1>8. link'.asked => ~link'.accepted
  <2>1. CASE Head(link.in)[1] = "connect"
    <3>1. Unannounced
      BY <1>2, <1>4, <2>1 DEF SympleInv, HandshakeFirst
    <3>2. QED BY <3>1 DEF Unannounced
  <2>2. CASE Head(link.in)[1] # "connect"
    BY <2>2 DEF SympleInv, HandshakeFirst
  <2>3. QED BY <2>1, <2>2
<1>9. sio'.socket # "connecting"
  BY DEF ReadOnly
<1>10. HandshakeFirst'
  BY <1>7, <1>8, <1>9 DEF HandshakeFirst
<1>11. QED BY <1>5, <1>6, <1>10 DEF SympleInv, ReadOnly

LEMMA SocketRecvKeeps ==
    ASSUME SympleInv, sioSocketRecv PROVE SympleInv'
<1> DEFINE m == Head(link.in)
           q == Tail(link.in)
           a == link.asked \/ (Head(link.in)[1] = "connect" /\ sio.status = 0)
           b == link.shut \/ Head(link.in)[1] = "close"
<1>1. /\ sio.socket = "open" /\ link.in # <<>> /\ sio' = onPacket(sio, m)
      /\ link' = [link EXCEPT !.in = q, !.asked = a, !.shut = b]
  BY DEF sioSocketRecv
<1>2. link \in Connection /\ link.in \in Seq(Sayable)
  BY DEF SympleInv, SympleTypeOK, Connection
<1>3. q \in Seq(Sayable) /\ m \in Sayable /\ a \in BOOLEAN /\ b \in BOOLEAN
  <2>1. q \in Seq(Sayable) /\ m \in Sayable
    BY <1>1, <1>2, HeadTailProperties
  <2>2. link.asked \in BOOLEAN /\ link.shut \in BOOLEAN
    BY <1>2 DEF Connection
  <2>3. a \in BOOLEAN /\ b \in BOOLEAN
    BY <2>2
  <2>4. QED BY <2>1, <2>3
<1>4. 1 \in 1..Len(link.in) /\ link.in[1] = m
  <2>1. Len(link.in) \in Nat /\ Len(link.in) >= 1
    BY <1>1, <1>2, EmptySeq, LenProperties
  <2>2. QED BY <2>1
<1>5. m[1] = "connect" => sio.status = 0
  BY <1>4 DEF SympleInv, HandshakeFirst, Unannounced
<1>6. m[1] = "accept" => link.accepted
  BY <1>4 DEF SympleInv, ToldTrue
<1>7. m[1] = "on" => m[2] \in link.online
  BY <1>4 DEF SympleInv, ToldTrue
<1>8. ReadOnly(sio', m)
  <2>1. m \in Sayable
    BY <1>3
  <2> HIDE DEF m
  <2>2. ReadOnly(onPacket(sio, m), m)
    BY <1>5, <1>6, <1>7, <2>1, PacketRead
  <2>3. QED BY <1>1, <2>2
<1>9. link' \in Connection
  <2> HIDE DEF q, a, b
  <2>1. QED BY <1>1, <1>2, <1>3, TypeOfRead
<1>10. link'.in = q /\ link'.asked = a /\ link'.accepted = link.accepted /\ link'.online = link.online
  <2> HIDE DEF q, a, b
  <2>1. QED BY <1>1, <1>2 DEF Connection
<1>11. QED BY <1>1, <1>8, <1>9, <1>10, ReadKeeps

-----------------------------------------------------------------------------
(* Errors, closing and the timers.                                         *)

LEMMA TypeOfClosed ==
    ASSUME NEW s \in Session PROVE [s EXCEPT !.socket = "closed"] \in Session
BY ZenonT(60) DEF Session

LEMMA SocketErrorKeeps ==
    ASSUME SympleInv, sioSocketError PROVE SympleInv'
<1> DEFINE e == sioSetError(sio)
           u == [e EXCEPT !.socket = "closed"]
<1>1. sio \in Session
  BY DEF SympleInv, SympleTypeOK
<1>2. Quiet(sio, e)
  BY <1>1, ErrorQuiet
<1> HIDE DEF e
<1>3. e \in Session
  BY <1>2 DEF Quiet
<1>4. u \in Session
  BY <1>3, TypeOfClosed
<1>5. u.state = e.state /\ u.socket = "closed" /\ u.status = e.status /\ u.roster = e.roster
  BY <1>3 DEF Session
<1>6. sio' = u /\ UNCHANGED link
  BY DEF sioSocketError, e
<1> HIDE DEF u
<1>7. Quiet(sio, sio')
  BY <1>2, <1>4, <1>5, <1>6 DEF Quiet
<1>8. QED BY <1>6, <1>7, QuietKeeps

LEMMA AnnounceTimeoutKeeps ==
    ASSUME SympleInv, NEW k, onAnnounceTimeout(k) PROVE SympleInv'
<1> DEFINE t == [sio EXCEPT !.txns = @ \ {k}]
<1>1. sio \in Session
  BY DEF SympleInv, SympleTypeOK
<1>2. /\ t \in Session /\ t.state = sio.state /\ t.socket = sio.socket
      /\ t.status = sio.status /\ t.roster = sio.roster
  BY <1>1, TxnsShrink
<1>3. sio' = sioSetError(t) /\ UNCHANGED link
  BY DEF onAnnounceTimeout
<1> HIDE DEF t
<1>4. Quiet(t, sio')
  BY <1>2, <1>3, ErrorQuiet
<1>5. Quiet(sio, sio')
  BY <1>2, <1>4 DEF Quiet
<1>6. QED BY <1>3, <1>5, QuietKeeps

LEMMA PingKeeps ==
    ASSUME SympleInv, onPingTimer \/ onPingTimeoutTimer PROVE SympleInv'
<1>1. PICK b \in BOOLEAN : sio' = [sio EXCEPT !.waiting = b]
  BY DEF onPingTimer, onPingTimeoutTimer
<1>2. sio \in Session
  BY DEF SympleInv, SympleTypeOK
<1>3. sio' \in Session
  BY <1>1, <1>2, TypeOfWaiting
<1>4. /\ sio'.state = sio.state /\ sio'.socket = sio.socket
      /\ sio'.status = sio.status /\ sio'.roster = sio.roster
  BY <1>1, <1>2 DEF Session
<1>5. Quiet(sio, sio')
  BY <1>3, <1>4 DEF Quiet
<1>6. UNCHANGED link
  BY DEF onPingTimer, onPingTimeoutTimer
<1>7. QED BY <1>5, <1>6, QuietKeeps

-----------------------------------------------------------------------------
(* The server.                                                             *)

\* The server adds a message that says nothing untrue.
LEMMA ServerSendKeeps ==
    ASSUME SympleInv, NEW m \in Sayable, link' \in Connection, UNCHANGED sio,
           sio.socket = "open", link'.in = Append(link.in, m),
           link.asked \/ link.accepted, m[1] # "connect",
           link.accepted => link'.accepted, link.online \subseteq link'.online,
           m[1] = "accept" => link'.accepted,
           m[1] = "on" => m[2] \in link'.online,
           link'.asked => ~link'.accepted
    PROVE  SympleInv'
<1>1. link.in \in Seq(Sayable)
  BY DEF SympleInv, SympleTypeOK, Connection
<1>2. /\ Len(link.in) \in Nat /\ Len(link'.in) = Len(link.in) + 1
      /\ \A i \in 1..Len(link.in) : link'.in[i] = link.in[i]
      /\ link'.in[Len(link.in) + 1] = m
  BY <1>1, AppendProperties, LenProperties
<1>3. \A i \in 1..Len(link'.in) : i \in 1..Len(link.in) \/ i = Len(link.in) + 1
  <2>1. \A n \in Nat, k \in Nat : k = n + 1 => \A i \in 1..k : i \in 1..n \/ i = n + 1
    OBVIOUS
  <2>2. QED BY <1>2, <2>1
<1>4. SympleTypeOK'
  BY DEF SympleInv, SympleTypeOK
<1>5. \A i \in 1..Len(link.in) :
          /\ link.in[i][1] = "accept" => link.accepted
          /\ link.in[i][1] = "on" => link.in[i][2] \in link.online
  BY DEF SympleInv, ToldTrue
<1>6. ToldTrue'
  BY <1>2, <1>3, <1>5 DEF ToldTrue
<1>7. \A i \in 1..Len(link.in) : link.in[i][1] # "connect"
  BY DEF SympleInv, HandshakeFirst, Unannounced
<1>8. \A i \in 1..Len(link'.in) : link'.in[i][1] # "connect"
  BY <1>2, <1>3, <1>7
<1>9. HandshakeFirst'
  BY <1>8 DEF HandshakeFirst
<1>10. QED BY <1>4, <1>6, <1>9 DEF SympleInv

LEMMA TypeOfAsked ==
    ASSUME NEW c \in Connection, NEW q \in Seq(Sayable), NEW ok \in BOOLEAN
    PROVE  [c EXCEPT !.asked = FALSE, !.accepted = ok, !.in = q] \in Connection
BY ZenonT(60) DEF Connection

LEMMA TypeOfTold ==
    ASSUME NEW c \in Connection, NEW q \in Seq(Sayable), NEW k \in Nat,
           NEW o \in SUBSET (Buddy \cup {Me})
    PROVE  [c EXCEPT !.in = q, !.told = k, !.online = o] \in Connection
BY ZenonT(60) DEF Connection

LEMMA AnswerKeeps ==
    ASSUME SympleInv, AnswerAnnounce PROVE SympleInv'
<1>1. PICK ok \in BOOLEAN :
          link' = [link EXCEPT !.asked = FALSE, !.accepted = ok,
                               !.in = Append(@, <<IF ok THEN "accept" ELSE "reject", Me>>)]
  BY DEF AnswerAnnounce
<1> DEFINE m == <<IF ok THEN "accept" ELSE "reject", Me>>
           q == Append(link.in, m)
<1>2. link \in Connection /\ link.in \in Seq(Sayable)
  BY DEF SympleInv, SympleTypeOK, Connection
<1>3. m \in Sayable /\ m[1] \in {"accept", "reject"} /\ (m[1] = "accept" => ok)
  BY DEF Sayable
<1>4. link' = [link EXCEPT !.asked = FALSE, !.accepted = ok, !.in = q]
  BY <1>1
<1> HIDE DEF m
<1>5. q \in Seq(Sayable)
  BY <1>2, <1>3
<1> HIDE DEF q
<1>6. link' \in Connection
  BY <1>2, <1>4, <1>5, TypeOfAsked
<1>7. /\ ~link'.asked /\ link'.accepted = ok /\ link'.in = q /\ link'.online = link.online
  BY <1>2, <1>4 DEF Connection
<1>8. sio.socket = "open" /\ link.asked /\ ~link.accepted /\ UNCHANGED sio
  BY DEF AnswerAnnounce, SympleInv, HandshakeFirst
<1>9. QED BY <1>3, <1>6, <1>7, <1>8, ServerSendKeeps DEF q

LEMMA TellKeeps ==
    ASSUME SympleInv, NEW m \in Told, Tell(m) PROVE SympleInv'
<1> DEFINE q == Append(link.in, m)
           k == link.told + 1
           o == IF m[1] = "on" THEN link.online \cup {m[2]} ELSE link.online
<1>1. m \in Sayable /\ m[1] # "connect" /\ m[1] # "accept"
  BY DEF Told, Sayable
<1>2. /\ link \in Connection /\ link.in \in Seq(Sayable) /\ link.told \in Nat
      /\ link.online \in SUBSET (Buddy \cup {Me})
  BY DEF SympleInv, SympleTypeOK, Connection
<1>3. q \in Seq(Sayable) /\ k \in Nat
  BY <1>1, <1>2
<1>4. o \in SUBSET (Buddy \cup {Me}) /\ link.online \subseteq o /\ (m[1] = "on" => m[2] \in o)
  BY <1>1, <1>2 DEF Sayable
<1>5. /\ link' = [link EXCEPT !.in = q, !.told = k, !.online = o]
      /\ sio.socket = "open" /\ link.accepted /\ UNCHANGED sio
  BY DEF Tell
<1> HIDE DEF k, o
<1>6. link' \in Connection
  <2> HIDE DEF q
  <2>1. QED BY <1>2, <1>3, <1>4, <1>5, TypeOfTold
<1>7. /\ link'.in = q /\ link'.online = o /\ link'.asked = link.asked
      /\ link'.accepted = link.accepted
  <2> HIDE DEF q
  <2>1. QED BY <1>2, <1>5 DEF Connection
<1>8. ~link.asked
  BY <1>5 DEF SympleInv, HandshakeFirst
<1>9. QED BY <1>1, <1>4, <1>5, <1>6, <1>7, <1>8, ServerSendKeeps

-----------------------------------------------------------------------------
(* Whatever a client of the Symple server goes through, refusals, broken   *)
(* connections, lost announcements, Close frames, it is Online on an open  *)
(* connection only when it was accepted on that one, and its roster holds  *)
(* only peers told of on it (smpl::Client::reset, onOnline,                *)
(* onPresenceData, sockio::Client::reset).                                 *)
THEOREM SessionCorrect == SympleSpec => []SessionIsolated
<1>1. SympleInit => SympleInv
  <2> SUFFICES ASSUME SympleInit PROVE SympleInv
    OBVIOUS
  <2>1. PICK re \in BOOLEAN, rec \in BOOLEAN : sio = [NewSession(re) EXCEPT !.reconnection = rec]
    BY DEF SympleInit
  <2>2. sio = [ state |-> "Closed", socket |-> "closed", sid |-> FALSE, retry |-> FALSE,
                reconnecting |-> re, wasOnline |-> FALSE, ping |-> FALSE, waiting |-> FALSE,
                status |-> 0, roster |-> {}, txns |-> {}, reconnection |-> rec ]
    BY <2>1 DEF NewSession
  <2>3. sio \in Session
    <3>1. {} \in SUBSET (Buddy \cup {Me}) /\ {} \in SUBSET Nat /\ 0 \in Status
      BY DEF Status
    <3>2. QED BY <2>2, <3>1, Zenon DEF Session
  <2>4. link \in Connection /\ link.in = <<>> /\ Len(link.in) = 0 /\ ~link.asked
    <3>1. <<>> \in Seq(Sayable) /\ Len(<<>>) = 0
      BY EmptySeq
    <3>2. QED BY <3>1 DEF SympleInit, NewLink, Connection
  <2>5. ToldTrue /\ HandshakeFirst
    BY <2>2, <2>4 DEF ToldTrue, HandshakeFirst
  <2>6. QED BY <2>2, <2>3, <2>4, <2>5 DEF SympleInv, SympleTypeOK
<1>2. SympleInv /\ [SympleNext]_symplevars => SympleInv'
  <2> SUFFICES ASSUME SympleInv, [SympleNext]_symplevars PROVE SympleInv'
    OBVIOUS
  <2>1. CASE connect
    BY <2>1, FreshKeeps DEF connect
  <2>2. CASE Close
    BY <2>2, CloseQuiet, QuietKeeps DEF Close, SympleInv, SympleTypeOK
  <2>3. CASE sioSocketConnect
    BY <2>3, SocketConnectKeeps
  <2>4. CASE sioSocketError
    BY <2>4, SocketErrorKeeps
  <2>5. CASE sioSocketRecv
    BY <2>5, SocketRecvKeeps
  <2>6. CASE Timers
    <3>1. CASE \E k \in sio.txns : onAnnounceTimeout(k)
      BY <3>1, AnnounceTimeoutKeeps
    <3>2. CASE onPingTimer \/ onPingTimeoutTimer
      BY <3>2, PingKeeps
    <3>3. CASE onReconnectTimer
      BY <3>3, FreshKeeps DEF onReconnectTimer
    <3>4. QED BY <2>6, <3>1, <3>2, <3>3 DEF Timers
  <2>7. CASE AnswerAnnounce
    BY <2>7, AnswerKeeps
  <2>8. CASE \E m \in Told : Tell(m)
    BY <2>8, TellKeeps
  <2>9. CASE UNCHANGED symplevars
    BY <2>9 DEF symplevars, SympleInv, SympleTypeOK, ToldTrue, HandshakeFirst, Unannounced
  <2>10. QED BY <2>1, <2>2, <2>3, <2>4, <2>5, <2>6, <2>7, <2>8, <2>9 DEF SympleNext
<1>3. QED BY <1>1, <1>2, SympleInvSound, PTL DEF SympleSpec
=============================================================================

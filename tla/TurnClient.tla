----------------------------- MODULE TurnClient -----------------------------
(***************************************************************************)
(* The TURN client (turn/src/client/client.cpp) over UDP, built with       *)
(* NDEBUG: it allocates a relayed address, authenticates, installs the     *)
(* permissions of its peers, sends data through Send indications, and      *)
(* keeps the allocation from a timer.  The network loses, duplicates,      *)
(* delays and reorders: a request sent, or a response given, may be        *)
(* delivered any number of times or never.                                 *)
(*                                                                         *)
(* A unit of time is the timerInterval of the client.  Retransmission by a *)
(* stun::Transaction is in module Transaction; here a transaction is       *)
(* answered or fails.  The server is the part of TurnServer that the       *)
(* client can see.                                                         *)
(***************************************************************************)
EXTENDS Integers, Sequences

CONSTANTS
    TurnPeer,     \* hosts of the peers
    Grant,        \* lifetime the server gives an allocation
    InitialLife,  \* lifetime an IAllocation is constructed with
    MaxReq,       \* bound on the requests sent
    MaxData,      \* bound on the indications sent
    MaxAge        \* bound on the time that passes

ASSUME TurnClientAssumption == Grant \in Nat /\ InitialLife \in Nat

VARIABLES
    client,       \* the turn::Client
    relay,        \* what the server keeps for it
    answers       \* responses given so far: <<request, code>>

vars == <<client, relay, answers>>

\* reqs: the requests of every transaction created; tx: the transactions still
\* in _transactions; out: the indications written to the socket; lapsed: the
\* client has been Failed (auxiliary).
NewClient ==
    [ state |-> "None", socket |-> "new", realm |-> FALSE, timer |-> FALSE,
      perms |-> {}, life |-> InitialLife, age |-> 0,
      reqs |-> <<>>, tx |-> {}, pending |-> <<>>, out |-> <<>>, n |-> 0,
      lapsed |-> FALSE ]

Request ==
    [ method : {"Allocate", "Refresh", "CreatePermission"}, auth : BOOLEAN,
      perms : SUBSET TurnPeer ]

Client ==
    [ state : {"None", "Authorizing", "Success", "Failed"},
      socket : {"new", "connecting", "open", "closed"}, realm : BOOLEAN, timer : BOOLEAN,
      perms : SUBSET TurnPeer, life : Nat, age : Nat,
      reqs : Seq(Request), tx : SUBSET Nat, pending : Seq(Nat), out : Seq(Nat), n : Nat,
      lapsed : BOOLEAN ]

TypeOK ==
    /\ client \in Client
    /\ relay \in [alloc : BOOLEAN, left : Nat, perms : SUBSET TurnPeer]
    /\ answers \subseteq Nat \X {0, 401, 437, 486}

Init ==
    /\ \E p \in SUBSET TurnPeer \ {{}} : client = [NewClient EXCEPT !.perms = p]
    /\ relay = [alloc |-> FALSE, left |-> 0, perms |-> {}]
    /\ answers = {}

closed(c) == c.state \in {"None", "Failed"}

-----------------------------------------------------------------------------
(* Requests.                                                               *)

setError(c) == [c EXCEPT !.state = "Failed", !.lapsed = TRUE]

\* createTransaction(), authenticateRequest() and send(); the transaction fails
\* at once if the socket does not take the packet.
sendTransaction(c, method, ok) ==
    IF ok
    THEN [c EXCEPT !.reqs = Append(@, [method |-> method, auth |-> c.realm, perms |-> c.perms]),
                   !.tx = @ \cup {Len(c.reqs) + 1}]
    ELSE setError(c)

sendAllocate(c, ok) == sendTransaction(c, "Allocate", ok)
sendRefresh(c, ok) == sendTransaction(c, "Refresh", ok)
sendCreatePermission(c, ok) == sendTransaction(c, "CreatePermission", ok)

-----------------------------------------------------------------------------
(* Faulty variants, used to show that the properties can fail.             *)

IgnoreChallenge(c, code, ok) ==
    IF code = 401 /\ ~c.realm THEN [c EXCEPT !.realm = TRUE] ELSE setError(c)

SuccessWhenAllocated(c, ok) == [c EXCEPT !.state = "Success"]

-----------------------------------------------------------------------------
(* Responses, from a transaction or, late or duplicated, from the socket.  *)

\* The lifetime granted is read and not kept.
handleAllocateResponse(c, ok) ==
    sendCreatePermission([c EXCEPT !.state = "Authorizing"], ok)

\* A 401 is answered once, with the realm and nonce it gives; every other error
\* fails the client.
handleAllocateErrorResponse(c, code, ok) ==
    IF code = 401 /\ ~c.realm
    THEN sendAllocate([c EXCEPT !.realm = TRUE], ok)
    ELSE setError(c)

handleRefreshResponse(c, code) ==
    IF code = 0 THEN [c EXCEPT !.life = Grant, !.age = 0] ELSE c

handleCreatePermissionResponse(c) ==
    [c EXCEPT !.out = @ \o c.pending, !.pending = <<>>, !.state = "Success"]

handleCreatePermissionErrorResponse(c) == setError([c EXCEPT !.perms = {}])

handleResponse(c, method, code, ok) ==
    CASE method = "Allocate" /\ code = 0 -> handleAllocateResponse(c, ok)
      [] method = "Allocate" /\ code # 0 -> handleAllocateErrorResponse(c, code, ok)
      [] method = "Refresh" -> handleRefreshResponse(c, code)
      [] method = "CreatePermission" /\ code = 0 -> handleCreatePermissionResponse(c)
      [] OTHER -> handleCreatePermissionErrorResponse(c)

\* A response matches the running transaction of its request, which leaves the
\* list; a later one goes through onSocketRecv() to the same handler.
removeTransaction(c, i) == [c EXCEPT !.tx = @ \ {i}]

onSocketRecv(i, code) ==
    /\ client.socket = "open" /\ <<i, code>> \in answers
    /\ Len(client.reqs) < MaxReq
    /\ \E ok \in BOOLEAN :
           client' = handleResponse(removeTransaction(client, i), client.reqs[i].method, code, ok)
    /\ UNCHANGED <<relay, answers>>

\* The transaction gets no answer in time.
onTransactionFailed(i) ==
    /\ i \in client.tx
    /\ client' = setError(removeTransaction(client, i))
    /\ UNCHANGED <<relay, answers>>

-----------------------------------------------------------------------------
(* The application and the socket.                                         *)

initiate ==
    /\ client.socket = "new"
    /\ client' = [client EXCEPT !.socket = "connecting"]
    /\ UNCHANGED <<relay, answers>>

onSocketConnect ==
    /\ client.socket = "connecting"
    /\ \E ok \in BOOLEAN :
           client' = sendAllocate([client EXCEPT !.socket = "open", !.timer = TRUE], ok)
    /\ UNCHANGED <<relay, answers>>

ShutDown(c) == [c EXCEPT !.timer = FALSE, !.tx = {}, !.socket = "closed"]

shutdown ==
    /\ client.socket \in {"connecting", "open"}
    /\ client' = ShutDown(client)
    /\ UNCHANGED <<relay, answers>>

onSocketClose ==
    /\ client.socket \in {"connecting", "open"}
    /\ client' = setError(ShutDown(client))
    /\ UNCHANGED <<relay, answers>>

addPermission(p) ==
    /\ client.socket # "closed" /\ p \notin client.perms
    /\ client' = [client EXCEPT !.perms = @ \cup {p}]
    /\ UNCHANGED <<relay, answers>>

\* sendData() waits for the permissions, or goes out at once; without a
\* permission it throws.
Queues(c) == c.state = "Authorizing"

sendData(p) ==
    /\ client.socket = "open" /\ client.n < MaxData /\ p \in client.perms
    /\ client' = IF Queues(client)
                 THEN [client EXCEPT !.pending = Append(@, client.n), !.n = @ + 1]
                 ELSE [client EXCEPT !.out = Append(@, client.n), !.n = @ + 1]
    /\ UNCHANGED <<relay, answers>>

-----------------------------------------------------------------------------
(* Time: the allocation grows older at both ends, and the timer fires.     *)

timeRemaining(c) == IF c.life > c.age THEN c.life - c.age ELSE 0
expired(c) == timeRemaining(c) = 0

onTimer(c, ok) ==
    IF ~c.timer THEN c
    ELSE IF expired(c) THEN sendAllocate(c, ok)
    ELSE IF 100 * timeRemaining(c) < 33 * c.life THEN sendRefresh(c, ok)
    ELSE c

Tick ==
    /\ client.age < MaxAge /\ Len(client.reqs) < MaxReq
    /\ \E ok \in BOOLEAN : client' = onTimer([client EXCEPT !.age = @ + 1], ok)
    /\ relay' = IF relay.left > 1 THEN [relay EXCEPT !.left = @ - 1]
                ELSE [alloc |-> FALSE, left |-> 0, perms |-> {}]
    /\ UNCHANGED answers

-----------------------------------------------------------------------------
(* The server.                                                             *)

Answer(i, code) == answers' = answers \cup {<<i, code>>}

\* handleRequest(): the application of the server wants credentials with every request.
refuse(i) == Answer(i, 401) /\ UNCHANGED relay

serveAllocate(i) ==
    /\ client.reqs[i].method = "Allocate"
    /\ IF relay.alloc THEN Answer(i, 437) /\ UNCHANGED relay
       ELSE \/ Answer(i, 0) /\ relay' = [alloc |-> TRUE, left |-> Grant, perms |-> {}]
            \/ Answer(i, 486) /\ UNCHANGED relay

serveRefresh(i) ==
    /\ client.reqs[i].method = "Refresh"
    /\ IF relay.alloc THEN Answer(i, 0) /\ relay' = [relay EXCEPT !.left = Grant]
                      ELSE Answer(i, 437) /\ UNCHANGED relay

serveCreatePermission(i) ==
    /\ client.reqs[i].method = "CreatePermission"
    /\ IF relay.alloc THEN Answer(i, 0) /\ relay' = [relay EXCEPT !.perms = @ \cup client.reqs[i].perms]
                      ELSE Answer(i, 437) /\ UNCHANGED relay

Serve(i) ==
    /\ IF client.reqs[i].auth THEN serveAllocate(i) \/ serveRefresh(i) \/ serveCreatePermission(i)
                              ELSE refuse(i)
    /\ UNCHANGED client

-----------------------------------------------------------------------------
Respond == \E i \in DOMAIN client.reqs, code \in {0, 401, 437, 486} : onSocketRecv(i, code)
Fail == \E i \in client.tx : onTransactionFailed(i)

Next ==
    \/ initiate \/ onSocketConnect \/ shutdown \/ onSocketClose
    \/ \E p \in TurnPeer : addPermission(p) \/ sendData(p)
    \/ Respond \/ Fail \/ Tick
    \/ \E i \in DOMAIN client.reqs : Serve(i)

\* libuv reports the end of connect(), and the timer of a transaction fires.
Fairness == WF_vars(onSocketConnect) /\ WF_vars(Fail)

Spec == Init /\ [][Next]_vars /\ Fairness

-----------------------------------------------------------------------------
(* Data goes out in the order of the sendData() calls, the queued before   *)
(* the later, until the client has failed (sendData queues while           *)
(* Authorizing, handleCreatePermissionResponse flushes).                   *)
IndicationsInOrder ==
    ~client.lapsed => client.out \o client.pending = [k \in 1..client.n |-> k - 1]

(* Success is not claimed before the server has accepted a                 *)
(* CreatePermission request, and nothing stays queued then                 *)
(* (handleAllocateResponse, handleCreatePermissionResponse).               *)
SuccessIsInstalled ==
    client.state = "Success" =>
        /\ client.pending = <<>>
        /\ \E i \in DOMAIN client.reqs :
               client.reqs[i].method = "CreatePermission" /\ <<i, 0>> \in answers

\* Indications go out in order, and Success is claimed only after the server
\* accepted a CreatePermission (sendData, handleCreatePermissionResponse).
TurnClientSound == IndicationsInOrder /\ SuccessIsInstalled

(* The client does not stay in the middle of the sequence: once initiated  *)
(* it succeeds, fails or is shut down (onTransactionProgress, setError).   *)
TurnClientSettles ==
    client.socket = "connecting" ~> client.state \in {"Success", "Failed"} \/ client.socket = "closed"

(* The allocation of a client that is up and successful does not run out   *)
(* at the server without the client having asked to refresh it.            *)
RefreshedBeforeExpiry ==
    [][relay.alloc /\ ~relay'.alloc /\ client.state = "Success" /\ client.timer
         => \E i \in DOMAIN client.reqs : client.reqs[i].method = "Refresh"]_vars
=============================================================================

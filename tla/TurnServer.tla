----------------------------- MODULE TurnServer -----------------------------
(***************************************************************************)
(* The TURN server (turn/src/server/server.cpp) with its UDP allocations   *)
(* (turn/src/iallocation.cpp, serverallocation.cpp, udpallocation.cpp).    *)
(*                                                                         *)
(* Everything runs on one event loop, so a handler is one action.  Clients *)
(* send any request at any time, retransmissions and late ones included.   *)
(* An allocation is kept under the port of its client: FiveTuple's         *)
(* operator< compares the two ports and nothing else, and the server has   *)
(* one port.                                                               *)
(*                                                                         *)
(* Times are kept as ages in seconds, counted up to MaxLife, and bytes up  *)
(* to the limit of the allocation: nothing in the code tells larger values *)
(* apart.  Permissions are timed by clock(), the processor time used,      *)
(* which passes faster or slower than the seconds of time().               *)
(***************************************************************************)
EXTENDS Integers, FiniteSets

CONSTANTS
    Host, Port,   \* of the clients
    Peer,         \* hosts of the peers
    Local,        \* the peers with a local address
    MaxLife,      \* allocationMaxLifetime, in seconds
    DefaultLife,  \* allocationDefaultLifetime, in seconds
    PermLife,     \* PERMISSION_LIFETIME, in units of clock()
    MaxPerms,     \* allocationMaxPermissions
    Limits,       \* bandwidth limits the observer sets on a new allocation, 0 for none
    Lifetimes,    \* values of the LIFETIME attribute of requests
    Sizes,        \* sizes of the data relayed
    CpuPerTick    \* processor time used in a second

ASSUME TurnAssumption ==
    /\ Local \subseteq Peer
    /\ MaxLife \in Nat /\ DefaultLife \in Nat /\ PermLife \in Nat \ {0} /\ MaxPerms \in Nat
    /\ Limits \subseteq Nat /\ Lifetimes \subseteq Nat /\ Sizes \subseteq Nat
    /\ CpuPerTick \subseteq Nat

VARIABLES
    status,   \* "running", "stopped", or "crashed" by a use of freed memory
    allocs,   \* _allocations: allocs[port], None if there is none
    reply     \* the last response sent: its code (0 for none) and lifetime

vars == <<status, allocs, reply>>

Client == Host \X Port
Lowest(a, b) == IF a <= b THEN a ELSE b

\* No allocation; no LIFETIME attribute; no permission.
None == [limit |-> -1]
Absent == -1

Allocation == [owner : Client,            \* _tuple, its remote address
               age : 0..MaxLife,          \* time since _createdAt
               idle : 0..MaxLife,         \* time since _updatedAt
               life : 0..MaxLife,         \* _lifetime
               limit : Nat,               \* _bandwidthLimit
               used : Nat,                \* _bandwidthUsed
               perms : [Peer -> Nat \cup {Absent}],  \* _permissions, the time each has left
               sent : Nat,                \* bytes relayed (auxiliary)
               due : 0..MaxLife,          \* time left of the lifetime told to the client (auxiliary)
               asked : SUBSET Peer,       \* peers named in its CreatePermission requests (auxiliary)
               late : BOOLEAN,            \* data was relayed past the maximum lifetime (auxiliary)
               stray : BOOLEAN]           \* data was relayed for a peer never asked for (auxiliary)

Codes == {0, 200, 400, 401, 422, 437, 486, 600}

TypeOK ==
    /\ status \in {"running", "stopped", "crashed"}
    /\ allocs \in [Port -> Allocation \cup {None}]
    /\ reply \in [code : Codes, life : 0..MaxLife]

Init ==
    /\ status = "stopped"
    /\ allocs = [k \in Port |-> None]
    /\ reply = [code |-> 0, life |-> 0]

Live == {k \in Port : allocs[k] # None}

-----------------------------------------------------------------------------
(* Faulty variants, used to show that the properties can fail.             *)

RefreshedTwice(a, life) == [a EXCEPT !.life = 2 * life, !.idle = 0, !.due = Lowest(life, MaxLife - a.age)]

RefreshedKeepingClock(a, life) == [a EXCEPT !.life = life, !.due = Lowest(life, MaxLife - a.age)]

PermissionByRange(a, p) == a.perms[p] >= Absent \/ p \in Local

ExpiredUnlimited(a) == a.idle >= a.life \/ a.age >= MaxLife

TimerIgnoringAge ==
    /\ status = "running"
    /\ allocs' = [k \in Port |-> IF k \notin Live THEN None
                                 ELSE IF allocs[k].idle >= allocs[k].life THEN None ELSE allocs[k]]
    /\ UNCHANGED <<status, reply>>

-----------------------------------------------------------------------------
(* IAllocation and ServerAllocation.                                       *)

\* timeRemaining() == 0: since the last update, or since the creation.
OutOfTime(a) == a.idle >= a.life \/ a.age >= MaxLife

\* expired(): timeRemaining() == 0 or bandwidthRemaining() == 0.
Expired(a) == OutOfTime(a) \/ (a.limit > 0 /\ a.used >= a.limit)

\* updateUsage().
Used(a, n) ==
    [a EXCEPT !.idle = 0, !.used = IF a.limit = 0 THEN 0 ELSE Lowest(@ + n, a.limit)]

\* setLifetime().
Refreshed(a, life) == [a EXCEPT !.life = life, !.idle = 0, !.due = Lowest(life, MaxLife - a.age)]

\* addPermission() for every address of the request.
Permitted(a, S) ==
    [a EXCEPT !.perms = [p \in Peer |-> IF p \in S THEN PermLife ELSE @[p]],
              !.asked = @ \cup S]

\* removeExpiredPermissions().
Swept(a) == [a EXCEPT !.perms = [p \in Peer |-> IF @[p] = 0 THEN Absent ELSE @[p]]]

\* hasPermission(): an expired permission counts until it is removed, and local
\* addresses need none.
HasPermission(a, p) == a.perms[p] # Absent \/ p \in Local

\* An allocation created for client c, which is told the lifetime.
NewAllocation(c, life, limit) ==
    [owner |-> c, age |-> 0, idle |-> 0, life |-> life, limit |-> limit, used |-> 0,
     perms |-> [p \in Peer |-> Absent], sent |-> 0, due |-> life,
     asked |-> {}, late |-> FALSE, stray |-> FALSE]

\* Data of n bytes goes to or comes from p through the relay (auxiliary).
Relayed(a, p, n) ==
    [a EXCEPT !.sent = IF a.limit = 0 THEN 0 ELSE @ + n,
              !.late = @ \/ a.age >= MaxLife,
              !.stray = @ \/ p \notin a.asked \cup Local]

Set(k, a) == allocs' = [allocs EXCEPT ![k] = a]
Free(k) == allocs' = [allocs EXCEPT ![k] = None]
Respond(code) == reply' = [code |-> code, life |-> 0]
RespondLife(life) == reply' = [code |-> 200, life |-> life]

-----------------------------------------------------------------------------
(* Requests of client c.                                                   *)

\* Refused whatever the state: not authorized, over the observer's quota, or
\* attributes missing or not supported; or a Binding request.
Stateless(c) ==
    /\ status = "running"
    /\ \E code \in {200, 400, 401, 422, 486} : Respond(code)
    /\ UNCHANGED <<status, allocs>>

\* handleAllocateRequest(): life is the LIFETIME attribute or Absent.
Allocate(c, life) ==
    LET k == c[2]
        top == Lowest(MaxLife, DefaultLife)
        granted == IF life = Absent THEN top ELSE Lowest(top, life)
    IN  /\ status = "running"
        /\ \/ k \in Live /\ Respond(437) /\ UNCHANGED allocs
           \/ /\ k \notin Live
              /\ \E limit \in Limits : Set(k, NewAllocation(c, granted, limit))
              /\ RespondLife(granted)
        /\ UNCHANGED status

\* The allocation that handles a request, unless it has expired (600) or there is
\* none (437).
Mismatch(c) ==
    /\ status = "running" /\ c[2] \notin Live
    /\ Respond(437)
    /\ UNCHANGED <<status, allocs>>

Unsupported(c) ==
    /\ status = "running" /\ c[2] \in Live
    /\ Respond(600)
    /\ UNCHANGED <<status, allocs>>

Handles(c) == status = "running" /\ c[2] \in Live /\ ~Expired(allocs[c[2]])

\* handleRefreshRequest(), without the attribute: no response.
RefreshIgnored(c) ==
    /\ Handles(c)
    /\ UNCHANGED vars

Refresh(c, life) ==
    LET k == c[2]
        desired == Lowest(MaxLife, life)
    IN  /\ Handles(c) /\ desired > 0
        /\ Set(k, Refreshed(allocs[k], desired))
        /\ RespondLife(desired)
        /\ UNCHANGED status

\* A lifetime of 0: delete this, and then respond through the member _server.
RefreshZero(c, life) ==
    /\ Handles(c) /\ Lowest(MaxLife, life) = 0
    /\ Free(c[2])
    /\ \/ RespondLife(0) /\ UNCHANGED status
       \/ status' = "crashed" /\ UNCHANGED reply

\* handleCreatePermission(): the addresses of the request, up to MaxPerms.
CreatePermission(c, S) ==
    /\ Handles(c)
    /\ Cardinality(S) <= MaxPerms
    /\ \/ S = {} /\ Respond(400) /\ UNCHANGED allocs
       \/ S # {} /\ Respond(200) /\ Set(c[2], Permitted(allocs[c[2]], S))
    /\ UNCHANGED status

\* UDPAllocation::handleRequest() passes a Send indication on although
\* ServerAllocation has refused it as expired.  handleSendIndication(): usage is
\* counted first; over the quota, or if the socket refuses the data, the
\* allocation is deleted.
SendIndication(c, p, n) ==
    LET k == c[2]
        a == Used(allocs[k], n)
    IN  /\ status = "running" /\ k \in Live
        /\ \/ ~HasPermission(allocs[k], p) /\ UNCHANGED <<allocs, reply>>
           \/ /\ HasPermission(allocs[k], p) /\ ~Expired(a)
              /\ Set(k, Relayed(a, p, n)) /\ UNCHANGED reply
           \/ /\ HasPermission(allocs[k], p)
              /\ Free(k) /\ Respond(486)
        /\ UNCHANGED status

\* onPeerDataReceived() of the allocation at k.
PeerData(k, p, n) ==
    LET a == Used(allocs[k], n)
    IN  /\ status = "running" /\ k \in Live
        /\ HasPermission(allocs[k], p)
        /\ Set(k, IF Expired(a) THEN a ELSE Relayed(a, p, n))
        /\ UNCHANGED <<status, reply>>

-----------------------------------------------------------------------------
(* The server and the clock.                                               *)

\* onTimer(): delete the expired allocations, sweep the others.
OnTimer ==
    /\ status = "running"
    /\ allocs' = [k \in Port |-> IF k \notin Live THEN None
                                 ELSE IF Expired(allocs[k]) THEN None ELSE Swept(allocs[k])]
    /\ UNCHANGED <<status, reply>>

Start ==
    /\ status = "stopped"
    /\ status' = "running"
    /\ UNCHANGED <<allocs, reply>>

\* stop(): delete the allocations, close the sockets.
Stop ==
    /\ status = "running"
    /\ status' = "stopped"
    /\ allocs' = [k \in Port |-> None]
    /\ UNCHANGED reply

\* A second passes, in which the process uses cpu units of processor time.
Aged(a, cpu) ==
    [a EXCEPT !.age = Lowest(@ + 1, MaxLife),
              !.idle = Lowest(@ + 1, MaxLife),
              !.due = IF @ = 0 THEN 0 ELSE @ - 1,
              !.perms = [p \in Peer |-> IF @[p] = Absent THEN Absent
                                        ELSE IF @[p] < cpu THEN 0 ELSE @[p] - cpu]]

Tick(cpu) ==
    /\ status = "running"
    /\ allocs' = [k \in Port |-> IF k \in Live THEN Aged(allocs[k], cpu) ELSE None]
    /\ UNCHANGED <<status, reply>>

Request(c) ==
    \/ Stateless(c) \/ Mismatch(c) \/ Unsupported(c) \/ RefreshIgnored(c)
    \/ \E life \in Lifetimes \cup {Absent} : Allocate(c, life)
    \/ \E life \in Lifetimes : Refresh(c, life) \/ RefreshZero(c, life)
    \/ \E S \in SUBSET Peer : CreatePermission(c, S)
    \/ \E p \in Peer, n \in Sizes : SendIndication(c, p, n)

Clock == \E cpu \in CpuPerTick : Tick(cpu)

Next ==
    \/ \E c \in Client : Request(c)
    \/ \E k \in Port, p \in Peer, n \in Sizes : PeerData(k, p, n)
    \/ OnTimer \/ Start \/ Stop
    \/ Clock

Spec == Init /\ [][Next]_vars

\* Time passes and the timer fires.  Nothing is assumed of clients and peers.
FairSpec == Spec /\ WF_vars(Clock) /\ WF_vars(OnTimer)

-----------------------------------------------------------------------------
(* Properties.                                                             *)

\* Usage is counted before the limit is tested, on two paths, and traffic revives
\* an allocation whose time has run out: still, the bytes relayed through an
\* allocation stay below its limit ("Check that we have not exceeded our lifetime
\* and bandwidth quota").
QuotaKept == \A k \in Live : allocs[k].limit > 0 => allocs[k].sent < allocs[k].limit

\* Nor is anything relayed once the maximum lifetime since the creation is over,
\* however often the allocation is refreshed or used.
NoRelayPastMax == \A k \in Live : ~allocs[k].late

\* Data is relayed only for peers with a local address and for those that a
\* CreatePermission request named since this allocation was created, not for those
\* an earlier allocation of the port had permissions for.
OnlyPermitted == \A k \in Live : ~allocs[k].stray

\* The timer does not take an allocation from a client earlier than it was told:
\* until the lifetime of the last Allocate or Refresh response is over, or the
\* maximum since the creation, only the quota ends it.
PromiseKept ==
    [][\A k \in Live \ Live' :
          OnTimer => allocs[k].due = 0
                     \/ (allocs[k].limit > 0 /\ allocs[k].used >= allocs[k].limit)]_vars

\* No allocation lives for ever: it is deleted in the end although both traffic
\* and refreshes restart its time.
AllocationEnds == \A k \in Port : (k \in Live) ~> (k \notin Live \/ status = "crashed")
=============================================================================

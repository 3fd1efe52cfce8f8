------------------------------ MODULE TurnTcp ------------------------------
(***************************************************************************)
(* TURN over TCP: the relay connections of turn::TCPClient                 *)
(* (turn/src/client/tcpclient.cpp), the TCPAllocation and its              *)
(* TCPConnectionPairs at the server (turn/src/server/tcpallocation.cpp,    *)
(* tcpconnectionpair.cpp), the server's table of sockets (server.cpp), and *)
(* the peers that connect to the relayed address, from the Allocate        *)
(* success on.  Connect requests are left out: doPeerConnect()             *)
(* dereferences the client socket the pair does not have yet.              *)
(*                                                                         *)
(* A TCP stream is a sequence of writes, of which one read may take        *)
(* several.  _tcpSockets is a vector of SocketEmitters, each registered in *)
(* its socket by its address: wired[s] is the element that hears socket s. *)
(* With two peers the vector does not grow after a release.                *)
(***************************************************************************)
EXTENDS Integers, Sequences, SequencesExt, FiniteSets

CONSTANTS
    RelayPeer,   \* peers, each connecting once
    Control,     \* the control connection
    Talkers,     \* those whose connections carry data
    MaxPeerSends, MaxClientSends   \* bounds on the writes at the two ends of such a connection

VARIABLES
    rel,         \* rel[p]: the connection of peer p through the relay
    control,     \* control connection: ConnectionAttempts in flight, and the two ends
    sockets,     \* _tcpSockets of the server
    wired        \* wired[s]: position of the emitter registered in socket s, 0 if none

tcpvars == <<rel, control, sockets, wired>>

\* Writes: data is numbered from 1.
Bind == 0
Ok == 0
Error400 == -1
Eof == -2

\* peer: the peer's end.  pair: the TCPConnectionPair.  conn: the client's
\* relay connection.  p2s, s2p, c2s, s2c: the streams.  got, pgot: what the
\* observer and the peer received; lost: read with the bind response
\* (auxiliary).
NewRelay ==
    [ peer |-> "none", pair |-> "none", conn |-> "none", early |-> <<>>,
      p2s |-> <<>>, s2p |-> <<>>, c2s |-> <<>>, s2c |-> <<>>,
      np |-> 0, nc |-> 0, got |-> <<>>, pgot |-> <<>>, lost |-> {}, answered |-> FALSE ]

TcpInit ==
    /\ rel = [p \in RelayPeer |-> NewRelay]
    /\ control = [attempts |-> <<>>, client |-> "open", alloc |-> "open"]
    /\ sockets = <<Control>>
    /\ wired = [s \in RelayPeer \cup {Control} |-> IF s = Control THEN 1 ELSE 0]

-----------------------------------------------------------------------------
(* A faulty variant, used to show that the properties can fail.            *)

FlushNothing(r) ==
    [r EXCEPT !.s2c = Append(@, Ok), !.pair = "bound", !.answered = TRUE]

-----------------------------------------------------------------------------
(* The server's table of sockets.                                          *)

Position(s) == CHOOSE i \in DOMAIN sockets : sockets[i] = s
Listed(s) == \E i \in DOMAIN sockets : sockets[i] = s
Hears(s) == wired[s] # 0

onTCPAcceptConnection(s) ==
    /\ sockets' = Append(sockets, s)
    /\ wired' = [wired EXCEPT ![s] = Len(sockets) + 1]

\* vector::erase() assigns each later element to the one before it, which
\* registers nothing, and destroys the last, which unregisters itself.
releaseTCPSocket(s) ==
    IF Listed(s)
    THEN /\ sockets' = RemoveAt(sockets, Position(s))
         /\ wired' = [wired EXCEPT ![Last(sockets)] = IF @ = Len(sockets) THEN 0 ELSE @]
    ELSE UNCHANGED <<sockets, wired>>

-----------------------------------------------------------------------------
(* Connection pairs.                                                       *)

\* ~TCPConnectionPair(): both sockets are closed.
DeletePair(r) ==
    [r EXCEPT !.pair = "gone", !.early = <<>>,
              !.s2p = Append(@, Eof),
              !.s2c = IF r.pair = "bound" THEN Append(@, Eof) ELSE @]

\* setClientSocket() and makeDataConnection(), after the response.
makeDataConnection(r) ==
    [r EXCEPT !.s2c = Append(@, Ok) \o r.early, !.pair = "bound", !.early = <<>>,
              !.answered = TRUE]

respondError(r) == [r EXCEPT !.s2c = Append(@, Error400), !.answered = TRUE]

onPeerDataReceived(r, item) ==
    IF r.pair # "bound" THEN [r EXCEPT !.early = Append(@, item)]
    ELSE IF control.alloc = "deleted" THEN r
    ELSE [r EXCEPT !.s2c = Append(@, item)]

onClientDataReceived(r, item) ==
    IF control.alloc = "deleted" THEN r ELSE [r EXCEPT !.s2p = Append(@, item)]

\* onPeerAccept(): a pair is made and the client is told.
onPeerAccept(p) ==
    /\ rel[p].peer = "none" /\ control.alloc # "gone"
    /\ rel' = [rel EXCEPT ![p].peer = "open", ![p].pair = "pending"]
    /\ control' = [control EXCEPT !.attempts = Append(@, p)]
    /\ UNCHANGED <<sockets, wired>>

\* The server reads from the peer.
ReadPeer(p) ==
    LET r == rel[p]
        d == [r EXCEPT !.p2s = Tail(@)]
    IN
    /\ r.pair \in {"pending", "bound"} /\ r.p2s # <<>>
    /\ rel' = [rel EXCEPT ![p] = IF Head(r.p2s) = Eof THEN DeletePair(d)
                                 ELSE onPeerDataReceived(d, Head(r.p2s))]
    /\ UNCHANGED <<control, sockets, wired>>

handleConnectionBindRequest(p) ==
    LET r == rel[p]
        d == [r EXCEPT !.c2s = Tail(@)]
    IN
    /\ r.c2s # <<>> /\ Head(r.c2s) = Bind
    /\ IF Hears(p) /\ r.pair = "pending"
       THEN rel' = [rel EXCEPT ![p] = makeDataConnection(d)] /\ releaseTCPSocket(p)
       ELSE /\ rel' = [rel EXCEPT ![p] = IF Hears(p) THEN respondError(d) ELSE d]
            /\ UNCHANGED <<sockets, wired>>
    /\ UNCHANGED control

\* Data and the end of a data connection; the latter also reaches the emitter
\* of the server's table that is registered in the socket, if there is one.
ReadClient(p) ==
    LET r == rel[p]
        d == [r EXCEPT !.c2s = Tail(@)]
    IN
    /\ r.c2s # <<>> /\ Head(r.c2s) # Bind
    /\ rel' = [rel EXCEPT ![p] = IF r.pair # "bound" THEN d
                                 ELSE IF Head(r.c2s) = Eof THEN DeletePair(d)
                                 ELSE onClientDataReceived(d, Head(r.c2s))]
    /\ IF Head(r.c2s) = Eof /\ Hears(p) THEN releaseTCPSocket(p) ELSE UNCHANGED <<sockets, wired>>
    /\ UNCHANGED control

onControlClosed ==
    /\ control.client = "closed" /\ control.alloc = "open"
    /\ control' = [control EXCEPT !.alloc = "deleted"]
    /\ UNCHANGED <<rel, sockets, wired>>

\* Server::onTimer() deletes the allocation, and with it the pairs.
onServerTimer ==
    /\ control.alloc = "deleted"
    /\ control' = [control EXCEPT !.alloc = "gone"]
    /\ rel' = [p \in RelayPeer |-> IF rel[p].pair \in {"pending", "bound"}
                                   THEN DeletePair(rel[p]) ELSE rel[p]]
    /\ UNCHANGED <<sockets, wired>>

-----------------------------------------------------------------------------
(* The client.                                                             *)

\* freeConnection() releases the socket, which closes it.
freeConnection(r) == [r EXCEPT !.c2s = Append(@, Eof), !.conn = "freed"]

\* The observer accepts the connection, or not.
handleConnectionAttemptIndication ==
    /\ control.client = "open" /\ control.attempts # <<>>
    /\ control' = [control EXCEPT !.attempts = Tail(@)]
    /\ \/ rel' = [rel EXCEPT ![Head(control.attempts)].conn = "connecting"]
       \/ UNCHANGED rel
    /\ UNCHANGED <<sockets, wired>>

onRelayConnectionConnect(p) ==
    /\ rel[p].conn = "connecting"
    /\ rel' = [rel EXCEPT ![p] = [rel[p] EXCEPT !.c2s = Append(@, Bind), !.conn = "binding"]]
    /\ onTCPAcceptConnection(p)
    /\ UNCHANGED control

\* onRelayConnectionError(), and onRelayConnectionClosed() after it.
onRelayConnectionError(p) ==
    /\ rel[p].conn = "connecting"
    /\ rel' = [rel EXCEPT ![p].conn = "freed"]
    /\ UNCHANGED <<control, sockets, wired>>

\* One read takes the first k writes.  The transaction that takes the response
\* stops the propagation of the read, and with it of the data behind it.
handleConnectionBindResponse(p, k) ==
    LET r == rel[p] IN
    /\ r.conn = "binding" /\ k \in DOMAIN r.s2c /\ Head(r.s2c) = Ok
    /\ \A i \in 2..k : r.s2c[i] # Eof
    /\ rel' = [rel EXCEPT ![p] = [r EXCEPT !.conn = "bound", !.s2c = SubSeq(r.s2c, k + 1, Len(r.s2c)),
                                           !.lost = {r.s2c[i] : i \in 2..k}]]
    /\ UNCHANGED <<control, sockets, wired>>

handleConnectionBindErrorResponse(p) ==
    /\ rel[p].conn = "binding" /\ rel[p].s2c # <<>> /\ Head(rel[p].s2c) = Error400
    /\ rel' = [rel EXCEPT ![p] = freeConnection([rel[p] EXCEPT !.s2c = Tail(@)])]
    /\ UNCHANGED <<control, sockets, wired>>

\* The ConnectionBind times out: the client fails, the connection stays, deaf.
onBindTimeout(p) ==
    /\ rel[p].conn = "binding"
    /\ rel' = [rel EXCEPT ![p].conn = "deaf"]
    /\ UNCHANGED <<control, sockets, wired>>

onRelayDataReceived(p) ==
    LET r == rel[p] IN
    /\ r.conn \in {"bound", "deaf"} /\ r.s2c # <<>> /\ Head(r.s2c) # Eof
    /\ rel' = [rel EXCEPT ![p] = [r EXCEPT !.s2c = Tail(@),
                     !.got = IF r.conn = "deaf" THEN @ ELSE Append(@, Head(r.s2c))]]
    /\ UNCHANGED <<control, sockets, wired>>

onRelayConnectionClosed(p) ==
    /\ rel[p].conn \in {"binding", "bound", "deaf"} /\ rel[p].s2c # <<>> /\ Head(rel[p].s2c) = Eof
    /\ rel' = [rel EXCEPT ![p] = freeConnection([rel[p] EXCEPT !.s2c = Tail(@)])]
    /\ UNCHANGED <<control, sockets, wired>>

\* The application sends on, or closes, a relay connection it was given.
sendRelayData(p) ==
    /\ rel[p].conn = "bound" /\ p \in Talkers /\ rel[p].nc < MaxClientSends
    /\ rel' = [rel EXCEPT ![p] = [rel[p] EXCEPT !.c2s = Append(@, rel[p].nc + 1), !.nc = @ + 1]]
    /\ UNCHANGED <<control, sockets, wired>>

CloseRelay(p) ==
    /\ rel[p].conn = "bound"
    /\ rel' = [rel EXCEPT ![p] = freeConnection(@)]
    /\ UNCHANGED <<control, sockets, wired>>

\* TCPClient::shutdown().
shutdownRelays ==
    /\ control.client = "open"
    /\ control' = [control EXCEPT !.client = "closed", !.attempts = <<>>]
    /\ rel' = [p \in RelayPeer |-> IF rel[p].conn \in {"binding", "bound", "deaf"} THEN freeConnection(rel[p])
                                   ELSE IF rel[p].conn = "connecting" THEN [rel[p] EXCEPT !.conn = "freed"]
                                   ELSE rel[p]]
    /\ UNCHANGED <<sockets, wired>>

-----------------------------------------------------------------------------
(* The peers.                                                              *)

PeerSend(p) ==
    /\ rel[p].peer = "open" /\ p \in Talkers /\ rel[p].np < MaxPeerSends
    /\ rel' = [rel EXCEPT ![p] = [rel[p] EXCEPT !.p2s = Append(@, rel[p].np + 1), !.np = @ + 1]]
    /\ UNCHANGED <<control, sockets, wired>>

PeerClose(p) ==
    /\ rel[p].peer = "open"
    /\ rel' = [rel EXCEPT ![p] = [rel[p] EXCEPT !.p2s = Append(@, Eof), !.peer = "closed"]]
    /\ UNCHANGED <<control, sockets, wired>>

PeerRead(p) ==
    LET r == rel[p] IN
    /\ r.peer = "open" /\ r.s2p # <<>>
    /\ rel' = [rel EXCEPT ![p] = IF Head(r.s2p) = Eof
                                 THEN [r EXCEPT !.s2p = Tail(@), !.peer = "closed"]
                                 ELSE [r EXCEPT !.s2p = Tail(@), !.pgot = Append(@, Head(r.s2p))]]
    /\ UNCHANGED <<control, sockets, wired>>

-----------------------------------------------------------------------------
\* What the event loops of the three programs do when there is something to do.
ServerReads(p) == ReadPeer(p) \/ handleConnectionBindRequest(p) \/ ReadClient(p)
ClientReads(p) ==
    \/ \E k \in DOMAIN rel[p].s2c : handleConnectionBindResponse(p, k)
    \/ handleConnectionBindErrorResponse(p) \/ onRelayDataReceived(p) \/ onRelayConnectionClosed(p)
Connected(p) == onRelayConnectionConnect(p) \/ onRelayConnectionError(p)

TcpNext ==
    \/ \E p \in RelayPeer :
           \/ onPeerAccept(p) \/ ServerReads(p) \/ ClientReads(p) \/ Connected(p)
           \/ onBindTimeout(p) \/ sendRelayData(p) \/ CloseRelay(p)
           \/ PeerSend(p) \/ PeerClose(p) \/ PeerRead(p)
    \/ handleConnectionAttemptIndication \/ shutdownRelays \/ onControlClosed \/ onServerTimer

TcpFairness ==
    /\ \A p \in RelayPeer : WF_tcpvars(ServerReads(p)) /\ WF_tcpvars(ClientReads(p)) /\ WF_tcpvars(PeerRead(p))
    /\ WF_tcpvars(onControlClosed) /\ WF_tcpvars(onServerTimer)

TcpSpec == TcpInit /\ [][TcpNext]_tcpvars /\ TcpFairness

-----------------------------------------------------------------------------
Increasing(s) == \A i, j \in DOMAIN s : i < j => s[i] < s[j]

(* What the peer sends reaches the observer in order, without repetition,  *)
(* and nothing is missing but what was read together with the response to  *)
(* ConnectionBind, early data included (makeDataConnection); what the      *)
(* client sends reaches the peer as it is (onClientDataReceived).          *)
RelayFaithful ==
    \A p \in RelayPeer :
        LET r == rel[p] IN
        /\ Increasing(r.got)
        /\ r.got # <<>> => \A d \in 1..Last(r.got) : d \in ToSet(r.got) \cup r.lost
        /\ r.pgot = [i \in 1..Len(r.pgot) |-> i]

(* The two ends of a data connection close together: when either goes, the *)
(* pair is deleted and the other end is closed (onConnectionClosed).       *)
EndsCloseTogether ==
    \A p \in RelayPeer :
        /\ (rel[p].pair = "bound" /\ rel[p].conn = "freed") ~> rel[p].peer = "closed"
        /\ (rel[p].pair = "bound" /\ rel[p].peer = "closed") ~> rel[p].conn = "freed"
=============================================================================

---------------------------- MODULE SympleClient ----------------------------
(***************************************************************************)
(* The Symple client (symple/src/client.cpp) on the socket.io client it    *)
(* extends (socketio/src/client.cpp), built with NDEBUG: connection, the   *)
(* handshake, the announcement that makes the client Online, presence and  *)
(* the roster, errors and reconnection.  Everything runs on one event      *)
(* loop, so a handler is one action.                                       *)
(*                                                                         *)
(* The WebSocket below is module HttpConnection's business: here a         *)
(* connection opens, delivers what the server sends in order, or breaks.   *)
(* The server answers an announcement, tells of peers, and may send        *)
(* Disconnect messages or Close frames.  Connections are numbered: each    *)
(* connect() begins another.                                               *)
(***************************************************************************)
EXTENDS Integers, Sequences, FiniteSets

CONSTANTS
    Buddy,       \* other peers of the network
    Me,          \* the peer of this client
    MaxConns,    \* bound on the connections
    MaxTold      \* bound on what the server sends on a connection, besides the handshake

VARIABLES
    sio,         \* the client
    link         \* the connection: its number, and the server's end

symplevars == <<sio, link>>

Told == {"on", "off"} \X Buddy \cup {"disconnect", "close", "pong"} \X {Me}

\* socket: of _ws.  retry: _reconnectTimer runs; reconnecting: _reconnecting,
\* which the constructor leaves unset.  status: _announceStatus.  txns: the
\* connections whose announce transaction is running.
NewSession(re) ==
    [ state |-> "Closed", socket |-> "closed", sid |-> FALSE, retry |-> FALSE,
      reconnecting |-> re, wasOnline |-> FALSE, ping |-> FALSE, waiting |-> FALSE,
      status |-> 0, roster |-> {}, txns |-> {}, reconnection |-> TRUE ]

\* in: what the client has yet to read.  asked: an announcement to answer.
\* accepted: it was accepted.  Auxiliary: online, the peers told of so far;
\* shut, a Close frame was read.
NewLink(k) ==
    [ n |-> k, in |-> <<>>, told |-> 0, asked |-> FALSE, accepted |-> FALSE,
      online |-> {}, shut |-> FALSE ]

SympleInit ==
    /\ \E re, rec \in BOOLEAN : sio = [NewSession(re) EXCEPT !.reconnection = rec]
    /\ link = NewLink(0)

-----------------------------------------------------------------------------
(* Faulty variants, used to show that the properties can fail.             *)

ResetKeepsStatus(s) ==
    [s EXCEPT !.roster = {}, !.ping = FALSE, !.waiting = FALSE, !.retry = FALSE,
              !.socket = "closed", !.sid = FALSE]

-----------------------------------------------------------------------------
(* Steps shared by the handlers.                                           *)

\* smpl::Client::reset() and sockio::Client::reset(); the announce
\* transactions run on.
reset(s) ==
    [s EXCEPT !.roster = {}, !.status = 0, !.ping = FALSE, !.waiting = FALSE,
              !.retry = FALSE, !.socket = "closed", !.sid = FALSE]

startReconnectTimer(s) == [s EXCEPT !.retry = TRUE, !.reconnecting = TRUE]

stopReconnectTimer(s) ==
    IF s.reconnecting THEN [s EXCEPT !.retry = FALSE, !.reconnecting = FALSE] ELSE s

onClose(s) == [stopReconnectTimer(s) EXCEPT !.state = "Closed", !.wasOnline = FALSE]

close(s) == IF s.sid THEN onClose(reset(s)) ELSE s

sioSetError(s) ==
    LET e == [s EXCEPT !.state = "Error", !.wasOnline = @ \/ s.state = "Online"]
    IN  IF s.reconnection THEN startReconnectTimer(e) ELSE close(e)

\* sockio::Client::onOnline(), after the announcement; before it announce().
onOnline(s) ==
    IF s.status = 0 THEN [s EXCEPT !.txns = @ \cup {link.n}]
    ELSE [s EXCEPT !.state = "Online", !.ping = TRUE]

onPresenceData(s, on, p) ==
    [s EXCEPT !.roster = IF on THEN @ \cup {p} ELSE @ \ {p}]

-----------------------------------------------------------------------------
(* The application.                                                        *)

Connecting(s) == [reset(s) EXCEPT !.state = "Connecting", !.socket = "connecting"]

connect ==
    /\ sio.state = "Closed" /\ link.n < MaxConns
    /\ sio' = Connecting(sio)
    /\ link' = NewLink(link.n + 1)

Close ==
    /\ sio.state # "Closed"
    /\ sio' = close(sio)
    /\ UNCHANGED link

-----------------------------------------------------------------------------
(* The socket.                                                             *)

sioSocketConnect ==
    /\ sio.socket = "connecting"
    /\ sio' = stopReconnectTimer([sio EXCEPT !.socket = "open", !.state = "Connected"])
    /\ link' = [link EXCEPT !.in = << <<"open", Me>>, <<"connect", Me>> >>]

\* Refused, reset, or the end of the stream; the socket closes after it.
sioSocketError ==
    /\ sio.socket # "closed"
    /\ sio' = [sioSetError(sio) EXCEPT !.socket = "closed"]
    /\ UNCHANGED link

\* The response to the announcement of this connection.
onAnnounceState(s, status) ==
    LET t == [s EXCEPT !.status = status, !.txns = @ \ {link.n}]
    IN  IF status = 200 THEN onOnline(onPresenceData(t, TRUE, Me)) ELSE sioSetError(t)

onPacket(s, m) ==
    CASE m[1] = "open" -> [s EXCEPT !.sid = TRUE]
      [] m[1] = "connect" -> onOnline(s)
      [] m[1] = "accept" -> IF link.n \in s.txns THEN onAnnounceState(s, 200) ELSE s
      [] m[1] = "reject" -> IF link.n \in s.txns THEN onAnnounceState(s, 401) ELSE s
      [] m[1] = "on" -> onPresenceData(s, TRUE, m[2])
      [] m[1] = "off" -> onPresenceData(s, FALSE, m[2])
      [] m[1] = "close" -> reset(s)
      [] OTHER -> s

sioSocketRecv ==
    /\ sio.socket = "open" /\ link.in # <<>>
    /\ sio' = onPacket(sio, Head(link.in))
    /\ link' = [link EXCEPT !.in = Tail(@),
                            !.asked = @ \/ (Head(link.in)[1] = "connect" /\ sio.status = 0),
                            !.shut = @ \/ Head(link.in)[1] = "close"]

-----------------------------------------------------------------------------
(* The timers.                                                             *)

\* A transaction of this or an earlier connection gets no answer in time.
onAnnounceTimeout(k) ==
    /\ k \in sio.txns
    /\ sio' = sioSetError([sio EXCEPT !.txns = @ \ {k}])
    /\ UNCHANGED link

onPingTimer ==
    /\ sio.ping /\ sio.state = "Online" /\ ~sio.waiting
    /\ sio' = [sio EXCEPT !.waiting = TRUE]
    /\ UNCHANGED link

onPingTimeoutTimer ==
    /\ sio.waiting
    /\ sio' = [sio EXCEPT !.waiting = FALSE]
    /\ UNCHANGED link

onReconnectTimer ==
    /\ sio.retry /\ link.n < MaxConns
    /\ sio' = Connecting(sio)
    /\ link' = NewLink(link.n + 1)

-----------------------------------------------------------------------------
(* The server, which this repository does not contain.                     *)

AnswerAnnounce ==
    /\ sio.socket = "open" /\ link.asked
    /\ \E ok \in BOOLEAN :
           link' = [link EXCEPT !.asked = FALSE, !.accepted = ok,
                                !.in = Append(@, <<IF ok THEN "accept" ELSE "reject", Me>>)]
    /\ UNCHANGED sio

\* A peer is told of only to a client that has announced itself.
Tell(m) ==
    /\ sio.socket = "open" /\ link.told < MaxTold /\ link.accepted
    /\ link' = [link EXCEPT !.in = Append(@, m), !.told = @ + 1,
                            !.online = IF m[1] = "on" THEN @ \cup {m[2]} ELSE @]
    /\ UNCHANGED sio

-----------------------------------------------------------------------------
Timers ==
    \/ \E k \in sio.txns : onAnnounceTimeout(k)
    \/ onPingTimer \/ onPingTimeoutTimer \/ onReconnectTimer

SympleNext ==
    \/ connect \/ Close
    \/ sioSocketConnect \/ sioSocketError \/ sioSocketRecv
    \/ Timers \/ AnswerAnnounce \/ \E m \in Told : Tell(m)

\* The loop fires timers and delivers what has arrived.
SympleFairness ==
    /\ WF_symplevars(onReconnectTimer) /\ WF_symplevars(sioSocketRecv)
    /\ WF_symplevars(\E k \in sio.txns : onAnnounceTimeout(k))

SympleSpec == SympleInit /\ [][SympleNext]_symplevars /\ SympleFairness

-----------------------------------------------------------------------------
(* Nothing of an earlier connection survives into the next: an Online      *)
(* client with an open socket was accepted on this connection, and its     *)
(* roster holds only itself and peers told of on it (reset, onOnline,      *)
(* onPresenceData).                                                        *)
SessionIsolated ==
    /\ sio.state = "Online" /\ sio.socket = "open" => link.accepted
    /\ sio.roster \subseteq link.online \cup (IF link.accepted THEN {Me} ELSE {})

(* An error is not the end: a client that reconnects tries again, however  *)
(* often it failed before, unless it is closed or the connections it may   *)
(* make are used up (setError, startReconnectTimer, reset).  The exception *)
(* is the server's Close frame: onPacket() resets, which stops the         *)
(* reconnect timer, and starts nothing in its place.                       *)
ErrorsAreRetried ==
    (sio.state = "Error" /\ sio.reconnection)
        ~> (sio.state # "Error" \/ link.n = MaxConns \/ link.shut)
=============================================================================

--------------------------- MODULE HttpConnection ---------------------------
(***************************************************************************)
(* One HTTP or WebSocket connection between the library's own client       *)
(* (http/src/client.cpp) and server (http/src/server.cpp), with the parts  *)
(* both stand on: Connection and ConnectionAdapter (connection.cpp), the   *)
(* parser's callbacks (parser.cpp), the WebSocket adapter (websocket.cpp)  *)
(* and the stream socket (net/src/tcpsocket.cpp, base/.../stream.h).       *)
(*                                                                         *)
(* Each end runs on its own event loop.  What an end has written is the    *)
(* sequence `sent` of tokens; the other end has read the first `read` of   *)
(* them, and `todo` holds what is left of the read it is handling: while   *)
(* it is not empty that loop does nothing else.  One step handles one      *)
(* token and runs one callback of the application, which may do nothing,   *)
(* send a packet or close the connection there and then.                   *)
(***************************************************************************)
EXTENDS Integers, Sequences, SequencesExt

CONSTANTS
    CliSends,   \* bound on the packets the client's application sends
    SrvSends,   \* bound on the packets the server's application sends
    Eof         \* length of a body that ends with the connection

ASSUME HttpAssumption ==
    CliSends \in Nat /\ SrvSends \in Nat /\ Eof \in Nat \ (0..SrvSends)

VARIABLES
    opt,        \* what the applications and the network chose for this run
    cli,        \* the ClientConnection and its socket
    srv,        \* the ServerConnection and its socket
    listening   \* the server's socket accepts

vars == <<opt, cli, srv, listening>>

Lengths == 0..SrvSends \cup {Eof}

\* up: the Upgrade header of the request.  valid: the handshake headers
\* reach the server as the client wrote them.  cheld, sheld: the
\* application keeps a Ptr to the connection of its own.
Options ==
    { o \in [ up : {"no", "ws", "other"}, valid : BOOLEAN,
              reqLen : 0..CliSends, resLen : Lengths,
              cheld : BOOLEAN, sheld : BOOLEAN ] :
        /\ o.up = "ws" => o.reqLen = 0 /\ o.resLen = 0
        /\ o.up # "ws" => o.valid }

Ws == opt.up = "ws"

Tok(kind, i) == [k |-> kind, id |-> i]

\* The payloads of what an end has written: all after its header.
Ids(s) == [i \in 1..(Len(s) - 1) |-> s[i + 1].id]

\* The states of the TCPSocket, of the Parser, and of the WebSocketFramer
\* (its _headerState).
SocketState == {"none", "idle", "resolving", "connecting", "open", "closed"}
ParserState == {"start", "body", "done"}
FramerState == 0..2

\* The Connection of either end.  hdr is _shouldSendHeader, n counts the packets
\* the application sent, got lists the payloads it received, cb tells that
\* it closed inside a callback, and uaf that the library went on using an
\* object it had destroyed.  The members of ClientConnection follow (completes
\* counts Complete.emit(), late the payloads emitted after Close, est tells that
\* TCP connected), then those of ServerConnection (calls logs the responder's
\* callbacks); the other end leaves them as they are.
NewEnd ==
    [ sock |-> "none", sent |-> <<>>, read |-> 0, todo |-> <<>>,
      prs |-> "start", left |-> 0, hs |-> 0,
      hdr |-> TRUE, closed |-> FALSE, err |-> FALSE, listed |-> FALSE, dead |-> FALSE,
      n |-> 0, got |-> <<>>, cb |-> FALSE, uaf |-> FALSE,
      connect |-> FALSE, active |-> FALSE, complete |-> FALSE, outbuf |-> <<>>,
      completes |-> 0, late |-> 0, est |-> FALSE,
      adapter |-> "http", upgrade |-> FALSE, resp |-> FALSE, calls |-> <<>> ]

Token == [k : {"head", "data", "end", "respond", "part"}, id : Nat]
Written == [k : {"head", "data"}, id : Nat]
Callback == {"headers", "payload", "request", "close"}

End ==
    [ sock : SocketState, sent : Seq(Written), read : Nat, todo : Seq(Token),
      prs : ParserState, left : Int, hs : FramerState,
      hdr : BOOLEAN, closed : BOOLEAN, err : BOOLEAN, listed : BOOLEAN, dead : BOOLEAN,
      n : Nat, got : Seq(Nat), cb : BOOLEAN, uaf : BOOLEAN,
      connect : BOOLEAN, active : BOOLEAN, complete : BOOLEAN, outbuf : Seq(Nat),
      completes : Nat, late : Nat, est : BOOLEAN,
      adapter : {"http", "ws"}, upgrade : BOOLEAN, resp : BOOLEAN, calls : Seq(Callback) ]

TypeOK == opt \in Options /\ cli \in End /\ srv \in End /\ listening \in BOOLEAN

NewClient == [NewEnd EXCEPT !.sock = "idle", !.listed = TRUE, !.hdr = ~Ws]

NewServer == NewEnd

Init ==
    /\ opt \in Options
    /\ cli = NewClient
    /\ srv = NewServer
    /\ listening = TRUE

-----------------------------------------------------------------------------
(* Faulty variants, used to show that the properties can fail.             *)

OnCloseForgetsList(s) ==
    [s EXCEPT !.calls = IF s.resp THEN Append(@, "close") ELSE @]

AnswersClosed(s) == s.resp

HandshakeDropsRest(c, d) == [d EXCEPT !.todo = <<>>]

-----------------------------------------------------------------------------
(* Sending.                                                                *)

\* TCPSocket::send() on a socket that is not open fails and is ignored.
TcpSend(c, toks) ==
    IF c.sock = "open" THEN [c EXCEPT !.sent = @ \o toks] ELSE c

\* Connection::sendHeader(): straight to the socket, once.
SendHeader(c) ==
    IF c.hdr THEN TcpSend([c EXCEPT !.hdr = FALSE], <<Tok("head", 0)>>) ELSE c

\* ConnectionAdapter::send(): the header goes before the first packet.
\* (The WebSocket adapter cleared hdr and frames the packet.)
AdapterSend(c, ids) ==
    TcpSend(SendHeader(c), [i \in 1..Len(ids) |-> Tok("data", ids[i])])

\* Connection::send() of some packets; it asserts that the connection is open.
ConnSend(c, ids) == IF c.closed THEN c ELSE AdapterSend(c, ids)

\* ClientConnection::connect()
CliConnect(c) ==
    IF c.connect THEN c ELSE [c EXCEPT !.connect = TRUE, !.sock = "resolving"]

\* ClientConnection::send(data): buffered until the connection is active.
CliSend(c, i) ==
    LET d == CliConnect(c) IN
    IF d.active THEN ConnSend(d, <<i>>) ELSE [d EXCEPT !.outbuf = Append(@, i)]

-----------------------------------------------------------------------------
(* Closing.                                                                *)

\* Client::removeConnection(): the last reference may be the one in the list.
removeConnection(c) == [c EXCEPT !.listed = FALSE, !.dead = ~opt.cheld]

\* ClientConnection::onClose(): Complete.emit() if it is still due, then Close.
CliOnClose(c) ==
    removeConnection([c EXCEPT !.completes = IF c.complete THEN @ ELSE @ + 1,
                               !.complete = TRUE])

\* Server::onConnectionClose()
onConnectionClose(s) == [s EXCEPT !.listed = FALSE, !.dead = ~opt.sheld]

\* ServerConnection::onClose()
SrvOnClose(s) ==
    onConnectionClose([s EXCEPT !.calls = IF s.resp THEN Append(@, "close") ELSE @])

\* Stream::close(), and what its onClose() does to the WebSocket framer.
CloseSocket(c) == [c EXCEPT !.closed = TRUE, !.sock = "closed", !.hs = 0]

\* Connection::close()
CliClose(c) == IF c.closed THEN c ELSE CliOnClose(CloseSocket(c))
SrvClose(s) == IF s.closed THEN s ELSE SrvOnClose(CloseSocket(s))

-----------------------------------------------------------------------------
(* What the application does in a callback, or from elsewhere on the loop. *)

App == {"none", "send", "close"}

CanSend(c) == ~c.closed /\ ~c.dead

CliMay(c, a) == /\ a = "send" => CanSend(c) /\ c.n < CliSends
                /\ a = "close" => ~c.closed /\ ~c.dead

\* The WebSocket adapter asserts that the handshake is complete.
SrvMay(s, a) == /\ a = "send" => CanSend(s) /\ s.n < SrvSends /\ (s.adapter = "ws" => s.hs = 2)
                /\ a = "close" => ~s.closed /\ ~s.dead

CliApp(c, a) ==
    CASE a = "send"  -> CliSend([c EXCEPT !.n = @ + 1], c.n + 1)
      [] a = "close" -> [CliClose(c) EXCEPT !.cb = TRUE]
      [] OTHER       -> c

SrvApp(s, a) ==
    CASE a = "send"  -> ConnSend([s EXCEPT !.n = @ + 1], <<s.n + 1>>)
      [] a = "close" -> [SrvClose(s) EXCEPT !.cb = TRUE]
      [] OTHER       -> s

\* Back in the parser or the framer, with `rest` still to handle.  When the
\* callback destroyed the connection the HTTP parser reads on in the buffer
\* of the destroyed socket; the WebSocket adapter keeps its socket.
Continue(c, rest, ws) ==
    IF c.dead THEN [c EXCEPT !.todo = <<>>, !.uaf = @ \/ (rest # <<>> /\ ~ws)]
              ELSE [c EXCEPT !.todo = rest]

-----------------------------------------------------------------------------
(* The client.                                                             *)

\* ClientConnection::onSocketConnect(): Connect.emit(), then the packets
\* buffered so far, or the header alone.
Flush(c) ==
    IF c.outbuf = <<>> THEN SendHeader(c)
    ELSE [ConnSend(c, c.outbuf) EXCEPT !.outbuf = <<>>]

CliOnConnect(c, a) ==
    LET d == CliApp([c EXCEPT !.active = TRUE], a) IN
    IF d.dead THEN [d EXCEPT !.uaf = TRUE] ELSE Flush(d)

\* Faulty: closing there, before the socket has finished with its error.
OnSocketErrorCloses(c, eof) ==
    CliClose([c EXCEPT !.err = ~eof])

\* Connection::onSocketError(): an error other than the end of the stream
\* is noted, and the connection waits for the socket to close.
OnSocketError(c, eof) == [c EXCEPT !.err = ~eof]

\* TCPSocket::onError(): first the receivers, then the socket is closed.
CliError(c, eof) ==
    LET d == OnSocketError([c EXCEPT !.todo = <<>>], eof) IN
    IF d.dead THEN [d EXCEPT !.uaf = TRUE] ELSE CliClose(d)

\* The name is resolved, or is not.
Resolve(ok) ==
    /\ cli.sock = "resolving"
    /\ cli' = IF ok THEN [cli EXCEPT !.sock = "connecting"] ELSE CliError(cli, FALSE)
    /\ UNCHANGED <<opt, srv, listening>>

\* The connect request completes; a closed socket's context is deleted and
\* the answer ignored.  A WebSocket client sends its handshake first.
ConnectDone(ok, a) ==
    /\ cli.sock = "connecting"
    /\ ok => listening
    /\ CliMay(cli, a) /\ ((~ok \/ Ws) => a = "none")
    /\ LET c == [cli EXCEPT !.sock = "open", !.est = TRUE] IN
       cli' = IF ~ok THEN CliError(cli, FALSE)
              ELSE IF Ws THEN TcpSend([c EXCEPT !.hs = 1], <<Tok("head", 0)>>)
              ELSE CliOnConnect(c, a)
    /\ UNCHANGED <<opt, srv, listening>>

\* ConnectionAdapter::onSocketRecv() drops what follows a complete message.
\* A read may end inside a WebSocket frame or handshake response.
Dropped(c, ws) == ~ws /\ c.prs = "done"

Cut(s) == [s EXCEPT ![Len(s)] = Tok("part", 0)]

CliRead(k, cut) ==
    /\ cli.sock = "open" /\ cli.todo = <<>>
    /\ k \in 1..(Len(srv.sent) - cli.read)
    /\ cut => Ws
    /\ LET toks == SubSeq(srv.sent, cli.read + 1, cli.read + k) IN
       cli' = [cli EXCEPT !.read = @ + k,
                          !.todo = IF Dropped(cli, Ws) THEN <<>>
                                   ELSE IF cut THEN Cut(toks) ELSE toks]
    /\ UNCHANGED <<opt, srv, listening>>

\* A response header: Headers.emit().
CliOnHeaders(a) ==
    LET c == CliApp([cli EXCEPT !.prs = "body", !.left = opt.resLen], a)
        end == IF opt.resLen = 0 THEN <<Tok("end", 0)>> ELSE <<>>
    IN  cli' = Continue(c, end \o Tail(cli.todo), FALSE)

\* WebSocketAdapter::handleClientResponse(): the frames that came in the
\* same read as the handshake answer are handled next.
AfterHandshake(c, d) == Continue(d, Tail(c.todo), TRUE)

\* A refused handshake throws, and the socket is given the error.
Refused(c) == CliError(c, FALSE)

CliOnHandshake(a) ==
    cli' = IF opt.valid THEN AfterHandshake(cli, CliOnConnect([cli EXCEPT !.hs = 2], a))
                        ELSE Refused(cli)

\* What http_parser expects after a chunk of a body with `left` to come.
Remaining(left) == IF left = Eof THEN Eof ELSE left - 1

\* A body chunk or a frame: Payload.emit(), closed or not.
CliOnPayload(a) ==
    LET left == Remaining(cli.left)
        c == [cli EXCEPT !.got = Append(@, Head(cli.todo).id),
                         !.late = IF cli.closed THEN @ + 1 ELSE @,
                         !.left = IF Ws THEN 0 ELSE left]
        end == IF ~Ws /\ left = 0 THEN <<Tok("end", 0)>> ELSE <<>>
    IN  cli' = Continue(CliApp(c, a), end \o Tail(cli.todo), Ws)

\* ClientConnection::onComplete(): Complete.emit().
CliOnComplete(a) ==
    LET c == [cli EXCEPT !.prs = "done", !.complete = TRUE, !.completes = @ + 1]
    IN  cli' = Continue(CliApp(c, a), Tail(cli.todo), FALSE)

CliBodyDue == Ws \/ cli.prs = "body"

CliStep(a) ==
    /\ cli.todo # <<>> /\ CliMay(cli, a)
    /\ LET k == Head(cli.todo).k IN
       \/ k = "head" /\ ~Ws /\ CliOnHeaders(a)
       \/ k = "head" /\ Ws /\ (opt.valid \/ a = "none") /\ CliOnHandshake(a)
       \/ k = "data" /\ CliBodyDue /\ CliOnPayload(a)
       \/ k = "end" /\ CliOnComplete(a)
       \* ConnectionAdapter::onParserError(), or a frame cut short
       \/ a = "none" /\ (k = "part" \/ (k = "data" /\ ~CliBodyDue)) /\ cli' = CliError(cli, FALSE)
    /\ UNCHANGED <<opt, srv, listening>>

\* The server end is gone: its socket closed, or never to be accepted.
SrvGone == srv.sock = "closed" \/ (srv.sock = "none" /\ ~listening)

\* handleRead() with an error: the end of the stream, or a reset when the
\* peer closed without reading everything.
CliEof ==
    /\ cli.sock = "open" /\ cli.todo = <<>> /\ SrvGone
    /\ \/ cli.read = Len(srv.sent) /\ cli' = CliError(cli, TRUE)
       \/ srv.read < Len(cli.sent) /\ cli' = CliError(cli, FALSE)
    /\ UNCHANGED <<opt, srv, listening>>

\* Calls from outside the connection's callbacks: send(), send(data),
\* close() and Client::shutdown().
CliCall(a) ==
    /\ cli.todo = <<>> /\ CliMay(cli, a) /\ ~cli.closed
    /\ cli' = CASE a = "none"  -> CliConnect(cli)
                [] a = "send"  -> CliApp(cli, a)
                [] a = "close" -> CliClose(cli)
    /\ cli' # cli
    /\ UNCHANGED <<opt, srv, listening>>

-----------------------------------------------------------------------------
(* The server.                                                             *)

\* TCPSocket::acceptConnection() and Server::onClientSocketAccept().
Accept ==
    /\ srv.sock = "none" /\ listening /\ cli.est
    /\ srv' = [srv EXCEPT !.sock = "open", !.listed = TRUE]
    /\ UNCHANGED <<opt, cli, listening>>

\* Server::shutdown() closes the listening socket only.
Shutdown ==
    /\ listening
    /\ listening' = FALSE
    /\ UNCHANGED <<opt, cli, srv>>

SrvWs == srv.adapter = "ws"

SrvRead(k, cut) ==
    /\ srv.sock = "open" /\ srv.todo = <<>>
    /\ k \in 1..(Len(cli.sent) - srv.read)
    /\ cut => SrvWs
    /\ LET toks == SubSeq(cli.sent, srv.read + 1, srv.read + k) IN
       srv' = [srv EXCEPT !.read = @ + k,
                          !.todo = IF Dropped(srv, SrvWs) THEN <<>>
                                   ELSE IF cut THEN Cut(toks) ELSE toks]
    /\ UNCHANGED <<opt, cli, listening>>

SrvError(s, eof) ==
    LET d == OnSocketError([s EXCEPT !.todo = <<>>], eof) IN
    IF d.dead THEN [d EXCEPT !.uaf = TRUE] ELSE SrvClose(d)

\* ws::ConnectionAdapter replaces the HTTP adapter inside the parser's
\* callback and answers the handshake, successful or not.
SrvUpgrade(s) ==
    TcpSend([s EXCEPT !.adapter = "ws", !.hdr = FALSE, !.prs = "done",
                      !.hs = IF opt.valid THEN 2 ELSE 0], <<Tok("head", 0)>>)

\* ServerConnection::onHeaders() up to the Connection signal.  After an
\* upgrade the parser ignores the rest of the read.
SrvOnHeaders(a) ==
    LET s0 == [srv EXCEPT !.prs = "body", !.left = opt.reqLen,
                          !.upgrade = opt.up # "no"]
        s1 == IF Ws THEN SrvUpgrade(s0) ELSE s0
        end == IF opt.up = "other" \/ (opt.up = "no" /\ opt.reqLen = 0)
               THEN <<Tok("end", 0)>> ELSE <<>>
        rest == IF opt.up = "no" THEN Tail(srv.todo) ELSE <<>>
    IN  /\ SrvMay(s1, a)
        /\ srv' = Continue(SrvApp(s1, a), <<Tok("respond", 0)>> \o end \o rest, FALSE)

\* The rest of onHeaders(): the responder, if the factory makes one.
SrvRespond(a, made) ==
    LET s == [srv EXCEPT !.resp = made,
                         !.calls = IF made /\ ~srv.upgrade THEN Append(@, "headers") ELSE @]
    IN  /\ a # "none" => made /\ ~srv.upgrade
        /\ srv' = Continue(SrvApp(s, a), Tail(srv.todo), SrvWs)

\* ServerConnection::onPayload(); a closed connection drops it.
SrvOnPayload(a) ==
    LET left == IF SrvWs THEN 0 ELSE Remaining(srv.left)
        s == [srv EXCEPT !.left = left,
                         !.got = IF srv.closed THEN @ ELSE Append(@, Head(srv.todo).id),
                         !.calls = IF srv.closed \/ ~srv.resp THEN @ ELSE Append(@, "payload")]
        end == IF ~SrvWs /\ left = 0 THEN <<Tok("end", 0)>> ELSE <<>>
    IN  srv' = Continue(SrvApp(s, a), end \o Tail(srv.todo), SrvWs)

\* ServerConnection::onComplete(): the request is given to the responder
\* unless an earlier callback closed the connection.
Answers(s) == ~s.closed /\ s.resp

SrvOnComplete(a) ==
    LET s == [srv EXCEPT !.prs = "done",
                         !.calls = IF Answers(srv) THEN Append(@, "request") ELSE @]
    IN  /\ Answers(srv) \/ a = "none"
        /\ srv' = Continue(SrvApp(s, a), Tail(srv.todo), SrvWs)

\* A body is due, or a frame while the framer is past its handshake (or
\* in the loop that was when an earlier frame's callback closed).
SrvBodyDue == IF SrvWs THEN srv.hs = 2 \/ srv.closed ELSE srv.prs = "body"

SrvStep(a) ==
    /\ srv.todo # <<>> /\ SrvMay(srv, a)
    /\ LET k == Head(srv.todo).k IN
       \/ k = "head" /\ SrvOnHeaders(a)
       \/ k = "respond" /\ \E made \in BOOLEAN : SrvRespond(a, made)
       \/ k = "data" /\ SrvBodyDue /\ SrvOnPayload(a)
       \/ k = "end" /\ SrvOnComplete(a)
       \/ a = "none" /\ (k = "part" \/ (k = "data" /\ ~SrvBodyDue)) /\ srv' = SrvError(srv, FALSE)
    /\ UNCHANGED <<opt, cli, listening>>

SrvEof ==
    /\ srv.sock = "open" /\ srv.todo = <<>> /\ cli.sock = "closed"
    /\ \/ srv.read = Len(cli.sent) /\ srv' = SrvError(srv, TRUE)
       \/ cli.read < Len(srv.sent) /\ srv' = SrvError(srv, FALSE)
    /\ UNCHANGED <<opt, cli, listening>>

\* The application learned of the connection from the Connection signal.
SrvCall(a) ==
    /\ srv.todo = <<>> /\ srv.prs # "start" /\ SrvMay(srv, a) /\ ~srv.closed
    /\ srv' = IF a = "close" THEN SrvClose(srv) ELSE SrvApp(srv, a)
    /\ srv' # srv
    /\ UNCHANGED <<opt, cli, listening>>

-----------------------------------------------------------------------------
\* Reads, callbacks and the network's answers happen, on either loop; the
\* applications' calls need not.
CliLoop ==
    \/ \E ok \in BOOLEAN : Resolve(ok)
    \/ \E ok \in BOOLEAN, a \in App : ConnectDone(ok, a)
    \/ \E k \in 1..(SrvSends + 1), cut \in BOOLEAN : CliRead(k, cut)
    \/ \E a \in App : CliStep(a)
    \/ CliEof

SrvLoop ==
    \/ Accept
    \/ \E k \in 1..(CliSends + 1), cut \in BOOLEAN : SrvRead(k, cut)
    \/ \E a \in App : SrvStep(a)
    \/ SrvEof

Next ==
    \/ CliLoop
    \/ SrvLoop
    \/ \E a \in App : CliCall(a) \/ SrvCall(a)
    \/ Shutdown

Fairness == WF_vars(CliLoop) /\ WF_vars(SrvLoop)

Spec == Init /\ [][Next]_vars /\ Fairness

-----------------------------------------------------------------------------
(* Properties                                                              *)

HeadFirst(s) == \A i \in 1..Len(s) : s[i].k = "head" <=> i = 1

\* Each end writes its header (or its half of the WebSocket handshake)
\* once and before anything else, however its sends, the Connect callback,
\* the buffered packets, the upgrade and close() interleave; and what an
\* application receives is what the other one wrote, in order and with
\* nothing missing before the last payload, whatever reads the packets were
\* joined or cut into.
StreamFaithful ==
    /\ HeadFirst(cli.sent) /\ HeadFirst(srv.sent)
    /\ IsPrefix(cli.got, Ids(srv.sent)) /\ IsPrefix(srv.got, Ids(cli.sent))

\* A client connection completes exactly once before its Close and emits
\* nothing afterwards, whether the response ended, the peer vanished, the
\* connect failed or the parser gave up.  The exception is known: a client
\* that closes inside a callback with more of the read to come.
CompletesOnce ==
    ~cli.cb => /\ cli.completes = (IF cli.complete THEN 1 ELSE 0)
               /\ cli.closed => cli.complete
               /\ cli.late = 0

Rank(c) == CASE c = "headers" -> 1 [] c = "payload" -> 2
             [] c = "request" -> 3 [] c = "close" -> 4

\* A responder sees at most one onHeaders(), then payloads, then at most one
\* onRequest(), then at most one onClose() and nothing after it; an upgraded
\* connection never shows it a header, and a WebSocket no request.  The
\* exception is known: a connection closed in the Connection signal still
\* gets a responder, which is never told of the close.
ResponderOrdered ==
    /\ \A i, j \in 1..Len(srv.calls) : i < j =>
          \/ Rank(srv.calls[i]) < Rank(srv.calls[j])
          \/ srv.calls[i] = "payload" /\ srv.calls[j] = "payload"
    /\ srv.upgrade => ~Contains(srv.calls, "headers")
    /\ SrvWs => ~Contains(srv.calls, "request")
    /\ srv.closed /\ srv.resp /\ ~srv.cb => Last(srv.calls) = "close"

\* A client completes once before its Close and is told nothing afterwards, and
\* a responder sees headers, payloads, request and close in that order.
CallbacksOrdered == CompletesOnce /\ ResponderOrdered

\* A connection that nobody else holds is destroyed in the middle of its
\* own callbacks only when the application closes it there: ends of stream,
\* resets, parse errors and failed handshakes never leave the library using
\* a destroyed connection.
DestroyedWhenIdle ==
    /\ cli.uaf => cli.cb /\ ~opt.cheld
    /\ srv.uaf => srv.cb /\ ~opt.sheld

ResponseWritten ==
    /\ opt.up # "ws" /\ opt.resLen # Eof
    /\ srv.sent # <<>> /\ Len(Ids(srv.sent)) >= opt.resLen

\* Nobody waits for ever.  A connection closed at one end is closed at the
\* other and dropped from both lists; a client that asked to connect becomes
\* active or is told that it is closed, whichever of the name, the connect
\* or the WebSocket handshake fails; and once the server has written a whole
\* response the client completes.
Settles ==
    /\ ((cli.est /\ cli.closed) \/ srv.closed) ~> (cli.closed /\ ~cli.listed /\ ~srv.listed)
    /\ (cli.connect /\ (srv.sock = "open" \/ ~listening)) ~> (cli.active \/ cli.closed)
    /\ ResponseWritten ~> cli.complete
=============================================================================

----------------------------- MODULE SslSocket -----------------------------
(***************************************************************************)
(* The TLS socket of net/src/sslsocket.cpp and its SSLAdapter              *)
(* (ssladapter.cpp): a client and a server, each with the two memory BIOs  *)
(* the OpenSSL engine reads and writes, the plain text that waits in       *)
(* _bufferOut for the handshake, and the calls of flush() and              *)
(* flushReadBIO() that are in progress, which nest when a callback of the  *)
(* application sends.                                                      *)
(***************************************************************************)
EXTENDS Integers, Sequences

CONSTANTS
    MaxSend     \* bound on the packets each application sends

VARIABLES
    tls,        \* tls[e]: one end of the connection
    trusted     \* the client accepts the server's certificate

tlsvars == <<tls, trusted>>

TlsEnd == {"cli", "srv"}
Peer(e) == IF e = "cli" THEN "srv" ELSE "cli"

\* hs: flights of the handshake done.  rbio, wbio: the memory BIOs.  sent:
\* what was written to TCP, of which the peer has read `read`.  run: the
\* calls in progress, the innermost first.
NewTlsEnd ==
    [ hs |-> 0, rbio |-> <<>>, wbio |-> <<>>, bufferOut |-> <<>>,
      sent |-> <<>>, read |-> 0, run |-> <<>>, closed |-> FALSE,
      n |-> 0, got |-> <<>> ]

\* Records on the wire: a flight of the handshake, or application data.
Flight(name) == [fl |-> name, id |-> 0]
Data(i) == [fl |-> "data", id |-> i]

\* Both ends are past onConnect() and acceptConnection(): initClient() and
\* initServer() have started the engine, and the hello waits in the BIO.
TlsInit ==
    /\ tls = [e \in TlsEnd |-> IF e = "cli"
                            THEN [NewTlsEnd EXCEPT !.hs = 1, !.wbio = <<Flight("hello")>>] ELSE NewTlsEnd]
    /\ trusted \in BOOLEAN

-----------------------------------------------------------------------------
(* A faulty variant, used to show that the properties can fail.           *)

SendReplaces(t) ==
    IF t.closed THEN t
    ELSE [t EXCEPT !.n = @ + 1, !.bufferOut = <<Data(t.n + 1)>>, !.run = <<"flush">> \o @]

-----------------------------------------------------------------------------
(* The engine, as SSLAdapter uses it.                                      *)

\* SSL_do_handshake(): hello, server flight, client finish, server done.
Expects(e, hs) == IF e = "cli" THEN <<"none", "server", "done">>[hs + 1]
                               ELSE <<"hello", "finish">>[hs + 1]
Reply(e, hs) == IF e = "cli" THEN <<"hello", "finish", "none">>[hs + 1]
                              ELSE <<"server", "done">>[hs + 1]

Finished(e, hs) == hs = (IF e = "cli" THEN 3 ELSE 2)

CanAdvance(e, t) ==
    ~Finished(e, t.hs) /\ t.rbio # <<>> /\ Head(t.rbio).fl = Expects(e, t.hs)

DoHandshake(e, t) ==
    IF ~CanAdvance(e, t) THEN t
    ELSE [t EXCEPT !.rbio = Tail(@), !.hs = @ + 1,
                   !.wbio = IF Reply(e, t.hs) = "none" THEN @ ELSE Append(@, Flight(Reply(e, t.hs)))]

Refuses(e, t) == e = "cli" /\ ~trusted /\ CanAdvance(e, t) /\ Head(t.rbio).fl = "server"

-----------------------------------------------------------------------------
(* SSLAdapter                                                              *)

\* flushWriteBIO(): a closed socket's write() does nothing.
FlushWriteBIO(t) ==
    [t EXCEPT !.wbio = <<>>, !.sent = IF t.closed THEN @ ELSE @ \o t.wbio]

\* SSL_write() of the whole buffer, which is then cleared.
Encrypt(t) == [t EXCEPT !.wbio = @ \o t.bufferOut, !.bufferOut = <<>>]

Pop(t) == [t EXCEPT !.run = Tail(@)]

\* handshake() and handleError(): a handshake that waits for the peer
\* flushes the write BIO, one that completes does not, one that fails sets
\* the socket's error, which closes it.
Handshake(e, t) ==
    LET u == DoHandshake(e, t) IN
    IF Refuses(e, t) THEN [t EXCEPT !.closed = TRUE]
    ELSE IF Finished(e, u.hs) THEN u
    ELSE FlushWriteBIO(u)

\* flush()
flush(e) ==
    /\ tls[e].run # <<>> /\ Head(tls[e].run) = "flush"
    /\ LET t == Pop(tls[e]) IN
       tls' = [tls EXCEPT ![e] =
                 IF ~Finished(e, t.hs) THEN Handshake(e, t)
                 ELSE [t EXCEPT !.run = (IF t.rbio # <<>> THEN <<"read", "write">>
                                                          ELSE <<"write">>) \o @]]
    /\ UNCHANGED trusted

\* The rest of flush(), back from flushReadBIO().
FlushWrite(e) ==
    /\ tls[e].run # <<>> /\ Head(tls[e].run) = "write"
    /\ tls' = [tls EXCEPT ![e] = FlushWriteBIO(Encrypt(Pop(tls[e])))]
    /\ UNCHANGED trusted

\* SSLSocket::send(): refused on a closed socket, buffered and flushed.
Send(t) ==
    IF t.closed THEN t
    ELSE [t EXCEPT !.n = @ + 1, !.bufferOut = Append(@, Data(t.n + 1)),
                   !.run = <<"flush">> \o @]

\* SSL_read() takes a record from the BIO.
ReadRecord(t) == [t EXCEPT !.rbio = Tail(@), !.got = Append(@, Head(t.rbio))]

\* One turn of the loop of flushReadBIO(): the
\* application may send or close in its callback.
Deliver(e, a) ==
    LET t == tls[e]
        u == ReadRecord(t)
    IN  /\ t.run # <<>> /\ Head(t.run) = "read" /\ t.rbio # <<>>
        /\ a = "send" => t.n < MaxSend /\ ~t.closed
        /\ a = "close" => ~t.closed
        /\ tls' = [tls EXCEPT ![e] = CASE a = "send"  -> Send(u)
                                       [] a = "close" -> [u EXCEPT !.closed = TRUE]
                                       [] OTHER       -> u]
        /\ UNCHANGED trusted

ReadDone(e) ==
    /\ tls[e].run # <<>> /\ Head(tls[e].run) = "read" /\ tls[e].rbio = <<>>
    /\ tls' = [tls EXCEPT ![e] = Pop(@)]
    /\ UNCHANGED trusted

-----------------------------------------------------------------------------
(* SSLSocket                                                               *)

\* onRead(): addIncomingData() flushes, and onRead() flushes again.  It is
\* the second flush that sends the last flight of a completed handshake.
OnReadCalls == <<"flush", "flush">>

OnRead(e, k) ==
    LET t == tls[e]
        p == tls[Peer(e)]
    IN  /\ ~t.closed /\ t.run = <<>>
        /\ k \in 1..(Len(p.sent) - t.read)
        /\ tls' = [tls EXCEPT ![e] =
                     [t EXCEPT !.rbio = @ \o SubSeq(p.sent, t.read + 1, t.read + k),
                               !.read = @ + k, !.run = OnReadCalls]]
        /\ UNCHANGED trusted

\* The end of the stream: no close_notify is ever written.
OnEof(e) ==
    /\ ~tls[e].closed /\ tls[e].run = <<>>
    /\ tls[Peer(e)].closed /\ tls[e].read = Len(tls[Peer(e)].sent)
    /\ tls' = [tls EXCEPT ![e].closed = TRUE]
    /\ UNCHANGED trusted

\* Calls from outside the callbacks.
CallSend(e) ==
    /\ tls[e].run = <<>> /\ ~tls[e].closed /\ tls[e].n < MaxSend
    /\ tls' = [tls EXCEPT ![e] = Send(@)]
    /\ UNCHANGED trusted

CallClose(e) ==
    /\ tls[e].run = <<>> /\ ~tls[e].closed
    /\ tls' = [tls EXCEPT ![e].closed = TRUE]
    /\ UNCHANGED trusted

Loop(e) ==
    \/ flush(e) \/ FlushWrite(e) \/ ReadDone(e) \/ OnEof(e)
    \/ \E a \in {"none", "send", "close"} : Deliver(e, a)
    \/ \E k \in 1..(MaxSend + 2) : OnRead(e, k)

TlsNext == \E e \in TlsEnd : Loop(e) \/ CallSend(e) \/ CallClose(e)

TlsFairness == \A e \in TlsEnd : WF_tlsvars(Loop(e))

TlsSpec == TlsInit /\ [][TlsNext]_tlsvars /\ TlsFairness

-----------------------------------------------------------------------------
(* Properties                                                              *)

\* The application receives the packets the peer passed to send(), in that
\* order and none twice, although callbacks that send re-enter flush() and
\* deliver the next record inside the callback of the one before.
TlsInOrder ==
    \A e \in TlsEnd : \A i \in 1..Len(tls[e].got) : tls[e].got[i] = Data(i)

\* Every packet given to send() is on the wire or still held for it, in
\* order and behind the handshake, which takes several reads and flushes
\* that nest.
TlsNothingLost ==
    \A e \in TlsEnd : ~tls[e].closed =>
        LET w == tls[e].sent \o tls[e].wbio \o tls[e].bufferOut
        IN  \E k \in 0..Len(w) :
                /\ Len(w) = k + tls[e].n
                /\ \A i \in 1..k : w[i].fl # "data"
                /\ \A i \in 1..tls[e].n : w[k + i] = Data(i)

(* Whatever the sizes of reads, callbacks that send or close, and refused  *)
(* certificates do to the handshake (SSLAdapter::flush, flushReadBIO,      *)
(* SSLSocket::send, onRead).                                               *)
TlsSound == TlsInOrder /\ TlsNothingLost

\* The handshake of a client that sends completes, and what both
\* applications sent is received, or the connection is closed.  (The hello
\* is not flushed before the client first sends: a client that only listens
\* waits for ever.)
Anyclosed == \E e \in TlsEnd : tls[e].closed

TlsDelivers ==
    \A e \in TlsEnd : \A i \in 1..MaxSend :
        (tls["cli"].n > 0 /\ tls[e].n >= i) ~> (Anyclosed \/ Len(tls[Peer(e)].got) >= i)
=============================================================================

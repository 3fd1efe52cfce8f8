------------------------ MODULE HttpConnectionProofs ------------------------
(***************************************************************************)
(* Proofs about HttpConnection and SslSocket, for any number of packets,   *)
(* any options and any interleaving of the two loops, the applications and *)
(* the network.                                                            *)
(***************************************************************************)
EXTENDS HttpConnection, SslSocket, SequenceTheorems, TLAPS

-----------------------------------------------------------------------------
(* Sequences.                                                              *)

\* t continues s.
Extends(s, t) == Len(s) <= Len(t) /\ \A i \in 1..Len(s) : t[i] = s[i]

LEMMA ConcatFacts ==
    ASSUME NEW S, NEW s \in Seq(S), NEW t \in Seq(S)
    PROVE  /\ s \o t \in Seq(S) /\ Len(s \o t) = Len(s) + Len(t)
           /\ Len(s) \in Nat /\ Len(t) \in Nat
           /\ Extends(s, s \o t)
           /\ \A i \in 1..Len(t) : (s \o t)[Len(s) + i] = t[i]
<1>1. /\ s \o t \in Seq(S) /\ Len(s \o t) = Len(s) + Len(t)
      /\ \A i \in 1..(Len(s) + Len(t)) :
            (s \o t)[i] = IF i <= Len(s) THEN s[i] ELSE t[i - Len(s)]
  BY ConcatProperties
<1>2. Len(s) \in Nat /\ Len(t) \in Nat
  BY LenProperties
<1>3. \A i \in 1..Len(s) : (s \o t)[i] = s[i]
  BY <1>1, <1>2
<1>4. \A i \in 1..Len(t) : (s \o t)[Len(s) + i] = t[i]
  BY <1>1, <1>2
<1> QED
  BY <1>1, <1>2, <1>3, <1>4 DEF Extends

-----------------------------------------------------------------------------
(* Sending.                                                                *)

\* What sending leaves alone.
OnlySends(c, d) ==
    /\ d.read = c.read /\ d.todo = c.todo /\ d.prs = c.prs /\ d.left = c.left /\ d.hs = c.hs
    /\ d.closed = c.closed /\ d.err = c.err /\ d.listed = c.listed /\ d.dead = c.dead
    /\ d.got = c.got /\ d.cb = c.cb /\ d.uaf = c.uaf /\ d.active = c.active
    /\ d.complete = c.complete /\ d.completes = c.completes /\ d.late = c.late /\ d.est = c.est
    /\ d.adapter = c.adapter /\ d.upgrade = c.upgrade /\ d.resp = c.resp /\ d.calls = c.calls

\* The header is written once and first.
HeadInv(c) ==
    /\ HeadFirst(c.sent)
    /\ c.hdr => c.sent = <<>>
    /\ c.sock = "open" /\ ~c.hdr => c.sent # <<>>
    /\ c.sock \notin {"open", "closed"} => c.sent = <<>>

LEMMA TcpSendFacts ==
    ASSUME NEW c \in End, NEW toks \in Seq(Written)
    PROVE  LET d == TcpSend(c, toks)
           IN  /\ d \in End /\ OnlySends(c, d) /\ Extends(c.sent, d.sent)
               /\ d.sock = c.sock /\ d.hdr = c.hdr /\ d.n = c.n /\ d.outbuf = c.outbuf
               /\ d.connect = c.connect
               /\ d.sent = IF c.sock = "open" THEN c.sent \o toks ELSE c.sent
<1> DEFINE d == TcpSend(c, toks)
<1>1. c.sent \in Seq(Written) /\ c.sent \o toks \in Seq(Written) /\ Extends(c.sent, c.sent \o toks)
  BY ConcatFacts DEF End
<1>2. Extends(c.sent, c.sent)
  BY <1>1, LenProperties DEF Extends
<1>3. CASE c.sock = "open"
  <2>1. d = [c EXCEPT !.sent = c.sent \o toks]
    BY <1>3 DEF TcpSend
  <2>2. d \in End
    BY ZenonT(60), <1>1, <2>1 DEF End
  <2>3. d.sent = c.sent \o toks /\ OnlySends(c, d)
    BY SMTT(30), <2>1 DEF End, OnlySends
  <2>4. d.sock = c.sock /\ d.hdr = c.hdr /\ d.n = c.n /\ d.outbuf = c.outbuf /\ d.connect = c.connect
    BY <2>1 DEF End
  <2> QED
    BY <1>1, <1>3, <2>2, <2>3, <2>4
<1>4. CASE c.sock # "open"
  BY <1>2, <1>4 DEF TcpSend, OnlySends
<1> QED
  BY <1>3, <1>4
\* The tokens of some packets.
LEMMA DataTokens ==
    ASSUME NEW ids \in Seq(Nat)
    PROVE  LET toks == [i \in 1..Len(ids) |-> Tok("data", ids[i])]
           IN  toks \in Seq(Written) /\ Len(toks) = Len(ids)
               /\ \A i \in 1..Len(toks) : toks[i].k = "data"
<1> DEFINE toks == [i \in 1..Len(ids) |-> Tok("data", ids[i])]
<1>1. Len(ids) \in Nat /\ \A i \in 1..Len(ids) : ids[i] \in Nat
  BY LenProperties, ElementOfSeq
<1>2. \A i \in 1..Len(ids) : Tok("data", ids[i]) \in Written /\ Tok("data", ids[i]).k = "data"
  BY <1>1 DEF Tok, Written
<1>3. toks \in [1..Len(ids) -> Written]
  BY <1>2
<1>4. toks \in Seq(Written) /\ Len(toks) = Len(ids)
  BY <1>1, <1>3, SeqDef, LenProperties
<1> QED
  BY <1>2, <1>4

\* sendHeader(): nothing but the header is written, and only once.
LEMMA SendHeaderFacts ==
    ASSUME NEW c \in End, HeadInv(c), c.sock \in {"open", "closed"}
    PROVE  LET d == SendHeader(c)
           IN  /\ d \in End /\ OnlySends(c, d) /\ Extends(c.sent, d.sent)
               /\ d.sock = c.sock /\ d.n = c.n /\ d.outbuf = c.outbuf /\ d.connect = c.connect
               /\ HeadInv(d) /\ ~d.hdr
<1> DEFINE d == SendHeader(c)
<1> DEFINE b == [c EXCEPT !.hdr = FALSE]
<1> DEFINE h == <<Tok("head", 0)>>
<1>1. h \in Seq(Written) /\ Len(h) = 1 /\ h[1].k = "head" /\ h # <<>>
  BY DEF Tok, Written
<1>2. CASE ~c.hdr
  <2>1. d = c
    BY <1>2 DEF SendHeader
  <2>2. c.sent \in Seq(Written) /\ Len(c.sent) \in Nat
    BY LenProperties DEF End
  <2> QED
    BY <1>2, <2>1, <2>2 DEF OnlySends, Extends
<1>3. CASE c.hdr
  <2>1. b \in End /\ OnlySends(c, b) /\ ~b.hdr /\ b.sent = c.sent /\ b.sock = c.sock
        /\ b.n = c.n /\ b.outbuf = c.outbuf /\ b.connect = c.connect
    BY DEF End, OnlySends
  <2>2. d = TcpSend(b, h)
    BY <1>3 DEF SendHeader
  <2> HIDE DEF b, h
  <2>3. /\ d \in End /\ OnlySends(b, d) /\ Extends(b.sent, d.sent)
        /\ d.sock = b.sock /\ d.hdr = b.hdr /\ d.n = b.n /\ d.outbuf = b.outbuf
        /\ d.connect = b.connect
        /\ d.sent = IF b.sock = "open" THEN b.sent \o h ELSE b.sent
    BY <1>1, <2>1, <2>2, TcpSendFacts
  <2> HIDE DEF d
  <2>4. c.sent = <<>>
    BY <1>3 DEF HeadInv
  <2>5. <<>> \o h = h
    BY <1>1, ConcatEmptySeq
  <2>6. HeadInv(d)
    <3>1. CASE c.sock = "open"
      <4>1. d.sent = h /\ d.sock = "open" /\ ~d.hdr
        BY <2>1, <2>3, <2>4, <2>5, <3>1
      <4>2. h # <<>>
        BY <1>1
      <4>3. HeadFirst(h)
        BY <1>1 DEF HeadFirst
      <4> QED
        BY <4>1, <4>2, <4>3 DEF HeadInv
    <3>2. CASE c.sock = "closed"
      <4>1. d.sent = <<>> /\ d.sock = "closed" /\ ~d.hdr
        BY <2>1, <2>3, <2>4, <3>2
      <4> QED
        BY <4>1 DEF HeadInv, HeadFirst
    <3> QED
      BY <3>1, <3>2
  <2>7. OnlySends(c, d)
    BY <2>1, <2>3 DEF OnlySends
  <2> QED
    BY <2>1, <2>3, <2>6, <2>7 DEF d
<1> QED
  BY <1>2, <1>3

\* Connection::send() of packets by an end that is open or closed.
LEMMA ConnSendFacts ==
    ASSUME NEW c \in End, HeadInv(c), c.sock \in {"open", "closed"}, c.closed <=> c.sock = "closed",
           NEW ids \in Seq(Nat)
    PROVE  LET d == ConnSend(c, ids)
           IN  /\ d \in End /\ OnlySends(c, d) /\ Extends(c.sent, d.sent)
               /\ d.sock = c.sock /\ d.n = c.n /\ d.outbuf = c.outbuf /\ d.connect = c.connect
               /\ HeadInv(d)
<1> DEFINE d == ConnSend(c, ids)
<1> DEFINE b == SendHeader(c)
<1> DEFINE toks == [i \in 1..Len(ids) |-> Tok("data", ids[i])]
<1>1. CASE c.closed
  <2>1. d = c
    BY <1>1 DEF ConnSend
  <2>2. c.sent \in Seq(Written) /\ Len(c.sent) \in Nat
    BY LenProperties DEF End
  <2> QED
    BY <2>1, <2>2 DEF OnlySends, Extends
<1>2. CASE ~c.closed
  <2>1. c.sock = "open"
    BY <1>2
  <2>2. toks \in Seq(Written) /\ \A i \in 1..Len(toks) : toks[i].k = "data"
    BY DataTokens
  <2>3. d = TcpSend(b, toks)
    BY <1>2 DEF ConnSend, AdapterSend
  <2>4. /\ b \in End /\ OnlySends(c, b) /\ Extends(c.sent, b.sent)
        /\ b.sock = c.sock /\ b.n = c.n /\ b.outbuf = c.outbuf /\ b.connect = c.connect
        /\ HeadInv(b) /\ ~b.hdr
    BY SendHeaderFacts
  <2> HIDE DEF b, toks
  <2>a. /\ d \in End /\ OnlySends(b, d) /\ Extends(b.sent, d.sent)
        /\ d.sock = b.sock /\ d.hdr = b.hdr /\ d.n = b.n /\ d.outbuf = b.outbuf
        /\ d.connect = b.connect
        /\ d.sent = IF b.sock = "open" THEN b.sent \o toks ELSE b.sent
    BY <2>2, <2>3, <2>4, TcpSendFacts
  <2>5. /\ d \in End /\ OnlySends(b, d) /\ Extends(b.sent, d.sent)
        /\ d.sock = b.sock /\ d.hdr = b.hdr /\ d.n = b.n /\ d.outbuf = b.outbuf
        /\ d.connect = b.connect /\ d.sent = b.sent \o toks
    BY <2>1, <2>4, <2>a
  <2> HIDE DEF d
  <2>b. b.sent \in Seq(Written)
    BY <2>4 DEF End
  <2>6. /\ b.sent \in Seq(Written) /\ Len(b.sent) \in Nat /\ Len(toks) \in Nat
        /\ Len(d.sent) = Len(b.sent) + Len(toks)
        /\ \A i \in 1..Len(toks) : d.sent[Len(b.sent) + i] = toks[i]
    BY SMTT(30), <2>2, <2>5, <2>b, ConcatFacts
  <2>7. b.sent # <<>> /\ Len(b.sent) > 0
    <3>1. b.sent # <<>>
      BY <2>1, <2>4 DEF HeadInv
    <3> QED
      BY <2>6, <3>1, EmptySeq
  <2>8. ASSUME NEW i \in 1..Len(d.sent) PROVE d.sent[i].k = "head" <=> i = 1
    <3>1. CASE i <= Len(b.sent)
      <4>1. i \in 1..Len(b.sent) /\ d.sent[i] = b.sent[i]
        BY <2>5, <2>6, <3>1 DEF Extends
      <4> QED
        BY <2>4, <4>1 DEF HeadInv, HeadFirst
    <3>2. CASE i > Len(b.sent)
      <4>1. i - Len(b.sent) \in 1..Len(toks) /\ i = Len(b.sent) + (i - Len(b.sent)) /\ i # 1
        BY <2>6, <2>7, <3>2
      <4>2. d.sent[i] = toks[i - Len(b.sent)]
        BY <2>6, <4>1
      <4> QED
        BY <2>2, <4>1, <4>2
    <3> QED
      BY <2>6, <3>1, <3>2
  <2>9. d.sent # <<>>
    BY <2>6, <2>7
  <2>10. HeadInv(d)
    BY <2>1, <2>4, <2>5, <2>8, <2>9 DEF HeadInv, HeadFirst
  <2>11. OnlySends(c, d)
    BY <2>4, <2>5 DEF OnlySends
  <2>12. Extends(c.sent, d.sent)
    <3>1. c.sent \in Seq(Written) /\ Len(c.sent) \in Nat /\ Len(d.sent) \in Nat
      BY <2>5, LenProperties DEF End
    <3> QED
      BY <2>4, <2>5, <2>6, <3>1 DEF Extends
  <2> QED
    BY <2>4, <2>5, <2>10, <2>11, <2>12 DEF d
<1> QED
  BY <1>1, <1>2

-----------------------------------------------------------------------------
(* The life of a connection.                                               *)

\* An end inside one of its callbacks: only the application closed it there.
Mid(c, held) ==
    /\ c \in End /\ HeadInv(c)
    /\ c.closed <=> c.sock = "closed"
    /\ c.closed => c.cb
    /\ c.dead => c.closed /\ ~held
    /\ c.uaf => c.cb /\ ~held

\* An end between two steps of its loop.
Between(c, held) ==
    /\ c \in End /\ HeadInv(c)
    /\ c.closed <=> c.sock = "closed"
    /\ c.closed /\ ~c.cb => c.todo = <<>>
    /\ c.dead => c.closed /\ ~held /\ c.todo = <<>>
    /\ c.uaf => c.cb /\ ~held
    /\ c.todo # <<>> => c.sock \in {"open", "closed"}

\* The order of connect(), the connection and its first packets.
ConnInv(o, c) ==
    /\ ~c.connect => c.sock \in {"idle", "closed"}
    /\ c.active => c.sock \in {"open", "closed"}
    /\ o.up = "ws" /\ ~c.active => Len(c.sent) <= 1

\* What CompletesOnce says, and why it stays so.
CountInv(c) ==
    ~c.cb => /\ c.completes = IF c.complete THEN 1 ELSE 0
             /\ c.closed => c.complete
             /\ ~c.closed => (c.complete <=> c.prs = "done")
             /\ c.late = 0

\* What a callback of an application leaves alone, at either end.
Same(c, d) ==
    /\ d.read = c.read /\ d.todo = c.todo /\ d.prs = c.prs /\ d.left = c.left
    /\ d.got = c.got /\ d.late = c.late /\ d.err = c.err /\ d.est = c.est /\ d.resp = c.resp
    /\ Extends(c.sent, d.sent)
    /\ c.sock \in {"open", "closed"} => d.sock \in {"open", "closed"}
    /\ c.closed => d.closed
    /\ c.cb => d.cb

CliFrame(c, d) ==
    /\ Same(c, d) /\ d.uaf = c.uaf /\ d.active = c.active
    /\ ~c.active => d.sent = c.sent /\ d.hdr = c.hdr
    /\ d.sock = "open" => c.sock = "open"

LEMMA ExtendsRefl ==
    ASSUME NEW S, NEW s \in Seq(S)
    PROVE  Extends(s, s)
  BY LenProperties DEF Extends

LEMMA ExtendsTrans ==
    ASSUME NEW S, NEW s \in Seq(S), NEW t \in Seq(S), NEW u \in Seq(S), Extends(s, t), Extends(t, u)
    PROVE  Extends(s, u)
<1>1. Len(s) \in Nat /\ Len(t) \in Nat /\ Len(u) \in Nat
  BY LenProperties
<1> QED
  BY <1>1 DEF Extends

LEMMA CliCloseFacts ==
    ASSUME NEW c \in End, ~c.closed, HeadInv(c)
    PROVE  LET d == CliClose(c)
           IN  /\ d \in End /\ HeadInv(d) /\ d.closed /\ d.sock = "closed" /\ d.complete
               /\ d.dead = ~opt.cheld /\ d.uaf = c.uaf /\ d.cb = c.cb /\ d.err = c.err
               /\ d.completes = (IF c.complete THEN c.completes ELSE c.completes + 1)
               /\ d.read = c.read /\ d.todo = c.todo /\ d.prs = c.prs /\ d.left = c.left
               /\ d.got = c.got /\ d.late = c.late /\ d.active = c.active /\ d.est = c.est
               /\ d.sent = c.sent /\ d.hdr = c.hdr /\ d.connect = c.connect /\ d.resp = c.resp
<1> DEFINE b == [c EXCEPT !.closed = TRUE, !.sock = "closed", !.hs = 0]
<1> DEFINE f == [b EXCEPT !.completes = IF b.complete THEN b.completes ELSE b.completes + 1,
                          !.complete = TRUE]
<1> DEFINE d == [f EXCEPT !.listed = FALSE, !.dead = ~opt.cheld]
<1>1. CliClose(c) = d
  BY DEF CliClose, CliOnClose, CloseSocket, removeConnection
<1>2. /\ b \in End /\ b.closed /\ b.sock = "closed" /\ b.complete = c.complete
      /\ b.completes = c.completes /\ b.uaf = c.uaf /\ b.cb = c.cb /\ b.err = c.err
      /\ b.read = c.read /\ b.todo = c.todo /\ b.prs = c.prs /\ b.left = c.left
      /\ b.got = c.got /\ b.late = c.late /\ b.active = c.active /\ b.est = c.est
      /\ b.sent = c.sent /\ b.hdr = c.hdr /\ b.connect = c.connect /\ b.resp = c.resp
  <2>1. "closed" \in SocketState /\ 0 \in FramerState
    BY DEF SocketState, FramerState
  <2>2. b \in End
    BY <2>1 DEF End
  <2>3. b.closed /\ b.sock = "closed"
    BY DEF End
  <2> QED
    BY <2>2, <2>3 DEF End
<1> HIDE DEF b
<1>3. /\ f \in End /\ f.closed /\ f.sock = "closed" /\ f.complete
      /\ f.completes = (IF b.complete THEN b.completes ELSE b.completes + 1)
      /\ f.uaf = b.uaf /\ f.cb = b.cb /\ f.err = b.err
      /\ f.read = b.read /\ f.todo = b.todo /\ f.prs = b.prs /\ f.left = b.left
      /\ f.got = b.got /\ f.late = b.late /\ f.active = b.active /\ f.est = b.est
      /\ f.sent = b.sent /\ f.hdr = b.hdr /\ f.connect = b.connect /\ f.resp = b.resp
  <2>1. b.completes \in Nat /\ b.completes + 1 \in Nat
    BY <1>2 DEF End
  <2>2. (IF b.complete THEN b.completes ELSE b.completes + 1) \in Nat
    BY <2>1
  <2>3. f \in End
    BY ZenonT(60), <1>2, <2>2 DEF End
  <2>4. f.complete /\ f.completes = (IF b.complete THEN b.completes ELSE b.completes + 1)
    BY <1>2 DEF End
  <2> QED
    BY <1>2, <2>3, <2>4 DEF End
<1> HIDE DEF f
<1>4. /\ d \in End /\ d.closed /\ d.sock = "closed" /\ d.complete
      /\ d.completes = f.completes /\ d.dead = ~opt.cheld
      /\ d.uaf = f.uaf /\ d.cb = f.cb /\ d.err = f.err
      /\ d.read = f.read /\ d.todo = f.todo /\ d.prs = f.prs /\ d.left = f.left
      /\ d.got = f.got /\ d.late = f.late /\ d.active = f.active /\ d.est = f.est
      /\ d.sent = f.sent /\ d.hdr = f.hdr /\ d.connect = f.connect /\ d.resp = f.resp
  BY ZenonT(60), <1>3 DEF End
<1> HIDE DEF d
<1>5. HeadInv(d)
  BY <1>2, <1>3, <1>4 DEF HeadInv
<1> QED
  BY <1>1, <1>2, <1>3, <1>4, <1>5

\* A callback of the client's application: nothing, send(data) or close().
LEMMA CliAppFacts ==
    ASSUME NEW c, NEW a \in App, Mid(c, opt.cheld), ConnInv(opt, c), CountInv(c), CliMay(c, a)
    PROVE  LET d == CliApp(c, a)
           IN  Mid(d, opt.cheld) /\ ConnInv(opt, d) /\ CountInv(d) /\ CliFrame(c, d)
<1> DEFINE d == CliApp(c, a)
<1>0. c \in End /\ HeadInv(c) /\ c.sent \in Seq(Written) /\ Extends(c.sent, c.sent)
  BY ExtendsRefl DEF Mid, End
<1>1. CASE a = "none"
  <2>1. d = c
    BY <1>1 DEF CliApp
  <2> QED
    BY <1>0, <2>1 DEF CliFrame, Same
<1>2. CASE a = "close"
  <2> DEFINE b == CliClose(c)
  <2>1. d = [b EXCEPT !.cb = TRUE]
    BY <1>2 DEF CliApp
  <2>2. ~c.closed
    BY <1>2 DEF CliMay
  <2>3. /\ b \in End /\ HeadInv(b) /\ b.closed /\ b.sock = "closed"
        /\ b.dead = ~opt.cheld /\ b.uaf = c.uaf /\ b.cb = c.cb /\ b.err = c.err
        /\ b.read = c.read /\ b.todo = c.todo /\ b.prs = c.prs /\ b.left = c.left
        /\ b.got = c.got /\ b.late = c.late /\ b.active = c.active /\ b.est = c.est
        /\ b.sent = c.sent /\ b.hdr = c.hdr /\ b.connect = c.connect /\ b.resp = c.resp
    BY <1>0, <2>2, CliCloseFacts
  <2> HIDE DEF b
  <2>4. /\ d \in End /\ d.closed /\ d.sock = "closed" /\ d.cb
        /\ d.dead = ~opt.cheld /\ d.uaf = c.uaf /\ d.err = c.err
        /\ d.read = c.read /\ d.todo = c.todo /\ d.prs = c.prs /\ d.left = c.left
        /\ d.got = c.got /\ d.late = c.late /\ d.active = c.active /\ d.est = c.est
        /\ d.sent = c.sent /\ d.hdr = c.hdr /\ d.connect = c.connect /\ d.resp = c.resp
    <3>0. b \in End
      BY <2>3
    <3>1. d \in End /\ d.cb
      BY ZenonT(60), <2>1, <3>0 DEF End
    <3>2. /\ d.closed = b.closed /\ d.sock = b.sock /\ d.dead = b.dead /\ d.uaf = b.uaf /\ d.err = b.err
          /\ d.read = b.read /\ d.todo = b.todo /\ d.prs = b.prs /\ d.left = b.left
          /\ d.got = b.got /\ d.late = b.late /\ d.active = b.active /\ d.est = b.est
          /\ d.sent = b.sent /\ d.hdr = b.hdr /\ d.connect = b.connect /\ d.resp = b.resp
      BY <2>1, <3>0 DEF End
    <3> QED
      BY <2>3, <3>1, <3>2
  <2> HIDE DEF d
  <2>5. HeadInv(d)
    BY <1>0, <2>4 DEF HeadInv
  <2>6. Mid(d, opt.cheld)
    BY <2>4, <2>5 DEF Mid
  <2>7. ConnInv(opt, d) /\ CountInv(d)
    BY <2>4 DEF ConnInv, CountInv
  <2>8. CliFrame(c, d)
    BY <1>0, <2>4 DEF CliFrame, Same
  <2> QED
    BY <2>6, <2>7, <2>8 DEF d
<1>3. CASE a = "send"
  <2> DEFINE b == [c EXCEPT !.n = @ + 1]
  <2> DEFINE f == CliConnect(b)
  <2> DEFINE i == c.n + 1
  <2>1. d = IF f.active THEN ConnSend(f, <<i>>) ELSE [f EXCEPT !.outbuf = Append(f.outbuf, i)]
    BY <1>3 DEF CliApp, CliSend
  <2>2. ~c.closed /\ ~c.dead /\ c.sock # "closed"
    BY <1>3 DEF CliMay, CanSend, Mid
  <2>3. /\ b \in End /\ i \in Nat /\ b.sock = c.sock /\ b.connect = c.connect /\ b.active = c.active
        /\ b.sent = c.sent /\ b.hdr = c.hdr /\ b.outbuf = c.outbuf /\ OnlySends(c, b)
    <3>1. c.n \in Nat
      BY <1>0 DEF End
    <3>2. c.n + 1 \in Nat
      BY <3>1
    <3>3. b \in End
      BY <1>0, <3>2 DEF End
    <3> QED
      BY <1>0, <3>2, <3>3 DEF End, OnlySends
  <2> HIDE DEF b, i
  <2>4. /\ f \in End /\ f.connect /\ f.sent = b.sent /\ f.hdr = b.hdr /\ f.outbuf = b.outbuf /\ OnlySends(b, f)
        /\ f.sock = IF b.connect THEN b.sock ELSE "resolving"
    <3>1. CASE b.connect
      BY <2>3, <3>1 DEF CliConnect, OnlySends
    <3>2. CASE ~b.connect
      <4>1. f = [b EXCEPT !.connect = TRUE, !.sock = "resolving"] /\ "resolving" \in SocketState
        BY <3>2 DEF CliConnect, SocketState
      <4>2. f \in End /\ f.connect /\ f.sock = "resolving"
        BY ZenonT(60), <2>3, <4>1 DEF End
      <4>3. f.sent = b.sent /\ f.hdr = b.hdr /\ f.outbuf = b.outbuf /\ OnlySends(b, f)
        BY <2>3, <4>1 DEF End, OnlySends
      <4> QED
        BY <3>2, <4>2, <4>3
    <3> QED
      BY <3>1, <3>2
  <2> HIDE DEF f
  <2>5. c.sock # "open" => c.sent = <<>>
    BY <2>2 DEF Mid, HeadInv
  <2>6. ~c.connect => c.sock = "idle" /\ ~c.active
    BY <2>2 DEF ConnInv
  <2>7. /\ OnlySends(c, f) /\ f.active = c.active /\ f.sock # "closed" /\ ~f.closed
        /\ c.sock = "open" => f.sock = "open"
        /\ f.sock = "open" => c.sock = "open"
    BY <2>2, <2>3, <2>4, <2>6 DEF OnlySends
  <2>8. HeadInv(f)
    BY <1>0, <2>2, <2>3, <2>4, <2>5, <2>7 DEF HeadInv
  <2>9. /\ d \in End /\ OnlySends(f, d) /\ Extends(f.sent, d.sent) /\ HeadInv(d) /\ d.connect
        /\ d.sock = f.sock /\ (~f.active => d.sent = f.sent /\ d.hdr = f.hdr)
    <3>1. CASE f.active
      <4>1. f.sock = "open"
        BY <2>2, <2>6, <2>7, <2>3, <2>4, <3>1 DEF ConnInv
      <4>2. <<i>> \in Seq(Nat) /\ d = ConnSend(f, <<i>>)
        BY <2>1, <2>3, <3>1
      <4>3. /\ d \in End /\ OnlySends(f, d) /\ Extends(f.sent, d.sent)
            /\ d.sock = f.sock /\ d.connect = f.connect /\ HeadInv(d)
        <5>1. f \in End /\ f.sock \in {"open", "closed"} /\ (f.closed <=> f.sock = "closed")
          BY <2>4, <2>7, <4>1
        <5> QED
          BY ZenonT(60), <2>8, <4>2, <5>1, ConnSendFacts
      <4> QED
        BY <2>4, <3>1, <4>3
    <3>2. CASE ~f.active
      <4>1. d = [f EXCEPT !.outbuf = Append(f.outbuf, i)]
        BY <2>1, <3>2
      <4>a. f.outbuf \in Seq(Nat)
        BY <2>4 DEF End
      <4>2. Append(f.outbuf, i) \in Seq(Nat)
        BY <2>3, <4>a, AppendProperties
      <4>3. d \in End /\ OnlySends(f, d) /\ d.sent = f.sent /\ d.connect = f.connect /\ d.sock = f.sock /\ d.hdr = f.hdr
        <5>1. f \in End
          BY <2>4
        <5>2. d \in End
          BY ZenonT(60), <4>1, <4>2, <5>1 DEF End
        <5> QED
          BY <4>1, <5>1, <5>2 DEF End, OnlySends
      <4>4. HeadInv(d)
        BY <2>8, <4>3 DEF HeadInv
      <4>5. Extends(f.sent, d.sent)
        BY <1>0, <2>3, <2>4, <4>3
      <4> QED
        BY <2>4, <4>3, <4>4, <4>5
    <3> QED
      BY <3>1, <3>2
  <2> HIDE DEF d
  <2>10. OnlySends(c, d)
    BY <2>7, <2>9 DEF OnlySends
  <2>11. Mid(d, opt.cheld)
    BY <2>2, <2>7, <2>9, <2>10 DEF Mid, OnlySends
  <2>12. ConnInv(opt, d)
    <3>1. d.active => d.sock \in {"open", "closed"}
      BY <2>2, <2>7, <2>9, <2>10 DEF ConnInv, OnlySends
    <3>2. ~d.active => d.sent = c.sent
      BY <2>3, <2>4, <2>9, <2>10, <2>7 DEF OnlySends
    <3> QED
      BY <2>9, <2>10, <3>1, <3>2 DEF ConnInv, OnlySends
  <2>13. CountInv(d)
    BY <2>10 DEF CountInv, OnlySends
  <2>14. CliFrame(c, d)
    BY <2>2, <2>3, <2>4, <2>7, <2>9, <2>10 DEF CliFrame, Same, OnlySends
  <2> QED
    BY <2>11, <2>12, <2>13, <2>14 DEF d
<1> QED
  BY <1>1, <1>2, <1>3 DEF App

\* ClientConnection::onSocketConnect(), after Connect.emit().
LEMMA FlushFacts ==
    ASSUME NEW c, Mid(c, opt.cheld), CountInv(c), ConnInv(opt, c), c.sock \in {"open", "closed"}
    PROVE  LET d == Flush(c)
           IN  Mid(d, opt.cheld) /\ CountInv(d) /\ d.active = c.active /\ d.sock = c.sock
               /\ d.connect = c.connect /\ Same(c, d)
<1> DEFINE d == Flush(c)
<1>0. c \in End /\ HeadInv(c) /\ c.sent \in Seq(Written) /\ c.outbuf \in Seq(Nat)
      /\ (c.closed <=> c.sock = "closed")
  BY DEF Mid, End
<1>1. /\ d \in End /\ OnlySends(c, d) /\ Extends(c.sent, d.sent) /\ HeadInv(d)
      /\ d.sock = c.sock /\ d.connect = c.connect
  <2>1. CASE c.outbuf = <<>>
    <3>1. d = SendHeader(c)
      BY <2>1 DEF Flush
    <3> QED
      BY <1>0, <3>1, SendHeaderFacts
  <2>2. CASE c.outbuf # <<>>
    <3> DEFINE b == ConnSend(c, c.outbuf)
    <3>1. d = [b EXCEPT !.outbuf = <<>>]
      BY <2>2 DEF Flush
    <3>2. /\ b \in End /\ OnlySends(c, b) /\ Extends(c.sent, b.sent) /\ HeadInv(b)
          /\ b.sock = c.sock /\ b.connect = c.connect
      BY <1>0, ConnSendFacts
    <3> HIDE DEF b
    <3>3. b \in End /\ <<>> \in Seq(Nat)
      BY <3>2
    <3>4. d \in End
      BY ZenonT(60), <3>1, <3>3 DEF End
    <3>5. OnlySends(b, d) /\ d.sent = b.sent /\ d.sock = b.sock /\ d.hdr = b.hdr /\ d.connect = b.connect
      BY <3>1, <3>3 DEF End, OnlySends
    <3> HIDE DEF d
    <3>6. OnlySends(c, d)
      BY <3>2, <3>5 DEF OnlySends
    <3>7. HeadInv(d)
      BY <3>2, <3>5 DEF HeadInv
    <3> QED
      BY <3>2, <3>4, <3>5, <3>6, <3>7
  <2> QED
    BY <2>1, <2>2
<1> HIDE DEF d
<1>2. Mid(d, opt.cheld)
  BY <1>1 DEF Mid, OnlySends
<1>3. CountInv(d)
  BY <1>1 DEF CountInv, OnlySends
<1>4. Same(c, d)
  BY <1>1 DEF Same, OnlySends
<1> QED
  BY <1>1, <1>2, <1>3, <1>4 DEF d, OnlySends

LEMMA CliOnConnectFacts ==
    ASSUME NEW c, NEW a \in App, Mid(c, opt.cheld), CountInv(c), ConnInv(opt, c), CliMay(c, a),
           c.sock \in {"open", "closed"}
    PROVE  LET d == CliOnConnect(c, a)
           IN  Mid(d, opt.cheld) /\ CountInv(d) /\ ConnInv(opt, d) /\ d.active /\ Same(c, d)
               /\ d.sock \in {"open", "closed"}
<1> DEFINE b == [c EXCEPT !.active = TRUE]
<1> DEFINE f == CliApp(b, a)
<1> DEFINE d == CliOnConnect(c, a)
<1>0. c \in End /\ HeadInv(c)
  BY DEF Mid
<1>1. d = IF f.dead THEN [f EXCEPT !.uaf = TRUE] ELSE Flush(f)
  BY DEF CliOnConnect
<1>2. b \in End /\ b.active
  BY <1>0 DEF End
<1>3. b.sock = c.sock /\ b.hdr = c.hdr /\ b.sent = c.sent
      /\ b.connect = c.connect /\ b.n = c.n
  BY <1>0 DEF End
<1>4. /\ b.read = c.read /\ b.todo = c.todo /\ b.prs = c.prs /\ b.left = c.left
      /\ b.got = c.got /\ b.late = c.late /\ b.err = c.err /\ b.est = c.est /\ b.resp = c.resp
      /\ b.closed = c.closed /\ b.dead = c.dead /\ b.cb = c.cb /\ b.uaf = c.uaf
      /\ b.complete = c.complete /\ b.completes = c.completes
  BY <1>0 DEF End
<1> HIDE DEF b
<1>5. HeadInv(b)
  BY <1>0, <1>3 DEF HeadInv
<1>6. Mid(b, opt.cheld)
  BY <1>2, <1>3, <1>4, <1>5 DEF Mid
<1>7. CountInv(b)
  BY <1>4 DEF CountInv
<1>8. ConnInv(opt, b)
  BY <1>2, <1>3 DEF ConnInv
<1>9. CliMay(b, a)
  BY <1>3, <1>4 DEF CliMay, CanSend
<1>10. Mid(f, opt.cheld) /\ ConnInv(opt, f) /\ CountInv(f) /\ CliFrame(b, f)
  BY <1>6, <1>7, <1>8, <1>9, CliAppFacts
<1> HIDE DEF f
<1>11. f.active /\ f.sock \in {"open", "closed"}
  BY <1>2, <1>3, <1>10 DEF CliFrame, Same, ConnInv
<1>12. Same(c, f)
  BY <1>3, <1>4, <1>10 DEF CliFrame, Same
<1>13. CASE f.dead
  <2>1. d = [f EXCEPT !.uaf = TRUE] /\ f \in End
    BY <1>1, <1>10, <1>13 DEF Mid
  <2>2. d \in End
    BY ZenonT(60), <2>1 DEF End
  <2>3. /\ d.sock = f.sock /\ d.sent = f.sent /\ d.hdr = f.hdr /\ d.closed = f.closed /\ d.cb = f.cb
        /\ d.dead = f.dead /\ d.uaf /\ d.active = f.active /\ d.connect = f.connect
        /\ d.complete = f.complete /\ d.completes = f.completes
    BY <2>1 DEF End
  <2>4. /\ d.read = f.read /\ d.todo = f.todo /\ d.prs = f.prs /\ d.left = f.left
        /\ d.got = f.got /\ d.late = f.late /\ d.err = f.err /\ d.est = f.est /\ d.resp = f.resp
    BY <2>1 DEF End
  <2> HIDE DEF d
  <2>5. HeadInv(d)
    BY <1>10, <2>3 DEF HeadInv, Mid
  <2>6. Mid(d, opt.cheld)
    BY <1>10, <1>13, <2>2, <2>3, <2>5 DEF Mid
  <2>7. CountInv(d)
    BY <1>10, <2>3, <2>4 DEF CountInv
  <2>8. ConnInv(opt, d)
    BY <1>10, <1>11, <2>3 DEF ConnInv
  <2>9. Same(c, d)
    BY <1>12, <2>3, <2>4 DEF Same
  <2> QED
    BY <1>11, <2>3, <2>6, <2>7, <2>8, <2>9 DEF d
<1>14. CASE ~f.dead
  <2>1. d = Flush(f)
    BY <1>1, <1>14
  <2>2. Mid(d, opt.cheld) /\ CountInv(d) /\ d.active = f.active /\ d.sock = f.sock
        /\ d.connect = f.connect /\ Same(f, d)
    BY <1>10, <1>11, <2>1, FlushFacts
  <2> HIDE DEF d
  <2>3. ConnInv(opt, d)
    BY <1>10, <1>11, <2>2 DEF ConnInv
  <2>4. Extends(c.sent, d.sent)
    <3>1. c.sent \in Seq(Written) /\ f.sent \in Seq(Written) /\ d.sent \in Seq(Written)
      BY <1>0, <1>10, <2>2 DEF Mid, End
    <3>2. Extends(c.sent, f.sent) /\ Extends(f.sent, d.sent)
      BY <1>12, <2>2 DEF Same
    <3> QED
      BY <3>1, <3>2, ExtendsTrans
  <2>5. Same(c, d)
    BY <1>12, <2>2, <2>4 DEF Same
  <2> QED
    BY <1>11, <2>2, <2>3, <2>5 DEF d
<1> QED
  BY <1>13, <1>14

\* The members that going on with the rest of a read leaves alone.
Kept(c, d) ==
    /\ d.sock = c.sock /\ d.sent = c.sent /\ d.read = c.read /\ d.prs = c.prs /\ d.hdr = c.hdr
    /\ d.closed = c.closed /\ d.dead = c.dead /\ d.got = c.got /\ d.cb = c.cb
    /\ d.connect = c.connect /\ d.active = c.active /\ d.complete = c.complete
    /\ d.completes = c.completes /\ d.late = c.late /\ d.adapter = c.adapter
    /\ d.upgrade = c.upgrade /\ d.resp = c.resp /\ d.calls = c.calls

LEMMA ContinueFacts ==
    ASSUME NEW c, NEW held, NEW rest \in Seq(Token), NEW ws \in BOOLEAN,
           Mid(c, held), c.sock \in {"open", "closed"}
    PROVE  LET d == Continue(c, rest, ws)
           IN  Between(d, held) /\ Kept(c, d) /\ d.todo = IF c.dead THEN <<>> ELSE rest
<1> DEFINE d == Continue(c, rest, ws)
<1>0. c \in End /\ <<>> \in Seq(Token)
  BY DEF Mid
<1>1. CASE c.dead
  <2> DEFINE u == c.uaf \/ (rest # <<>> /\ ~ws)
  <2>1. d = [c EXCEPT !.todo = <<>>, !.uaf = u]
    BY <1>1 DEF Continue
  <2>2. u \in BOOLEAN
    BY <1>0 DEF End
  <2> HIDE DEF u
  <2>a. d \in End
    BY ZenonT(60), <1>0, <2>1, <2>2 DEF End
  <2>3. d \in End /\ d.todo = <<>>
    BY <1>0, <2>1, <2>a DEF End
  <2>4. Kept(c, d)
    BY <1>0, <2>1 DEF End, Kept
  <2> HIDE DEF d
  <2>5. HeadInv(d)
    BY <2>4 DEF Mid, HeadInv, Kept
  <2>6. Between(d, held)
    BY <1>1, <2>3, <2>4, <2>5 DEF Between, Mid, Kept
  <2> QED
    BY <1>1, <2>3, <2>4, <2>6 DEF d
<1>2. CASE ~c.dead
  <2>1. d = [c EXCEPT !.todo = rest]
    BY <1>2 DEF Continue
  <2>2. d \in End /\ d.todo = rest
    BY ZenonT(60), <1>0, <2>1 DEF End
  <2>3. Kept(c, d) /\ d.uaf = c.uaf
    BY <1>0, <2>1 DEF End, Kept
  <2> HIDE DEF d
  <2>4. HeadInv(d)
    BY <2>3 DEF Mid, HeadInv, Kept
  <2>5. Between(d, held)
    BY <1>2, <2>2, <2>3, <2>4 DEF Between, Mid, Kept
  <2> QED
    BY <1>2, <2>2, <2>3, <2>5 DEF d
<1> QED
  BY <1>1, <1>2

\* TCPSocket::onError() closes a connection that is still there.
LEMMA CliErrorFacts ==
    ASSUME NEW c, NEW eof \in BOOLEAN, Between(c, opt.cheld), CountInv(c), ConnInv(opt, c), ~c.dead
    PROVE  LET d == CliError(c, eof)
           IN  Between(d, opt.cheld) /\ CountInv(d) /\ ConnInv(opt, d)
               /\ d.todo = <<>> /\ d.sock = "closed" /\ d.read = c.read /\ d.got = c.got
               /\ d.sent = c.sent /\ d.active = c.active /\ d.prs = c.prs
<1> DEFINE b == [[c EXCEPT !.todo = <<>>] EXCEPT !.err = ~eof]
<1> DEFINE d == CliError(c, eof)
<1>0. c \in End /\ HeadInv(c) /\ <<>> \in Seq(Token) /\ (~eof) \in BOOLEAN
  BY DEF Between
<1>1. b \in End /\ b.todo = <<>> /\ b.dead = c.dead /\ b.closed = c.closed
  BY ZenonT(60), <1>0 DEF End
<1>2. /\ b.sock = c.sock /\ b.sent = c.sent /\ b.hdr = c.hdr /\ b.cb = c.cb /\ b.uaf = c.uaf
      /\ b.read = c.read /\ b.got = c.got /\ b.active = c.active /\ b.prs = c.prs
      /\ b.connect = c.connect /\ b.complete = c.complete /\ b.completes = c.completes
      /\ b.late = c.late
  BY <1>0 DEF End
<1>3. d = CliClose(b)
  BY <1>1 DEF CliError, OnSocketError
<1> HIDE DEF b
<1>4. HeadInv(b)
  BY <1>0, <1>2 DEF HeadInv
<1>5. CASE c.closed
  <2>1. d = b
    BY <1>1, <1>3, <1>5 DEF CliClose
  <2>2. Between(b, opt.cheld)
    BY <1>1, <1>2, <1>4 DEF Between
  <2>3. CountInv(b) /\ ConnInv(opt, b)
    BY <1>1, <1>2 DEF CountInv, ConnInv
  <2> QED
    BY <1>1, <1>2, <1>5, <2>1, <2>2, <2>3 DEF Between
<1>6. CASE ~c.closed
  <2>1. /\ d \in End /\ HeadInv(d) /\ d.closed /\ d.sock = "closed" /\ d.complete
        /\ d.dead = ~opt.cheld /\ d.uaf = b.uaf /\ d.cb = b.cb
        /\ d.completes = (IF b.complete THEN b.completes ELSE b.completes + 1)
        /\ d.read = b.read /\ d.todo = b.todo /\ d.prs = b.prs
        /\ d.got = b.got /\ d.late = b.late /\ d.active = b.active
        /\ d.sent = b.sent /\ d.connect = b.connect
    BY <1>1, <1>3, <1>4, <1>6, CliCloseFacts
  <2> HIDE DEF d
  <2>2. Between(d, opt.cheld)
    BY <1>1, <1>2, <2>1 DEF Between
  <2>3. CountInv(d)
    BY <1>2, <1>6, <2>1 DEF CountInv
  <2>4. ConnInv(opt, d)
    BY <1>2, <2>1 DEF ConnInv
  <2> QED
    BY <1>1, <1>2, <2>1, <2>2, <2>3, <2>4 DEF d
<1> QED
  BY <1>5, <1>6

-----------------------------------------------------------------------------
(* The server's callbacks.                                                 *)

Ordered(q) ==
    \A i, j \in 1..Len(q) : i < j => \/ Rank(q[i]) < Rank(q[j])
                                     \/ q[i] = "payload" /\ q[j] = "payload"

\* What ResponderOrdered says, and why a later callback keeps to the order.
CallsInv(s) ==
    /\ Ordered(s.calls)
    /\ \A i \in 1..Len(s.calls) :
          /\ s.calls[i] = "close" => s.closed
          /\ s.calls[i] = "request" => s.prs = "done" /\ s.adapter = "http"
          /\ s.calls[i] = "headers" => ~s.upgrade
    /\ ~s.resp => s.calls = <<>>
    /\ s.closed /\ s.resp /\ ~s.cb => s.calls # <<>> /\ s.calls[Len(s.calls)] = "close"

LEMMA OrderedAppend ==
    ASSUME NEW q \in Seq(Callback), NEW x \in Callback, Ordered(q),
           \A i \in 1..Len(q) : Rank(q[i]) < Rank(x) \/ (q[i] = "payload" /\ x = "payload")
    PROVE  /\ Append(q, x) \in Seq(Callback) /\ Ordered(Append(q, x))
           /\ Len(Append(q, x)) = Len(q) + 1 /\ Len(q) \in Nat /\ Append(q, x) # <<>>
           /\ \A i \in 1..Len(q) : Append(q, x)[i] = q[i]
           /\ Append(q, x)[Len(q) + 1] = x
<1> DEFINE r == Append(q, x)
<1>1. /\ r \in Seq(Callback) /\ Len(r) = Len(q) + 1 /\ Len(q) \in Nat /\ r # <<>>
      /\ \A i \in 1..Len(q) : r[i] = q[i]
      /\ r[Len(q) + 1] = x
  BY AppendProperties, LenProperties
<1> HIDE DEF r
<1>2. ASSUME NEW i \in 1..Len(r), NEW j \in 1..Len(r), i < j
      PROVE  Rank(r[i]) < Rank(r[j]) \/ (r[i] = "payload" /\ r[j] = "payload")
  <2>1. i \in 1..Len(q) /\ r[i] = q[i]
    BY <1>1, <1>2
  <2>2. CASE j \in 1..Len(q)
    BY <1>1, <1>2, <2>1, <2>2 DEF Ordered
  <2>3. CASE j = Len(q) + 1
    BY <1>1, <2>1, <2>3
  <2> QED
    BY <1>1, <2>2, <2>3
<1>3. Ordered(r)
  BY <1>2 DEF Ordered
<1> QED
  BY <1>1, <1>3 DEF r

LEMMA SrvCloseFacts ==
    ASSUME NEW c \in End, ~c.closed, HeadInv(c), CallsInv(c)
    PROVE  LET d == SrvClose(c)
           IN  /\ d \in End /\ HeadInv(d) /\ CallsInv(d) /\ d.closed /\ d.sock = "closed"
               /\ d.dead = ~opt.sheld /\ d.uaf = c.uaf /\ d.cb = c.cb /\ d.err = c.err
               /\ d.read = c.read /\ d.todo = c.todo /\ d.prs = c.prs /\ d.left = c.left
               /\ d.got = c.got /\ d.late = c.late /\ d.est = c.est /\ d.sent = c.sent
               /\ d.hdr = c.hdr /\ d.resp = c.resp /\ d.adapter = c.adapter /\ d.upgrade = c.upgrade
               /\ d.calls = IF c.resp THEN Append(c.calls, "close") ELSE c.calls
<1> DEFINE b == [c EXCEPT !.closed = TRUE, !.sock = "closed", !.hs = 0]
<1> DEFINE q == IF c.resp THEN Append(c.calls, "close") ELSE c.calls
<1> DEFINE f == [b EXCEPT !.calls = q]
<1> DEFINE d == [f EXCEPT !.listed = FALSE, !.dead = ~opt.sheld]
<1>0. c.calls \in Seq(Callback) /\ "close" \in Callback
  BY DEF End, Callback
<1>1. /\ b \in End /\ b.closed /\ b.sock = "closed" /\ b.uaf = c.uaf /\ b.cb = c.cb /\ b.err = c.err
      /\ b.read = c.read /\ b.todo = c.todo /\ b.prs = c.prs /\ b.left = c.left
      /\ b.got = c.got /\ b.late = c.late /\ b.est = c.est /\ b.sent = c.sent /\ b.hdr = c.hdr
      /\ b.resp = c.resp /\ b.adapter = c.adapter /\ b.upgrade = c.upgrade /\ b.calls = c.calls
  <2>1. "closed" \in SocketState /\ 0 \in FramerState
    BY DEF SocketState, FramerState
  <2>2. b \in End
    BY <2>1 DEF End
  <2>3. b.closed /\ b.sock = "closed"
    BY DEF End
  <2> QED
    BY <2>2, <2>3 DEF End
<1>2. SrvClose(c) = d
  <2>1. [b EXCEPT !.calls = IF b.resp THEN Append(b.calls, "close") ELSE b.calls] = f
    BY <1>1
  <2> QED
    BY <2>1 DEF SrvClose, SrvOnClose, CloseSocket, onConnectionClose
<1>3. \A i \in 1..Len(c.calls) : c.calls[i] # "close" /\ c.calls[i] \in Callback
  BY <1>0, ElementOfSeq DEF CallsInv
<1>4. \A i \in 1..Len(c.calls) : Rank(c.calls[i]) < Rank("close")
  BY <1>3 DEF Rank, Callback
<1>5. /\ q \in Seq(Callback) /\ Ordered(q)
      /\ c.resp => q # <<>> /\ q[Len(q)] = "close"
      /\ \A i \in 1..Len(q) : q[i] = "close" \/ (i \in 1..Len(c.calls) /\ q[i] = c.calls[i])
      /\ ~c.resp => q = <<>>
  <2>1. CASE c.resp
    <3> DEFINE r == Append(c.calls, "close")
    <3>1. /\ r \in Seq(Callback) /\ Ordered(r) /\ Len(r) = Len(c.calls) + 1 /\ Len(c.calls) \in Nat
          /\ r # <<>> /\ \A i \in 1..Len(c.calls) : r[i] = c.calls[i]
          /\ r[Len(c.calls) + 1] = "close"
      BY <1>0, <1>4, OrderedAppend DEF CallsInv
    <3>2. q = r
      BY <2>1
    <3> HIDE DEF r, q
    <3>3. r[Len(r)] = "close"
      BY <3>1
    <3>4. ASSUME NEW i \in 1..Len(r) PROVE r[i] = "close" \/ (i \in 1..Len(c.calls) /\ r[i] = c.calls[i])
      <4>1. i \in 1..Len(c.calls) \/ i = Len(c.calls) + 1
        BY <3>1
      <4> QED
        BY <3>1, <4>1
    <3> QED
      BY <2>1, <3>1, <3>2, <3>3, <3>4
  <2>2. CASE ~c.resp
    <3>1. q = c.calls /\ c.calls = <<>>
      BY <2>2 DEF CallsInv
    <3> QED
      BY <1>0, <2>2, <3>1 DEF CallsInv
  <2> QED
    BY <2>1, <2>2
<1>6. q = IF c.resp THEN Append(c.calls, "close") ELSE c.calls
  OBVIOUS
<1> HIDE DEF b, q
<1>7. f \in End /\ f.calls = q
  BY <1>1, <1>5 DEF End
<1>8. /\ f.closed = b.closed /\ f.sock = b.sock /\ f.uaf = b.uaf /\ f.cb = b.cb /\ f.err = b.err
      /\ f.read = b.read /\ f.todo = b.todo /\ f.prs = b.prs /\ f.left = b.left
      /\ f.got = b.got /\ f.late = b.late /\ f.est = b.est /\ f.sent = b.sent /\ f.hdr = b.hdr
      /\ f.resp = b.resp /\ f.adapter = b.adapter /\ f.upgrade = b.upgrade
  BY <1>1 DEF End
<1> HIDE DEF f
<1>9. d \in End /\ d.dead = ~opt.sheld
  BY ZenonT(60), <1>7 DEF End
<1>10. /\ d.closed = f.closed /\ d.sock = f.sock /\ d.uaf = f.uaf /\ d.cb = f.cb /\ d.err = f.err
      /\ d.read = f.read /\ d.todo = f.todo /\ d.prs = f.prs /\ d.left = f.left
      /\ d.got = f.got /\ d.late = f.late /\ d.est = f.est /\ d.sent = f.sent /\ d.hdr = f.hdr
      /\ d.resp = f.resp /\ d.adapter = f.adapter /\ d.upgrade = f.upgrade /\ d.calls = f.calls
  BY <1>7 DEF End
<1> HIDE DEF d
<1>11. HeadInv(d)
  BY <1>1, <1>8, <1>10 DEF HeadInv
<1>12. CallsInv(d)
  BY <1>1, <1>5, <1>7, <1>8, <1>10 DEF CallsInv
<1> QED
  BY <1>1, <1>2, <1>6, <1>7, <1>8, <1>9, <1>10, <1>11, <1>12

SrvFrame(c, d) ==
    Same(c, d) /\ d.uaf = c.uaf /\ d.adapter = c.adapter /\ d.upgrade = c.upgrade

LEMMA SrvAppFacts ==
    ASSUME NEW c, NEW a \in App, Mid(c, opt.sheld), CallsInv(c), SrvMay(c, a),
           c.sock \in {"open", "closed"}
    PROVE  LET d == SrvApp(c, a)
           IN  Mid(d, opt.sheld) /\ CallsInv(d) /\ SrvFrame(c, d)
<1> DEFINE d == SrvApp(c, a)
<1>0. c \in End /\ HeadInv(c) /\ c.sent \in Seq(Written) /\ Extends(c.sent, c.sent)
  BY ExtendsRefl DEF Mid, End
<1>1. CASE a = "none"
  <2>1. d = c
    BY <1>1 DEF SrvApp
  <2> QED
    BY <1>0, <2>1 DEF SrvFrame, Same
<1>2. CASE a = "close"
  <2> DEFINE b == SrvClose(c)
  <2>1. d = [b EXCEPT !.cb = TRUE]
    BY <1>2 DEF SrvApp
  <2>2. ~c.closed
    BY <1>2 DEF SrvMay
  <2>3. /\ b \in End /\ HeadInv(b) /\ CallsInv(b) /\ b.closed /\ b.sock = "closed"
        /\ b.dead = ~opt.sheld /\ b.uaf = c.uaf /\ b.err = c.err
        /\ b.read = c.read /\ b.todo = c.todo /\ b.prs = c.prs /\ b.left = c.left
        /\ b.got = c.got /\ b.late = c.late /\ b.est = c.est /\ b.sent = c.sent
        /\ b.hdr = c.hdr /\ b.resp = c.resp /\ b.adapter = c.adapter /\ b.upgrade = c.upgrade
    BY <1>0, <2>2, SrvCloseFacts
  <2> HIDE DEF b
  <2>a. b \in End
    BY <2>3
  <2>4. d \in End /\ d.cb
    BY ZenonT(60), <2>1, <2>a DEF End
  <2>5. /\ d.closed = b.closed /\ d.sock = b.sock /\ d.dead = b.dead /\ d.uaf = b.uaf /\ d.err = b.err
        /\ d.read = b.read /\ d.todo = b.todo /\ d.prs = b.prs /\ d.left = b.left
        /\ d.got = b.got /\ d.late = b.late /\ d.est = b.est /\ d.sent = b.sent /\ d.hdr = b.hdr
        /\ d.resp = b.resp /\ d.adapter = b.adapter /\ d.upgrade = b.upgrade /\ d.calls = b.calls
    BY <2>1, <2>a DEF End
  <2> HIDE DEF d
  <2>6. HeadInv(d)
    BY <2>3, <2>5 DEF HeadInv
  <2>7. Mid(d, opt.sheld)
    BY <2>3, <2>4, <2>5, <2>6 DEF Mid
  <2>8. CallsInv(d)
    BY <2>3, <2>4, <2>5 DEF CallsInv
  <2>9. SrvFrame(c, d)
    BY <1>0, <2>3, <2>4, <2>5 DEF SrvFrame, Same
  <2> QED
    BY <2>7, <2>8, <2>9 DEF d
<1>3. CASE a = "send"
  <2> DEFINE b == [c EXCEPT !.n = @ + 1]
  <2> DEFINE i == c.n + 1
  <2>1. d = ConnSend(b, <<i>>)
    BY <1>3 DEF SrvApp
  <2>2. c.n \in Nat
    BY <1>0 DEF End
  <2>3. c.n + 1 \in Nat
    BY <2>2
  <2>4. b \in End
    BY <1>0, <2>3 DEF End
  <2>5. OnlySends(c, b) /\ b.sock = c.sock /\ b.sent = c.sent /\ b.hdr = c.hdr
    BY <1>0, <2>3 DEF End, OnlySends
  <2>6. <<i>> \in Seq(Nat)
    BY <2>3
  <2> HIDE DEF b, i
  <2>7. HeadInv(b)
    BY <1>0, <2>5 DEF HeadInv
  <2>8. b.sock \in {"open", "closed"} /\ (b.closed <=> b.sock = "closed")
    BY <2>5 DEF Mid, OnlySends
  <2>9. /\ d \in End /\ OnlySends(b, d) /\ Extends(b.sent, d.sent)
        /\ d.sock = b.sock /\ HeadInv(d)
    BY ZenonT(60), <2>1, <2>4, <2>6, <2>7, <2>8, ConnSendFacts
  <2> HIDE DEF d
  <2>10. OnlySends(c, d) /\ d.sock = c.sock /\ Extends(c.sent, d.sent)
    BY <2>5, <2>9 DEF OnlySends
  <2>11. Mid(d, opt.sheld)
    BY <2>9, <2>10 DEF Mid, OnlySends
  <2>12. CallsInv(d)
    BY <2>10 DEF CallsInv, OnlySends
  <2>13. SrvFrame(c, d)
    BY <2>10 DEF SrvFrame, Same, OnlySends
  <2> QED
    BY <2>11, <2>12, <2>13 DEF d
<1> QED
  BY <1>1, <1>2, <1>3 DEF App

LEMMA SrvErrorFacts ==
    ASSUME NEW c, NEW eof \in BOOLEAN, Between(c, opt.sheld), CallsInv(c), ~c.dead
    PROVE  LET d == SrvError(c, eof)
           IN  Between(d, opt.sheld) /\ CallsInv(d)
               /\ d.todo = <<>> /\ d.sock = "closed" /\ d.read = c.read /\ d.got = c.got
               /\ d.sent = c.sent /\ d.prs = c.prs /\ d.adapter = c.adapter
               /\ d.resp = c.resp /\ d.upgrade = c.upgrade /\ d.cb = c.cb /\ d.hdr = c.hdr
<1> DEFINE b == [[c EXCEPT !.todo = <<>>] EXCEPT !.err = ~eof]
<1> DEFINE d == SrvError(c, eof)
<1>0. c \in End /\ HeadInv(c) /\ <<>> \in Seq(Token) /\ (~eof) \in BOOLEAN
  BY DEF Between
<1>1. b \in End /\ b.todo = <<>> /\ b.dead = c.dead /\ b.closed = c.closed
  BY ZenonT(60), <1>0 DEF End
<1>2. /\ b.sock = c.sock /\ b.sent = c.sent /\ b.hdr = c.hdr /\ b.cb = c.cb /\ b.uaf = c.uaf
      /\ b.read = c.read /\ b.got = c.got /\ b.prs = c.prs /\ b.calls = c.calls
      /\ b.adapter = c.adapter /\ b.upgrade = c.upgrade /\ b.resp = c.resp
  BY <1>0 DEF End
<1>3. d = SrvClose(b)
  BY <1>1 DEF SrvError, OnSocketError
<1> HIDE DEF b
<1>4. HeadInv(b)
  BY <1>0, <1>2 DEF HeadInv
<1>5. CallsInv(b)
  BY <1>1, <1>2 DEF CallsInv
<1>6. CASE c.closed
  <2>1. d = b
    BY <1>1, <1>3, <1>6 DEF SrvClose
  <2>2. Between(b, opt.sheld)
    BY <1>1, <1>2, <1>4 DEF Between
  <2> QED
    BY <1>1, <1>2, <1>5, <1>6, <2>1, <2>2 DEF Between
<1>7. CASE ~c.closed
  <2>1. /\ d \in End /\ HeadInv(d) /\ CallsInv(d) /\ d.closed /\ d.sock = "closed"
        /\ d.dead = ~opt.sheld /\ d.uaf = b.uaf /\ d.cb = b.cb
        /\ d.read = b.read /\ d.todo = b.todo /\ d.prs = b.prs
        /\ d.got = b.got /\ d.sent = b.sent /\ d.hdr = b.hdr
        /\ d.resp = b.resp /\ d.adapter = b.adapter /\ d.upgrade = b.upgrade
    BY <1>1, <1>3, <1>4, <1>5, <1>7, SrvCloseFacts
  <2> HIDE DEF d
  <2>2. Between(d, opt.sheld)
    BY <1>1, <1>2, <2>1 DEF Between
  <2> QED
    BY <1>1, <1>2, <2>1, <2>2 DEF d
<1> QED
  BY <1>6, <1>7

-----------------------------------------------------------------------------
(* What is read.                                                           *)

\* What an end still has to handle of a read: first e callbacks of the parser,
\* then what the other end wrote up to `read`, its last token cut short or not.
Shape(c, p, e) ==
    /\ e \in 0..2 /\ e <= Len(c.todo)
    /\ \A i \in 1..e : \/ c.todo[i].k = "end" /\ i = e /\ c.prs = "body"
                       \/ c.todo[i].k = "respond" /\ i = 1 /\ ~c.resp /\ c.prs # "start"
    /\ Len(c.todo) - e <= c.read /\ c.read <= Len(p.sent)
    /\ \A i \in (e + 1)..Len(c.todo) : \/ c.todo[i] = p.sent[c.read - Len(c.todo) + i]
                                       \/ c.todo[i].k = "part"

\* The tokens handled, and that the application got the payload of each.
Handled(c, e) == c.read - (Len(c.todo) - e)
GotAll(c, e) == IF Handled(c, e) = 0 THEN c.got = <<>> ELSE Len(c.got) = Handled(c, e) - 1
Reading(c) == c.sock = "open" \/ c.todo # <<>>
Prefix(g, s) == (g = <<>> \/ Len(g) < Len(s)) /\ \A i \in 1..Len(g) : g[i] = s[i + 1].id

CliStream(o, c, p, e) ==
    /\ Shape(c, p, e)
    /\ Reading(c) /\ o.up # "ws" => (c.prs = "start" <=> Handled(c, e) = 0)
    /\ Reading(c) /\ (o.up = "ws" \/ c.prs # "done") => GotAll(c, e)
    /\ \A i \in 1..e : c.todo[i].k = "end"

SrvStream(o, s, p, e) ==
    /\ Shape(s, p, e)
    /\ Reading(s) => (s.prs = "start" <=> Handled(s, e) = 0)
    /\ Reading(s) /\ (s.adapter = "ws" \/ s.prs # "done") /\ ~s.closed /\ o.up # "other" => GotAll(s, e)
    /\ o.up = "other" /\ s.prs = "body" => Len(s.todo) = e
    /\ o.up = "other" /\ s.prs = "body" /\ s.sock = "open" => e > 0 /\ s.todo[e].k = "end"

CliOk(o, c, p) ==
    /\ Between(c, o.cheld) /\ ConnInv(o, c) /\ CountInv(c)
    /\ o.up = "ws" => c.prs = "start"
    /\ o.up = "ws" /\ c.active => p.sent # <<>>
    /\ c.sock \notin {"open", "closed"} =>
          c.read = 0 /\ c.got = <<>> /\ c.prs = "start" /\ (c.hdr <=> o.up # "ws")
    /\ Prefix(c.got, p.sent)
    /\ \E e \in 0..2 : CliStream(o, c, p, e)

SrvOk(o, s, p) ==
    /\ Between(s, o.sheld) /\ CallsInv(s)
    /\ s.sock \in {"none", "open", "closed"}
    /\ s.sock = "none" => s.read = 0 /\ s.got = <<>> /\ s.prs = "start"
    /\ s.prs = "start" => s.hdr /\ ~s.resp /\ ~s.upgrade /\ s.sent = <<>> /\ s.adapter = "http"
    /\ s.adapter = "ws" => s.prs = "done" /\ o.up = "ws"
    /\ o.up = "ws" => s.prs # "body"
    /\ Prefix(s.got, p.sent)
    /\ \E e \in 0..2 : SrvStream(o, s, p, e)

LEMMA PrefixExtends ==
    ASSUME NEW g \in Seq(Nat), NEW s \in Seq(Written), NEW t \in Seq(Written), Prefix(g, s), Extends(s, t)
    PROVE  Prefix(g, t)
<1>1. Len(g) \in Nat /\ Len(s) \in Nat /\ Len(t) \in Nat /\ (g = <<>> => Len(g) = 0)
  BY LenProperties
<1>2. ASSUME NEW i \in 1..Len(g) PROVE g[i] = t[i + 1].id
  <2>1. i + 1 \in 1..Len(s) /\ g[i] = s[i + 1].id
    BY <1>1 DEF Prefix
  <2> QED
    BY <2>1 DEF Extends
<1> QED
  BY <1>1, <1>2 DEF Prefix, Extends

LEMMA ShapeExtends ==
    ASSUME NEW c \in End, NEW d \in End, NEW p \in End, NEW q \in End, NEW e \in 0..2,
           Shape(c, p, e), Extends(p.sent, q.sent),
           d.todo = c.todo, d.read = c.read, d.prs = c.prs, d.resp = c.resp
    PROVE  Shape(d, q, e) /\ Handled(d, e) = Handled(c, e)
<1>1. /\ p.sent \in Seq(Written) /\ q.sent \in Seq(Written) /\ c.todo \in Seq(Token) /\ c.read \in Nat
  BY DEF End
<1>2. Len(p.sent) \in Nat /\ Len(q.sent) \in Nat /\ Len(c.todo) \in Nat
  BY <1>1, LenProperties
<1>3. ASSUME NEW i \in (e + 1)..Len(c.todo), c.todo[i].k # "part"
      PROVE  c.todo[i] = q.sent[c.read - Len(c.todo) + i]
  <2>1. c.todo[i] = p.sent[c.read - Len(c.todo) + i]
    BY <1>3 DEF Shape
  <2>2. c.read - Len(c.todo) + i \in 1..Len(p.sent)
    BY SMTT(30), <1>1, <1>2 DEF Shape
  <2> QED
    BY <2>1, <2>2 DEF Extends
<1>4. c.read <= Len(q.sent)
  BY <1>1, <1>2 DEF Shape, Extends
<1> QED
  BY <1>3, <1>4 DEF Shape, Handled

LEMMA ShapeNothing ==
    ASSUME NEW c \in End, NEW p \in End, c.todo = <<>>, c.read <= Len(p.sent)
    PROVE  Shape(c, p, 0) /\ Handled(c, 0) = c.read
<1>1. Len(c.todo) = 0 /\ c.read \in Nat
  BY DEF End
<1> QED
  BY <1>1 DEF Shape, Handled

LEMMA TailFacts ==
    ASSUME NEW S, NEW s \in Seq(S), s # <<>>
    PROVE  /\ Tail(s) \in Seq(S) /\ Len(s) \in Nat \ {0} /\ Len(Tail(s)) = Len(s) - 1
           /\ Head(s) = s[1] /\ s[1] \in S
           /\ \A i \in 1..(Len(s) - 1) : Tail(s)[i] = s[i + 1]
<1>1. Len(s) \in Nat /\ Len(s) # 0
  BY LenProperties, EmptySeq
<1>2. Head(s) = s[1] /\ s[1] \in S
  BY <1>1, ElementOfSeq
<1>3. /\ Tail(s) \in Seq(S) /\ Len(Tail(s)) = Len(s) - 1
      /\ \A i \in 1..(Len(s) - 1) : Tail(s)[i] = s[i + 1]
  BY HeadTailProperties
<1> QED
  BY <1>1, <1>2, <1>3

\* Which tokens the first one can be.
LEMMA FirstToken ==
    ASSUME NEW c \in End, NEW p \in End, NEW e \in 0..2, Shape(c, p, e), c.todo # <<>>
    PROVE  /\ c.todo[1].k \in {"head", "data"} => e = 0 /\ c.todo[1] = p.sent[Handled(c, 0) + 1]
           /\ c.todo[1].k = "end" => e = 1 /\ c.prs = "body"
           /\ c.todo[1].k = "respond" => e > 0 /\ ~c.resp /\ c.prs # "start"
           /\ Handled(c, e) \in Nat /\ (e = 0 => Handled(c, 0) < Len(p.sent))
<1>1. /\ p.sent \in Seq(Written) /\ c.todo \in Seq(Token) /\ c.read \in Nat
  BY DEF End
<1>2. Len(p.sent) \in Nat /\ Len(c.todo) \in Nat \ {0}
  BY <1>1, LenProperties, TailFacts
<1>3. Handled(c, e) \in Nat /\ (e = 0 => Handled(c, 0) < Len(p.sent))
  BY <1>1, <1>2 DEF Handled, Shape
<1>4. CASE e = 0
  <2>1. 1 \in (e + 1)..Len(c.todo) /\ c.read - Len(c.todo) + 1 = Handled(c, 0) + 1
    BY <1>1, <1>2, <1>4 DEF Handled
  <2>2. c.todo[1] = p.sent[Handled(c, 0) + 1] \/ c.todo[1].k = "part"
    BY <2>1 DEF Shape
  <2>3. Handled(c, 0) + 1 \in 1..Len(p.sent)
    BY <1>2, <1>3, <1>4
  <2>4. p.sent[Handled(c, 0) + 1].k \in {"head", "data"}
    <3>1. p.sent[Handled(c, 0) + 1] \in Written
      BY <1>1, <2>3, ElementOfSeq
    <3> QED
      BY <3>1 DEF Written
  <2> QED
    BY <1>3, <1>4, <2>2, <2>4
<1>5. CASE e > 0
  <2>1. 1 \in 1..e
    BY <1>5
  <2>2. \/ c.todo[1].k = "end" /\ 1 = e /\ c.prs = "body"
        \/ c.todo[1].k = "respond" /\ ~c.resp /\ c.prs # "start"
    BY <2>1 DEF Shape
  <2> QED
    BY <1>3, <1>5, <2>2
<1> QED
  BY <1>4, <1>5

\* Where a token stands after the first one has been replaced by m callbacks.
LEMMA PopIndex ==
    ASSUME NEW c, NEW d, NEW m, NEW n, NEW j \in 1..n, NEW i,
           m \in Int, n \in Int, Len(c.todo) \in Int, c.read \in Int,
           d.read = c.read, Len(d.todo) = m + Len(c.todo) - 1, i = m + j
    PROVE  d.read - Len(d.todo) + i = c.read - Len(c.todo) + (j + 1)
  OBVIOUS

\* A token of the other end is handled, and the parser's own callbacks follow.
LEMMA PopToken ==
    ASSUME NEW c \in End, NEW d \in End, NEW p \in End, NEW syn \in Seq(Token),
           Shape(c, p, 0), c.todo # <<>>, Len(syn) \in 0..2,
           \A i \in 1..Len(syn) : \/ syn[i].k = "end" /\ i = Len(syn) /\ d.prs = "body"
                                  \/ syn[i].k = "respond" /\ i = 1 /\ ~d.resp /\ d.prs # "start",
           d.todo = syn \o Tail(c.todo), d.read = c.read
    PROVE  /\ Shape(d, p, Len(syn)) /\ Handled(d, Len(syn)) = Handled(c, 0) + 1
           /\ Len(d.todo) = Len(syn) + Len(c.todo) - 1
           /\ \A i \in 1..Len(syn) : d.todo[i] = syn[i]
<1> DEFINE e == Len(syn)
<1>0. /\ Len(syn) = e /\ e \in 0..2
      /\ \A i \in 1..e : \/ syn[i].k = "end" /\ i = e /\ d.prs = "body"
                         \/ syn[i].k = "respond" /\ i = 1 /\ ~d.resp /\ d.prs # "start"
  OBVIOUS
<1> HIDE DEF e
<1> DEFINE t == Tail(c.todo)
<1>1. /\ p.sent \in Seq(Written) /\ c.todo \in Seq(Token) /\ c.read \in Nat
  BY DEF End
<1>2. Len(p.sent) \in Nat
  BY <1>1, LenProperties
<1>3. /\ t \in Seq(Token) /\ Len(c.todo) \in Nat \ {0} /\ Len(t) = Len(c.todo) - 1
      /\ \A i \in 1..(Len(c.todo) - 1) : t[i] = c.todo[i + 1]
  BY <1>1, TailFacts
<1> HIDE DEF t
<1>4. /\ Len(syn \o t) = e + Len(t) /\ \A i \in 1..Len(t) : (syn \o t)[e + i] = t[i]
      /\ \A i \in 1..e : (syn \o t)[i] = syn[i]
  <2>1. /\ Len(syn \o t) = Len(syn) + Len(t) /\ Extends(syn, syn \o t)
        /\ \A i \in 1..Len(t) : (syn \o t)[Len(syn) + i] = t[i]
    <3>1. t \in Seq(Token)
      BY <1>3
    <3> QED
      BY <3>1, ConcatFacts
  <2> QED
    BY <1>0, <2>1 DEF Extends
<1>5. d.todo = syn \o t
  BY DEF t
<1>6. Len(d.todo) = e + Len(c.todo) - 1
  BY <1>0, <1>3, <1>4, <1>5
<1>a. Len(c.todo) \in Nat /\ Len(t) = Len(c.todo) - 1 /\ d.read = c.read
  BY <1>3
<1>7. Handled(d, e) = Handled(c, 0) + 1
  BY <1>0, <1>1, <1>6, <1>a DEF Handled
<1>8. ASSUME NEW i \in (e + 1)..Len(d.todo), d.todo[i].k # "part"
      PROVE  d.todo[i] = p.sent[d.read - Len(d.todo) + i]
  <2>0. i - e \in 1..Len(t) /\ i = e + (i - e)
    BY <1>0, <1>3, <1>6
  <2>1. PICK j \in 1..Len(t) : i = e + j
    BY <2>0
  <2>2. d.todo[i] = t[j]
    BY <1>4, <1>5, <2>1
  <2>3. j + 1 \in 1..Len(c.todo) /\ t[j] = c.todo[j + 1] /\ j \in Nat
    <3>1. j \in 1..(Len(c.todo) - 1) /\ j + 1 \in 1..Len(c.todo)
      BY <1>a
    <3> QED
      BY <1>3, <3>1
  <2>4. d.read - Len(d.todo) + i = c.read - Len(c.todo) + (j + 1)
    <3>1. e \in Int /\ Len(t) \in Int /\ Len(c.todo) \in Int /\ c.read \in Int
      BY <1>0, <1>1, <1>a
    <3> QED
      BY SMTT(30), <1>6, <1>a, <2>1, <3>1, PopIndex
  <2>5. c.todo[j + 1] = p.sent[c.read - Len(c.todo) + (j + 1)] \/ c.todo[j + 1].k = "part"
    BY <2>3 DEF Shape
  <2> QED
    BY <1>8, <2>2, <2>3, <2>4, <2>5
<1>9. \A i \in 1..e : d.todo[i] = syn[i]
  BY <1>0, <1>4, <1>5
<1>10. Len(d.todo) - e <= d.read /\ d.read <= Len(p.sent) /\ e <= Len(d.todo)
  BY <1>0, <1>1, <1>2, <1>3, <1>6 DEF Shape
<1>11. Shape(d, p, e)
  BY SMTT(30), <1>0, <1>8, <1>9, <1>10 DEF Shape
<1> QED
  BY <1>6, <1>7, <1>9, <1>11 DEF e

\* One of the parser's callbacks is made.
LEMMA PopCallback ==
    ASSUME NEW c \in End, NEW d \in End, NEW p \in End, NEW e \in 1..2,
           Shape(c, p, e), c.todo # <<>>, e = 1 \/ d.prs = c.prs,
           d.todo = Tail(c.todo), d.read = c.read
    PROVE  /\ Shape(d, p, e - 1) /\ Handled(d, e - 1) = Handled(c, e)
           /\ Len(d.todo) = Len(c.todo) - 1
           /\ \A i \in 1..(e - 1) : d.todo[i] = c.todo[i + 1] /\ d.todo[i].k = "end"
<1>1. /\ p.sent \in Seq(Written) /\ c.todo \in Seq(Token) /\ c.read \in Nat
  BY DEF End
<1>2. Len(p.sent) \in Nat
  BY <1>1, LenProperties
<1>3. /\ d.todo \in Seq(Token) /\ Len(c.todo) \in Nat \ {0} /\ Len(d.todo) = Len(c.todo) - 1
      /\ \A i \in 1..(Len(c.todo) - 1) : d.todo[i] = c.todo[i + 1]
  BY <1>1, TailFacts
<1>a. Len(c.todo) \in Nat \ {0} /\ Len(d.todo) = Len(c.todo) - 1 /\ d.read = c.read /\ e <= Len(c.todo)
  BY <1>3 DEF Shape
<1>4. Handled(d, e - 1) = Handled(c, e)
  BY <1>1, <1>a DEF Handled
<1>5. ASSUME NEW i \in 1..(e - 1)
      PROVE  d.todo[i] = c.todo[i + 1] /\ d.todo[i].k = "end" /\ i = e - 1 /\ d.prs = "body"
  <2>1. i + 1 \in 1..e /\ i + 1 # 1 /\ e # 1
    OBVIOUS
  <2>2. i \in 1..(Len(c.todo) - 1)
    BY <1>a
  <2>3. d.todo[i] = c.todo[i + 1]
    BY <1>3, <2>2
  <2>4. c.todo[i + 1].k = "end" /\ i + 1 = e /\ c.prs = "body"
    BY <2>1 DEF Shape
  <2>5. i = e - 1 /\ d.prs = c.prs
    BY <2>1, <2>4
  <2> QED
    BY <2>3, <2>4, <2>5
<1>6. ASSUME NEW i \in ((e - 1) + 1)..Len(d.todo), d.todo[i].k # "part"
      PROVE  d.todo[i] = p.sent[d.read - Len(d.todo) + i]
  <2>1. i \in 1..(Len(c.todo) - 1) /\ i + 1 \in (e + 1)..Len(c.todo)
    BY <1>a
  <2>2. d.todo[i] = c.todo[i + 1]
    BY <1>3, <2>1
  <2>3. d.read - Len(d.todo) + i = c.read - Len(c.todo) + (i + 1)
    <3>1. i \in Int /\ Len(c.todo) \in Int /\ c.read \in Int
      BY <1>1, <1>a
    <3>2. d.read - Len(d.todo) + i = c.read - (Len(c.todo) - 1) + i
      BY <1>a
    <3> QED
      BY <3>1, <3>2
  <2>4. c.todo[i + 1] = p.sent[c.read - Len(c.todo) + (i + 1)] \/ c.todo[i + 1].k = "part"
    BY <2>1 DEF Shape
  <2> QED
    BY <1>6, <2>2, <2>3, <2>4
<1>7. Len(d.todo) - (e - 1) <= d.read /\ d.read <= Len(p.sent) /\ e - 1 <= Len(d.todo) /\ e - 1 \in 0..2
  BY <1>1, <1>2, <1>3 DEF Shape
<1>8. Shape(d, p, e - 1)
  BY <1>5, <1>6, <1>7 DEF Shape
<1> QED
  BY <1>3, <1>4, <1>5, <1>8

\* A read, joined or cut as the network likes.
LEMMA ReadTokens ==
    ASSUME NEW c \in End, NEW p \in End, c.read <= Len(p.sent),
           NEW k \in 1..(Len(p.sent) - c.read),
           NEW q \in {SubSeq(p.sent, c.read + 1, c.read + k), Cut(SubSeq(p.sent, c.read + 1, c.read + k))}
    PROVE  /\ q \in Seq(Token) /\ Len(q) = k
           /\ \A i \in 1..k : q[i] = p.sent[c.read + i] \/ q[i].k = "part"
<1> DEFINE toks == SubSeq(p.sent, c.read + 1, c.read + k)
<1>1. p.sent \in Seq(Written) /\ c.read \in Nat /\ Len(p.sent) \in Nat
  BY LenProperties DEF End
<1>2. k \in Nat \ {0} /\ c.read + k <= Len(p.sent) /\ c.read + 1 \in Int /\ c.read + k \in Int
  BY <1>1
<1>3. \A i \in (c.read + 1)..(c.read + k) : p.sent[i] \in Token
  <2>1. \A i \in (c.read + 1)..(c.read + k) : i \in 1..Len(p.sent)
    BY <1>1, <1>2
  <2>2. \A i \in 1..Len(p.sent) : p.sent[i] \in Written
    BY <1>1, ElementOfSeq
  <2>3. \A x \in Written : x \in Token
    BY DEF Written, Token
  <2> QED
    BY <2>1, <2>2, <2>3
<1>4. /\ toks \in Seq(Token)
      /\ Len(toks) = IF c.read + 1 <= c.read + k THEN (c.read + k) - (c.read + 1) + 1 ELSE 0
      /\ \A i \in 1..((c.read + k) - (c.read + 1) + 1) : toks[i] = p.sent[(c.read + 1) + i - 1]
  BY <1>2, <1>3, SubSeqProperties
<1>5. Len(toks) = k
  BY <1>1, <1>2, <1>4
<1>6. \A i \in 1..k : toks[i] = p.sent[c.read + i]
  <2>1. ASSUME NEW i \in 1..k
        PROVE  i \in 1..((c.read + k) - (c.read + 1) + 1) /\ (c.read + 1) + i - 1 = c.read + i
    BY SMTT(30), <1>1, <1>2
  <2> QED
    BY <1>4, <2>1
<1> HIDE DEF toks
<1>7. CASE q = toks
  BY <1>4, <1>5, <1>6, <1>7
<1>8. CASE q = Cut(toks)
  <2>1. Tok("part", 0) \in Token /\ Tok("part", 0).k = "part"
    BY DEF Tok, Token
  <2>2. q = [toks EXCEPT ![Len(toks)] = Tok("part", 0)] /\ Len(toks) \in 1..Len(toks)
    BY <1>2, <1>5, <1>8 DEF Cut
  <2> HIDE DEF Tok
  <2>3. /\ q \in Seq(Token) /\ Len(q) = Len(toks)
        /\ \A j \in 1..Len(toks) : q[j] = IF j = Len(toks) THEN Tok("part", 0) ELSE toks[j]
    BY <1>4, <2>1, <2>2, ExceptSeq
  <2> QED
    BY <1>5, <1>6, <2>1, <2>3
<1> QED
  BY <1>7, <1>8 DEF toks

LEMMA ShapeRead ==
    ASSUME NEW c \in End, NEW d \in End, NEW p \in End, c.read <= Len(p.sent),
           NEW k \in 1..(Len(p.sent) - c.read), d.read = c.read + k, Len(d.todo) = k,
           \A i \in 1..k : d.todo[i] = p.sent[c.read + i] \/ d.todo[i].k = "part"
    PROVE  Shape(d, p, 0) /\ Handled(d, 0) = c.read
<1>1. c.read \in Nat /\ Len(p.sent) \in Nat /\ k \in Nat
  <2>1. c.read \in Nat /\ p.sent \in Seq(Written)
    BY DEF End
  <2> QED
    BY <2>1, LenProperties
<1>2. Len(d.todo) - 0 <= d.read /\ d.read <= Len(p.sent) /\ 0 <= Len(d.todo) /\ Handled(d, 0) = c.read
  BY <1>1 DEF Handled
<1>3. ASSUME NEW i \in (0 + 1)..Len(d.todo), d.todo[i].k # "part"
      PROVE  d.todo[i] = p.sent[d.read - Len(d.todo) + i]
  <2>1. i \in 1..k /\ d.read - Len(d.todo) + i = c.read + i
    BY <1>1
  <2> QED
    BY <1>3, <2>1
<1> QED
  BY <1>2, <1>3 DEF Shape

\* An end whose socket is closed handles nothing more.
LEMMA ClosedStream ==
    ASSUME NEW o, NEW c \in End, NEW p \in End, c.todo = <<>>, c.sock = "closed", c.read <= Len(p.sent)
    PROVE  CliStream(o, c, p, 0) /\ SrvStream(o, c, p, 0)
<1>1. Shape(c, p, 0) /\ ~Reading(c) /\ Len(c.todo) = 0
  BY ShapeNothing DEF Reading
<1> QED
  BY <1>1 DEF CliStream, SrvStream

LEMMA ReadWithin ==
    ASSUME NEW c \in End, NEW p \in End, NEW e, Shape(c, p, e)
    PROVE  c.read <= Len(p.sent) /\ c.read \in Nat /\ (c.todo = <<>> => e = 0 /\ Handled(c, 0) = c.read)
<1>1. c.read \in Nat /\ (c.todo = <<>> => Len(c.todo) = 0)
  BY DEF End
<1> QED
  BY <1>1 DEF Shape, Handled

\* The other end writes.
LEMMA CliKept ==
    ASSUME NEW o, NEW c \in End, NEW p \in End, NEW q \in End, CliOk(o, c, p), Extends(p.sent, q.sent)
    PROVE  CliOk(o, c, q)
<1>1. c.got \in Seq(Nat) /\ p.sent \in Seq(Written) /\ q.sent \in Seq(Written)
  BY DEF End
<1>2. Prefix(c.got, q.sent)
  BY <1>1, PrefixExtends DEF CliOk
<1>3. p.sent # <<>> => q.sent # <<>>
  <2>1. (p.sent # <<>> => Len(p.sent) # 0) /\ (q.sent = <<>> => Len(q.sent) = 0)
        /\ Len(p.sent) \in Nat /\ Len(q.sent) \in Nat
    BY <1>1, EmptySeq, LenProperties
  <2> QED
    BY <2>1 DEF Extends
<1>4. PICK e \in 0..2 : CliStream(o, c, p, e)
  BY DEF CliOk
<1>5. Shape(c, q, e)
  BY <1>4, ShapeExtends DEF CliStream
<1>6. CliStream(o, c, q, e)
  BY <1>4, <1>5 DEF CliStream
<1> QED
  BY <1>2, <1>3, <1>6 DEF CliOk

LEMMA SrvKept ==
    ASSUME NEW o, NEW s \in End, NEW p \in End, NEW q \in End, SrvOk(o, s, p), Extends(p.sent, q.sent)
    PROVE  SrvOk(o, s, q)
<1>1. s.got \in Seq(Nat) /\ p.sent \in Seq(Written) /\ q.sent \in Seq(Written)
  BY DEF End
<1>2. Prefix(s.got, q.sent)
  BY <1>1, PrefixExtends DEF SrvOk
<1>3. PICK e \in 0..2 : SrvStream(o, s, p, e)
  BY DEF SrvOk
<1>4. Shape(s, q, e)
  BY <1>3, ShapeExtends DEF SrvStream
<1>5. SrvStream(o, s, q, e)
  BY <1>3, <1>4 DEF SrvStream
<1> QED
  BY <1>2, <1>5 DEF SrvOk

-----------------------------------------------------------------------------
(* The client's steps.                                                     *)

\* c has run the application's callback and goes on, as d, with `rest`.
After(c, d, rest) ==
    /\ d.sock \in {"open", "closed"}
    /\ d.todo = rest \/ (d.todo = <<>> /\ d.sock = "closed")
    /\ d.read = c.read /\ d.prs = c.prs /\ d.got = c.got /\ d.resp = c.resp
    /\ Extends(c.sent, d.sent)

CliAlive(c) == Between(c, opt.cheld) /\ ConnInv(opt, c) /\ CountInv(c)
CliInCall(c) == Mid(c, opt.cheld) /\ ConnInv(opt, c) /\ CountInv(c) /\ c.sock \in {"open", "closed"}

LEMMA CliAfter ==
    ASSUME NEW c, NEW f, NEW rest \in Seq(Token), NEW ws \in BOOLEAN,
           CliInCall(f), Same(c, f)
    PROVE  LET d == Continue(f, rest, ws)
           IN  CliAlive(d) /\ After(c, d, rest) /\ d.active = f.active
<1> DEFINE d == Continue(f, rest, ws)
<1>1. Between(d, opt.cheld) /\ Kept(f, d) /\ d.todo = IF f.dead THEN <<>> ELSE rest
  BY ContinueFacts DEF CliInCall
<1> HIDE DEF d
<1>2. CountInv(d)
  BY <1>1 DEF CountInv, Kept, CliInCall
<1>3. ConnInv(opt, d)
  BY <1>1 DEF ConnInv, Kept, CliInCall
<1>4. f.dead => f.sock = "closed"
  BY DEF CliInCall, Mid
<1>5. After(c, d, rest)
  BY <1>1, <1>4 DEF After, Same, Kept, CliInCall
<1> QED
  BY <1>1, <1>2, <1>3, <1>5 DEF d, CliAlive, Kept

LEMMA CliGoesOn ==
    ASSUME NEW c, NEW a \in App, NEW rest \in Seq(Token), NEW ws \in BOOLEAN,
           CliInCall(c), CliMay(c, a)
    PROVE  LET d == Continue(CliApp(c, a), rest, ws)
           IN  CliAlive(d) /\ After(c, d, rest) /\ d.active = c.active
<1> DEFINE f == CliApp(c, a)
<1>1. Mid(f, opt.cheld) /\ ConnInv(opt, f) /\ CountInv(f) /\ CliFrame(c, f)
  BY CliAppFacts DEF CliInCall
<1> HIDE DEF f
<1>2. CliInCall(f) /\ Same(c, f) /\ f.active = c.active
  BY <1>1 DEF CliInCall, CliFrame, Same
<1>3. LET d == Continue(f, rest, ws)
      IN  CliAlive(d) /\ After(c, d, rest) /\ d.active = f.active
  BY <1>2, CliAfter
<1> QED
  BY <1>2, <1>3 DEF f

\* What is left to show of a step that has gone on with `rest`.
LEMMA CliStreamAfter ==
    ASSUME NEW o, NEW c \in End, NEW d \in End, NEW p \in End, NEW rest, NEW e \in 0..2,
           After(c, d, rest), c.read <= Len(p.sent), d.todo = rest => CliStream(o, d, p, e)
    PROVE  \E i \in 0..2 : CliStream(o, d, p, i)
<1>1. CASE d.todo = rest
  BY <1>1
<1>2. CASE d.todo = <<>> /\ d.sock = "closed"
  <2>1. d.read <= Len(p.sent)
    BY DEF After
  <2> QED
    BY <1>2, <2>1, ClosedStream
<1> QED
  BY <1>1, <1>2 DEF After

\* The end of a body that is complete, and the empty list of callbacks.
LEMMA Callbacks ==
    /\ <<>> \in Seq(Token) /\ Len(<<>>) = 0
    /\ <<Tok("end", 0)>> \in Seq(Token) /\ Len(<<Tok("end", 0)>>) = 1
    /\ <<Tok("end", 0)>>[1].k = "end"
    /\ <<Tok("respond", 0)>> \in Seq(Token) /\ Len(<<Tok("respond", 0)>>) = 1
    /\ <<Tok("respond", 0)>>[1].k = "respond"
  BY DEF Tok, Token

\* An error: the client is closed.
LEMMA CliErrorOk ==
    ASSUME NEW p \in End, CliOk(opt, cli, p), NEW eof \in BOOLEAN, ~cli.dead
    PROVE  LET d == CliError(cli, eof) IN CliOk(opt, d, p) /\ d \in End /\ Extends(cli.sent, d.sent)
<1> DEFINE d == CliError(cli, eof)
<1>1. Between(cli, opt.cheld) /\ ConnInv(opt, cli) /\ CountInv(cli)
  BY DEF CliOk
<1>2. Between(d, opt.cheld) /\ CountInv(d) /\ ConnInv(opt, d)
      /\ d.todo = <<>> /\ d.sock = "closed" /\ d.read = cli.read /\ d.got = cli.got
      /\ d.sent = cli.sent /\ d.active = cli.active /\ d.prs = cli.prs
  BY <1>1, CliErrorFacts
<1> HIDE DEF d
<1>3. d \in End /\ cli \in End
  BY <1>1, <1>2 DEF Between
<1>4. cli.read <= Len(p.sent)
  <2>1. PICK e \in 0..2 : CliStream(opt, cli, p, e)
    BY DEF CliOk
  <2> QED
    BY <1>3, <2>1, ReadWithin DEF CliStream
<1>5. CliStream(opt, d, p, 0)
  BY <1>2, <1>3, <1>4, ClosedStream
<1>6. CliOk(opt, d, p)
  BY <1>2, <1>5 DEF CliOk
<1>7. Extends(cli.sent, d.sent)
  <2>1. cli.sent \in Seq(Written)
    BY <1>3 DEF End
  <2> QED
    BY <1>2, <2>1, ExtendsRefl
<1> QED
  BY <1>3, <1>6, <1>7 DEF d

\* What every callback of the client begins with.
LEMMA CliCalled ==
    ASSUME NEW p \in End, CliOk(opt, cli, p), cli.todo # <<>>
    PROVE  /\ cli \in End /\ CliInCall(cli) /\ ~cli.dead /\ Reading(cli)
           /\ Tail(cli.todo) \in Seq(Token) /\ Head(cli.todo) = cli.todo[1] /\ cli.todo[1] \in Token
           /\ cli.read <= Len(p.sent) /\ cli.todo \in Seq(Token) /\ cli.got \in Seq(Nat)
<1>1. Between(cli, opt.cheld) /\ ConnInv(opt, cli) /\ CountInv(cli)
  BY DEF CliOk
<1>2. cli \in End /\ ~cli.dead /\ (cli.closed => cli.cb) /\ cli.sock \in {"open", "closed"}
  BY <1>1 DEF Between
<1>3. Mid(cli, opt.cheld)
  BY <1>1, <1>2 DEF Between, Mid
<1>4. cli.todo \in Seq(Token) /\ cli.got \in Seq(Nat)
  BY <1>2 DEF End
<1>5. cli.read <= Len(p.sent)
  <2>1. PICK e \in 0..2 : CliStream(opt, cli, p, e)
    BY DEF CliOk
  <2> QED
    BY <1>2, <2>1, ReadWithin DEF CliStream
<1> QED
  BY <1>1, <1>2, <1>3, <1>4, <1>5, TailFacts DEF CliInCall, Reading

\* Headers.emit().
LEMMA CliHeadersOk ==
    ASSUME opt \in Options, NEW p \in End, CliOk(opt, cli, p), HeadFirst(p.sent),
           NEW a \in App, CliMay(cli, a),
           cli.todo # <<>>, Head(cli.todo).k = "head", ~Ws, CliOnHeaders(a)
    PROVE  CliOk(opt, cli', p) /\ cli' \in End /\ Extends(cli.sent, cli'.sent)
<1> DEFINE c == [cli EXCEPT !.prs = "body", !.left = opt.resLen]
<1> DEFINE syn == IF opt.resLen = 0 THEN <<Tok("end", 0)>> ELSE <<>>
<1> DEFINE rest == syn \o Tail(cli.todo)
<1> DEFINE d == Continue(CliApp(c, a), rest, FALSE)
<1>1. cli' = d
  BY DEF CliOnHeaders
<1>2. /\ cli \in End /\ CliInCall(cli) /\ ~cli.dead /\ Reading(cli)
      /\ Tail(cli.todo) \in Seq(Token) /\ Head(cli.todo) = cli.todo[1]
      /\ cli.read <= Len(p.sent) /\ cli.todo \in Seq(Token)
  BY CliCalled
<1>3. PICK e \in 0..2 : CliStream(opt, cli, p, e)
  BY DEF CliOk
<1>4. /\ e = 0 /\ cli.todo[1] = p.sent[Handled(cli, 0) + 1]
      /\ Handled(cli, 0) \in Nat /\ Handled(cli, 0) < Len(p.sent)
  BY <1>2, <1>3, FirstToken DEF CliStream
<1>5. Handled(cli, 0) = 0
  <2>1. Handled(cli, 0) + 1 \in 1..Len(p.sent)
    <3>1. Len(p.sent) \in Nat
      <4>1. p.sent \in Seq(Written)
        BY DEF End
      <4> QED
        BY <4>1, LenProperties
    <3> QED
      BY <1>4, <3>1
  <2>2. p.sent[Handled(cli, 0) + 1].k = "head"
    BY <1>2, <1>4
  <2>3. Handled(cli, 0) + 1 = 1
    BY <2>1, <2>2 DEF HeadFirst
  <2> QED
    BY <1>4, <2>3
<1>6. cli.prs = "start" /\ cli.got = <<>>
  BY <1>2, <1>3, <1>4, <1>5 DEF CliStream, GotAll, Ws
<1>7. /\ c \in End /\ c.prs = "body"
      /\ c.sock = cli.sock /\ c.sent = cli.sent /\ c.hdr = cli.hdr /\ c.closed = cli.closed
      /\ c.cb = cli.cb /\ c.dead = cli.dead /\ c.uaf = cli.uaf /\ c.connect = cli.connect
      /\ c.active = cli.active /\ c.complete = cli.complete /\ c.completes = cli.completes
      /\ c.late = cli.late /\ c.n = cli.n /\ c.todo = cli.todo /\ c.read = cli.read /\ c.got = cli.got
      /\ c.resp = cli.resp
  <2>1. opt.resLen \in Int /\ "body" \in ParserState
    BY HttpAssumption DEF Options, Lengths, ParserState
  <2>2. c \in End
    BY <1>2, <2>1 DEF End
  <2> QED
    BY <1>2, <2>2 DEF End
<1> HIDE DEF c
<1>8. HeadInv(c)
  BY <1>2, <1>7 DEF HeadInv, CliInCall, Mid
<1>9. CliInCall(c)
  <2>1. Mid(c, opt.cheld)
    BY <1>2, <1>7, <1>8 DEF CliInCall, Mid
  <2>2. ConnInv(opt, c)
    BY <1>2, <1>7 DEF CliInCall, ConnInv
  <2>3. CountInv(c)
    BY <1>2, <1>6, <1>7 DEF CliInCall, CountInv, Mid
  <2> QED
    BY <1>2, <1>7, <2>1, <2>2, <2>3 DEF CliInCall
<1>10. CliMay(c, a)
  BY <1>7 DEF CliMay, CanSend
<1>11. /\ syn \in Seq(Token) /\ Len(syn) \in 0..1 /\ \A i \in 1..Len(syn) : syn[i].k = "end" /\ i = Len(syn)
  BY Callbacks
<1> HIDE DEF syn
<1>12. rest \in Seq(Token)
  BY <1>2, <1>11, ConcatFacts
<1>13. CliAlive(d) /\ After(c, d, rest) /\ d.active = c.active
  BY <1>9, <1>10, <1>12, CliGoesOn
<1> HIDE DEF d
<1>14. d \in End
  BY <1>13 DEF CliAlive, Between
<1>15. d.todo = rest => CliStream(opt, d, p, Len(syn))
  <2>1. SUFFICES ASSUME d.todo = rest PROVE CliStream(opt, d, p, Len(syn))
    OBVIOUS
  <2>2. d.prs = "body" /\ d.read = cli.read /\ d.got = <<>> /\ Len(syn) \in 0..2
    BY <1>6, <1>7, <1>11, <1>13 DEF After
  <2>3. Shape(d, p, Len(syn)) /\ Handled(d, Len(syn)) = Handled(cli, 0) + 1
        /\ \A i \in 1..Len(syn) : d.todo[i] = syn[i]
    <3>1. Shape(cli, p, 0)
      BY <1>3, <1>4 DEF CliStream
    <3>2. \A i \in 1..Len(syn) : \/ syn[i].k = "end" /\ i = Len(syn) /\ d.prs = "body"
                                 \/ syn[i].k = "respond" /\ i = 1 /\ ~d.resp /\ d.prs # "start"
      BY <1>11, <2>2
    <3>3. d.todo = syn \o Tail(cli.todo)
      BY <2>1
    <3>4. cli \in End /\ syn \in Seq(Token) /\ Len(syn) \in 0..2 /\ d.read = cli.read
      BY <1>2, <1>11, <2>2
    <3> HIDE DEF rest
    <3>5. Shape(d, p, Len(syn)) /\ Handled(d, Len(syn)) = Handled(cli, 0) + 1
      BY ZenonT(60), <1>14, <3>1, <3>2, <3>3, <3>4, PopToken
    <3>6. \A i \in 1..Len(syn) : d.todo[i] = syn[i]
      BY <1>14, <3>1, <3>2, <3>3, <3>4, PopToken
    <3> QED
      BY <3>5, <3>6
  <2>4. Handled(d, Len(syn)) = 1 /\ Len(d.got) = 0
    BY <1>5, <2>2, <2>3
  <2>5. \A i \in 1..Len(syn) : d.todo[i].k = "end"
    BY <1>11, <2>3
  <2> QED
    BY <2>2, <2>3, <2>4, <2>5 DEF CliStream, GotAll
<1>16. \E i \in 0..2 : CliStream(opt, d, p, i)
  <2>1. Len(syn) \in 0..2 /\ c.read <= Len(p.sent)
    BY <1>2, <1>7, <1>11
  <2> QED
    BY <1>7, <1>13, <1>14, <1>15, <2>1, CliStreamAfter
<1>17. CliOk(opt, d, p)
  BY <1>7, <1>13, <1>16 DEF CliOk, CliAlive, After, Ws
<1> QED
  BY <1>1, <1>7, <1>13, <1>14, <1>17 DEF After

\* A handshake answer that is good: Connect.emit().
LEMMA CliHandshakeOk ==
    ASSUME opt \in Options, NEW p \in End, CliOk(opt, cli, p), HeadFirst(p.sent),
           NEW a \in App, CliMay(cli, a),
           cli.todo # <<>>, Head(cli.todo).k = "head", Ws, CliOnHandshake(a)
    PROVE  CliOk(opt, cli', p) /\ cli' \in End /\ Extends(cli.sent, cli'.sent)
<1>2. /\ cli \in End /\ CliInCall(cli) /\ ~cli.dead /\ Reading(cli)
      /\ Tail(cli.todo) \in Seq(Token) /\ Head(cli.todo) = cli.todo[1]
      /\ cli.read <= Len(p.sent) /\ cli.todo \in Seq(Token)
  BY CliCalled
<1>a. CASE ~opt.valid
  <2>1. cli' = CliError(cli, FALSE)
    BY <1>a DEF CliOnHandshake, Refused
  <2> QED
    BY <1>2, <2>1, CliErrorOk
<1>b. CASE opt.valid
  <2> DEFINE c == [cli EXCEPT !.hs = 2]
  <2> DEFINE f == CliOnConnect(c, a)
  <2> DEFINE rest == Tail(cli.todo)
  <2> DEFINE d == Continue(f, rest, TRUE)
  <2>1. cli' = d
    BY <1>b DEF CliOnHandshake, AfterHandshake
  <2>3. PICK e \in 0..2 : CliStream(opt, cli, p, e)
    BY DEF CliOk
  <2>4. /\ e = 0 /\ cli.todo[1] = p.sent[Handled(cli, 0) + 1]
        /\ Handled(cli, 0) \in Nat /\ Handled(cli, 0) < Len(p.sent)
    BY <1>2, <2>3, FirstToken DEF CliStream
  <2>p. p.sent \in Seq(Written) /\ Len(p.sent) \in Nat
    <3>1. p.sent \in Seq(Written)
      BY DEF End
    <3> QED
      BY <3>1, LenProperties
  <2>5. Handled(cli, 0) = 0 /\ p.sent # <<>>
    <3>1. Handled(cli, 0) + 1 \in 1..Len(p.sent)
      BY <2>4, <2>p
    <3>2. p.sent[Handled(cli, 0) + 1].k = "head"
      BY <1>2, <2>4
    <3>3. Handled(cli, 0) + 1 = 1
      BY <3>1, <3>2 DEF HeadFirst
    <3> QED
      BY <2>4, <2>p, <3>3
  <2>6. cli.prs = "start" /\ cli.got = <<>>
    BY <1>2, <2>3, <2>4, <2>5 DEF CliStream, GotAll, Ws, CliOk
  <2>7. /\ c \in End /\ c.prs = cli.prs
        /\ c.sock = cli.sock /\ c.sent = cli.sent /\ c.hdr = cli.hdr /\ c.closed = cli.closed
        /\ c.cb = cli.cb /\ c.dead = cli.dead /\ c.uaf = cli.uaf /\ c.connect = cli.connect
        /\ c.active = cli.active /\ c.complete = cli.complete /\ c.completes = cli.completes
        /\ c.late = cli.late /\ c.n = cli.n /\ c.todo = cli.todo /\ c.read = cli.read /\ c.got = cli.got
        /\ c.resp = cli.resp
    <3>1. 2 \in FramerState
      BY DEF FramerState
    <3>2. c \in End
      BY <1>2, <3>1 DEF End
    <3> QED
      BY <1>2, <3>2 DEF End
  <2> HIDE DEF c
  <2>8. HeadInv(c)
    BY <1>2, <2>7 DEF HeadInv, CliInCall, Mid
  <2>9. CliInCall(c)
    BY <1>2, <2>7, <2>8 DEF CliInCall, Mid, ConnInv, CountInv
  <2>10. CliMay(c, a)
    BY <2>7 DEF CliMay, CanSend
  <2>11. Mid(f, opt.cheld) /\ CountInv(f) /\ ConnInv(opt, f) /\ f.active /\ Same(c, f)
         /\ f.sock \in {"open", "closed"}
    BY <2>9, <2>10, CliOnConnectFacts DEF CliInCall
  <2> HIDE DEF f
  <2>12. CliInCall(f)
    BY <2>11 DEF CliInCall
  <2>13. CliAlive(d) /\ After(c, d, rest) /\ d.active = f.active
    BY <1>2, <2>11, <2>12, CliAfter
  <2> HIDE DEF d
  <2>14. d \in End
    BY <2>13 DEF CliAlive, Between
  <2>15. d.todo = rest => CliStream(opt, d, p, 0)
    <3>1. SUFFICES ASSUME d.todo = rest PROVE CliStream(opt, d, p, 0)
      OBVIOUS
    <3>2. d.prs = "start" /\ d.read = cli.read /\ d.got = <<>>
      BY <2>6, <2>7, <2>13 DEF After
    <3>3. d.todo = <<>> \o Tail(cli.todo) /\ Shape(cli, p, 0)
      BY <1>2, <2>3, <2>4, <3>1, ConcatEmptySeq DEF CliStream
    <3>4. Shape(d, p, 0) /\ Handled(d, 0) = Handled(cli, 0) + 1
      <4> DEFINE syn == <<>>
      <4>1. syn \in Seq(Token) /\ Len(syn) = 0
        BY Callbacks
      <4>2. d.todo = syn \o Tail(cli.todo) /\ d.read = cli.read
        BY <3>2, <3>3
      <4> HIDE DEF syn
      <4>3. Shape(d, p, Len(syn)) /\ Handled(d, Len(syn)) = Handled(cli, 0) + 1
        <5>1. \A i \in 1..Len(syn) : \/ syn[i].k = "end" /\ i = Len(syn) /\ d.prs = "body"
                                     \/ syn[i].k = "respond" /\ i = 1 /\ ~d.resp /\ d.prs # "start"
          BY <4>1
        <5>2. cli \in End /\ Shape(cli, p, 0) /\ Len(syn) \in 0..2 /\ syn \in Seq(Token)
          BY <1>2, <3>3, <4>1
        <5> QED
          BY ZenonT(60), <2>14, <4>2, <5>1, <5>2, PopToken
      <4> QED
        BY <4>1, <4>3
    <3>5. Handled(d, 0) = 1 /\ Len(d.got) = 0
      BY <2>5, <3>2, <3>4
    <3> QED
      BY <3>4, <3>5 DEF CliStream, GotAll, Ws
  <2>16. \E i \in 0..2 : CliStream(opt, d, p, i)
    <3>1. c.read <= Len(p.sent)
      BY <1>2, <2>7
    <3> QED
      BY <2>7, <2>13, <2>14, <2>15, <3>1, CliStreamAfter
  <2>17. CliOk(opt, d, p)
    BY <2>5, <2>7, <2>13, <2>16 DEF CliOk, CliAlive, After, Ws
  <2> QED
    BY <2>1, <2>7, <2>13, <2>14, <2>17 DEF After
<1> QED
  BY <1>a, <1>b

\* Payload.emit().
LEMMA CliPayloadOk ==
    ASSUME opt \in Options, NEW p \in End, CliOk(opt, cli, p), HeadFirst(p.sent),
           NEW a \in App, CliMay(cli, a),
           cli.todo # <<>>, Head(cli.todo).k = "data", CliBodyDue, CliOnPayload(a)
    PROVE  CliOk(opt, cli', p) /\ cli' \in End /\ Extends(cli.sent, cli'.sent)
<1> DEFINE id == Head(cli.todo).id
<1> DEFINE got == Append(cli.got, id)
<1> DEFINE late == IF cli.closed THEN cli.late + 1 ELSE cli.late
<1> DEFINE left == Remaining(cli.left)
<1> DEFINE left2 == IF Ws THEN 0 ELSE left
<1> DEFINE c == [cli EXCEPT !.got = got, !.late = late, !.left = left2]
<1> DEFINE syn == IF ~Ws /\ left = 0 THEN <<Tok("end", 0)>> ELSE <<>>
<1> DEFINE rest == syn \o Tail(cli.todo)
<1> DEFINE d == Continue(CliApp(c, a), rest, Ws)
<1>1. cli' = d
  BY DEF CliOnPayload
<1>2. /\ cli \in End /\ CliInCall(cli) /\ ~cli.dead /\ Reading(cli)
      /\ Tail(cli.todo) \in Seq(Token) /\ Head(cli.todo) = cli.todo[1] /\ cli.todo[1] \in Token
      /\ cli.read <= Len(p.sent) /\ cli.todo \in Seq(Token) /\ cli.got \in Seq(Nat)
  BY CliCalled
<1>3. PICK e \in 0..2 : CliStream(opt, cli, p, e)
  BY DEF CliOk
<1>4. /\ e = 0 /\ cli.todo[1] = p.sent[Handled(cli, 0) + 1]
      /\ Handled(cli, 0) \in Nat /\ Handled(cli, 0) < Len(p.sent)
  BY <1>2, <1>3, FirstToken DEF CliStream
<1>p. Len(p.sent) \in Nat
  <2>1. p.sent \in Seq(Written)
    BY DEF End
  <2> QED
    BY <2>1, LenProperties
<1>5. Handled(cli, 0) # 0
  <2>1. SUFFICES ASSUME Handled(cli, 0) = 0 PROVE FALSE
    OBVIOUS
  <2>2. 1 \in 1..Len(p.sent) /\ cli.todo[1] = p.sent[1]
    BY <1>4, <1>p, <2>1
  <2>3. p.sent[1].k = "head"
    BY <2>2 DEF HeadFirst
  <2> QED
    BY <1>2, <2>2, <2>3
<1>6. Len(cli.got) = Handled(cli, 0) - 1 /\ (~Ws => cli.prs = "body")
  BY <1>2, <1>3, <1>4, <1>5 DEF CliStream, GotAll, Ws, CliBodyDue
<1>g. /\ got \in Seq(Nat) /\ Len(got) = Handled(cli, 0) /\ got # <<>>
      /\ \A i \in 1..Len(cli.got) : got[i] = cli.got[i]
      /\ got[Len(cli.got) + 1] = id
  <2>1. id \in Nat
    BY <1>2 DEF Token
  <2> HIDE DEF id
  <2>2. /\ got \in Seq(Nat) /\ Len(got) = Len(cli.got) + 1 /\ got # <<>>
        /\ \A i \in 1..Len(cli.got) : got[i] = cli.got[i]
        /\ got[Len(cli.got) + 1] = id
    BY <1>2, <2>1, AppendProperties
  <2> QED
    BY <1>4, <1>6, <2>2
<1>h. Prefix(got, p.sent)
  <2>1. id = p.sent[Handled(cli, 0) + 1].id
    BY <1>2, <1>4
  <2>2. ASSUME NEW i \in 1..Len(got) PROVE got[i] = p.sent[i + 1].id
    <3>1. CASE i = Handled(cli, 0)
      <4>1. i = Len(cli.got) + 1
        BY <1>4, <1>6, <3>1
      <4> QED
        BY <1>g, <2>1, <3>1, <4>1
    <3>2. CASE i # Handled(cli, 0)
      <4>1. i \in 1..Len(cli.got)
        BY <1>4, <1>6, <1>g, <3>2
      <4> QED
        BY <1>g, <4>1 DEF CliOk, Prefix
    <3> QED
      BY <3>1, <3>2
  <2> QED
    BY <1>4, <1>g, <2>2 DEF Prefix
<1>7. /\ c \in End /\ c.got = got /\ (~c.closed => c.late = cli.late)
      /\ c.prs = cli.prs
      /\ c.sock = cli.sock /\ c.sent = cli.sent /\ c.hdr = cli.hdr /\ c.closed = cli.closed
      /\ c.cb = cli.cb /\ c.dead = cli.dead /\ c.uaf = cli.uaf /\ c.connect = cli.connect
      /\ c.active = cli.active /\ c.complete = cli.complete /\ c.completes = cli.completes
      /\ c.n = cli.n /\ c.todo = cli.todo /\ c.read = cli.read
      /\ c.resp = cli.resp
  <2>1. cli.left \in Int /\ cli.late \in Nat
    BY <1>2 DEF End
  <2>2. left2 \in Int /\ late \in Nat
    BY <2>1, HttpAssumption DEF Remaining
  <2>3. ~cli.closed => late = cli.late
    OBVIOUS
  <2> HIDE DEF left2, late, got
  <2>4. c \in End
    BY <1>2, <1>g, <2>2 DEF End
  <2>5. c.got = got /\ c.late = late
    BY <1>2 DEF End
  <2>6. /\ c.prs = cli.prs
        /\ c.sock = cli.sock /\ c.sent = cli.sent /\ c.hdr = cli.hdr /\ c.closed = cli.closed
        /\ c.cb = cli.cb /\ c.dead = cli.dead /\ c.uaf = cli.uaf /\ c.connect = cli.connect
        /\ c.active = cli.active /\ c.complete = cli.complete /\ c.completes = cli.completes
        /\ c.n = cli.n /\ c.todo = cli.todo /\ c.read = cli.read
        /\ c.resp = cli.resp
    BY <1>2 DEF End
  <2> QED
    BY <2>3, <2>4, <2>5, <2>6
<1>11. /\ syn \in Seq(Token) /\ Len(syn) \in 0..1
       /\ \A i \in 1..Len(syn) : syn[i].k = "end" /\ i = Len(syn) /\ ~Ws
  BY Callbacks
<1> HIDE DEF c, got, syn
<1>8. HeadInv(c)
  BY <1>2, <1>7 DEF HeadInv, CliInCall, Mid
<1>9. CliInCall(c)
  <2>1. Mid(c, opt.cheld)
    BY <1>2, <1>7, <1>8 DEF CliInCall, Mid
  <2>2. ConnInv(opt, c)
    BY <1>2, <1>7 DEF CliInCall, ConnInv
  <2>3. CountInv(c)
    BY <1>2, <1>7, <2>1 DEF CliInCall, CountInv, Mid
  <2> QED
    BY <1>2, <1>7, <2>1, <2>2, <2>3 DEF CliInCall
<1>10. CliMay(c, a)
  BY <1>7 DEF CliMay, CanSend
<1>12. rest \in Seq(Token) /\ Ws \in BOOLEAN
  BY <1>2, <1>11, ConcatFacts DEF Ws
<1>13. CliAlive(d) /\ After(c, d, rest) /\ d.active = c.active
  BY <1>9, <1>10, <1>12, CliGoesOn
<1> HIDE DEF d
<1>14. d \in End
  BY <1>13 DEF CliAlive, Between
<1>15. d.todo = rest => CliStream(opt, d, p, Len(syn))
  <2>1. SUFFICES ASSUME d.todo = rest PROVE CliStream(opt, d, p, Len(syn))
    OBVIOUS
  <2>2. d.prs = cli.prs /\ d.read = cli.read /\ d.got = got /\ Len(syn) \in 0..2
    BY <1>7, <1>11, <1>13 DEF After
  <2>3. Shape(d, p, Len(syn)) /\ Handled(d, Len(syn)) = Handled(cli, 0) + 1
        /\ \A i \in 1..Len(syn) : d.todo[i] = syn[i]
    <3>1. Shape(cli, p, 0)
      BY <1>3, <1>4 DEF CliStream
    <3>2. \A i \in 1..Len(syn) : \/ syn[i].k = "end" /\ i = Len(syn) /\ d.prs = "body"
                                 \/ syn[i].k = "respond" /\ i = 1 /\ ~d.resp /\ d.prs # "start"
      BY <1>6, <1>11, <2>2
    <3>3. d.todo = syn \o Tail(cli.todo)
      BY <2>1
    <3>4. cli \in End /\ syn \in Seq(Token) /\ Len(syn) \in 0..2 /\ d.read = cli.read
      BY <1>2, <1>11, <2>2
    <3> HIDE DEF rest
    <3>5. Shape(d, p, Len(syn)) /\ Handled(d, Len(syn)) = Handled(cli, 0) + 1
      BY ZenonT(60), <1>14, <3>1, <3>2, <3>3, <3>4, PopToken
    <3>6. \A i \in 1..Len(syn) : d.todo[i] = syn[i]
      BY <1>14, <3>1, <3>2, <3>3, <3>4, PopToken
    <3> QED
      BY <3>5, <3>6
  <2>4. Handled(d, Len(syn)) # 0 /\ Len(d.got) = Handled(d, Len(syn)) - 1
    BY <1>4, <1>g, <2>2, <2>3
  <2>5. \A i \in 1..Len(syn) : d.todo[i].k = "end"
    BY <1>11, <2>3
  <2> QED
    BY <1>6, <2>2, <2>3, <2>4, <2>5 DEF CliStream, GotAll, Ws
<1>16. \E i \in 0..2 : CliStream(opt, d, p, i)
  <2>1. Len(syn) \in 0..2 /\ c.read <= Len(p.sent)
    BY <1>2, <1>7, <1>11
  <2> QED
    BY <1>7, <1>13, <1>14, <1>15, <2>1, CliStreamAfter
<1>17. CliOk(opt, d, p)
  <2>1. opt.up = "ws" => d.prs = "start"
    BY <1>7, <1>13 DEF CliOk, After
  <2>2. opt.up = "ws" /\ d.active => p.sent # <<>>
    BY <1>7, <1>13 DEF CliOk
  <2>3. Prefix(d.got, p.sent)
    BY <1>7, <1>h, <1>13 DEF After
  <2> QED
    BY <1>13, <1>16, <2>1, <2>2, <2>3 DEF CliOk, CliAlive, After
<1> QED
  BY <1>1, <1>7, <1>13, <1>14, <1>17 DEF After

\* Complete.emit() at the end of the response.
LEMMA CliCompleteOk ==
    ASSUME opt \in Options, NEW p \in End, CliOk(opt, cli, p),
           NEW a \in App, CliMay(cli, a),
           cli.todo # <<>>, Head(cli.todo).k = "end", CliOnComplete(a)
    PROVE  CliOk(opt, cli', p) /\ cli' \in End /\ Extends(cli.sent, cli'.sent)
<1> DEFINE c == [cli EXCEPT !.prs = "done", !.complete = TRUE, !.completes = cli.completes + 1]
<1> DEFINE rest == Tail(cli.todo)
<1> DEFINE d == Continue(CliApp(c, a), rest, FALSE)
<1>1. cli' = d
  BY DEF CliOnComplete
<1>2. /\ cli \in End /\ CliInCall(cli) /\ ~cli.dead /\ Reading(cli)
      /\ Tail(cli.todo) \in Seq(Token) /\ Head(cli.todo) = cli.todo[1]
      /\ cli.read <= Len(p.sent) /\ cli.todo \in Seq(Token)
  BY CliCalled
<1>3. PICK e \in 0..2 : CliStream(opt, cli, p, e)
  BY DEF CliOk
<1>4. e = 1 /\ cli.prs = "body" /\ Handled(cli, 1) \in Nat
  BY <1>2, <1>3, FirstToken DEF CliStream
<1>5. ~Ws /\ Handled(cli, 1) # 0
  BY <1>2, <1>3, <1>4 DEF CliOk, CliStream, Ws
<1>7. /\ c \in End /\ c.prs = "done" /\ c.complete /\ c.completes = cli.completes + 1
      /\ c.sock = cli.sock /\ c.sent = cli.sent /\ c.hdr = cli.hdr /\ c.closed = cli.closed
      /\ c.cb = cli.cb /\ c.dead = cli.dead /\ c.uaf = cli.uaf /\ c.connect = cli.connect
      /\ c.active = cli.active
      /\ c.late = cli.late /\ c.n = cli.n /\ c.todo = cli.todo /\ c.read = cli.read /\ c.got = cli.got
      /\ c.resp = cli.resp
  <2>1. "done" \in ParserState /\ cli.completes \in Nat
    BY <1>2 DEF ParserState, End
  <2>2. cli.completes + 1 \in Nat
    BY <2>1
  <2>3. c \in End
    BY <1>2, <2>1, <2>2 DEF End
  <2>4. c.prs = "done" /\ c.complete /\ c.completes = cli.completes + 1
    BY <1>2 DEF End
  <2> QED
    BY <1>2, <2>3, <2>4 DEF End
<1> HIDE DEF c
<1>8. HeadInv(c)
  BY <1>2, <1>7 DEF HeadInv, CliInCall, Mid
<1>9. CliInCall(c)
  <2>1. Mid(c, opt.cheld)
    BY <1>2, <1>7, <1>8 DEF CliInCall, Mid
  <2>2. ConnInv(opt, c)
    BY <1>2, <1>7 DEF CliInCall, ConnInv
  <2>3. CountInv(c)
    BY <1>2, <1>4, <1>7, <2>1 DEF CliInCall, CountInv, Mid
  <2> QED
    BY <1>2, <1>7, <2>1, <2>2, <2>3 DEF CliInCall
<1>10. CliMay(c, a)
  BY <1>7 DEF CliMay, CanSend
<1>13. CliAlive(d) /\ After(c, d, rest) /\ d.active = c.active
  BY <1>2, <1>9, <1>10, CliGoesOn
<1> HIDE DEF d
<1>14. d \in End
  BY <1>13 DEF CliAlive, Between
<1>15. d.todo = rest => CliStream(opt, d, p, 0)
  <2>1. SUFFICES ASSUME d.todo = rest PROVE CliStream(opt, d, p, 0)
    OBVIOUS
  <2>2. d.prs = "done" /\ d.read = cli.read
    BY <1>7, <1>13 DEF After
  <2>3. Shape(cli, p, 1)
    BY <1>3, <1>4 DEF CliStream
  <2>4. Shape(d, p, 1 - 1) /\ Handled(d, 1 - 1) = Handled(cli, 1)
    BY <1>2, <1>14, <2>1, <2>2, <2>3, PopCallback
  <2> QED
    BY <1>5, <2>2, <2>4 DEF CliStream, Ws
<1>16. \E i \in 0..2 : CliStream(opt, d, p, i)
  <2>1. c.read <= Len(p.sent)
    BY <1>2, <1>7
  <2> QED
    BY <1>7, <1>13, <1>14, <1>15, <2>1, CliStreamAfter
<1>17. CliOk(opt, d, p)
  BY <1>5, <1>7, <1>13, <1>16 DEF CliOk, CliAlive, After, Ws
<1> QED
  BY <1>1, <1>7, <1>13, <1>14, <1>17 DEF After

LEMMA CliStepOk ==
    ASSUME opt \in Options, NEW p \in End, CliOk(opt, cli, p), HeadFirst(p.sent),
           NEW a \in App, CliStep(a)
    PROVE  CliOk(opt, cli', p) /\ cli' \in End /\ Extends(cli.sent, cli'.sent)
<1> DEFINE k == Head(cli.todo).k
<1>1. cli.todo # <<>> /\ CliMay(cli, a)
  BY DEF CliStep
<1>2. ~cli.dead
  BY <1>1, CliCalled
<1>3. CASE k = "head" /\ ~Ws /\ CliOnHeaders(a)
  BY <1>1, <1>3, CliHeadersOk
<1>4. CASE k = "head" /\ Ws /\ CliOnHandshake(a)
  BY <1>1, <1>4, CliHandshakeOk
<1>5. CASE k = "data" /\ CliBodyDue /\ CliOnPayload(a)
  BY <1>1, <1>5, CliPayloadOk
<1>6. CASE k = "end" /\ CliOnComplete(a)
  BY <1>1, <1>6, CliCompleteOk
<1>7. CASE cli' = CliError(cli, FALSE)
  BY <1>2, <1>7, CliErrorOk
<1> QED
  BY <1>3, <1>4, <1>5, <1>6, <1>7 DEF CliStep

LEMMA CliReadOk ==
    ASSUME opt \in Options, srv \in End, CliOk(opt, cli, srv), NEW k \in Nat, NEW cut \in BOOLEAN, CliRead(k, cut)
    PROVE  CliOk(opt, cli', srv) /\ cli' \in End /\ Extends(cli.sent, cli'.sent)
<1> DEFINE toks == SubSeq(srv.sent, cli.read + 1, cli.read + k)
<1> DEFINE q == IF Dropped(cli, Ws) THEN <<>> ELSE IF cut THEN Cut(toks) ELSE toks
<1> DEFINE r == cli.read + k
<1>1. cli.sock = "open" /\ cli.todo = <<>> /\ k \in 1..(Len(srv.sent) - cli.read)
      /\ cli' = [cli EXCEPT !.read = r, !.todo = q]
  BY DEF CliRead
<1>2. cli \in End
  BY DEF CliOk, Between
<1>3. PICK e \in 0..2 : CliStream(opt, cli, srv, e)
  BY DEF CliOk
<1>4. cli.read <= Len(srv.sent) /\ cli.read \in Nat /\ e = 0 /\ Handled(cli, 0) = cli.read
  BY <1>1, <1>2, <1>3, ReadWithin DEF CliStream
<1>5. r \in Nat /\ r # 0 /\ r <= Len(srv.sent)
  <2>1. srv.sent \in Seq(Written)
    BY DEF End
  <2>2. Len(srv.sent) \in Nat
    BY <2>1, LenProperties
  <2> QED
    BY <1>1, <1>4, <2>2
<1>6. /\ q \in Seq(Token)
      /\ \/ q = <<>> /\ ~Ws /\ cli.prs = "done"
         \/ Len(q) = k /\ \A i \in 1..k : q[i] = srv.sent[cli.read + i] \/ q[i].k = "part"
  <2>1. CASE Dropped(cli, Ws)
    BY <2>1, Callbacks DEF Dropped
  <2>2. CASE ~Dropped(cli, Ws)
    <3>1. q \in {toks, Cut(toks)}
      BY <2>2
    <3> HIDE DEF q
    <3> QED
      BY <1>1, <1>2, <1>4, <3>1, ReadTokens
  <2> QED
    BY <2>1, <2>2
<1> HIDE DEF q, r
<1> DEFINE d == cli'
<1>7. d \in End /\ d.read = r /\ d.todo = q
  BY ZenonT(60), <1>1, <1>2, <1>5, <1>6 DEF End
<1>8. /\ d.sock = cli.sock /\ d.sent = cli.sent /\ d.hdr = cli.hdr /\ d.closed = cli.closed
      /\ d.cb = cli.cb /\ d.dead = cli.dead /\ d.uaf = cli.uaf /\ d.connect = cli.connect
      /\ d.active = cli.active /\ d.complete = cli.complete /\ d.completes = cli.completes
      /\ d.late = cli.late /\ d.prs = cli.prs /\ d.got = cli.got /\ d.resp = cli.resp
  BY <1>1, <1>2 DEF End
<1> HIDE DEF d
<1>9. HeadInv(d)
  BY <1>8 DEF HeadInv, CliOk, Between
<1>10. Between(d, opt.cheld) /\ ConnInv(opt, d) /\ CountInv(d)
  BY <1>1, <1>7, <1>8, <1>9 DEF CliOk, Between, ConnInv, CountInv
<1>11. CliStream(opt, d, srv, 0)
  <2>0. Reading(cli)
    BY <1>1 DEF Reading
  <2>1. CASE q = <<>> /\ ~Ws /\ cli.prs = "done"
    <3>1. Shape(d, srv, 0) /\ Handled(d, 0) = r
      BY <1>5, <1>7, <2>1, ShapeNothing
    <3> QED
      BY <1>5, <1>8, <2>1, <3>1 DEF CliStream, Ws
  <2>2. CASE Len(q) = k /\ \A i \in 1..k : q[i] = srv.sent[cli.read + i] \/ q[i].k = "part"
    <3>1. Shape(d, srv, 0) /\ Handled(d, 0) = cli.read
      BY <1>1, <1>2, <1>4, <1>7, <2>2, ShapeRead DEF r
    <3> QED
      BY <1>3, <1>4, <1>8, <2>0, <3>1 DEF CliStream, GotAll
  <2> QED
    BY <1>6, <2>1, <2>2
<1>12. CliOk(opt, d, srv)
  BY <1>1, <1>8, <1>10, <1>11 DEF CliOk
<1>13. Extends(cli.sent, d.sent)
  <2>1. cli.sent \in Seq(Written)
    BY <1>2 DEF End
  <2> QED
    BY <1>8, <2>1, ExtendsRefl
<1> QED
  BY <1>7, <1>12, <1>13 DEF d

\* A client whose socket is not open yet, or that has nothing to read.
LEMMA CliQuiet ==
    ASSUME srv \in End, CliOk(opt, cli, srv), cli.todo = <<>>, ~cli.closed
    PROVE  /\ cli \in End /\ Mid(cli, opt.cheld) /\ ConnInv(opt, cli) /\ CountInv(cli) /\ ~cli.dead
           /\ CliStream(opt, cli, srv, 0) /\ cli.read <= Len(srv.sent) /\ Handled(cli, 0) = cli.read
           /\ cli.sent \in Seq(Written) /\ Extends(cli.sent, cli.sent)
           /\ HeadInv(cli) /\ cli.sock # "closed"
<1>1. Between(cli, opt.cheld) /\ ConnInv(opt, cli) /\ CountInv(cli)
  BY DEF CliOk
<1>2. cli \in End /\ ~cli.dead
  BY <1>1 DEF Between
<1>3. Mid(cli, opt.cheld)
  BY <1>1 DEF Between, Mid
<1>4. cli.sent \in Seq(Written)
  BY <1>2 DEF End
<1>5. PICK e \in 0..2 : CliStream(opt, cli, srv, e)
  BY DEF CliOk
<1>6. e = 0 /\ cli.read <= Len(srv.sent) /\ Handled(cli, 0) = cli.read
  BY <1>2, <1>5, ReadWithin DEF CliStream
<1> QED
  BY <1>1, <1>2, <1>3, <1>4, <1>5, <1>6, ExtendsRefl DEF Between

\* The application, or the network, changes a client with nothing to read.
LEMMA CliQuietStream ==
    ASSUME srv \in End, NEW d \in End, CliOk(opt, cli, srv), cli.todo = <<>>, ~cli.closed,
           d.todo = <<>>, d.read = cli.read, d.prs = cli.prs, d.got = cli.got, d.resp = cli.resp,
           d.sock = "open" => cli.sock = "open"
    PROVE  CliStream(opt, d, srv, 0)
<1>1. CliStream(opt, cli, srv, 0) /\ cli.read <= Len(srv.sent) /\ Handled(cli, 0) = cli.read
  BY CliQuiet
<1>2. Shape(d, srv, 0) /\ Handled(d, 0) = cli.read
  BY <1>1, ShapeNothing
<1>3. Reading(d) => Reading(cli)
  BY DEF Reading
<1> QED
  BY <1>1, <1>2, <1>3 DEF CliStream, GotAll

LEMMA ResolveOk ==
    ASSUME srv \in End, CliOk(opt, cli, srv), NEW ok \in BOOLEAN, Resolve(ok)
    PROVE  CliOk(opt, cli', srv) /\ cli' \in End /\ Extends(cli.sent, cli'.sent)
<1>1. cli.sock = "resolving"
  BY DEF Resolve
<1>2. ~cli.closed /\ cli.todo = <<>>
  BY <1>1 DEF CliOk, Between
<1>3. /\ cli \in End /\ ConnInv(opt, cli) /\ CountInv(cli) /\ ~cli.dead
      /\ cli.sent \in Seq(Written) /\ Extends(cli.sent, cli.sent) /\ HeadInv(cli)
  BY <1>2, CliQuiet
<1>4. CASE ~ok
  <2>1. cli' = CliError(cli, FALSE)
    BY <1>4 DEF Resolve
  <2> QED
    BY <1>3, <2>1, CliErrorOk
<1>5. CASE ok
  <2> DEFINE d == cli'
  <2>1. d = [cli EXCEPT !.sock = "connecting"] /\ "connecting" \in SocketState
    BY <1>5 DEF Resolve, SocketState
  <2>2. d \in End /\ d.sock = "connecting"
    BY ZenonT(60), <1>3, <2>1 DEF End
  <2>3. /\ d.sent = cli.sent /\ d.hdr = cli.hdr /\ d.closed = cli.closed
        /\ d.cb = cli.cb /\ d.dead = cli.dead /\ d.uaf = cli.uaf /\ d.connect = cli.connect
        /\ d.active = cli.active /\ d.complete = cli.complete /\ d.completes = cli.completes
        /\ d.late = cli.late /\ d.prs = cli.prs /\ d.got = cli.got /\ d.resp = cli.resp
        /\ d.todo = cli.todo /\ d.read = cli.read
    BY <1>3, <2>1 DEF End
  <2> HIDE DEF d
  <2>4. HeadInv(d)
    BY <1>1, <1>3, <2>2, <2>3 DEF HeadInv
  <2>5. Between(d, opt.cheld) /\ ConnInv(opt, d) /\ CountInv(d)
    BY <1>1, <2>2, <2>3, <2>4 DEF CliOk, Between, ConnInv, CountInv
  <2>6. CliStream(opt, d, srv, 0)
    BY <1>2, <2>2, <2>3, CliQuietStream
  <2>7. CliOk(opt, d, srv)
    BY <1>1, <2>2, <2>3, <2>5, <2>6 DEF CliOk
  <2> QED
    BY <1>3, <2>2, <2>3, <2>7 DEF d
<1> QED
  BY <1>4, <1>5

LEMMA ConnectDoneOk ==
    ASSUME srv \in End, CliOk(opt, cli, srv), NEW ok \in BOOLEAN, NEW a \in App, ConnectDone(ok, a)
    PROVE  CliOk(opt, cli', srv) /\ cli' \in End /\ Extends(cli.sent, cli'.sent)
<1> DEFINE c == [cli EXCEPT !.sock = "open", !.est = TRUE]
<1> DEFINE b == [c EXCEPT !.hs = 1]
<1> DEFINE h == <<Tok("head", 0)>>
<1> DEFINE d == cli'
<1>1. /\ cli.sock = "connecting" /\ CliMay(cli, a)
      /\ d = IF ~ok THEN CliError(cli, FALSE)
             ELSE IF Ws THEN TcpSend(b, h) ELSE CliOnConnect(c, a)
  BY DEF ConnectDone
<1>2. ~cli.closed /\ cli.todo = <<>>
  BY <1>1 DEF CliOk, Between
<1>3. /\ cli \in End /\ ConnInv(opt, cli) /\ CountInv(cli) /\ ~cli.dead /\ Mid(cli, opt.cheld)
      /\ cli.sent \in Seq(Written) /\ Extends(cli.sent, cli.sent) /\ HeadInv(cli)
      /\ CliStream(opt, cli, srv, 0) /\ cli.read <= Len(srv.sent)
  BY <1>2, CliQuiet
<1>4. cli.sent = <<>> /\ cli.read = 0 /\ cli.got = <<>> /\ cli.prs = "start" /\ (cli.hdr <=> ~Ws)
      /\ ~cli.active /\ cli.connect
  BY <1>1, <1>3 DEF HeadInv, CliOk, Ws, ConnInv
<1>5. /\ c \in End /\ c.sock = "open"
      /\ c.sent = cli.sent /\ c.hdr = cli.hdr /\ c.closed = cli.closed
      /\ c.cb = cli.cb /\ c.dead = cli.dead /\ c.uaf = cli.uaf /\ c.connect = cli.connect
      /\ c.active = cli.active /\ c.complete = cli.complete /\ c.completes = cli.completes
      /\ c.late = cli.late /\ c.prs = cli.prs /\ c.got = cli.got /\ c.resp = cli.resp
      /\ c.todo = cli.todo /\ c.read = cli.read /\ c.n = cli.n
  <2>1. "open" \in SocketState
    BY DEF SocketState
  <2>2. c \in End
    BY <1>3, <2>1 DEF End
  <2>3. c.sock = "open"
    BY <1>3 DEF End
  <2> QED
    BY <1>3, <2>2, <2>3 DEF End
<1> HIDE DEF c
<1>6. CASE ~ok
  <2>1. cli' = CliError(cli, FALSE)
    BY <1>1, <1>6
  <2> QED
    BY <1>3, <2>1, CliErrorOk
<1>7. CASE ok /\ Ws
  <2>1. d = TcpSend(b, h)
    BY <1>1, <1>7
  <2> HIDE DEF d
  <2>2. /\ b \in End
        /\ b.sock = "open" /\ b.sent = <<>> /\ b.hdr = c.hdr /\ b.connect = c.connect
        /\ b.closed = c.closed /\ b.cb = c.cb /\ b.dead = c.dead /\ b.uaf = c.uaf
        /\ b.active = c.active /\ b.complete = c.complete /\ b.completes = c.completes
        /\ b.late = c.late /\ b.prs = c.prs /\ b.got = c.got /\ b.resp = c.resp
        /\ b.todo = c.todo /\ b.read = c.read
    <3>1. 1 \in FramerState
      BY DEF FramerState
    <3>2. b \in End
      BY <1>5, <3>1 DEF End
    <3>3. c \in End /\ c.sock = "open" /\ c.sent = <<>>
      BY <1>4, <1>5
    <3>4. b.sock = c.sock /\ b.sent = c.sent /\ b.hdr = c.hdr /\ b.connect = c.connect
      BY <3>3 DEF End
    <3>5. /\ b.closed = c.closed /\ b.cb = c.cb /\ b.dead = c.dead /\ b.uaf = c.uaf
          /\ b.active = c.active /\ b.complete = c.complete /\ b.completes = c.completes
          /\ b.late = c.late /\ b.prs = c.prs /\ b.got = c.got /\ b.resp = c.resp
          /\ b.todo = c.todo /\ b.read = c.read
      BY <3>3 DEF End
    <3> QED
      BY <3>2, <3>3, <3>4, <3>5
  <2>3. h \in Seq(Written) /\ Len(h) = 1 /\ h[1].k = "head" /\ h # <<>> /\ HeadFirst(h)
    <3>1. h \in Seq(Written) /\ Len(h) = 1 /\ h[1].k = "head" /\ h # <<>>
      BY DEF Tok, Written
    <3> QED
      BY <3>1 DEF HeadFirst
  <2> HIDE DEF b, h
  <2>4. /\ d \in End /\ OnlySends(b, d) /\ d.sock = "open" /\ d.hdr = b.hdr /\ d.connect = b.connect
        /\ d.sent = b.sent \o h
    BY <2>1, <2>2, <2>3, TcpSendFacts
  <2>5. d.sent = h
    <3>1. <<>> \o h = h
      BY <2>3, ConcatEmptySeq
    <3> QED
      BY <2>2, <2>4, <3>1
  <2>6. HeadInv(d)
    BY <1>4, <1>5, <1>7, <2>2, <2>3, <2>4, <2>5 DEF HeadInv
  <2>7. Between(d, opt.cheld)
    BY <1>2, <1>3, <1>5, <2>2, <2>4, <2>6 DEF Between, Mid, OnlySends
  <2>8. ConnInv(opt, d) /\ CountInv(d)
    <3>1. Len(d.sent) = 1 /\ d.connect
      BY <1>4, <1>5, <2>2, <2>3, <2>4, <2>5
    <3>2. ConnInv(opt, d)
      BY <2>4, <3>1 DEF ConnInv
    <3>3. CountInv(d)
      BY <1>3, <1>5, <2>2, <2>4 DEF CountInv, OnlySends
    <3> QED
      BY <3>2, <3>3
  <2>9. CliStream(opt, d, srv, 0)
    <3>1. d.todo = <<>> /\ d.read = 0 /\ d.got = <<>>
      BY <1>2, <1>4, <1>5, <2>2, <2>4 DEF OnlySends
    <3>2. d.read <= Len(srv.sent)
      BY <1>3, <1>4, <3>1
    <3>3. Shape(d, srv, 0) /\ Handled(d, 0) = 0
      BY <2>4, <3>1, <3>2, ShapeNothing
    <3> QED
      BY <1>7, <3>1, <3>3 DEF CliStream, GotAll, Ws
  <2>10. CliOk(opt, d, srv)
    BY <1>4, <1>5, <2>2, <2>4, <2>7, <2>8, <2>9 DEF CliOk, OnlySends
  <2>11. Extends(cli.sent, d.sent)
    BY <1>4, <2>3, <2>5 DEF Extends
  <2> QED
    BY <2>4, <2>10, <2>11 DEF d
<1>8. CASE ok /\ ~Ws
  <2>1. d = CliOnConnect(c, a)
    BY <1>1, <1>8
  <2>2. HeadInv(c)
    BY <1>3, <1>4, <1>5, <1>8 DEF HeadInv
  <2>3. Mid(c, opt.cheld) /\ CountInv(c) /\ ConnInv(opt, c)
    BY <1>2, <1>3, <1>4, <1>5, <1>8, <2>2 DEF Mid, CountInv, ConnInv, Ws
  <2>4. CliMay(c, a)
    BY <1>1, <1>5 DEF CliMay, CanSend
  <2>5. Mid(d, opt.cheld) /\ CountInv(d) /\ ConnInv(opt, d) /\ d.active /\ Same(c, d)
        /\ d.sock \in {"open", "closed"}
    BY <1>5, <2>1, <2>3, <2>4, CliOnConnectFacts
  <2> HIDE DEF d
  <2>6. d \in End /\ d.todo = <<>> /\ d.read = 0 /\ d.got = <<>> /\ d.prs = "start"
    BY <1>2, <1>4, <1>5, <2>5 DEF Mid, Same
  <2>7. Between(d, opt.cheld)
    BY <2>5, <2>6 DEF Between, Mid
  <2>8. CliStream(opt, d, srv, 0)
    <3>1. d.read <= Len(srv.sent)
      BY <1>3, <1>4, <2>6
    <3>2. Shape(d, srv, 0) /\ Handled(d, 0) = 0
      BY <2>6, <3>1, ShapeNothing
    <3> QED
      BY <2>6, <3>2 DEF CliStream, GotAll
  <2>9. CliOk(opt, d, srv)
    BY <1>4, <1>8, <2>5, <2>6, <2>7, <2>8 DEF CliOk, Ws
  <2> QED
    BY <1>5, <2>5, <2>6, <2>9 DEF d, Same
<1> QED
  BY <1>6, <1>7, <1>8

LEMMA CliEofOk ==
    ASSUME srv \in End, CliOk(opt, cli, srv), CliEof
    PROVE  CliOk(opt, cli', srv) /\ cli' \in End /\ Extends(cli.sent, cli'.sent)
<1>1. ~cli.dead
  BY DEF CliEof, CliOk, Between
<1>2. cli' = CliError(cli, TRUE) \/ cli' = CliError(cli, FALSE)
  BY DEF CliEof
<1> QED
  BY <1>1, <1>2, CliErrorOk

LEMMA CliCallOk ==
    ASSUME srv \in End, CliOk(opt, cli, srv), NEW a \in App, CliCall(a)
    PROVE  CliOk(opt, cli', srv) /\ cli' \in End /\ Extends(cli.sent, cli'.sent)
<1> DEFINE d == cli'
<1>1. cli.todo = <<>> /\ CliMay(cli, a) /\ ~cli.closed
  BY DEF CliCall
<1>3. /\ cli \in End /\ ConnInv(opt, cli) /\ CountInv(cli) /\ ~cli.dead /\ Mid(cli, opt.cheld)
      /\ cli.sent \in Seq(Written) /\ Extends(cli.sent, cli.sent) /\ HeadInv(cli)
      /\ cli.read <= Len(srv.sent) /\ cli.sock # "closed"
  BY <1>1, CliQuiet
<1>4. CASE a = "none"
  <2>1. d = CliConnect(cli)
    BY <1>4 DEF CliCall
  <2>2. CASE cli.connect
    BY <1>3, <2>1, <2>2 DEF CliConnect
  <2>3. CASE ~cli.connect
    <3>1. d = [cli EXCEPT !.connect = TRUE, !.sock = "resolving"] /\ "resolving" \in SocketState
      BY <2>1, <2>3 DEF CliConnect, SocketState
    <3>2. d \in End /\ d.sock = "resolving" /\ d.connect
      BY <1>3, <3>1 DEF End
    <3>3. /\ d.sent = cli.sent /\ d.hdr = cli.hdr /\ d.closed = cli.closed
          /\ d.cb = cli.cb /\ d.dead = cli.dead /\ d.uaf = cli.uaf
          /\ d.active = cli.active /\ d.complete = cli.complete /\ d.completes = cli.completes
          /\ d.late = cli.late /\ d.prs = cli.prs /\ d.got = cli.got /\ d.resp = cli.resp
          /\ d.todo = cli.todo /\ d.read = cli.read
      BY <1>3, <3>1 DEF End
    <3> HIDE DEF d
    <3>4. cli.sock = "idle"
      BY <1>3, <2>3 DEF ConnInv
    <3>5. HeadInv(d)
      BY <1>3, <3>2, <3>3, <3>4 DEF HeadInv
    <3>6. Between(d, opt.cheld) /\ ConnInv(opt, d) /\ CountInv(d)
      BY <1>3, <3>2, <3>3, <3>4, <3>5 DEF CliOk, Between, ConnInv, CountInv
    <3>7. CliStream(opt, d, srv, 0)
      BY <1>1, <3>2, <3>3, CliQuietStream
    <3>8. CliOk(opt, d, srv)
      BY <3>2, <3>3, <3>4, <3>6, <3>7 DEF CliOk
    <3> QED
      BY <1>3, <3>2, <3>3, <3>8 DEF d
  <2> QED
    BY <2>2, <2>3
<1>5. CASE a = "send"
  <2>1. d = CliApp(cli, a)
    BY <1>5 DEF CliCall
  <2>2. Mid(d, opt.cheld) /\ ConnInv(opt, d) /\ CountInv(d) /\ CliFrame(cli, d)
    BY <1>1, <1>3, <2>1, CliAppFacts
  <2> HIDE DEF d
  <2>3. d \in End /\ d.todo = <<>>
    BY <1>1, <2>2 DEF Mid, CliFrame, Same
  <2>4. Between(d, opt.cheld)
    BY <2>2, <2>3 DEF Between, Mid
  <2>5. CliStream(opt, d, srv, 0)
    BY <1>1, <2>2, <2>3, CliQuietStream DEF CliFrame, Same
  <2>6. CliOk(opt, d, srv)
    <3>1. d.sock \notin {"open", "closed"} =>
             d.read = 0 /\ d.got = <<>> /\ d.prs = "start" /\ (d.hdr <=> opt.up # "ws")
      BY <1>3, <2>2 DEF CliOk, CliFrame, Same, ConnInv
    <3> QED
      BY <2>2, <2>4, <2>5, <3>1 DEF CliOk, CliFrame, Same
  <2> QED
    BY <2>2, <2>3, <2>6 DEF d, CliFrame, Same
<1>6. CASE a = "close"
  <2>1. d = CliClose(cli)
    BY <1>6 DEF CliCall
  <2>2. /\ d \in End /\ HeadInv(d) /\ d.closed /\ d.sock = "closed" /\ d.complete
        /\ d.dead = ~opt.cheld /\ d.uaf = cli.uaf /\ d.cb = cli.cb
        /\ d.completes = (IF cli.complete THEN cli.completes ELSE cli.completes + 1)
        /\ d.read = cli.read /\ d.todo = cli.todo /\ d.prs = cli.prs
        /\ d.got = cli.got /\ d.late = cli.late /\ d.active = cli.active
        /\ d.sent = cli.sent
    BY <1>1, <1>3, <2>1, CliCloseFacts
  <2> HIDE DEF d
  <2>3. Between(d, opt.cheld)
    BY <1>1, <1>3, <2>2 DEF Between, Mid
  <2>4. ConnInv(opt, d) /\ CountInv(d)
    BY <1>1, <1>3, <2>2 DEF ConnInv, CountInv
  <2>5. CliStream(opt, d, srv, 0)
    BY <1>1, <1>3, <2>2, ClosedStream
  <2>6. CliOk(opt, d, srv)
    BY <2>2, <2>3, <2>4, <2>5 DEF CliOk
  <2> QED
    BY <1>3, <2>2, <2>6 DEF d
<1> QED
  BY <1>4, <1>5, <1>6 DEF App

CliStepNext == CliLoop \/ \E a \in App : CliCall(a)

\* Whatever the client's loop or application does.
LEMMA CliNextOk ==
    ASSUME opt \in Options, srv \in End, CliOk(opt, cli, srv), HeadFirst(srv.sent), CliStepNext
    PROVE  CliOk(opt, cli', srv) /\ cli' \in End /\ Extends(cli.sent, cli'.sent)
<1>1. ASSUME NEW ok \in BOOLEAN, Resolve(ok)
      PROVE  CliOk(opt, cli', srv) /\ cli' \in End /\ Extends(cli.sent, cli'.sent)
  BY <1>1, ResolveOk
<1>2. ASSUME NEW ok \in BOOLEAN, NEW a \in App, ConnectDone(ok, a)
      PROVE  CliOk(opt, cli', srv) /\ cli' \in End /\ Extends(cli.sent, cli'.sent)
  BY <1>2, ConnectDoneOk
<1>3. ASSUME NEW k \in 1..(SrvSends + 1), NEW cut \in BOOLEAN, CliRead(k, cut)
      PROVE  CliOk(opt, cli', srv) /\ cli' \in End /\ Extends(cli.sent, cli'.sent)
  <2>1. k \in Nat
    BY HttpAssumption
  <2> QED
    BY <1>3, <2>1, CliReadOk
<1>4. ASSUME NEW a \in App, CliStep(a)
      PROVE  CliOk(opt, cli', srv) /\ cli' \in End /\ Extends(cli.sent, cli'.sent)
  BY <1>4, CliStepOk
<1>5. ASSUME CliEof
      PROVE  CliOk(opt, cli', srv) /\ cli' \in End /\ Extends(cli.sent, cli'.sent)
  BY <1>5, CliEofOk
<1>6. ASSUME NEW a \in App, CliCall(a)
      PROVE  CliOk(opt, cli', srv) /\ cli' \in End /\ Extends(cli.sent, cli'.sent)
  BY <1>6, CliCallOk
<1> QED
  BY <1>1, <1>2, <1>3, <1>4, <1>5, <1>6 DEF CliStepNext, CliLoop

-----------------------------------------------------------------------------
(* The server's steps.                                                     *)

SrvAlive(s) == Between(s, opt.sheld) /\ CallsInv(s)
SrvInCall(s) == Mid(s, opt.sheld) /\ CallsInv(s) /\ s.sock \in {"open", "closed"}

\* What After says, and what only a server end has.
SrvAfter(c, d, rest) ==
    /\ After(c, d, rest) /\ d.adapter = c.adapter /\ d.upgrade = c.upgrade
    /\ c.closed => d.closed

LEMMA SrvGoesOn ==
    ASSUME NEW c, NEW a \in App, NEW rest \in Seq(Token), NEW ws \in BOOLEAN,
           SrvInCall(c), SrvMay(c, a)
    PROVE  LET d == Continue(SrvApp(c, a), rest, ws)
           IN  SrvAlive(d) /\ SrvAfter(c, d, rest)
<1> DEFINE f == SrvApp(c, a)
<1> DEFINE d == Continue(f, rest, ws)
<1>1. Mid(f, opt.sheld) /\ CallsInv(f) /\ SrvFrame(c, f)
  BY SrvAppFacts DEF SrvInCall
<1> HIDE DEF f
<1>2. f.sock \in {"open", "closed"}
  BY <1>1 DEF SrvInCall, SrvFrame, Same
<1>3. Between(d, opt.sheld) /\ Kept(f, d) /\ d.todo = IF f.dead THEN <<>> ELSE rest
  BY <1>1, <1>2, ContinueFacts
<1> HIDE DEF d
<1>4. CallsInv(d)
  BY <1>1, <1>3 DEF CallsInv, Kept
<1>5. f.dead => f.sock = "closed"
  BY <1>1 DEF Mid
<1>6. SrvAfter(c, d, rest)
  BY <1>1, <1>2, <1>3, <1>5 DEF SrvAfter, After, Same, SrvFrame, Kept
<1> QED
  BY <1>3, <1>4, <1>6 DEF d, f, SrvAlive

LEMMA SrvStreamAfter ==
    ASSUME NEW o, NEW c \in End, NEW d \in End, NEW p \in End, NEW rest, NEW e \in 0..2,
           After(c, d, rest), c.read <= Len(p.sent), d.todo = rest => SrvStream(o, d, p, e)
    PROVE  \E i \in 0..2 : SrvStream(o, d, p, i)
<1>1. CASE d.todo = rest
  BY <1>1
<1>2. CASE d.todo = <<>> /\ d.sock = "closed"
  <2>1. d.read <= Len(p.sent)
    BY DEF After
  <2> QED
    BY <1>2, <2>1, ClosedStream
<1> QED
  BY <1>1, <1>2 DEF After

LEMMA SrvErrorOk ==
    ASSUME NEW p \in End, SrvOk(opt, srv, p), NEW eof \in BOOLEAN, ~srv.dead
    PROVE  LET d == SrvError(srv, eof) IN SrvOk(opt, d, p) /\ d \in End /\ Extends(srv.sent, d.sent)
<1> DEFINE d == SrvError(srv, eof)
<1>1. Between(srv, opt.sheld) /\ CallsInv(srv)
  BY DEF SrvOk
<1>2. Between(d, opt.sheld) /\ CallsInv(d)
      /\ d.todo = <<>> /\ d.sock = "closed" /\ d.read = srv.read /\ d.got = srv.got
      /\ d.sent = srv.sent /\ d.prs = srv.prs /\ d.adapter = srv.adapter
      /\ d.resp = srv.resp /\ d.upgrade = srv.upgrade /\ d.cb = srv.cb /\ d.hdr = srv.hdr
  BY <1>1, SrvErrorFacts
<1> HIDE DEF d
<1>3. d \in End /\ srv \in End
  BY <1>1, <1>2 DEF Between
<1>4. srv.read <= Len(p.sent)
  <2>1. PICK e \in 0..2 : SrvStream(opt, srv, p, e)
    BY DEF SrvOk
  <2> QED
    BY <1>3, <2>1, ReadWithin DEF SrvStream
<1>5. SrvStream(opt, d, p, 0)
  BY <1>2, <1>3, <1>4, ClosedStream
<1>6. SrvOk(opt, d, p)
  BY <1>2, <1>5 DEF SrvOk
<1>7. Extends(srv.sent, d.sent)
  <2>1. srv.sent \in Seq(Written)
    BY <1>3 DEF End
  <2> QED
    BY <1>2, <2>1, ExtendsRefl
<1> QED
  BY <1>3, <1>6, <1>7 DEF d

\* What every callback of the server begins with.
LEMMA SrvCalled ==
    ASSUME NEW p \in End, SrvOk(opt, srv, p), srv.todo # <<>>
    PROVE  /\ srv \in End /\ SrvInCall(srv) /\ ~srv.dead /\ Reading(srv)
           /\ Tail(srv.todo) \in Seq(Token) /\ Head(srv.todo) = srv.todo[1] /\ srv.todo[1] \in Token
           /\ srv.read <= Len(p.sent) /\ srv.todo \in Seq(Token) /\ srv.got \in Seq(Nat)
           /\ srv.calls \in Seq(Callback) /\ srv.sent \in Seq(Written)
<1>1. Between(srv, opt.sheld) /\ CallsInv(srv)
  BY DEF SrvOk
<1>2. srv \in End /\ ~srv.dead /\ (srv.closed => srv.cb) /\ srv.sock \in {"open", "closed"}
  BY <1>1 DEF Between
<1>3. Mid(srv, opt.sheld)
  BY <1>1, <1>2 DEF Between, Mid
<1>4. srv.todo \in Seq(Token) /\ srv.got \in Seq(Nat) /\ srv.calls \in Seq(Callback) /\ srv.sent \in Seq(Written)
  BY <1>2 DEF End
<1>5. srv.read <= Len(p.sent)
  <2>1. PICK e \in 0..2 : SrvStream(opt, srv, p, e)
    BY DEF SrvOk
  <2> QED
    BY <1>2, <2>1, ReadWithin DEF SrvStream
<1> QED
  BY <1>1, <1>2, <1>3, <1>4, <1>5, TailFacts DEF SrvInCall, Reading

\* onRequest(), or a request nobody answers.
LEMMA SrvCompleteOk ==
    ASSUME opt \in Options, NEW p \in End, SrvOk(opt, srv, p),
           NEW a \in App, SrvMay(srv, a),
           srv.todo # <<>>, Head(srv.todo).k = "end", SrvOnComplete(a)
    PROVE  SrvOk(opt, srv', p) /\ srv' \in End /\ Extends(srv.sent, srv'.sent)
<1> DEFINE q == IF Answers(srv) THEN Append(srv.calls, "request") ELSE srv.calls
<1> DEFINE c == [srv EXCEPT !.prs = "done", !.calls = q]
<1> DEFINE rest == Tail(srv.todo)
<1> DEFINE d == Continue(SrvApp(c, a), rest, SrvWs)
<1>1. srv' = d
  BY DEF SrvOnComplete
<1>2. /\ srv \in End /\ SrvInCall(srv) /\ ~srv.dead /\ Reading(srv)
      /\ Tail(srv.todo) \in Seq(Token) /\ Head(srv.todo) = srv.todo[1]
      /\ srv.read <= Len(p.sent) /\ srv.todo \in Seq(Token) /\ srv.calls \in Seq(Callback)
  BY SrvCalled
<1>3. PICK e \in 0..2 : SrvStream(opt, srv, p, e)
  BY DEF SrvOk
<1>4. e = 1 /\ srv.prs = "body" /\ Handled(srv, 1) \in Nat
  BY <1>2, <1>3, FirstToken DEF SrvStream
<1>5. opt.up # "ws" /\ Handled(srv, 1) # 0 /\ srv.adapter = "http"
  <2>1. opt.up # "ws" /\ srv.adapter # "ws"
    BY <1>4 DEF SrvOk
  <2>2. srv.adapter \in {"http", "ws"}
    BY <1>2 DEF End
  <2> QED
    BY <1>2, <1>3, <1>4, <2>1, <2>2 DEF SrvStream
<1>6. /\ q \in Seq(Callback) /\ Ordered(q) /\ (~srv.resp => q = <<>>)
      /\ \A i \in 1..Len(q) : q[i] = "request" \/ (i \in 1..Len(srv.calls) /\ q[i] = srv.calls[i])
  <2>1. CASE Answers(srv)
    <3> DEFINE r == Append(srv.calls, "request")
    <3>1. \A i \in 1..Len(srv.calls) : srv.calls[i] \in {"headers", "payload"}
      <4>1. \A i \in 1..Len(srv.calls) : srv.calls[i] \in Callback
        BY <1>2, ElementOfSeq
      <4> QED
        BY <1>2, <1>4, <2>1, <4>1 DEF Answers, SrvInCall, CallsInv, Callback
    <3>2. \A i \in 1..Len(srv.calls) : Rank(srv.calls[i]) < Rank("request")
      BY <3>1 DEF Rank
    <3>3. Ordered(srv.calls) /\ "request" \in Callback
      BY <1>2 DEF SrvInCall, CallsInv, Callback
    <3>4. /\ r \in Seq(Callback) /\ Ordered(r) /\ Len(r) = Len(srv.calls) + 1 /\ Len(srv.calls) \in Nat
          /\ \A i \in 1..Len(srv.calls) : r[i] = srv.calls[i]
          /\ r[Len(srv.calls) + 1] = "request"
      BY <1>2, <3>2, <3>3, OrderedAppend
    <3>5. q = r /\ srv.resp
      BY <2>1 DEF Answers
    <3> HIDE DEF r, q
    <3>6. ASSUME NEW i \in 1..Len(r) PROVE r[i] = "request" \/ (i \in 1..Len(srv.calls) /\ r[i] = srv.calls[i])
      <4>1. i \in 1..Len(srv.calls) \/ i = Len(srv.calls) + 1
        BY <3>4
      <4> QED
        BY <3>4, <4>1
    <3> QED
      BY <3>4, <3>5, <3>6
  <2>2. CASE ~Answers(srv)
    <3>1. q = srv.calls
      BY <2>2
    <3> HIDE DEF q
    <3> QED
      BY <1>2, <3>1 DEF SrvInCall, CallsInv
  <2> QED
    BY <2>1, <2>2
<1> HIDE DEF q
<1>7. /\ c \in End /\ c.prs = "done" /\ c.calls = q
      /\ c.sock = srv.sock /\ c.sent = srv.sent /\ c.hdr = srv.hdr /\ c.closed = srv.closed
      /\ c.cb = srv.cb /\ c.dead = srv.dead /\ c.uaf = srv.uaf
      /\ c.n = srv.n /\ c.todo = srv.todo /\ c.read = srv.read /\ c.got = srv.got
      /\ c.resp = srv.resp /\ c.adapter = srv.adapter /\ c.upgrade = srv.upgrade /\ c.hs = srv.hs
  <2>1. "done" \in ParserState
    BY DEF ParserState
  <2>2. c \in End
    BY <1>2, <1>6, <2>1 DEF End
  <2>3. c.prs = "done" /\ c.calls = q
    BY <1>2 DEF End
  <2> QED
    BY <1>2, <2>2, <2>3 DEF End
<1> HIDE DEF c
<1>8. HeadInv(c)
  BY <1>2, <1>7 DEF HeadInv, SrvInCall, Mid
<1>9. SrvInCall(c)
  <2>1. Mid(c, opt.sheld)
    BY <1>2, <1>7, <1>8 DEF SrvInCall, Mid
  <2>2. CallsInv(c)
    BY SMTT(30), <1>2, <1>5, <1>6, <1>7, <2>1 DEF SrvInCall, CallsInv, Mid
  <2> QED
    BY <1>2, <1>7, <2>1, <2>2 DEF SrvInCall
<1>10. SrvMay(c, a) /\ SrvWs \in BOOLEAN
  BY <1>7 DEF SrvMay, CanSend, SrvWs
<1>13. SrvAlive(d) /\ SrvAfter(c, d, rest)
  BY <1>2, <1>9, <1>10, SrvGoesOn
<1> HIDE DEF d
<1>14. d \in End
  BY <1>13 DEF SrvAlive, Between
<1>15. d.todo = rest => SrvStream(opt, d, p, 0)
  <2>1. SUFFICES ASSUME d.todo = rest PROVE SrvStream(opt, d, p, 0)
    OBVIOUS
  <2>2. d.prs = "done" /\ d.read = srv.read /\ d.adapter = "http"
    BY <1>5, <1>7, <1>13 DEF SrvAfter, After
  <2>3. Shape(srv, p, 1)
    BY <1>3, <1>4 DEF SrvStream
  <2>4. Shape(d, p, 1 - 1) /\ Handled(d, 1 - 1) = Handled(srv, 1)
    BY <1>2, <1>14, <2>1, <2>2, <2>3, PopCallback
  <2> QED
    BY <1>5, <2>2, <2>4 DEF SrvStream
<1>16. \E i \in 0..2 : SrvStream(opt, d, p, i)
  <2>1. c.read <= Len(p.sent) /\ After(c, d, rest)
    BY <1>2, <1>7, <1>13 DEF SrvAfter
  <2> QED
    BY <1>7, <1>14, <1>15, <2>1, SrvStreamAfter
<1>17. SrvOk(opt, d, p)
  BY <1>5, <1>7, <1>13, <1>16 DEF SrvOk, SrvAlive, SrvAfter, After
<1> QED
  BY <1>1, <1>7, <1>13, <1>14, <1>17 DEF SrvAfter, After

\* A responder that has been told of nothing, or of the header only.
LEMMA FirstCallback ==
    /\ <<>> \in Seq(Callback) /\ Ordered(<<>>)
    /\ <<"headers">> \in Seq(Callback) /\ Ordered(<<"headers">>) /\ Len(<<"headers">>) = 1
    /\ <<"headers">>[1] = "headers"
<1>1. Len(<<>>) = 0 /\ Len(<<"headers">>) = 1 /\ "headers" \in Callback
  BY DEF Callback
<1>2. Ordered(<<>>)
  BY <1>1 DEF Ordered
<1>3. Ordered(<<"headers">>)
  <2>1. ASSUME NEW i \in 1..1, NEW j \in 1..1, i < j PROVE FALSE
    BY <2>1
  <2> QED
    BY <1>1, <2>1 DEF Ordered
<1>4. <<>> \in Seq(Callback) /\ <<"headers">> \in Seq(Callback) /\ <<"headers">>[1] = "headers"
  BY <1>1
<1> QED
  BY <1>1, <1>2, <1>3, <1>4

\* The rest of onHeaders(): the responder is made and told of the header.
LEMMA SrvRespondOk ==
    ASSUME opt \in Options, NEW p \in End, SrvOk(opt, srv, p),
           NEW a \in App, NEW made \in BOOLEAN, SrvMay(srv, a),
           srv.todo # <<>>, Head(srv.todo).k = "respond", SrvRespond(a, made)
    PROVE  SrvOk(opt, srv', p) /\ srv' \in End /\ Extends(srv.sent, srv'.sent)
<1> DEFINE q == IF made /\ ~srv.upgrade THEN Append(srv.calls, "headers") ELSE srv.calls
<1> DEFINE c == [srv EXCEPT !.resp = made, !.calls = q]
<1> DEFINE rest == Tail(srv.todo)
<1> DEFINE d == Continue(SrvApp(c, a), rest, SrvWs)
<1>1. srv' = d
  BY DEF SrvRespond
<1>2. /\ srv \in End /\ SrvInCall(srv) /\ ~srv.dead /\ Reading(srv)
      /\ Tail(srv.todo) \in Seq(Token) /\ Head(srv.todo) = srv.todo[1]
      /\ srv.read <= Len(p.sent) /\ srv.todo \in Seq(Token) /\ srv.calls \in Seq(Callback)
  BY SrvCalled
<1>3. PICK e \in 0..2 : SrvStream(opt, srv, p, e)
  BY DEF SrvOk
<1>4. e \in 1..2 /\ ~srv.resp /\ srv.prs # "start" /\ Handled(srv, e) \in Nat
  BY <1>2, <1>3, FirstToken DEF SrvStream
<1>5. srv.calls = <<>>
  BY <1>2, <1>4 DEF SrvInCall, CallsInv
<1>6. /\ q \in Seq(Callback) /\ Ordered(q) /\ (~made => q = <<>>)
      /\ \A i \in 1..Len(q) : q[i] = "headers" /\ ~srv.upgrade
  <2>1. CASE made /\ ~srv.upgrade
    <3>1. q = <<"headers">>
      BY <1>5, <2>1
    <3> HIDE DEF q
    <3>2. \A i \in 1..1 : q[i] = "headers"
      BY <3>1, FirstCallback
    <3>3. Len(q) = 1
      BY <3>1, FirstCallback
    <3> QED
      BY <2>1, <3>1, <3>2, <3>3, FirstCallback
  <2>2. CASE ~(made /\ ~srv.upgrade)
    <3>1. q = <<>> /\ Len(<<>>) = 0
      BY <1>5, <2>2
    <3> HIDE DEF q
    <3> QED
      BY <3>1, FirstCallback
  <2> QED
    BY <2>1, <2>2
<1> HIDE DEF q
<1>7. /\ c \in End /\ c.resp = made /\ c.calls = q
      /\ c.sock = srv.sock /\ c.sent = srv.sent /\ c.hdr = srv.hdr /\ c.closed = srv.closed
      /\ c.cb = srv.cb /\ c.dead = srv.dead /\ c.uaf = srv.uaf /\ c.prs = srv.prs
      /\ c.n = srv.n /\ c.todo = srv.todo /\ c.read = srv.read /\ c.got = srv.got
      /\ c.adapter = srv.adapter /\ c.upgrade = srv.upgrade /\ c.hs = srv.hs
  <2>1. c \in End
    BY <1>2, <1>6 DEF End
  <2>2. c.resp = made /\ c.calls = q
    BY <1>2 DEF End
  <2> QED
    BY <1>2, <2>1, <2>2 DEF End
<1> HIDE DEF c
<1>8. HeadInv(c)
  BY <1>2, <1>7 DEF HeadInv, SrvInCall, Mid
<1>9. SrvInCall(c)
  <2>1. Mid(c, opt.sheld)
    BY <1>2, <1>7, <1>8 DEF SrvInCall, Mid
  <2>2. CallsInv(c)
    BY <1>6, <1>7, <2>1 DEF CallsInv, Mid
  <2> QED
    BY <1>2, <1>7, <2>1, <2>2 DEF SrvInCall
<1>10. SrvMay(c, a) /\ SrvWs \in BOOLEAN
  BY <1>7 DEF SrvMay, CanSend, SrvWs
<1>13. SrvAlive(d) /\ SrvAfter(c, d, rest)
  BY <1>2, <1>9, <1>10, SrvGoesOn
<1> HIDE DEF d
<1>14. d \in End
  BY <1>13 DEF SrvAlive, Between
<1>15. d.todo = rest => SrvStream(opt, d, p, e - 1)
  <2>1. SUFFICES ASSUME d.todo = rest PROVE SrvStream(opt, d, p, e - 1)
    OBVIOUS
  <2>2. /\ d.prs = srv.prs /\ d.read = srv.read /\ d.adapter = srv.adapter /\ d.got = srv.got
        /\ (~d.closed => ~srv.closed)
    BY <1>7, <1>13 DEF SrvAfter, After
  <2>3. Shape(srv, p, e)
    BY <1>3 DEF SrvStream
  <2>4. /\ Shape(d, p, e - 1) /\ Handled(d, e - 1) = Handled(srv, e)
        /\ Len(d.todo) = Len(srv.todo) - 1
        /\ \A i \in 1..(e - 1) : d.todo[i] = srv.todo[i + 1] /\ d.todo[i].k = "end"
    <3>1. srv \in End /\ d.todo = Tail(srv.todo) /\ d.prs = srv.prs /\ d.read = srv.read
      BY <1>2, <2>1, <2>2
    <3>2. e \in 1..2
      BY <1>4
    <3> HIDE DEF rest
    <3> QED
      BY ZenonT(60), <1>14, <2>3, <3>1, <3>2, PopCallback
  <2>5. d.sock = "open" => srv.sock = "open"
    BY <1>2, <1>13, <2>2 DEF SrvAlive, Between, SrvInCall, Mid
  <2>6. ASSUME opt.up = "other", d.prs = "body"
        PROVE  Len(d.todo) = e - 1 /\ (d.sock = "open" => e - 1 > 0 /\ d.todo[e - 1].k = "end")
    <3>1. Len(srv.todo) = e
      BY <1>3, <2>2, <2>6 DEF SrvStream
    <3>2. ASSUME d.sock = "open" PROVE e - 1 > 0 /\ d.todo[e - 1].k = "end"
      <4>1. srv.todo[e].k = "end"
        BY <1>3, <2>2, <2>5, <2>6, <3>2 DEF SrvStream
      <4>2. e # 1
        BY <1>2, <4>1
      <4>3. e - 1 \in 1..(e - 1)
        BY <1>4, <4>2
      <4> QED
        BY <2>4, <4>3
    <3> QED
      BY <2>4, <3>1, <3>2
  <2>7. Reading(srv) /\ SrvStream(opt, srv, p, e)
    BY <1>2, <1>3
  <2>8. d.prs = "start" <=> Handled(d, e - 1) = 0
    BY <2>2, <2>4, <2>7 DEF SrvStream
  <2>9. (d.adapter = "ws" \/ d.prs # "done") /\ ~d.closed /\ opt.up # "other" => GotAll(d, e - 1)
    BY <2>2, <2>4, <2>7 DEF SrvStream, GotAll
  <2> QED
    BY <2>4, <2>6, <2>8, <2>9 DEF SrvStream
<1>16. \E i \in 0..2 : SrvStream(opt, d, p, i)
  <2>1. c.read <= Len(p.sent) /\ After(c, d, rest) /\ e - 1 \in 0..2
    BY <1>2, <1>4, <1>7, <1>13 DEF SrvAfter
  <2> QED
    BY <1>7, <1>14, <1>15, <2>1, SrvStreamAfter
<1>17. SrvOk(opt, d, p)
  BY <1>4, <1>7, <1>13, <1>16 DEF SrvOk, SrvAlive, SrvAfter, After
<1> QED
  BY <1>1, <1>7, <1>13, <1>14, <1>17 DEF SrvAfter, After

\* ServerConnection::onPayload().
LEMMA SrvPayloadOk ==
    ASSUME opt \in Options, NEW p \in End, SrvOk(opt, srv, p), HeadFirst(p.sent),
           NEW a \in App, SrvMay(srv, a),
           srv.todo # <<>>, Head(srv.todo).k = "data", SrvBodyDue, SrvOnPayload(a)
    PROVE  SrvOk(opt, srv', p) /\ srv' \in End /\ Extends(srv.sent, srv'.sent)
<1> DEFINE id == Head(srv.todo).id
<1> DEFINE got == IF srv.closed THEN srv.got ELSE Append(srv.got, id)
<1> DEFINE q == IF srv.closed \/ ~srv.resp THEN srv.calls ELSE Append(srv.calls, "payload")
<1> DEFINE left == IF SrvWs THEN 0 ELSE Remaining(srv.left)
<1> DEFINE c == [srv EXCEPT !.left = left, !.got = got, !.calls = q]
<1> DEFINE syn == IF ~SrvWs /\ left = 0 THEN <<Tok("end", 0)>> ELSE <<>>
<1> DEFINE rest == syn \o Tail(srv.todo)
<1> DEFINE d == Continue(SrvApp(c, a), rest, SrvWs)
<1>1. srv' = d
  BY DEF SrvOnPayload
<1>2. /\ srv \in End /\ SrvInCall(srv) /\ ~srv.dead /\ Reading(srv)
      /\ Tail(srv.todo) \in Seq(Token) /\ Head(srv.todo) = srv.todo[1] /\ srv.todo[1] \in Token
      /\ srv.read <= Len(p.sent) /\ srv.todo \in Seq(Token) /\ srv.calls \in Seq(Callback)
      /\ srv.got \in Seq(Nat)
  BY SrvCalled
<1>3. PICK e \in 0..2 : SrvStream(opt, srv, p, e)
  BY DEF SrvOk
<1>4. /\ e = 0 /\ srv.todo[1] = p.sent[Handled(srv, 0) + 1]
      /\ Handled(srv, 0) \in Nat /\ Handled(srv, 0) < Len(p.sent)
  BY <1>2, <1>3, FirstToken DEF SrvStream
<1>p. Len(p.sent) \in Nat
  <2>1. p.sent \in Seq(Written)
    BY DEF End
  <2> QED
    BY <2>1, LenProperties
<1>5. Handled(srv, 0) # 0
  <2>1. SUFFICES ASSUME Handled(srv, 0) = 0 PROVE FALSE
    OBVIOUS
  <2>2. 1 \in 1..Len(p.sent) /\ srv.todo[1] = p.sent[1]
    BY <1>4, <1>p, <2>1
  <2>3. p.sent[1].k = "head"
    BY <2>2 DEF HeadFirst
  <2> QED
    BY <1>2, <2>2, <2>3
<1>6. /\ srv.prs # "start" /\ (~SrvWs => srv.prs = "body" \/ srv.closed)
      /\ (SrvWs => srv.adapter = "ws" /\ srv.prs = "done" /\ opt.up = "ws")
      /\ ~(opt.up = "other" /\ srv.prs = "body")
  <2>1. srv.prs # "start"
    BY <1>2, <1>3, <1>4, <1>5 DEF SrvStream
  <2>2. ~SrvWs => srv.prs = "body"
    BY DEF SrvBodyDue
  <2>3. SrvWs => srv.adapter = "ws" /\ srv.prs = "done" /\ opt.up = "ws"
    BY DEF SrvWs, SrvOk
  <2>4. Len(srv.todo) # 0
    BY <1>2, TailFacts
  <2> QED
    BY <1>3, <1>4, <2>1, <2>2, <2>3, <2>4 DEF SrvStream
<1>7. (~SrvWs => srv.prs = "body") /\ (srv.prs = "body" => opt.up # "ws" /\ srv.adapter = "http")
  <2>1. srv.adapter \in {"http", "ws"}
    BY <1>2 DEF End
  <2> QED
    BY <2>1 DEF SrvBodyDue, SrvOk
<1>g. /\ got \in Seq(Nat) /\ Prefix(got, p.sent)
      /\ ~srv.closed => Len(got) = Handled(srv, 0)
  <2>1. CASE srv.closed
    BY <1>2, <2>1 DEF SrvOk
  <2>2. CASE ~srv.closed
    <3> DEFINE g == Append(srv.got, id)
    <3>1. Len(srv.got) = Handled(srv, 0) - 1
      BY <1>2, <1>3, <1>4, <1>5, <1>6, <1>7, <2>2 DEF SrvStream, GotAll
    <3>2. id \in Nat /\ id = p.sent[Handled(srv, 0) + 1].id
      BY <1>2, <1>4 DEF Token
    <3>3. got = g
      BY <2>2
    <3> HIDE DEF id, got
    <3>4. /\ g \in Seq(Nat) /\ Len(g) = Len(srv.got) + 1 /\ g # <<>>
          /\ \A i \in 1..Len(srv.got) : g[i] = srv.got[i]
          /\ g[Len(srv.got) + 1] = id
      <4>1. srv.got \in Seq(Nat) /\ id \in Nat
        BY <1>2, <3>2
      <4> HIDE DEF id
      <4> QED
        BY <4>1, AppendProperties
    <3> HIDE DEF g
    <3>5. Len(g) = Handled(srv, 0)
      BY <1>4, <3>1, <3>4
    <3>6. ASSUME NEW i \in 1..Len(g) PROVE g[i] = p.sent[i + 1].id
      <4>1. CASE i = Handled(srv, 0)
        <5>1. i = Len(srv.got) + 1
          BY <1>4, <3>1, <4>1
        <5> QED
          BY <3>2, <3>4, <4>1, <5>1
      <4>2. CASE i # Handled(srv, 0)
        <5>1. i \in 1..Len(srv.got)
          BY <1>4, <3>1, <3>5, <4>2
        <5> QED
          BY <3>4, <5>1 DEF SrvOk, Prefix
      <4> QED
        BY <4>1, <4>2
    <3>7. Prefix(g, p.sent)
      BY <1>4, <3>5, <3>6 DEF Prefix
    <3> QED
      BY <3>3, <3>4, <3>5, <3>7
  <2> QED
    BY <2>1, <2>2
<1>h. /\ q \in Seq(Callback) /\ Ordered(q) /\ (~srv.resp => q = <<>>)
      /\ \A i \in 1..Len(q) : q[i] = "payload" \/ (i \in 1..Len(srv.calls) /\ q[i] = srv.calls[i])
  <2>1. CASE ~srv.closed /\ srv.resp
    <3> DEFINE r == Append(srv.calls, "payload")
    <3>1. \A i \in 1..Len(srv.calls) : srv.calls[i] \in {"headers", "payload"}
      <4>1. \A i \in 1..Len(srv.calls) : srv.calls[i] \in Callback
        BY <1>2, ElementOfSeq
      <4>2. srv.prs # "done" \/ srv.adapter # "http"
        BY <1>6, <1>7
      <4> QED
        BY <1>2, <2>1, <4>1, <4>2 DEF SrvInCall, CallsInv, Callback
    <3>2. \A i \in 1..Len(srv.calls) : Rank(srv.calls[i]) < Rank("payload") \/ srv.calls[i] = "payload"
      BY <3>1 DEF Rank
    <3>3. Ordered(srv.calls) /\ "payload" \in Callback
      BY <1>2 DEF SrvInCall, CallsInv, Callback
    <3>4. /\ r \in Seq(Callback) /\ Ordered(r) /\ Len(r) = Len(srv.calls) + 1 /\ Len(srv.calls) \in Nat
          /\ \A i \in 1..Len(srv.calls) : r[i] = srv.calls[i]
          /\ r[Len(srv.calls) + 1] = "payload"
      BY SMTT(30), <1>2, <3>2, <3>3, OrderedAppend
    <3>5. q = r
      BY <2>1
    <3> HIDE DEF r, q
    <3>6. ASSUME NEW i \in 1..Len(r) PROVE r[i] = "payload" \/ (i \in 1..Len(srv.calls) /\ r[i] = srv.calls[i])
      <4>1. i \in 1..Len(srv.calls) \/ i = Len(srv.calls) + 1
        BY <3>4
      <4> QED
        BY <3>4, <4>1
    <3> QED
      BY <2>1, <3>4, <3>5, <3>6
  <2>2. CASE srv.closed \/ ~srv.resp
    <3>1. q = srv.calls
      BY <2>2
    <3> HIDE DEF q
    <3> QED
      BY <1>2, <3>1 DEF SrvInCall, CallsInv
  <2> QED
    BY <2>1, <2>2
<1>l. left \in Int
  <2>1. srv.left \in Int
    BY <1>2 DEF End
  <2> QED
    BY <2>1, HttpAssumption DEF Remaining
<1>11. /\ syn \in Seq(Token) /\ Len(syn) \in 0..1
       /\ \A i \in 1..Len(syn) : syn[i].k = "end" /\ i = Len(syn) /\ ~SrvWs
  BY Callbacks
<1> HIDE DEF got, q, left, syn
<1>c. /\ c \in End /\ c.got = got /\ c.calls = q
      /\ c.sock = srv.sock /\ c.sent = srv.sent /\ c.hdr = srv.hdr /\ c.closed = srv.closed
      /\ c.cb = srv.cb /\ c.dead = srv.dead /\ c.uaf = srv.uaf /\ c.prs = srv.prs
      /\ c.n = srv.n /\ c.todo = srv.todo /\ c.read = srv.read /\ c.resp = srv.resp
      /\ c.adapter = srv.adapter /\ c.upgrade = srv.upgrade /\ c.hs = srv.hs
  <2>1. c \in End
    BY <1>2, <1>g, <1>h, <1>l DEF End
  <2>2. c.got = got /\ c.calls = q
    BY <1>2 DEF End
  <2> QED
    BY <1>2, <2>1, <2>2 DEF End
<1> HIDE DEF c
<1>8. HeadInv(c)
  BY <1>2, <1>c DEF HeadInv, SrvInCall, Mid
<1>9. SrvInCall(c)
  <2>1. Mid(c, opt.sheld)
    BY <1>2, <1>c, <1>8 DEF SrvInCall, Mid
  <2>2. CallsInv(srv) /\ (c.closed => c.cb)
    BY <1>2, <2>1 DEF SrvInCall, Mid
  <2>3. ASSUME NEW i \in 1..Len(c.calls)
        PROVE  /\ c.calls[i] = "close" => c.closed
               /\ c.calls[i] = "request" => c.prs = "done" /\ c.adapter = "http"
               /\ c.calls[i] = "headers" => ~c.upgrade
    <3>1. c.calls[i] = "payload" \/ (i \in 1..Len(srv.calls) /\ c.calls[i] = srv.calls[i])
      BY <1>h, <1>c
    <3> QED
      BY <1>c, <2>2, <3>1 DEF CallsInv
  <2>4. CallsInv(c)
    BY <1>h, <1>c, <2>2, <2>3 DEF CallsInv
  <2> QED
    BY <1>2, <1>c, <2>1, <2>4 DEF SrvInCall
<1>10. SrvMay(c, a) /\ SrvWs \in BOOLEAN
  BY <1>c DEF SrvMay, CanSend, SrvWs
<1>12. rest \in Seq(Token)
  BY <1>2, <1>11, ConcatFacts
<1>13. SrvAlive(d) /\ SrvAfter(c, d, rest)
  BY <1>9, <1>10, <1>12, SrvGoesOn
<1> HIDE DEF d
<1>14. d \in End
  BY <1>13 DEF SrvAlive, Between
<1>15. d.todo = rest => SrvStream(opt, d, p, Len(syn))
  <2>1. SUFFICES ASSUME d.todo = rest PROVE SrvStream(opt, d, p, Len(syn))
    OBVIOUS
  <2>2. /\ d.prs = srv.prs /\ d.read = srv.read /\ d.got = got /\ Len(syn) \in 0..2
        /\ d.adapter = srv.adapter /\ (~d.closed => ~srv.closed)
    BY <1>c, <1>11, <1>13 DEF SrvAfter, After
  <2>3. Shape(d, p, Len(syn)) /\ Handled(d, Len(syn)) = Handled(srv, 0) + 1
    <3>1. Shape(srv, p, 0)
      BY <1>3, <1>4 DEF SrvStream
    <3>2. \A i \in 1..Len(syn) : \/ syn[i].k = "end" /\ i = Len(syn) /\ d.prs = "body"
                                 \/ syn[i].k = "respond" /\ i = 1 /\ ~d.resp /\ d.prs # "start"
      BY <1>7, <1>11, <2>2
    <3>3. d.todo = syn \o Tail(srv.todo)
      BY <2>1
    <3>4. srv \in End /\ syn \in Seq(Token) /\ Len(syn) \in 0..2 /\ d.read = srv.read
      BY <1>2, <1>11, <2>2
    <3> HIDE DEF rest
    <3> QED
      BY ZenonT(60), <1>14, <3>1, <3>2, <3>3, <3>4, PopToken
  <2>4. Handled(d, Len(syn)) # 0 /\ (~d.closed => Len(d.got) = Handled(d, Len(syn)) - 1)
    BY <1>4, <1>g, <2>2, <2>3
  <2> QED
    BY <1>6, <2>2, <2>3, <2>4 DEF SrvStream, GotAll
<1>16. \E i \in 0..2 : SrvStream(opt, d, p, i)
  <2>1. Len(syn) \in 0..2 /\ c.read <= Len(p.sent) /\ After(c, d, rest)
    BY <1>2, <1>c, <1>11, <1>13 DEF SrvAfter
  <2> QED
    BY <1>c, <1>14, <1>15, <2>1, SrvStreamAfter
<1>17. SrvOk(opt, d, p)
  <2>1. Prefix(d.got, p.sent)
    BY <1>c, <1>g, <1>13 DEF SrvAfter, After
  <2> QED
    BY <1>6, <1>c, <1>13, <1>16, <2>1 DEF SrvOk, SrvAlive, SrvAfter, After
<1> QED
  BY <1>1, <1>c, <1>13, <1>14, <1>17 DEF SrvAfter, After

\* The parser's callbacks alone, when the rest of the read is dropped.
LEMMA ShapeSynthetic ==
    ASSUME NEW d \in End, NEW p \in End, NEW syn \in Seq(Token), Len(syn) \in 0..2,
           \A i \in 1..Len(syn) : \/ syn[i].k = "end" /\ i = Len(syn) /\ d.prs = "body"
                                  \/ syn[i].k = "respond" /\ i = 1 /\ ~d.resp /\ d.prs # "start",
           d.todo = syn, d.read <= Len(p.sent)
    PROVE  Shape(d, p, Len(syn)) /\ Handled(d, Len(syn)) = d.read
<1> DEFINE e == Len(syn)
<1>1. e \in 0..2 /\ Len(d.todo) = e /\ d.read \in Nat
  BY DEF End
<1>2. \A i \in 1..e : \/ d.todo[i].k = "end" /\ i = e /\ d.prs = "body"
                      \/ d.todo[i].k = "respond" /\ i = 1 /\ ~d.resp /\ d.prs # "start"
  OBVIOUS
<1> HIDE DEF e
<1>3. Shape(d, p, e)
  BY <1>1, <1>2 DEF Shape
<1>4. Handled(d, e) = d.read
  BY <1>1 DEF Handled
<1> QED
  BY <1>3, <1>4 DEF e

\* The callbacks of a header: the Connection signal has been emitted, and what
\* follows is the rest of onHeaders(), and the end of a request with no body.
LEMMA HeaderCallbacks ==
    ASSUME NEW end, end = <<>> \/ end = <<Tok("end", 0)>>
    PROVE  LET syn == <<Tok("respond", 0)>> \o end
           IN  /\ syn \in Seq(Token) /\ Len(syn) \in 1..2 /\ Len(end) \in 0..1 /\ Len(syn) = 1 + Len(end)
               /\ \A i \in 1..Len(syn) : \/ syn[i].k = "end" /\ i = Len(syn) /\ end # <<>>
                                         \/ syn[i].k = "respond" /\ i = 1
               /\ end # <<>> => Len(syn) = 2 /\ syn[2].k = "end"
<1> DEFINE h == <<Tok("respond", 0)>>
<1> DEFINE syn == h \o end
<1>1. h \in Seq(Token) /\ Len(h) = 1 /\ h[1].k = "respond"
  BY Callbacks
<1>2. /\ end \in Seq(Token) /\ Len(end) \in 0..1
      /\ (Len(end) = 0 <=> end = <<>>) /\ (end # <<>> => end[1].k = "end")
  <2>1. CASE end = <<>>
    BY <2>1, Callbacks
  <2>2. CASE end = <<Tok("end", 0)>>
    <3>1. end \in Seq(Token) /\ Len(end) = 1 /\ end[1].k = "end"
      BY <2>2, Callbacks
    <3>2. end # <<>>
      BY <2>2
    <3> QED
      BY <3>1, <3>2
  <2> QED
    BY <2>1, <2>2
<1> HIDE DEF h
<1>3. /\ syn \in Seq(Token) /\ Len(syn) = Len(h) + Len(end) /\ Extends(h, syn)
      /\ \A i \in 1..Len(end) : syn[Len(h) + i] = end[i]
  BY <1>1, <1>2, ConcatFacts
<1> HIDE DEF syn
<1>4. syn[1].k = "respond"
  BY <1>1, <1>3 DEF Extends
<1>5. Len(syn) \in 1..2 /\ Len(syn) = 1 + Len(end)
  BY <1>1, <1>2, <1>3
<1>6. ASSUME end # <<>> PROVE Len(syn) = 2 /\ syn[2].k = "end"
  <2>1. Len(end) = 1 /\ end[1].k = "end"
    BY <1>2, <1>6
  <2>2. syn[Len(h) + 1] = end[1] /\ Len(h) + 1 = 2
    BY <1>1, <1>3, <2>1
  <2> QED
    BY <1>5, <2>1, <2>2
<1>7. ASSUME NEW i \in 1..Len(syn)
      PROVE  \/ syn[i].k = "end" /\ i = Len(syn) /\ end # <<>>
             \/ syn[i].k = "respond" /\ i = 1
  <2>1. CASE i = 1
    BY <1>4, <2>1
  <2>2. CASE i # 1
    <3>1. i = 2 /\ Len(syn) = 2 /\ Len(end) # 0
      BY <1>2, <1>5, <2>2
    <3> QED
      BY <1>2, <1>6, <3>1
  <2> QED
    BY <2>1, <2>2
<1> QED
  BY <1>2, <1>3, <1>5, <1>6, <1>7 DEF syn, h

\* The WebSocket adapter answers the handshake of a connection that has sent
\* nothing.
LEMMA SrvUpgradeFacts ==
    ASSUME opt \in Options, NEW s \in End, s.sent = <<>>, s.sock \in {"open", "closed"}
    PROVE  LET d == SrvUpgrade(s)
           IN  /\ d \in End /\ HeadInv(d) /\ d.adapter = "ws" /\ d.prs = "done"
               /\ d.sock = s.sock /\ d.closed = s.closed
               /\ d.cb = s.cb /\ d.dead = s.dead /\ d.uaf = s.uaf /\ d.todo = s.todo
               /\ d.read = s.read /\ d.got = s.got /\ d.resp = s.resp /\ d.calls = s.calls
               /\ d.upgrade = s.upgrade /\ Extends(s.sent, d.sent)
<1> DEFINE hs == IF opt.valid THEN 2 ELSE 0
<1> DEFINE b == [s EXCEPT !.adapter = "ws", !.hdr = FALSE, !.prs = "done", !.hs = hs]
<1> DEFINE h == <<Tok("head", 0)>>
<1> DEFINE d == SrvUpgrade(s)
<1>1. d = TcpSend(b, h)
  BY DEF SrvUpgrade
<1>2. "done" \in ParserState /\ hs \in FramerState
  BY DEF ParserState, FramerState
<1> HIDE DEF hs
<1>3. b \in End
  BY <1>2 DEF End
<1>4. b.adapter = "ws" /\ b.prs = "done" /\ ~b.hdr
  BY DEF End
<1>5. /\ b.sock = s.sock /\ b.closed = s.closed /\ b.sent = s.sent
      /\ b.cb = s.cb /\ b.dead = s.dead /\ b.uaf = s.uaf /\ b.todo = s.todo
      /\ b.read = s.read /\ b.got = s.got /\ b.resp = s.resp /\ b.calls = s.calls
      /\ b.upgrade = s.upgrade
  BY DEF End
<1>6. h \in Seq(Written) /\ Len(h) = 1 /\ h[1].k = "head" /\ h # <<>>
  BY DEF Tok, Written
<1> HIDE DEF b, h, d
<1>7. /\ d \in End /\ OnlySends(b, d) /\ Extends(b.sent, d.sent)
      /\ d.sock = b.sock /\ d.hdr = b.hdr
      /\ d.sent = IF b.sock = "open" THEN b.sent \o h ELSE b.sent
  BY <1>1, <1>3, <1>6, TcpSendFacts
<1>8. <<>> \o h = h
  BY <1>6, ConcatEmptySeq
<1>9. d.sent = IF s.sock = "open" THEN h ELSE <<>>
  BY <1>5, <1>7, <1>8
<1>10. HeadInv(d)
  <2>1. HeadFirst(d.sent)
    <3>1. HeadFirst(h)
      BY <1>6 DEF HeadFirst
    <3>2. HeadFirst(<<>>)
      BY DEF HeadFirst
    <3> QED
      BY <1>9, <3>1, <3>2
  <2> QED
    BY <1>4, <1>5, <1>6, <1>7, <1>9, <2>1 DEF HeadInv
<1> QED
  BY <1>4, <1>5, <1>7, <1>10 DEF OnlySends, d

\* ServerConnection::onHeaders() up to the Connection signal, with the upgrade.
LEMMA SrvHeadersOk ==
    ASSUME opt \in Options, cli \in End, CliOk(opt, cli, srv), SrvOk(opt, srv, cli),
           HeadFirst(cli.sent), NEW a \in App,
           srv.todo # <<>>, Head(srv.todo).k = "head", SrvOnHeaders(a)
    PROVE  SrvOk(opt, srv', cli) /\ srv' \in End /\ Extends(srv.sent, srv'.sent)
<1> DEFINE s0 == [srv EXCEPT !.prs = "body", !.left = opt.reqLen, !.upgrade = opt.up # "no"]
<1> DEFINE c == IF Ws THEN SrvUpgrade(s0) ELSE s0
<1> DEFINE end == IF opt.up = "other" \/ (opt.up = "no" /\ opt.reqLen = 0)
                  THEN <<Tok("end", 0)>> ELSE <<>>
<1> DEFINE left == IF opt.up = "no" THEN Tail(srv.todo) ELSE <<>>
<1> DEFINE syn == <<Tok("respond", 0)>> \o end
<1> DEFINE rest == <<Tok("respond", 0)>> \o end \o left
<1> DEFINE d == Continue(SrvApp(c, a), rest, FALSE)
<1>1. srv' = d /\ SrvMay(c, a)
  BY DEF SrvOnHeaders
<1>2. /\ srv \in End /\ SrvInCall(srv) /\ ~srv.dead /\ Reading(srv)
      /\ Tail(srv.todo) \in Seq(Token) /\ Head(srv.todo) = srv.todo[1]
      /\ srv.read <= Len(cli.sent) /\ srv.todo \in Seq(Token) /\ srv.sent \in Seq(Written)
  BY SrvCalled
<1>3. PICK e \in 0..2 : SrvStream(opt, srv, cli, e)
  BY DEF SrvOk
<1>4. /\ e = 0 /\ srv.todo[1] = cli.sent[Handled(srv, 0) + 1]
      /\ Handled(srv, 0) \in Nat /\ Handled(srv, 0) < Len(cli.sent)
  BY <1>2, <1>3, FirstToken DEF SrvStream
<1>p. Len(cli.sent) \in Nat
  <2>1. cli.sent \in Seq(Written)
    BY DEF End
  <2> QED
    BY <2>1, LenProperties
<1>5. Handled(srv, 0) = 0
  <2>1. Handled(srv, 0) + 1 \in 1..Len(cli.sent) /\ cli.sent[Handled(srv, 0) + 1].k = "head"
    BY <1>2, <1>4, <1>p
  <2>2. Handled(srv, 0) + 1 = 1
    BY <2>1 DEF HeadFirst
  <2> QED
    BY <1>4, <2>2
<1>6. srv.prs = "start" /\ (~srv.closed /\ opt.up # "other" => srv.got = <<>>)
  BY <1>2, <1>3, <1>4, <1>5 DEF SrvStream, GotAll
<1>7. srv.hdr /\ ~srv.resp /\ srv.sent = <<>> /\ srv.adapter = "http" /\ srv.calls = <<>>
  BY <1>2, <1>6 DEF SrvOk, SrvInCall, CallsInv
<1>8. srv.read \in Nat \ {0} /\ (Ws => srv.read = 1)
  <2>1. Len(srv.todo) \in Nat \ {0} /\ srv.read \in Nat
    BY <1>2, TailFacts DEF End
  <2>2. srv.read = Len(srv.todo)
    BY <1>5, <2>1 DEF Handled
  <2>3. Ws => Len(cli.sent) <= 1
    BY <1>7 DEF CliOk, ConnInv, Ws
  <2>4. srv.read \in Nat \ {0} /\ srv.read <= Len(cli.sent)
    BY <1>2, <2>1, <2>2
  <2> HIDE DEF rest, d, c, s0, syn, end, left
  <2>5. Len(cli.sent) <= 1 => srv.read = 1
    BY <1>p, <2>4
  <2> QED
    BY <2>3, <2>4, <2>5
<1>9. /\ s0 \in End /\ s0.prs = "body" /\ s0.upgrade = (opt.up # "no")
      /\ s0.sock = srv.sock /\ s0.sent = srv.sent /\ s0.hdr = srv.hdr /\ s0.closed = srv.closed
      /\ s0.cb = srv.cb /\ s0.dead = srv.dead /\ s0.uaf = srv.uaf
      /\ s0.todo = srv.todo /\ s0.read = srv.read /\ s0.got = srv.got
      /\ s0.resp = srv.resp /\ s0.adapter = srv.adapter /\ s0.calls = srv.calls
  <2>1. "body" \in ParserState /\ opt.reqLen \in Int
    <3>1. opt.reqLen \in 0..CliSends
      BY DEF Options
    <3> QED
      BY <3>1, HttpAssumption DEF ParserState
  <2>2. s0 \in End
    BY ZenonT(60), <1>2, <2>1 DEF End
  <2>3. s0.prs = "body" /\ s0.upgrade = (opt.up # "no")
    BY <1>2 DEF End
  <2> QED
    BY <1>2, <2>2, <2>3 DEF End
<1> HIDE DEF s0
<1>10. /\ c \in End /\ HeadInv(c) /\ c.adapter = (IF Ws THEN "ws" ELSE "http")
       /\ c.prs = (IF Ws THEN "done" ELSE "body") /\ c.upgrade = (opt.up # "no")
       /\ c.sock = srv.sock /\ c.closed = srv.closed
       /\ c.cb = srv.cb /\ c.dead = srv.dead /\ c.uaf = srv.uaf /\ c.todo = srv.todo
       /\ c.read = srv.read /\ c.got = srv.got /\ c.resp = srv.resp /\ c.calls = srv.calls
       /\ Extends(srv.sent, c.sent)
  <2>1. srv.sock \in {"open", "closed"}
    BY <1>2 DEF SrvInCall
  <2>2. CASE Ws
    BY <1>7, <1>9, <2>1, <2>2, SrvUpgradeFacts
  <2>3. CASE ~Ws
    <3>1. HeadInv(s0)
      BY <1>2, <1>9 DEF HeadInv, SrvInCall, Mid
    <3> QED
      BY <1>2, <1>7, <1>9, <2>3, <3>1, ExtendsRefl
  <2> QED
    BY <2>2, <2>3
<1> HIDE DEF c
<1>11. SrvInCall(c)
  <2>1. Mid(c, opt.sheld)
    BY <1>2, <1>10 DEF SrvInCall, Mid
  <2>2. CallsInv(c)
    <3>1. c.calls = <<>> /\ ~c.resp /\ Len(<<>>) = 0
      BY <1>7, <1>10
    <3> QED
      BY <3>1, FirstCallback DEF CallsInv
  <2> QED
    BY <1>2, <1>10, <2>1, <2>2 DEF SrvInCall
<1>12. /\ syn \in Seq(Token) /\ Len(syn) \in 1..2 /\ Len(end) \in 0..1 /\ Len(syn) = 1 + Len(end)
       /\ \A i \in 1..Len(syn) : \/ syn[i].k = "end" /\ i = Len(syn) /\ end # <<>>
                                 \/ syn[i].k = "respond" /\ i = 1
       /\ end # <<>> => Len(syn) = 2 /\ syn[2].k = "end"
  <2>1. end = <<>> \/ end = <<Tok("end", 0)>>
    OBVIOUS
  <2> HIDE DEF end
  <2> QED
    BY <2>1, HeaderCallbacks
<1>13. (end # <<>> => ~Ws) /\ (opt.up = "other" => end # <<>>)
  BY Callbacks DEF Ws
<1>14. rest = syn \o left /\ left \in Seq(Token) /\ (opt.up = "no" => left = Tail(srv.todo))
       /\ (opt.up # "no" => left = <<>>)
  BY <1>2, Callbacks
<1> HIDE DEF syn, left, end
<1>15. rest \in Seq(Token) /\ (opt.up # "no" => rest = syn)
  <2>1. syn \o left \in Seq(Token)
    BY <1>12, <1>14, ConcatFacts
  <2>2. left = <<>> => syn \o left = syn
    BY <1>12, ConcatEmptySeq
  <2> QED
    BY <1>14, <2>1, <2>2
<1> HIDE DEF rest
<1>16. SrvAlive(d) /\ SrvAfter(c, d, rest)
  BY <1>1, <1>11, <1>15, SrvGoesOn
<1> HIDE DEF d
<1>17. d \in End
  BY <1>16 DEF SrvAlive, Between
<1>18. /\ d.prs = (IF Ws THEN "done" ELSE "body") /\ d.adapter = (IF Ws THEN "ws" ELSE "http")
       /\ d.read = srv.read /\ d.got = srv.got /\ ~d.resp /\ (~d.closed => ~srv.closed)
       /\ d.upgrade = (opt.up # "no") /\ Len(syn) \in 0..2
  BY <1>7, <1>10, <1>12, <1>16 DEF SrvAfter, After
<1>19. d.todo = rest => SrvStream(opt, d, cli, Len(syn))
  <2>1. SUFFICES ASSUME d.todo = rest PROVE SrvStream(opt, d, cli, Len(syn))
    OBVIOUS
  <2>2. \A i \in 1..Len(syn) : \/ syn[i].k = "end" /\ i = Len(syn) /\ d.prs = "body"
                               \/ syn[i].k = "respond" /\ i = 1 /\ ~d.resp /\ d.prs # "start"
    BY <1>12, <1>13, <1>18
  <2>3. CASE opt.up = "no"
    <3>1. d.todo = syn \o Tail(srv.todo)
      BY <1>14, <2>1, <2>3
    <3>2. Shape(srv, cli, 0) /\ srv \in End /\ syn \in Seq(Token) /\ Len(syn) \in 0..2
          /\ d.read = srv.read
      BY <1>2, <1>3, <1>4, <1>12, <1>18 DEF SrvStream
    <3>3. Shape(d, cli, Len(syn)) /\ Handled(d, Len(syn)) = Handled(srv, 0) + 1
      BY ZenonT(60), <1>17, <2>2, <3>1, <3>2, PopToken
    <3>4. Handled(d, Len(syn)) = 1
      BY <1>5, <3>3
    <3>5. ~d.closed => Len(d.got) = 1 - 1
      BY <1>6, <1>18, <2>3
    <3> QED
      BY <1>18, <2>3, <3>3, <3>4, <3>5 DEF SrvStream, GotAll, Ws
  <2>4. CASE opt.up # "no"
    <3>1. d.todo = syn /\ d.read <= Len(cli.sent) /\ syn \in Seq(Token)
      BY <1>2, <1>12, <1>15, <1>18, <2>1, <2>4
    <3>2. Shape(d, cli, Len(syn)) /\ Handled(d, Len(syn)) = d.read
      BY <1>17, <1>18, <2>2, <3>1, ShapeSynthetic
    <3>3. Handled(d, Len(syn)) # 0 /\ d.prs # "start"
      BY <1>8, <1>18, <3>2
    <3>4. Ws /\ ~d.closed => GotAll(d, Len(syn))
      <4>1. Ws /\ ~d.closed => d.got = <<>> /\ d.read = 1
        BY <1>6, <1>8, <1>18 DEF Ws
      <4> QED
        BY <3>2, <4>1 DEF GotAll
    <3>5. opt.up = "other" => Len(d.todo) = Len(syn) /\ Len(syn) > 0 /\ d.todo[Len(syn)].k = "end"
      BY <1>12, <1>13, <3>1
    <3>6. opt.up # "other" => Ws
      BY <2>4 DEF Options, Ws
    <3> QED
      BY <3>2, <3>3, <3>4, <3>5, <3>6 DEF SrvStream
  <2> QED
    BY <2>3, <2>4
<1>20. \E i \in 0..2 : SrvStream(opt, d, cli, i)
  <2>1. c.read <= Len(cli.sent) /\ After(c, d, rest)
    BY <1>2, <1>10, <1>16 DEF SrvAfter
  <2> QED
    BY <1>10, <1>17, <1>18, <1>19, <2>1, SrvStreamAfter
<1>21. SrvOk(opt, d, cli)
  <2>1. d.sock \in {"open", "closed"} /\ Between(d, opt.sheld) /\ CallsInv(d)
    BY <1>16 DEF SrvAlive, SrvAfter, After
  <2>2. Prefix(d.got, cli.sent)
    BY <1>18 DEF SrvOk
  <2> QED
    BY <1>18, <1>20, <2>1, <2>2 DEF SrvOk, Ws
<1>22. Extends(srv.sent, d.sent)
  <2>1. Extends(c.sent, d.sent) /\ c.sent \in Seq(Written) /\ d.sent \in Seq(Written)
    BY <1>10, <1>16, <1>17 DEF SrvAfter, After, End
  <2> QED
    BY <1>2, <1>10, <2>1, ExtendsTrans
<1> QED
  BY <1>1, <1>17, <1>21, <1>22

\* A server that has nothing to read.
LEMMA SrvQuiet ==
    ASSUME cli \in End, SrvOk(opt, srv, cli), srv.todo = <<>>, ~srv.closed
    PROVE  /\ srv \in End /\ Mid(srv, opt.sheld) /\ CallsInv(srv) /\ ~srv.dead
           /\ SrvStream(opt, srv, cli, 0) /\ srv.read <= Len(cli.sent) /\ Handled(srv, 0) = srv.read
           /\ srv.sent \in Seq(Written) /\ Extends(srv.sent, srv.sent)
           /\ HeadInv(srv) /\ srv.sock \in {"none", "open"}
<1>1. Between(srv, opt.sheld) /\ CallsInv(srv) /\ srv.sock \in {"none", "open", "closed"}
  BY DEF SrvOk
<1>2. srv \in End /\ ~srv.dead
  BY <1>1 DEF Between
<1>3. Mid(srv, opt.sheld)
  BY <1>1 DEF Between, Mid
<1>4. srv.sent \in Seq(Written)
  BY <1>2 DEF End
<1>5. PICK e \in 0..2 : SrvStream(opt, srv, cli, e)
  BY DEF SrvOk
<1>6. e = 0 /\ srv.read <= Len(cli.sent) /\ Handled(srv, 0) = srv.read
  BY <1>2, <1>5, ReadWithin DEF SrvStream
<1> QED
  BY <1>1, <1>2, <1>3, <1>4, <1>5, <1>6, ExtendsRefl DEF Between

\* TCPSocket::acceptConnection().
LEMMA AcceptOk ==
    ASSUME cli \in End, CliOk(opt, cli, srv), SrvOk(opt, srv, cli), Accept
    PROVE  SrvOk(opt, srv', cli) /\ srv' \in End /\ Extends(srv.sent, srv'.sent)
<1> DEFINE d == srv'
<1>1. srv.sock = "none" /\ d = [srv EXCEPT !.sock = "open", !.listed = TRUE]
  BY DEF Accept
<1>2. ~srv.closed /\ srv.todo = <<>>
  BY <1>1 DEF SrvOk, Between
<1>3. /\ srv \in End /\ Mid(srv, opt.sheld) /\ CallsInv(srv) /\ ~srv.dead
      /\ srv.read <= Len(cli.sent) /\ Handled(srv, 0) = srv.read
      /\ srv.sent \in Seq(Written) /\ Extends(srv.sent, srv.sent) /\ HeadInv(srv)
  BY <1>2, SrvQuiet
<1>4. srv.read = 0 /\ srv.got = <<>> /\ srv.prs = "start" /\ srv.hdr
  BY <1>1 DEF SrvOk
<1>5. d \in End /\ d.sock = "open"
  <2>1. "open" \in SocketState
    BY DEF SocketState
  <2>2. d \in End
    BY ZenonT(60), <1>1, <1>3, <2>1 DEF End
  <2> QED
    BY <1>1, <1>3, <2>2 DEF End
<1>6. /\ d.sent = srv.sent /\ d.hdr = srv.hdr /\ d.closed = srv.closed
      /\ d.cb = srv.cb /\ d.dead = srv.dead /\ d.uaf = srv.uaf /\ d.todo = srv.todo
      /\ d.read = srv.read /\ d.got = srv.got /\ d.resp = srv.resp /\ d.prs = srv.prs
      /\ d.adapter = srv.adapter /\ d.upgrade = srv.upgrade /\ d.calls = srv.calls
  BY <1>1, <1>3 DEF End
<1> HIDE DEF d
<1>7. HeadInv(d)
  BY <1>1, <1>3, <1>4, <1>5, <1>6 DEF HeadInv
<1>8. Between(d, opt.sheld)
  BY <1>2, <1>3, <1>5, <1>6, <1>7 DEF Between, Mid
<1>9. CallsInv(d)
  BY <1>3, <1>6 DEF CallsInv
<1>10. SrvStream(opt, d, cli, 0)
  <2>1. d.todo = <<>> /\ d.read = 0 /\ d.got = <<>> /\ d.prs = "start" /\ d.read <= Len(cli.sent)
    BY <1>2, <1>3, <1>4, <1>6
  <2>2. Shape(d, cli, 0) /\ Handled(d, 0) = 0
    BY <1>5, <2>1, ShapeNothing
  <2> QED
    BY <2>1, <2>2 DEF SrvStream, GotAll
<1>11. SrvOk(opt, d, cli)
  BY <1>5, <1>6, <1>8, <1>9, <1>10 DEF SrvOk
<1> QED
  BY <1>3, <1>5, <1>6, <1>11 DEF d

\* A read of the server.
LEMMA SrvReadOk ==
    ASSUME opt \in Options, cli \in End, SrvOk(opt, srv, cli), NEW k \in Nat, NEW cut \in BOOLEAN,
           SrvRead(k, cut)
    PROVE  SrvOk(opt, srv', cli) /\ srv' \in End /\ Extends(srv.sent, srv'.sent)
<1> DEFINE toks == SubSeq(cli.sent, srv.read + 1, srv.read + k)
<1> DEFINE q == IF Dropped(srv, SrvWs) THEN <<>> ELSE IF cut THEN Cut(toks) ELSE toks
<1> DEFINE r == srv.read + k
<1>1. srv.sock = "open" /\ srv.todo = <<>> /\ k \in 1..(Len(cli.sent) - srv.read)
      /\ srv' = [srv EXCEPT !.read = r, !.todo = q]
  BY DEF SrvRead
<1>2. srv \in End /\ ~srv.closed
  BY <1>1 DEF SrvOk, Between
<1>3. PICK e \in 0..2 : SrvStream(opt, srv, cli, e)
  BY DEF SrvOk
<1>4. srv.read <= Len(cli.sent) /\ srv.read \in Nat /\ e = 0 /\ Handled(srv, 0) = srv.read
  BY <1>1, <1>2, <1>3, ReadWithin DEF SrvStream
<1>5. r \in Nat /\ r # 0 /\ r <= Len(cli.sent)
  <2>1. cli.sent \in Seq(Written)
    BY DEF End
  <2>2. Len(cli.sent) \in Nat
    BY <2>1, LenProperties
  <2> QED
    BY <1>1, <1>4, <2>2
<1>6. /\ q \in Seq(Token)
      /\ \/ q = <<>> /\ ~SrvWs /\ srv.prs = "done"
         \/ Len(q) = k /\ \A i \in 1..k : q[i] = cli.sent[srv.read + i] \/ q[i].k = "part"
  <2>1. CASE Dropped(srv, SrvWs)
    BY <2>1, Callbacks DEF Dropped
  <2>2. CASE ~Dropped(srv, SrvWs)
    <3>1. q \in {toks, Cut(toks)}
      BY <2>2
    <3> HIDE DEF q
    <3> QED
      BY <1>1, <1>2, <1>4, <3>1, ReadTokens
  <2> QED
    BY <2>1, <2>2
<1> HIDE DEF q, r
<1> DEFINE d == srv'
<1>7. d \in End /\ d.read = r /\ d.todo = q
  BY ZenonT(60), <1>1, <1>2, <1>5, <1>6 DEF End
<1>8. /\ d.sock = srv.sock /\ d.sent = srv.sent /\ d.hdr = srv.hdr /\ d.closed = srv.closed
      /\ d.cb = srv.cb /\ d.dead = srv.dead /\ d.uaf = srv.uaf /\ d.prs = srv.prs
      /\ d.got = srv.got /\ d.resp = srv.resp
      /\ d.adapter = srv.adapter /\ d.upgrade = srv.upgrade /\ d.calls = srv.calls
  BY <1>1, <1>2 DEF End
<1> HIDE DEF d
<1>9. HeadInv(d)
  BY <1>8 DEF HeadInv, SrvOk, Between
<1>10. Between(d, opt.sheld) /\ CallsInv(d)
  BY <1>1, <1>2, <1>7, <1>8, <1>9 DEF SrvOk, Between, CallsInv
<1>11. SrvStream(opt, d, cli, 0)
  <2>0. Reading(srv) /\ ~(opt.up = "other" /\ srv.prs = "body")
    BY <1>1, <1>3, <1>4 DEF Reading, SrvStream
  <2>1. CASE q = <<>> /\ ~SrvWs /\ srv.prs = "done"
    <3>1. Shape(d, cli, 0) /\ Handled(d, 0) = r
      BY <1>5, <1>7, <2>1, ShapeNothing
    <3> QED
      BY <1>5, <1>8, <2>0, <2>1, <3>1 DEF SrvStream, SrvWs
  <2>2. CASE Len(q) = k /\ \A i \in 1..k : q[i] = cli.sent[srv.read + i] \/ q[i].k = "part"
    <3>1. Shape(d, cli, 0) /\ Handled(d, 0) = srv.read
      BY <1>1, <1>2, <1>4, <1>7, <2>2, ShapeRead DEF r
    <3> QED
      BY <1>2, <1>3, <1>4, <1>8, <2>0, <3>1 DEF SrvStream, GotAll
  <2> QED
    BY <1>6, <2>1, <2>2
<1>12. SrvOk(opt, d, cli)
  BY <1>1, <1>8, <1>10, <1>11 DEF SrvOk
<1>13. Extends(srv.sent, d.sent)
  <2>1. srv.sent \in Seq(Written)
    BY <1>2 DEF End
  <2> QED
    BY <1>8, <2>1, ExtendsRefl
<1> QED
  BY <1>7, <1>12, <1>13 DEF d

\* The end of the stream, or a reset.
LEMMA SrvEofOk ==
    ASSUME cli \in End, SrvOk(opt, srv, cli), SrvEof
    PROVE  SrvOk(opt, srv', cli) /\ srv' \in End /\ Extends(srv.sent, srv'.sent)
<1>1. ~srv.dead
  BY DEF SrvOk, Between, SrvEof
<1>2. PICK eof \in BOOLEAN : srv' = SrvError(srv, eof)
  BY DEF SrvEof
<1> QED
  BY <1>1, <1>2, SrvErrorOk

\* What the application does from elsewhere on the loop.
LEMMA SrvCallOk ==
    ASSUME cli \in End, SrvOk(opt, srv, cli), NEW a \in App, SrvCall(a)
    PROVE  SrvOk(opt, srv', cli) /\ srv' \in End /\ Extends(srv.sent, srv'.sent)
<1> DEFINE d == srv'
<1>1. /\ srv.todo = <<>> /\ srv.prs # "start" /\ SrvMay(srv, a) /\ ~srv.closed
      /\ d = IF a = "close" THEN SrvClose(srv) ELSE SrvApp(srv, a)
  BY DEF SrvCall
<1>2. /\ srv \in End /\ Mid(srv, opt.sheld) /\ CallsInv(srv) /\ ~srv.dead
      /\ SrvStream(opt, srv, cli, 0) /\ srv.read <= Len(cli.sent) /\ Handled(srv, 0) = srv.read
      /\ srv.sent \in Seq(Written) /\ Extends(srv.sent, srv.sent)
      /\ HeadInv(srv) /\ srv.sock \in {"none", "open"}
  BY <1>1, SrvQuiet
<1>3. srv.sock = "open"
  BY <1>1, <1>2 DEF SrvOk
<1>4. /\ Between(d, opt.sheld) /\ CallsInv(d) /\ d.sock \in {"open", "closed"}
      /\ d.todo = <<>> /\ d.read = srv.read /\ d.prs = srv.prs /\ d.got = srv.got
      /\ d.resp = srv.resp /\ d.adapter = srv.adapter /\ d.upgrade = srv.upgrade
      /\ Extends(srv.sent, d.sent)
  <2>1. CASE a = "close"
    <3>1. d = SrvClose(srv)
      BY <1>1, <2>1
    <3>2. /\ d \in End /\ HeadInv(d) /\ CallsInv(d) /\ d.closed /\ d.sock = "closed"
          /\ d.dead = ~opt.sheld /\ d.uaf = srv.uaf /\ d.cb = srv.cb
          /\ d.read = srv.read /\ d.todo = srv.todo /\ d.prs = srv.prs
          /\ d.got = srv.got /\ d.sent = srv.sent
          /\ d.resp = srv.resp /\ d.adapter = srv.adapter /\ d.upgrade = srv.upgrade
      BY <1>1, <1>2, <3>1, SrvCloseFacts
    <3> HIDE DEF d
    <3>3. Between(d, opt.sheld)
      BY <1>1, <1>2, <3>2 DEF Between, Mid
    <3> QED
      BY <1>1, <1>2, <3>2, <3>3
  <2>2. CASE a # "close"
    <3>1. d = SrvApp(srv, a)
      BY <1>1, <2>2
    <3>2. Mid(d, opt.sheld) /\ CallsInv(d) /\ SrvFrame(srv, d)
      BY <1>1, <1>2, <1>3, <3>1, SrvAppFacts
    <3> HIDE DEF d
    <3>3. d.todo = <<>> /\ d.sock \in {"open", "closed"}
      BY <1>1, <1>3, <3>2 DEF SrvFrame, Same
    <3>4. Between(d, opt.sheld)
      BY <3>2, <3>3 DEF Between, Mid
    <3> QED
      BY <3>2, <3>3, <3>4 DEF SrvFrame, Same
  <2> QED
    BY <2>1, <2>2
<1> HIDE DEF d
<1>5. d \in End
  BY <1>4 DEF Between
<1>6. SrvStream(opt, d, cli, 0)
  <2>1. Shape(d, cli, 0) /\ Handled(d, 0) = srv.read
    BY <1>2, <1>4, <1>5, ShapeNothing
  <2>2. Reading(srv) /\ ~(opt.up = "other" /\ srv.prs = "body")
    BY <1>2, <1>3 DEF Reading, SrvStream
  <2> QED
    BY <1>1, <1>2, <1>4, <2>1, <2>2 DEF SrvStream, GotAll
<1>7. SrvOk(opt, d, cli)
  BY <1>1, <1>3, <1>4, <1>6 DEF SrvOk
<1> QED
  BY <1>4, <1>5, <1>7 DEF d

\* One token handled.
LEMMA SrvStepOk ==
    ASSUME opt \in Options, cli \in End, CliOk(opt, cli, srv), SrvOk(opt, srv, cli),
           HeadFirst(cli.sent), NEW a \in App, SrvStep(a)
    PROVE  SrvOk(opt, srv', cli) /\ srv' \in End /\ Extends(srv.sent, srv'.sent)
<1>1. srv.todo # <<>> /\ SrvMay(srv, a)
  BY DEF SrvStep
<1>2. CASE Head(srv.todo).k = "head" /\ SrvOnHeaders(a)
  BY <1>1, <1>2, SrvHeadersOk
<1>3. CASE Head(srv.todo).k = "respond" /\ \E made \in BOOLEAN : SrvRespond(a, made)
  BY <1>1, <1>3, SrvRespondOk
<1>4. CASE Head(srv.todo).k = "data" /\ SrvBodyDue /\ SrvOnPayload(a)
  BY <1>1, <1>4, SrvPayloadOk
<1>5. CASE Head(srv.todo).k = "end" /\ SrvOnComplete(a)
  BY <1>1, <1>5, SrvCompleteOk
<1>6. CASE srv' = SrvError(srv, FALSE)
  <2>1. ~srv.dead
    BY <1>1 DEF SrvOk, Between
  <2> QED
    BY <1>6, <2>1, SrvErrorOk
<1> QED
  BY <1>2, <1>3, <1>4, <1>5, <1>6 DEF SrvStep

SrvStepNext == SrvLoop \/ \E a \in App : SrvCall(a)

LEMMA SrvNextOk ==
    ASSUME opt \in Options, cli \in End, CliOk(opt, cli, srv), SrvOk(opt, srv, cli),
           HeadFirst(cli.sent), SrvStepNext
    PROVE  SrvOk(opt, srv', cli) /\ srv' \in End /\ Extends(srv.sent, srv'.sent)
<1>1. CASE Accept
  BY <1>1, AcceptOk
<1>2. CASE \E k \in 1..(CliSends + 1), cut \in BOOLEAN : SrvRead(k, cut)
  <2>1. PICK k \in 1..(CliSends + 1), cut \in BOOLEAN : SrvRead(k, cut)
    BY <1>2
  <2>2. k \in Nat
    BY <2>1, HttpAssumption
  <2> QED
    BY <2>1, <2>2, SrvReadOk
<1>3. CASE \E a \in App : SrvStep(a)
  BY <1>3, SrvStepOk
<1>4. CASE SrvEof
  BY <1>4, SrvEofOk
<1>5. CASE \E a \in App : SrvCall(a)
  BY <1>5, SrvCallOk
<1> QED
  BY <1>1, <1>2, <1>3, <1>4, <1>5 DEF SrvStepNext, SrvLoop

-----------------------------------------------------------------------------
(* The inductive invariant.  Each end is well formed and has an explanation *)
(* of what it has read in terms of what the other end has written; neither  *)
(* half is inductive alone, because a server's handshake arrives in a read  *)
(* of its own only while the client has nothing to answer it with.          *)

Inv ==
    /\ opt \in Options /\ listening \in BOOLEAN
    /\ CliOk(opt, cli, srv) /\ SrvOk(opt, srv, cli)

LEMMA InvEnds ==
    ASSUME Inv
    PROVE  cli \in End /\ srv \in End /\ HeadFirst(cli.sent) /\ HeadFirst(srv.sent)
  BY DEF Inv, CliOk, SrvOk, Between, HeadInv

LEMMA NewEndFacts ==
    /\ NewEnd \in End
    /\ NewEnd.sock = "none" /\ NewEnd.sent = <<>> /\ NewEnd.read = 0 /\ NewEnd.todo = <<>>
    /\ NewEnd.prs = "start" /\ NewEnd.hdr /\ ~NewEnd.closed /\ ~NewEnd.dead
    /\ NewEnd.got = <<>> /\ ~NewEnd.cb /\ ~NewEnd.uaf /\ ~NewEnd.connect /\ ~NewEnd.active
    /\ ~NewEnd.complete /\ NewEnd.completes = 0 /\ NewEnd.late = 0
    /\ NewEnd.adapter = "http" /\ ~NewEnd.upgrade /\ ~NewEnd.resp /\ NewEnd.calls = <<>>
<1>1. "none" \in SocketState /\ "start" \in ParserState /\ 0 \in FramerState
  BY DEF SocketState, ParserState, FramerState
<1>2. <<>> \in Seq(Written) /\ <<>> \in Seq(Token) /\ <<>> \in Seq(Nat) /\ <<>> \in Seq(Callback)
  OBVIOUS
<1>3. NewEnd \in End
  BY <1>1, <1>2 DEF NewEnd, End
<1> QED
  BY <1>3 DEF NewEnd

LEMMA InvInit == Init => Inv
<1> SUFFICES ASSUME Init PROVE Inv
  OBVIOUS
<1>1. opt \in Options /\ cli = NewClient /\ srv = NewEnd /\ listening = TRUE
  BY DEF Init, NewServer
<1>2. /\ cli \in End /\ cli.sock = "idle" /\ cli.hdr = ~Ws
      /\ cli.sent = <<>> /\ cli.read = 0 /\ cli.todo = <<>>
      /\ cli.prs = "start" /\ ~cli.closed /\ ~cli.dead
      /\ cli.got = <<>> /\ ~cli.cb /\ ~cli.uaf /\ ~cli.connect /\ ~cli.active
      /\ ~cli.complete /\ cli.completes = 0 /\ cli.late = 0
  <2>1. cli = [NewEnd EXCEPT !.sock = "idle", !.listed = TRUE, !.hdr = ~Ws]
    BY <1>1 DEF NewClient
  <2>2. "idle" \in SocketState /\ (~Ws) \in BOOLEAN
    BY DEF SocketState
  <2>3. cli \in End
    BY ZenonT(60), <2>1, <2>2, NewEndFacts DEF End
  <2>4. cli.sock = "idle" /\ cli.hdr = ~Ws
    BY <2>1, NewEndFacts DEF End
  <2> QED
    BY <2>1, <2>3, <2>4, NewEndFacts DEF End
<1>3. Len(<<>>) = 0 /\ HeadFirst(<<>>)
  BY DEF HeadFirst
<1>4. srv \in End /\ srv.read = 0 /\ srv.todo = <<>> /\ srv.sent = <<>>
  BY <1>1, NewEndFacts
<1>5. Shape(cli, srv, 0) /\ Handled(cli, 0) = 0
  BY <1>2, <1>3, <1>4, ShapeNothing
<1>6. Shape(srv, cli, 0) /\ Handled(srv, 0) = 0
  BY <1>2, <1>3, <1>4, ShapeNothing
<1>7. CliOk(opt, cli, srv)
  <2>1. Between(cli, opt.cheld)
    BY <1>2, <1>3 DEF Between, HeadInv
  <2>2. ConnInv(opt, cli) /\ CountInv(cli)
    BY <1>2, <1>3 DEF ConnInv, CountInv
  <2>3. CliStream(opt, cli, srv, 0)
    BY <1>2, <1>5 DEF CliStream, GotAll
  <2>4. Prefix(cli.got, srv.sent)
    BY <1>2, <1>3 DEF Prefix
  <2>5. cli.hdr <=> opt.up # "ws"
    BY <1>2 DEF Ws
  <2>6. \E e \in 0..2 : CliStream(opt, cli, srv, e)
    BY <2>3
  <2> QED
    BY <1>2, <2>1, <2>2, <2>4, <2>5, <2>6 DEF CliOk
<1>8. SrvOk(opt, srv, cli)
  <2>1. Between(srv, opt.sheld)
    BY <1>1, <1>3, NewEndFacts DEF Between, HeadInv
  <2>2. CallsInv(srv)
    BY <1>1, <1>3, NewEndFacts, FirstCallback DEF CallsInv
  <2>3. SrvStream(opt, srv, cli, 0)
    BY <1>1, <1>6, NewEndFacts DEF SrvStream, GotAll
  <2>4. Prefix(srv.got, cli.sent)
    BY <1>1, <1>3, NewEndFacts DEF Prefix
  <2> QED
    BY <1>1, <2>1, <2>2, <2>3, <2>4, NewEndFacts DEF SrvOk
<1> QED
  BY <1>1, <1>7, <1>8 DEF Inv

LEMMA InvNext == Inv /\ [Next]_vars => Inv'
<1> SUFFICES ASSUME Inv, [Next]_vars PROVE Inv'
  OBVIOUS
<1>1. cli \in End /\ srv \in End /\ HeadFirst(cli.sent) /\ HeadFirst(srv.sent)
      /\ opt \in Options /\ listening \in BOOLEAN
      /\ CliOk(opt, cli, srv) /\ SrvOk(opt, srv, cli)
  BY InvEnds DEF Inv
<1>2. CASE CliStepNext
  <2>1. UNCHANGED <<opt, srv, listening>>
    BY <1>2 DEF CliStepNext, CliLoop, Resolve, ConnectDone, CliRead, CliStep, CliEof, CliCall
  <2>2. CliOk(opt, cli', srv) /\ cli' \in End /\ Extends(cli.sent, cli'.sent)
    BY <1>1, <1>2, CliNextOk
  <2>3. SrvOk(opt, srv, cli')
    BY <1>1, <2>2, SrvKept
  <2> QED
    BY <1>1, <2>1, <2>2, <2>3 DEF Inv
<1>3. CASE SrvStepNext
  <2>1. UNCHANGED <<opt, cli, listening>>
    BY <1>3 DEF SrvStepNext, SrvLoop, Accept, SrvRead, SrvStep, SrvEof, SrvCall
  <2>2. SrvOk(opt, srv', cli) /\ srv' \in End /\ Extends(srv.sent, srv'.sent)
    BY <1>1, <1>3, SrvNextOk
  <2>3. CliOk(opt, cli, srv')
    BY <1>1, <2>2, CliKept
  <2> QED
    BY <1>1, <2>1, <2>2, <2>3 DEF Inv
<1>4. CASE Shutdown
  <2>1. opt' = opt /\ cli' = cli /\ srv' = srv /\ listening' = FALSE
    BY <1>4 DEF Shutdown
  <2> QED
    BY <1>1, <2>1 DEF Inv
<1>5. CASE UNCHANGED vars
  <2>1. opt' = opt /\ cli' = cli /\ srv' = srv /\ listening' = listening
    BY <1>5 DEF vars
  <2> QED
    BY <1>1, <2>1 DEF Inv
<1> QED
  BY <1>2, <1>3, <1>4, <1>5 DEF Next, CliStepNext, SrvStepNext

\* Every reachable state satisfies the inductive invariant.
THEOREM InvHolds == Spec => []Inv
  BY InvInit, InvNext, PTL DEF Spec

\* What the application got is a prefix of the payloads written.
LEMMA PrefixIds ==
    ASSUME NEW g \in Seq(Nat), NEW s \in Seq(Written), Prefix(g, s)
    PROVE  IsPrefix(g, Ids(s))
<1> DEFINE n == IF Len(s) = 0 THEN 0 ELSE Len(s) - 1
<1> DEFINE t == [i \in 1..n |-> s[i + 1].id]
<1>1. Len(s) \in Nat /\ Len(g) \in Nat
  BY LenProperties
<1>2. n \in Nat /\ 1..(Len(s) - 1) = 1..n
  BY <1>1
<1>3. Ids(s) = t
  BY <1>2 DEF Ids
<1>4. Len(g) <= n /\ \A i \in 1..Len(g) : g[i] = s[i + 1].id
  <2>1. g = <<>> => Len(g) = 0
    OBVIOUS
  <2> QED
    BY <1>1, <2>1 DEF Prefix
<1>5. ASSUME NEW i \in 1..n PROVE s[i + 1].id \in Nat
  <2>1. i + 1 \in 1..Len(s)
    BY <1>1
  <2>2. s[i + 1] \in Written
    BY <2>1, ElementOfSeq
  <2> QED
    BY <2>2 DEF Written
<1> HIDE DEF n
<1>6. t \in Seq(Nat) /\ Len(t) = n /\ \A i \in 1..n : t[i] = s[i + 1].id
  BY <1>2, <1>5
<1> HIDE DEF t
<1>7. \A i \in 1..Len(g) : t[i] = g[i] /\ g[i] \in Nat /\ t[i] \in Nat
  <2>1. ASSUME NEW i \in 1..Len(g) PROVE t[i] = g[i] /\ g[i] \in Nat
    <3>1. i \in 1..n
      BY <1>1, <1>2, <1>4
    <3>2. g[i] \in Nat
      BY ElementOfSeq
    <3> QED
      BY <1>4, <1>6, <3>1, <3>2
  <2> QED
    BY <2>1
<1>8. SubSeq(g, 1, Len(g)) = SubSeq(t, 1, Len(g))
  <2> DEFINE u == SubSeq(g, 1, Len(g))
  <2> DEFINE v == SubSeq(t, 1, Len(g))
  <2> DEFINE m == Len(g)
  <2>0. m \in Nat /\ \A i \in 1..m : t[i] = g[i] /\ g[i] \in Nat /\ t[i] \in Nat
    BY <1>1, <1>7
  <2>1. u \in Seq(Nat) /\ Len(u) = (IF 1 <= m THEN m - 1 + 1 ELSE 0)
        /\ \A i \in 1..(m - 1 + 1) : u[i] = g[1 + i - 1]
    BY <2>0, SubSeqProperties
  <2>2. v \in Seq(Nat) /\ Len(v) = (IF 1 <= m THEN m - 1 + 1 ELSE 0)
        /\ \A i \in 1..(m - 1 + 1) : v[i] = t[1 + i - 1]
    BY <2>0, SubSeqProperties
  <2>3. Len(u) = m /\ Len(v) = m /\ (\A i \in 1..m : u[i] = g[i] /\ v[i] = t[i])
    <3>1. m - 1 + 1 = m /\ \A i \in 1..m : 1 + i - 1 = i
      BY <2>0
    <3> QED
      BY <2>0, <2>1, <2>2, <3>1
  <2> HIDE DEF u, v
  <2>4. u = v
    <3>1. Len(u) = Len(v) /\ \A i \in 1..Len(u) : u[i] = v[i]
      BY <2>0, <2>3
    <3> QED
      BY <2>1, <2>2, <3>1, SeqEqual
  <2> QED
    BY <2>4 DEF u, v
<1> QED
  BY <1>3, <1>4, <1>6, <1>8 DEF IsPrefix

\* The options never change and both ends keep their types.
THEOREM TypeCorrect == Spec => []TypeOK
<1>1. Inv => TypeOK
  BY InvEnds DEF Inv, TypeOK
<1> QED
  BY <1>1, InvHolds, PTL

\* Each end writes its header once and first, and each application receives
\* what the other one wrote, in order and with nothing missing, for every way
\* in which the two loops interleave and the network joins or cuts the reads
\* (the adapters of connection.cpp and websocket.cpp, the parser's callbacks).
THEOREM StreamCorrect == Spec => []StreamFaithful
<1>1. ASSUME Inv PROVE StreamFaithful
  <2>1. cli \in End /\ srv \in End /\ HeadFirst(cli.sent) /\ HeadFirst(srv.sent)
    BY <1>1, InvEnds
  <2>2. /\ cli.got \in Seq(Nat) /\ srv.got \in Seq(Nat)
        /\ cli.sent \in Seq(Written) /\ srv.sent \in Seq(Written)
    BY <2>1 DEF End
  <2>3. Prefix(cli.got, srv.sent) /\ Prefix(srv.got, cli.sent)
    BY <1>1 DEF Inv, CliOk, SrvOk
  <2> QED
    BY <2>1, <2>2, <2>3, PrefixIds DEF StreamFaithful
<1> QED
  BY <1>1, InvHolds, PTL

\* A client completes once, before its Close, and emits nothing afterwards;
\* a responder's callbacks come in their order and end with onClose()
\* (ClientConnection::onComplete and onClose, ServerConnection::onHeaders,
\* onPayload, onComplete and onClose).
THEOREM CallbacksCorrect == Spec => []CallbacksOrdered
<1>1. ASSUME Inv PROVE CallbacksOrdered
  <2>1. CompletesOnce
    BY <1>1 DEF Inv, CliOk, CountInv, Between, CompletesOnce
  <2>2. CallsInv(srv) /\ Between(srv, opt.sheld)
    BY <1>1 DEF Inv, SrvOk
  <2>3. SrvWs => ~Contains(srv.calls, "request")
    BY <2>2 DEF CallsInv, Contains, SrvWs
  <2>4. srv.upgrade => ~Contains(srv.calls, "headers")
    BY <2>2 DEF CallsInv, Contains
  <2>5. srv.closed /\ srv.resp /\ ~srv.cb => Last(srv.calls) = "close"
    BY <2>2 DEF CallsInv, Last
  <2> QED
    BY <2>1, <2>2, <2>3, <2>4, <2>5 DEF CallbacksOrdered, ResponderOrdered, CallsInv, Ordered
<1> QED
  BY <1>1, InvHolds, PTL

\* The library goes on using a connection it has destroyed only when the
\* application, holding no reference of its own, closed it in a callback
\* (Client::removeConnection, Server::onConnectionClose).
THEOREM DestructionSafe == Spec => []DestroyedWhenIdle
<1>1. Inv => DestroyedWhenIdle
  BY DEF Inv, CliOk, SrvOk, Between, DestroyedWhenIdle
<1> QED
  BY <1>1, InvHolds, PTL

-----------------------------------------------------------------------------
(* The TLS socket: what each end writes is its two flights and then its    *)
(* packets, record by record, so what is written, in the BIO or waiting is *)
(* known from how many there are.                                          *)

TlsRecord == [fl : {"hello", "finish", "server", "done", "data"}, id : Nat]

TlsCall == {"flush", "read", "write"}

TlsState ==
    [ hs : 0..3, rbio : Seq(TlsRecord), wbio : Seq(TlsRecord), bufferOut : Seq(TlsRecord),
      sent : Seq(TlsRecord), read : Nat, run : Seq(TlsCall), closed : BOOLEAN,
      n : Nat, got : Seq(TlsRecord) ]

\* What an end writes, record by record: the two flights of its handshake, then the
\* packets of its application.
FlightOf(e, i) == IF e = "cli" THEN (IF i = 1 THEN "hello" ELSE "finish")
                               ELSE (IF i = 1 THEN "server" ELSE "done")
Nth(e, i) == IF i <= 2 THEN Flight(FlightOf(e, i)) ELSE Data(i - 2)

\* s holds what e writes from the record after the k-th on.
Holds(e, s, k) == \A i \in 1..Len(s) : s[i] = Nth(e, k + i)

\* How many records are written or in the BIO, and how many there are at least before
\* the packets that wait.
Output(t) == Len(t.sent) + Len(t.wbio)
Base(t) == IF Output(t) < 2 THEN 2 ELSE Output(t)

\* How many flights of the peer the engine has used.
Used(e, hs) == IF e = "cli" THEN hs - 1 ELSE hs

OutputRight(e, t) ==
    /\ Holds(e, t.wbio, Len(t.sent))
    /\ Holds(e, t.bufferOut, Base(t)) /\ t.n = Base(t) - 2 + Len(t.bufferOut)
    /\ IF Finished(e, t.hs) THEN Output(t) >= 2 ELSE Output(t) = t.hs

InputRight(e, t) ==
    /\ Holds(Peer(e), t.rbio, Used(e, t.hs) + Len(t.got))
    /\ Holds(Peer(e), t.got, 2)
    /\ t.read = Used(e, t.hs) + Len(t.got) + Len(t.rbio)
    /\ Len(t.got) > 0 => Finished(e, t.hs)

\* Records are read and packets written only after the handshake.
RunRight(e, hs, r) == \A i \in 1..Len(r) : r[i] # "flush" => Finished(e, hs)

Good(e, t) ==
    /\ t \in TlsState
    /\ IF e = "cli" THEN t.hs \in 1..3 ELSE t.hs \in 0..2
    /\ Holds(e, t.sent, 0)
    /\ ~t.closed => OutputRight(e, t)
    /\ InputRight(e, t)
    /\ RunRight(e, t.hs, t.run)

TlsInv == tls \in [TlsEnd -> TlsState] /\ \A e \in TlsEnd : Good(e, tls[e])

-----------------------------------------------------------------------------
(* Sequences that hold what an end writes.                                 *)

LEMMA NthIsRecord ==
    ASSUME NEW e \in TlsEnd, NEW i \in Nat, i # 0
    PROVE  Nth(e, i) \in TlsRecord
BY DEF Nth, TlsRecord, FlightOf, Flight, Data

LEMMA HoldsEmpty ==
    ASSUME NEW e \in TlsEnd, NEW k \in Nat
    PROVE  Holds(e, <<>>, k)
BY DEF Holds

LEMMA HoldsTail ==
    ASSUME NEW e \in TlsEnd, NEW k \in Nat, NEW s \in Seq(TlsRecord), s # <<>>, Holds(e, s, k)
    PROVE  /\ Tail(s) \in Seq(TlsRecord) /\ Len(Tail(s)) = Len(s) - 1
           /\ Holds(e, Tail(s), k + 1)
           /\ Head(s) = Nth(e, k + 1) /\ Head(s) \in TlsRecord
<1>1. Len(s) \in Nat \ {0}
    BY EmptySeq
<1>2. Tail(s) \in Seq(TlsRecord) /\ Len(Tail(s)) = Len(s) - 1 /\ Head(s) \in TlsRecord
    BY HeadTailProperties
<1>3. \A i \in 1..Len(Tail(s)) : Tail(s)[i] = s[i + 1]
    BY HeadTailProperties
<1>4. Head(s) = s[1]
    OBVIOUS
<1>5. Head(s) = Nth(e, k + 1)
    BY <1>1, <1>4 DEF Holds
<1>6. ASSUME NEW i \in 1..Len(Tail(s)) PROVE Tail(s)[i] = Nth(e, (k + 1) + i)
    <2>1. i + 1 \in 1..Len(s) /\ k + (i + 1) = (k + 1) + i
        BY <1>1, <1>2
    <2>2. s[i + 1] = Nth(e, k + (i + 1))
        BY <2>1 DEF Holds
    <2> QED BY <1>3, <2>1, <2>2
<1> QED BY <1>2, <1>5, <1>6 DEF Holds

LEMMA HoldsAppend ==
    ASSUME NEW e \in TlsEnd, NEW k \in Nat, NEW s \in Seq(TlsRecord), Holds(e, s, k),
           NEW r \in TlsRecord, r = Nth(e, k + (Len(s) + 1))
    PROVE  /\ Append(s, r) \in Seq(TlsRecord) /\ Len(Append(s, r)) = Len(s) + 1
           /\ Holds(e, Append(s, r), k)
<1>1. Append(s, r) \in Seq(TlsRecord) /\ Len(Append(s, r)) = Len(s) + 1 /\ Len(s) \in Nat
    BY AppendProperties, LenProperties
<1>2. (\A i \in 1..Len(s) : Append(s, r)[i] = s[i]) /\ Append(s, r)[Len(s) + 1] = r
    BY AppendProperties
<1>3. ASSUME NEW i \in 1..(Len(s) + 1) PROVE Append(s, r)[i] = Nth(e, k + i)
    <2>1. CASE i = Len(s) + 1
        BY <1>2, <2>1
    <2>2. CASE i # Len(s) + 1
        <3>1. i \in 1..Len(s)
            BY <1>1, <2>2
        <3> QED BY <1>2, <3>1 DEF Holds
    <2> QED BY <2>1, <2>2
<1> QED BY <1>1, <1>3 DEF Holds

LEMMA HoldsConcat ==
    ASSUME NEW e \in TlsEnd, NEW k \in Nat, NEW s \in Seq(TlsRecord), NEW t \in Seq(TlsRecord),
           Holds(e, s, k), Holds(e, t, k + Len(s))
    PROVE  /\ s \o t \in Seq(TlsRecord) /\ Len(s \o t) = Len(s) + Len(t)
           /\ Holds(e, s \o t, k)
<1>1. s \o t \in Seq(TlsRecord) /\ Len(s \o t) = Len(s) + Len(t) /\ Len(s) \in Nat /\ Len(t) \in Nat
    BY ConcatProperties, LenProperties
<1>2. \A i \in 1..(Len(s) + Len(t)) : (s \o t)[i] = IF i <= Len(s) THEN s[i] ELSE t[i - Len(s)]
    BY ConcatProperties
<1>3. ASSUME NEW i \in 1..(Len(s) + Len(t)) PROVE (s \o t)[i] = Nth(e, k + i)
    <2>1. CASE i <= Len(s)
        <3>1. i \in 1..Len(s)
            BY <1>1, <2>1
        <3> QED BY <1>2, <2>1, <3>1 DEF Holds
    <2>2. CASE ~(i <= Len(s))
        <3> DEFINE j == i - Len(s)
        <3>1. j \in 1..Len(t) /\ (k + Len(s)) + j = k + i
            BY <1>1, <2>2
        <3>2. t[j] = Nth(e, (k + Len(s)) + j)
            BY <3>1 DEF Holds
        <3> QED BY <1>2, <2>2, <3>1, <3>2
    <2> QED BY <2>1, <2>2
<1> QED BY <1>1, <1>3 DEF Holds

LEMMA HoldsSubSeq ==
    ASSUME NEW e \in TlsEnd, NEW s \in Seq(TlsRecord), Holds(e, s, 0),
           NEW m \in Nat, NEW j \in Nat, m + j <= Len(s)
    PROVE  /\ SubSeq(s, m + 1, m + j) \in Seq(TlsRecord) /\ Len(SubSeq(s, m + 1, m + j)) = j
           /\ Holds(e, SubSeq(s, m + 1, m + j), m)
<1>1. Len(s) \in Nat /\ m + 1 \in Int /\ m + j \in Int
    BY LenProperties
<1>2. \A i \in (m + 1)..(m + j) : s[i] \in TlsRecord
    BY <1>1, ElementOfSeq
<1> DEFINE a == m + 1
           b == m + j
           u == SubSeq(s, a, b)
<1>a. a \in Int /\ b \in Int /\ \A i \in a..b : s[i] \in TlsRecord
    BY <1>1, <1>2
<1>3. /\ u \in Seq(TlsRecord)
      /\ Len(u) = IF a <= b THEN b - a + 1 ELSE 0
      /\ \A i \in 1..(b - a + 1) : u[i] = s[a + i - 1]
    <2> HIDE DEF a, b
    <2> QED BY <1>a, SubSeqProperties
<1>4. Len(u) = j
    BY <1>3, <1>1
<1>5. ASSUME NEW i \in 1..j PROVE u[i] = Nth(e, m + i)
    <2>1. i \in 1..(b - a + 1) /\ a + i - 1 = m + i /\ m + i \in 1..Len(s) /\ 0 + (m + i) = m + i
        BY <1>1
    <2>2. s[m + i] = Nth(e, 0 + (m + i))
        BY <2>1 DEF Holds
    <2> QED BY <1>3, <2>1, <2>2
<1> QED BY <1>3, <1>4, <1>5 DEF Holds

-----------------------------------------------------------------------------
(* What the calls of an end do to its state.                               *)

LEMMA TlsLengths ==
    ASSUME NEW s \in Seq(TlsRecord)
    PROVE  Len(s) \in Nat /\ (s # <<>> => Len(s) >= 1) /\ (s = <<>> => Len(s) = 0)
BY LenProperties, EmptySeq

LEMMA WithRun ==
    ASSUME NEW t \in TlsState, NEW r \in Seq(TlsCall)
    PROVE  [t EXCEPT !.run = r] \in TlsState
BY ZenonT(60) DEF TlsState

LEMMA WithHello ==
    ASSUME NEW t \in TlsState, NEW h \in 0..3, NEW b \in Seq(TlsRecord)
    PROVE  [t EXCEPT !.hs = h, !.wbio = b] \in TlsState
BY ZenonT(60) DEF TlsState

LEMMA WithHandshake ==
    ASSUME NEW t \in TlsState, NEW a \in Seq(TlsRecord), NEW h \in 0..3, NEW b \in Seq(TlsRecord)
    PROVE  [t EXCEPT !.rbio = a, !.hs = h, !.wbio = b] \in TlsState
BY ZenonT(60) DEF TlsState

LEMMA WithSent ==
    ASSUME NEW t \in TlsState, NEW a \in Seq(TlsRecord), NEW b \in Seq(TlsRecord)
    PROVE  [t EXCEPT !.wbio = a, !.sent = b] \in TlsState
BY ZenonT(60) DEF TlsState

LEMMA WithWritten ==
    ASSUME NEW t \in TlsState, NEW a \in Seq(TlsRecord), NEW b \in Seq(TlsRecord)
    PROVE  [t EXCEPT !.wbio = a, !.bufferOut = b] \in TlsState
BY ZenonT(60) DEF TlsState

LEMMA WithClosed ==
    ASSUME NEW t \in TlsState
    PROVE  [t EXCEPT !.closed = TRUE] \in TlsState
BY ZenonT(60) DEF TlsState

LEMMA WithPacket ==
    ASSUME NEW t \in TlsState, NEW m \in Nat, NEW a \in Seq(TlsRecord),
           NEW r \in Seq(TlsCall)
    PROVE  [t EXCEPT !.n = m, !.bufferOut = a, !.run = r] \in TlsState
BY ZenonT(60) DEF TlsState

LEMMA WithGot ==
    ASSUME NEW t \in TlsState, NEW a \in Seq(TlsRecord), NEW b \in Seq(TlsRecord)
    PROVE  [t EXCEPT !.rbio = a, !.got = b] \in TlsState
BY ZenonT(60) DEF TlsState

LEMMA WithRead ==
    ASSUME NEW t \in TlsState, NEW a \in Seq(TlsRecord), NEW k \in Nat,
           NEW r \in Seq(TlsCall)
    PROVE  [t EXCEPT !.rbio = a, !.read = k, !.run = r] \in TlsState
BY ZenonT(60) DEF TlsState

LEMMA RunTail ==
    ASSUME NEW e \in TlsEnd, NEW h \in 0..3, NEW r \in Seq(TlsCall), r # <<>>, RunRight(e, h, r)
    PROVE  Tail(r) \in Seq(TlsCall) /\ RunRight(e, h, Tail(r)) /\ (Head(r) # "flush" => Finished(e, h))
<1>1. Len(r) \in Nat \ {0} /\ Head(r) = r[1]
    BY EmptySeq
<1>2. Tail(r) \in Seq(TlsCall) /\ Len(Tail(r)) = Len(r) - 1 /\ \A i \in 1..Len(Tail(r)) : Tail(r)[i] = r[i + 1]
    BY HeadTailProperties
<1>3. \A i \in 1..Len(Tail(r)) : i + 1 \in 1..Len(r)
    BY <1>1, <1>2
<1> QED BY <1>1, <1>2, <1>3 DEF RunRight

LEMMA RunConcat ==
    ASSUME NEW e \in TlsEnd, NEW h \in 0..3, NEW q \in Seq(TlsCall), NEW r \in Seq(TlsCall),
           RunRight(e, h, q), RunRight(e, h, r)
    PROVE  q \o r \in Seq(TlsCall) /\ RunRight(e, h, q \o r)
<1>1. q \o r \in Seq(TlsCall) /\ Len(q \o r) = Len(q) + Len(r) /\ Len(q) \in Nat /\ Len(r) \in Nat
    BY ConcatProperties, LenProperties
<1>2. \A i \in 1..(Len(q) + Len(r)) : (q \o r)[i] = IF i <= Len(q) THEN q[i] ELSE r[i - Len(q)]
    BY ConcatProperties
<1>3. ASSUME NEW i \in 1..(Len(q) + Len(r)), (q \o r)[i] # "flush" PROVE Finished(e, h)
    <2>1. CASE i <= Len(q)
        <3>1. i \in 1..Len(q) /\ (q \o r)[i] = q[i]
            BY <1>1, <1>2, <2>1
        <3> QED BY <1>3, <3>1 DEF RunRight
    <2>2. CASE ~(i <= Len(q))
        <3>1. i - Len(q) \in 1..Len(r) /\ (q \o r)[i] = r[i - Len(q)]
            BY <1>1, <1>2, <2>2
        <3> QED BY <1>3, <3>1 DEF RunRight
    <2> QED BY <2>1, <2>2
<1> QED BY <1>1, <1>3 DEF RunRight

\* The calls that flush() and the callers start.
LEMMA RunsStarted ==
    ASSUME NEW e \in TlsEnd, NEW h \in 0..3
    PROVE  /\ <<"flush">> \in Seq(TlsCall) /\ RunRight(e, h, <<"flush">>)
           /\ OnReadCalls \in Seq(TlsCall) /\ RunRight(e, h, OnReadCalls)
           /\ Finished(e, h) => /\ <<"read", "write">> \in Seq(TlsCall) /\ RunRight(e, h, <<"read", "write">>)
                                /\ <<"write">> \in Seq(TlsCall) /\ RunRight(e, h, <<"write">>)
BY DEF TlsCall, RunRight, OnReadCalls

LEMMA RunGood ==
    ASSUME NEW e \in TlsEnd, NEW t, Good(e, t), NEW r \in Seq(TlsCall), RunRight(e, t.hs, r)
    PROVE  Good(e, [t EXCEPT !.run = r])
<1> DEFINE u == [t EXCEPT !.run = r]
<1>1. t \in TlsState
    BY DEF Good
<1>2. u \in TlsState
    BY <1>1, WithRun
<1>3. /\ u.hs = t.hs /\ u.rbio = t.rbio /\ u.wbio = t.wbio /\ u.bufferOut = t.bufferOut
      /\ u.sent = t.sent /\ u.read = t.read /\ u.closed = t.closed /\ u.n = t.n /\ u.got = t.got
      /\ u.run = r
    BY <1>1 DEF TlsState
<1> HIDE DEF u
<1>4. ~t.closed => OutputRight(e, u)
    BY <1>3 DEF Good, OutputRight, Output, Base
<1>5. InputRight(e, u)
    BY <1>3 DEF Good, InputRight
<1>6. Good(e, u)
    BY <1>2, <1>3, <1>4, <1>5 DEF Good
<1> QED BY <1>6 DEF u

LEMMA PopGood ==
    ASSUME NEW e \in TlsEnd, NEW t, Good(e, t), t.run # <<>>
    PROVE  /\ Good(e, Pop(t))
           /\ Pop(t).closed = t.closed /\ Pop(t).hs = t.hs /\ Pop(t).sent = t.sent
           /\ Head(t.run) # "flush" => Finished(e, t.hs)
<1>1. t \in TlsState /\ t.run \in Seq(TlsCall) /\ RunRight(e, t.hs, t.run) /\ t.hs \in 0..3
    BY DEF Good, TlsState
<1> DEFINE r == t.run
<1>2. Tail(r) \in Seq(TlsCall) /\ RunRight(e, t.hs, Tail(r)) /\ (Head(r) # "flush" => Finished(e, t.hs))
    <2> DEFINE h == t.hs
    <2>1. h \in 0..3 /\ r \in Seq(TlsCall) /\ r # <<>> /\ RunRight(e, h, r)
        BY <1>1
    <2> HIDE DEF h, r
    <2>2. Tail(r) \in Seq(TlsCall) /\ RunRight(e, h, Tail(r)) /\ (Head(r) # "flush" => Finished(e, h))
        BY <2>1, RunTail
    <2> QED BY <2>2 DEF h
<1>3. Good(e, [t EXCEPT !.run = Tail(r)])
    BY <1>2, RunGood
<1>4. Pop(t) = [t EXCEPT !.run = Tail(r)]
    BY DEF Pop
<1>5. Pop(t).closed = t.closed /\ Pop(t).hs = t.hs /\ Pop(t).sent = t.sent
    BY <1>1 DEF Pop, TlsState
<1> QED BY <1>2, <1>3, <1>4, <1>5

LEMMA CloseGood ==
    ASSUME NEW e \in TlsEnd, NEW t, Good(e, t)
    PROVE  Good(e, [t EXCEPT !.closed = TRUE])
<1> DEFINE u == [t EXCEPT !.closed = TRUE]
<1>1. t \in TlsState
    BY DEF Good
<1>2. u \in TlsState
    BY <1>1, WithClosed
<1>3. /\ u.hs = t.hs /\ u.rbio = t.rbio /\ u.sent = t.sent /\ u.read = t.read /\ u.closed
      /\ u.got = t.got /\ u.run = t.run
    BY <1>1 DEF TlsState
<1> HIDE DEF u
<1>4. InputRight(e, u)
    BY <1>3 DEF Good, InputRight
<1>5. Good(e, u)
    BY <1>2, <1>3, <1>4 DEF Good
<1> QED BY <1>5 DEF u

\* The flight that SSL_do_handshake() writes is the next of its end.
LEMMA Replies ==
    ASSUME NEW e \in TlsEnd, NEW h, IF e = "cli" THEN h \in 1..3 ELSE h \in 0..2, ~Finished(e, h)
    PROVE  /\ h \in 0..2 /\ h + 1 \in 0..3 /\ (IF e = "cli" THEN h + 1 \in 1..3 ELSE h + 1 \in 0..2)
           /\ Used(e, h) \in Nat /\ Used(e, h + 1) = Used(e, h) + 1
           /\ Finished(e, h + 1) <=> (IF e = "cli" THEN h = 2 ELSE h = 1)
           /\ Reply(e, h) = "none" <=> (e = "cli" /\ h = 2)
           /\ Reply(e, h) # "none" => Flight(Reply(e, h)) = Nth(e, h + 1)
BY DEF TlsEnd, Finished, Used, Reply, Nth, FlightOf, Flight

LEMMA FlushWriteBIOGood ==
    ASSUME NEW e \in TlsEnd, NEW t, Good(e, t)
    PROVE  /\ Good(e, FlushWriteBIO(t))
           /\ FlushWriteBIO(t).closed = t.closed /\ FlushWriteBIO(t).hs = t.hs
<1> DEFINE s == IF t.closed THEN t.sent ELSE t.sent \o t.wbio
           u == [t EXCEPT !.wbio = <<>>, !.sent = s]
<1>1. /\ t \in TlsState /\ t.sent \in Seq(TlsRecord) /\ t.wbio \in Seq(TlsRecord)
      /\ t.closed \in BOOLEAN /\ Holds(e, t.sent, 0)
    BY DEF Good, TlsState
<1>2. ASSUME ~t.closed
      PROVE  /\ t.sent \o t.wbio \in Seq(TlsRecord) /\ Len(t.sent \o t.wbio) = Len(t.sent) + Len(t.wbio)
             /\ Holds(e, t.sent \o t.wbio, 0)
    <2> DEFINE p == t.sent
               q == t.wbio
               z == 0
    <2>1. Holds(e, q, Len(p)) /\ Len(p) \in Nat
        BY <1>1, <1>2, TlsLengths DEF Good, OutputRight
    <2>2. z \in Nat /\ z + Len(p) = Len(p) /\ p \in Seq(TlsRecord) /\ q \in Seq(TlsRecord) /\ Holds(e, p, z)
        BY <1>1, <2>1
    <2> HIDE DEF p, q, z
    <2>3. p \o q \in Seq(TlsRecord) /\ Len(p \o q) = Len(p) + Len(q) /\ Holds(e, p \o q, z)
        BY <2>1, <2>2, HoldsConcat
    <2> QED BY <2>3 DEF p, q, z
<1>3. s \in Seq(TlsRecord) /\ Holds(e, s, 0)
    BY <1>1, <1>2
<1>4. <<>> \in Seq(TlsRecord)
    BY EmptySeq
<1>5. u \in TlsState
    <2> HIDE DEF s
    <2> QED BY <1>1, <1>3, <1>4, WithSent
<1>6. /\ u.hs = t.hs /\ u.rbio = t.rbio /\ u.wbio = <<>> /\ u.bufferOut = t.bufferOut
      /\ u.sent = s /\ u.read = t.read /\ u.closed = t.closed /\ u.n = t.n /\ u.got = t.got
      /\ u.run = t.run
    BY <1>1 DEF TlsState
<1>7. u = FlushWriteBIO(t)
    BY <1>1 DEF FlushWriteBIO, TlsState
<1>8. ~t.closed => Output(u) = Output(t) /\ Len(t.sent) \in Nat /\ Len(t.wbio) \in Nat
    BY <1>1, <1>2, <1>6, TlsLengths DEF Output
<1>9. Holds(e, <<>>, Len(u.sent))
    BY <1>3, <1>6, TlsLengths, HoldsEmpty
<1> HIDE DEF u
<1>10. ~t.closed => OutputRight(e, u)
    BY <1>6, <1>8, <1>9 DEF Good, OutputRight, Base
<1>11. Good(e, u)
    BY <1>3, <1>5, <1>6, <1>10 DEF Good, InputRight
<1> QED BY <1>6, <1>7, <1>11

LEMMA DoHandshakeGood ==
    ASSUME NEW e \in TlsEnd, NEW t, Good(e, t)
    PROVE  /\ Good(e, DoHandshake(e, t))
           /\ DoHandshake(e, t).closed = t.closed
<1>1. CASE ~CanAdvance(e, t)
    BY <1>1 DEF DoHandshake
<1>2. CASE CanAdvance(e, t)
    <2> DEFINE h == t.hs
               f == Flight(Reply(e, h))
               w == IF Reply(e, h) = "none" THEN t.wbio ELSE Append(t.wbio, f)
               r == Tail(t.rbio)
               u == [t EXCEPT !.rbio = r, !.hs = h + 1, !.wbio = w]
    <2>1. /\ t \in TlsState /\ t.rbio \in Seq(TlsRecord) /\ t.wbio \in Seq(TlsRecord) /\ t.sent \in Seq(TlsRecord)
          /\ t.got \in Seq(TlsRecord) /\ t.closed \in BOOLEAN /\ t.run \in Seq(TlsCall)
          /\ ~Finished(e, h) /\ t.rbio # <<>>
          /\ IF e = "cli" THEN h \in 1..3 ELSE h \in 0..2
        BY <1>2 DEF Good, TlsState, CanAdvance
    <2>2. /\ h \in 0..2 /\ h + 1 \in 0..3 /\ (IF e = "cli" THEN h + 1 \in 1..3 ELSE h + 1 \in 0..2)
          /\ Used(e, h) \in Nat /\ Used(e, h + 1) = Used(e, h) + 1
          /\ Finished(e, h + 1) <=> (IF e = "cli" THEN h = 2 ELSE h = 1)
          /\ Reply(e, h) = "none" <=> (e = "cli" /\ h = 2)
          /\ Reply(e, h) # "none" => f = Nth(e, h + 1)
        <3> HIDE DEF h
        <3> QED BY <2>1, Replies
    <2>3. Len(t.sent) \in Nat /\ Len(t.wbio) \in Nat /\ Len(t.got) \in Nat /\ Len(t.rbio) \in Nat
        BY <2>1, TlsLengths
    <2>4. Len(t.got) = 0
        BY <2>1, <2>3 DEF Good, InputRight
    <2>5. r \in Seq(TlsRecord) /\ Len(r) = Len(t.rbio) - 1 /\ Holds(Peer(e), r, Used(e, h) + 1)
        <3> DEFINE q == t.rbio
                   k == Used(e, h)
                   p == Peer(e)
        <3>1. Holds(p, q, k) /\ q # <<>> /\ q \in Seq(TlsRecord) /\ k \in Nat /\ p \in TlsEnd
            BY <2>1, <2>2, <2>4 DEF Good, InputRight, Peer, TlsEnd
        <3> HIDE DEF q, k, p
        <3>2. Tail(q) \in Seq(TlsRecord) /\ Len(Tail(q)) = Len(q) - 1 /\ Holds(p, Tail(q), k + 1)
            BY <3>1, HoldsTail
        <3> QED BY <3>2 DEF q, k, p
    <2>6. ASSUME Reply(e, h) # "none"
          PROVE  f \in TlsRecord /\ Append(t.wbio, f) \in Seq(TlsRecord) /\ Len(Append(t.wbio, f)) = Len(t.wbio) + 1
        <3>1. f = Nth(e, h + 1) /\ h + 1 \in Nat /\ h + 1 # 0
            BY <2>2, <2>6
        <3>2. f \in TlsRecord
            <4> HIDE DEF f, h
            <4> QED BY <3>1, NthIsRecord
        <3> HIDE DEF f
        <3> QED BY <2>1, <3>2, AppendProperties
    <2>7. w \in Seq(TlsRecord)
        BY <2>1, <2>6
    <2>8. u \in TlsState
        <3> DEFINE g == h + 1
        <3>1. g \in 0..3
            BY <2>2
        <3> HIDE DEF w, r, g
        <3> QED BY <2>1, <2>5, <2>7, <3>1, WithHandshake DEF g
    <2>9. /\ u.hs = h + 1 /\ u.rbio = r /\ u.wbio = w /\ u.bufferOut = t.bufferOut
          /\ u.sent = t.sent /\ u.read = t.read /\ u.closed = t.closed /\ u.n = t.n /\ u.got = t.got
          /\ u.run = t.run
        BY <2>1 DEF TlsState
    <2>10. u = DoHandshake(e, t)
        BY <1>2 DEF DoHandshake
    <2>11. ASSUME ~t.closed
           PROVE  OutputRight(e, u)
        <3>1. Output(t) = h /\ Holds(e, t.wbio, Len(t.sent)) /\ Holds(e, t.bufferOut, Base(t)) /\ t.n = Base(t) - 2 + Len(t.bufferOut)
            BY <2>1, <2>11 DEF Good, OutputRight
        <3>2. CASE Reply(e, h) = "none"
            <4>1. Output(u) = Output(t) /\ Base(u) = Base(t) /\ u.wbio = t.wbio
                BY <2>9, <3>2 DEF Output, Base
            <4>2. h = 2
                BY <2>2, <3>2
            <4> HIDE DEF u, h
            <4> QED BY <2>2, <2>9, <3>1, <3>2, <4>1, <4>2 DEF OutputRight, h
        <3>3. CASE Reply(e, h) # "none"
            <4>0. w = Append(t.wbio, f) /\ h \in 0..2 /\ Len(t.sent) + Len(t.wbio) = h
                BY <2>2, <3>1, <3>3 DEF Output
            <4>1. Output(u) = h + 1 /\ u.wbio = Append(t.wbio, f)
                <5>1. Len(w) = Len(t.wbio) + 1
                    BY <2>6, <3>3, <4>0
                <5>2. u.sent = t.sent /\ u.wbio = w
                    BY <2>9
                <5>3. Output(u) = Len(t.sent) + Len(w)
                    BY <5>2 DEF Output
                <5>4. Output(u) = h + 1
                    <6> DEFINE a == Len(t.sent)
                               b == Len(t.wbio)
                               c == Len(w)
                    <6>1. a \in Nat /\ b \in Nat /\ a + b = h /\ c = b + 1 /\ Output(u) = a + c
                        BY <2>3, <4>0, <5>1, <5>3
                    <6> HIDE DEF a, b, c, h, u, w, f
                    <6> QED BY <6>1
                <5> HIDE DEF u, w, f, h
                <5> QED BY <4>0, <5>2, <5>4
            <4>2. Base(u) = 2 /\ Base(t) = 2
                BY <2>2, <3>1, <3>3, <4>1 DEF Base, TlsEnd
            <4>3. Holds(e, Append(t.wbio, f), Len(t.sent))
                <5> DEFINE q == t.wbio
                           k == Len(t.sent)
                <5>0. f \in TlsRecord /\ f = Nth(e, h + 1)
                    BY <2>2, <2>6, <3>3
                <5> HIDE DEF f
                <5>1. k \in Nat /\ Holds(e, q, k) /\ q \in Seq(TlsRecord) /\ f \in TlsRecord /\ k + (Len(q) + 1) = h + 1
                      /\ f = Nth(e, h + 1)
                    <6>1. k \in Nat /\ Len(q) \in Nat /\ k + Len(q) = h
                        BY <2>3, <4>0
                    <6>2. k + (Len(q) + 1) = h + 1
                        <7> DEFINE b == Len(q)
                        <7>1. k \in Nat /\ b \in Nat /\ k + b = h
                            BY <6>1
                        <7> HIDE DEF k, b, h
                        <7>2. k + (b + 1) = h + 1
                            BY <7>1
                        <7> QED BY <7>2 DEF b
                    <6> QED BY <2>1, <3>1, <5>0, <6>1, <6>2
                <5>2. f = Nth(e, k + (Len(q) + 1))
                    BY <5>1
                <5> HIDE DEF q, k, f
                <5>3. Holds(e, Append(q, f), k)
                    BY <5>1, <5>2, HoldsAppend
                <5> QED BY <5>3 DEF q, k
            <4>4. Finished(e, h + 1) => h + 1 >= 2
                BY <2>2, <3>3
            <4> HIDE DEF u, h
            <4> QED BY <2>9, <3>1, <4>1, <4>2, <4>3, <4>4 DEF OutputRight
        <3> QED BY <3>2, <3>3
    <2>12. InputRight(e, u)
        <3>1. t.read = Used(e, h) + Len(t.got) + Len(t.rbio) /\ Holds(Peer(e), t.got, 2)
            BY <2>1 DEF Good, InputRight
        <3>2. Used(e, h + 1) + Len(t.got) = Used(e, h) + 1
            BY <2>2, <2>4
        <3> HIDE DEF u, r, h
        <3> QED BY <2>2, <2>3, <2>4, <2>5, <2>9, <3>1, <3>2 DEF InputRight
    <2>13. RunRight(e, h + 1, t.run)
        <3>1. RunRight(e, h, t.run)
            BY <2>1 DEF Good
        <3> QED BY <2>1, <3>1 DEF RunRight
    <2>14. Holds(e, t.sent, 0)
        BY DEF Good
    <2> HIDE DEF u, h
    <2>15. Good(e, u)
        BY <2>2, <2>8, <2>9, <2>11, <2>12, <2>13, <2>14 DEF Good
    <2> QED BY <2>9, <2>10, <2>15
<1> QED BY <1>1, <1>2

LEMMA HandshakeGood ==
    ASSUME NEW e \in TlsEnd, NEW t, Good(e, t)
    PROVE  Good(e, Handshake(e, t))
<1> DEFINE u == DoHandshake(e, t)
<1>1. Good(e, u)
    BY DoHandshakeGood
<1>2. Good(e, FlushWriteBIO(u))
    <2> HIDE DEF u
    <2> QED BY <1>1, FlushWriteBIOGood
<1>3. Good(e, [t EXCEPT !.closed = TRUE])
    BY CloseGood
<1> QED BY <1>1, <1>2, <1>3 DEF Handshake

LEMMA Outputs ==
    ASSUME NEW t \in TlsState
    PROVE  Output(t) \in Nat /\ Base(t) \in Nat /\ Base(t) >= 2 /\ (Output(t) >= 2 => Base(t) = Output(t))
<1> DEFINE a == Len(t.sent)
           b == Len(t.wbio)
<1>1. t.sent \in Seq(TlsRecord) /\ t.wbio \in Seq(TlsRecord)
    BY DEF TlsState
<1>2. a \in Nat /\ b \in Nat
    BY <1>1, TlsLengths
<1>3. Output(t) = a + b
    BY DEF Output
<1> HIDE DEF a, b
<1>4. Output(t) \in Nat
    BY <1>2, <1>3
<1> QED BY <1>4 DEF Base

LEMMA EncryptGood ==
    ASSUME NEW e \in TlsEnd, NEW t, Good(e, t), Finished(e, t.hs)
    PROVE  Good(e, Encrypt(t))
<1> DEFINE w == t.wbio \o t.bufferOut
           u == [t EXCEPT !.wbio = w, !.bufferOut = <<>>]
<1>1. /\ t \in TlsState /\ t.sent \in Seq(TlsRecord) /\ t.wbio \in Seq(TlsRecord)
      /\ t.bufferOut \in Seq(TlsRecord) /\ t.closed \in BOOLEAN /\ t.n \in Nat
    BY DEF Good, TlsState
<1>2. w \in Seq(TlsRecord) /\ Len(w) = Len(t.wbio) + Len(t.bufferOut)
    BY <1>1, ConcatProperties
<1>3. u \in TlsState
    <2>1. <<>> \in Seq(TlsRecord)
        BY EmptySeq
    <2> HIDE DEF w
    <2> QED BY <1>1, <1>2, <2>1, WithWritten
<1>4. /\ u.hs = t.hs /\ u.rbio = t.rbio /\ u.wbio = w /\ u.bufferOut = <<>>
      /\ u.sent = t.sent /\ u.read = t.read /\ u.closed = t.closed /\ u.n = t.n /\ u.got = t.got
      /\ u.run = t.run
    BY <1>1 DEF TlsState
<1>5. u = Encrypt(t)
    BY DEF Encrypt
<1>6. Len(t.sent) \in Nat /\ Len(t.wbio) \in Nat /\ Len(t.bufferOut) \in Nat
    BY <1>1, TlsLengths
<1>7. ASSUME ~t.closed PROVE OutputRight(e, u)
    <2>1. /\ Holds(e, t.wbio, Len(t.sent)) /\ Holds(e, t.bufferOut, Base(t))
          /\ t.n = Base(t) - 2 + Len(t.bufferOut) /\ Output(t) >= 2
        BY <1>7 DEF Good, OutputRight
    <2>2. Base(t) = Len(t.sent) + Len(t.wbio)
        BY <1>1, <2>1, Outputs DEF Output
    <2>3. Holds(e, w, Len(t.sent))
        <3> DEFINE p == t.wbio
                   q == t.bufferOut
                   k == Len(t.sent)
        <3>1. k \in Nat /\ p \in Seq(TlsRecord) /\ q \in Seq(TlsRecord) /\ Holds(e, p, k) /\ Holds(e, q, k + Len(p))
            BY <1>1, <1>6, <2>1, <2>2
        <3> HIDE DEF p, q, k
        <3>2. Holds(e, p \o q, k)
            BY <3>1, HoldsConcat
        <3> QED BY <3>2 DEF p, q, k
    <2>4. Output(u) = Base(t) + Len(t.bufferOut)
        <3> HIDE DEF u, w
        <3>1. Output(u) = Len(t.sent) + Len(w)
            BY <1>4 DEF Output
        <3> DEFINE a == Len(t.sent)
                   b == Len(t.wbio)
                   c == Len(t.bufferOut)
                   d == Len(w)
        <3>2. a \in Nat /\ b \in Nat /\ c \in Nat /\ d = b + c /\ Base(t) = a + b /\ Output(u) = a + d
            BY <1>2, <1>6, <2>2, <3>1
        <3> HIDE DEF a, b, c, d
        <3>3. Output(u) = Base(t) + c
            BY <3>2
        <3> QED BY <3>3 DEF c
    <2>5. Base(t) \in Nat /\ Base(t) >= 2 /\ Output(u) \in Nat /\ Output(u) >= 2 /\ Base(u) = Output(u)
        <3> HIDE DEF u
        <3>1. Base(t) \in Nat /\ Base(t) >= 2
            BY <1>1, Outputs
        <3>2. Output(u) \in Nat /\ Output(u) >= 2
            BY <1>6, <2>4, <3>1
        <3> QED BY <3>1, <3>2 DEF Base
    <2>6. Holds(e, <<>>, Base(u)) /\ Len(<<>>) = 0
        <3> HIDE DEF u
        <3> QED BY <2>5, HoldsEmpty, EmptySeq
    <2>7. t.n = Base(u) - 2 + 0
        <3> DEFINE b == Base(t)
                   c == Len(t.bufferOut)
        <3>1. b \in Nat /\ c \in Nat /\ t.n = b - 2 + c /\ Base(u) = b + c
            BY <1>6, <2>1, <2>4, <2>5
        <3> HIDE DEF b, c, u
        <3> QED BY <3>1
    <2> HIDE DEF u
    <2> QED BY <1>4, <2>3, <2>5, <2>6, <2>7 DEF OutputRight
<1> HIDE DEF u
<1>8. Good(e, u)
    BY <1>3, <1>4, <1>7 DEF Good, InputRight
<1> QED BY <1>5, <1>8

LEMMA SendGood ==
    ASSUME NEW e \in TlsEnd, NEW t, Good(e, t)
    PROVE  Good(e, Send(t))
<1>1. CASE t.closed
    BY <1>1 DEF Send
<1>2. CASE ~t.closed
    <2> DEFINE m == t.n + 1
               d == Data(m)
               a == Append(t.bufferOut, d)
               r == <<"flush">> \o t.run
               u == [t EXCEPT !.n = m, !.bufferOut = a, !.run = r]
    <2>1. /\ t \in TlsState /\ t.sent \in Seq(TlsRecord) /\ t.wbio \in Seq(TlsRecord) /\ t.hs \in 0..3
          /\ t.bufferOut \in Seq(TlsRecord) /\ t.n \in Nat /\ t.run \in Seq(TlsCall) /\ RunRight(e, t.hs, t.run)
        BY DEF Good, TlsState
    <2>2. r \in Seq(TlsCall) /\ RunRight(e, t.hs, r)
        <3> DEFINE h == t.hs
                   q == <<"flush">>
                   p == t.run
        <3>1. h \in 0..3 /\ p \in Seq(TlsCall) /\ RunRight(e, h, p) /\ q \in Seq(TlsCall) /\ RunRight(e, h, q)
            BY <2>1, RunsStarted
        <3> HIDE DEF h, q, p
        <3>2. q \o p \in Seq(TlsCall) /\ RunRight(e, h, q \o p)
            BY <3>1, RunConcat
        <3> QED BY <3>2 DEF h, q, p
    <2>3. /\ Holds(e, t.bufferOut, Base(t)) /\ t.n = Base(t) - 2 + Len(t.bufferOut) /\ Holds(e, t.wbio, Len(t.sent))
          /\ IF Finished(e, t.hs) THEN Output(t) >= 2 ELSE Output(t) = t.hs
        BY <1>2 DEF Good, OutputRight
    <2>4. Base(t) \in Nat /\ Base(t) >= 2 /\ Len(t.bufferOut) \in Nat
        BY <2>1, TlsLengths, Outputs
    <2>5. d = Nth(e, Base(t) + (Len(t.bufferOut) + 1)) /\ d \in TlsRecord /\ m \in Nat
        <3> DEFINE i == Base(t) + (Len(t.bufferOut) + 1)
        <3>1. i \in Nat /\ i > 2 /\ i - 2 = t.n + 1
            <4> DEFINE x == Base(t)
                       y == Len(t.bufferOut)
                       z == t.n
            <4>1. x \in Nat /\ x >= 2 /\ y \in Nat /\ z \in Nat /\ z = x - 2 + y
                BY <2>1, <2>3, <2>4
            <4> HIDE DEF x, y, z
            <4>2. x + (y + 1) \in Nat /\ x + (y + 1) > 2 /\ x + (y + 1) - 2 = z + 1
                BY <4>1
            <4>3. i = x + (y + 1) /\ z = t.n
                BY DEF x, y, z
            <4> HIDE DEF i
            <4> QED BY <4>1, <4>2, <4>3
        <3> HIDE DEF i
        <3> QED BY <2>1, <3>1 DEF Nth, TlsRecord, Data, i
    <2>6. a \in Seq(TlsRecord) /\ Len(a) = Len(t.bufferOut) + 1 /\ Holds(e, a, Base(t))
        <3> DEFINE s == t.bufferOut
                   k == Base(t)
        <3>1. k \in Nat /\ s \in Seq(TlsRecord) /\ Holds(e, s, k) /\ d = Nth(e, k + (Len(s) + 1)) /\ d \in TlsRecord
            BY <2>1, <2>3, <2>4, <2>5
        <3> HIDE DEF s, k, d
        <3>2. Append(s, d) \in Seq(TlsRecord) /\ Len(Append(s, d)) = Len(s) + 1 /\ Holds(e, Append(s, d), k)
            BY <3>1, HoldsAppend
        <3> QED BY <3>2 DEF s, k
    <2>7. u \in TlsState
        <3> HIDE DEF m, a, r
        <3> QED BY <2>1, <2>2, <2>5, <2>6, WithPacket
    <2>8. /\ u.hs = t.hs /\ u.rbio = t.rbio /\ u.wbio = t.wbio /\ u.bufferOut = a
          /\ u.sent = t.sent /\ u.read = t.read /\ u.closed = t.closed /\ u.n = m /\ u.got = t.got
          /\ u.run = r
        BY <2>1 DEF TlsState
    <2>9. u = Send(t)
        BY <1>2 DEF Send
    <2>10. Output(u) = Output(t) /\ Base(u) = Base(t)
        BY <2>8 DEF Output, Base
    <2>11. m = Base(t) - 2 + Len(a)
        <3> DEFINE b == Base(t)
                   c == Len(t.bufferOut)
                   f == Len(a)
        <3>1. b \in Nat /\ c \in Nat /\ t.n = b - 2 + c /\ f = c + 1
            BY <2>3, <2>4, <2>6
        <3>2. m = t.n + 1
            OBVIOUS
        <3> HIDE DEF b, c, f, m
        <3>3. m = b - 2 + f
            BY <3>1, <3>2
        <3> QED BY <3>3 DEF b, f
    <2> HIDE DEF u, m, a, r
    <2>12. OutputRight(e, u)
        BY <2>3, <2>6, <2>8, <2>10, <2>11 DEF OutputRight
    <2>13. InputRight(e, u)
        BY <2>8 DEF Good, InputRight
    <2>14. Good(e, u)
        BY <2>2, <2>7, <2>8, <2>12, <2>13 DEF Good
    <2> QED BY <2>9, <2>14
<1> QED BY <1>1, <1>2

\* The records the engine decrypts once the handshake is done are the packets.
LEMMA ReadRecordGood ==
    ASSUME NEW e \in TlsEnd, NEW t, Good(e, t), Finished(e, t.hs), t.rbio # <<>>
    PROVE  Good(e, ReadRecord(t)) /\ ReadRecord(t).closed = t.closed
<1> DEFINE a == Tail(t.rbio)
           d == Head(t.rbio)
           g == Append(t.got, d)
           u == [t EXCEPT !.rbio = a, !.got = g]
           k == 2 + Len(t.got)
           p == Peer(e)
<1>1. /\ t \in TlsState /\ t.rbio \in Seq(TlsRecord) /\ t.got \in Seq(TlsRecord) /\ p \in TlsEnd
      /\ t.read \in Nat
    BY DEF Good, TlsState, Peer, TlsEnd
<1>2. Used(e, t.hs) = 2
    BY DEF Used, Finished
<1>3. Len(t.got) \in Nat /\ Len(t.rbio) \in Nat /\ k \in Nat
    BY <1>1, TlsLengths
<1>4. Holds(p, t.rbio, k) /\ Holds(p, t.got, 2) /\ t.read = k + Len(t.rbio)
    BY <1>2 DEF Good, InputRight
<1>5. /\ a \in Seq(TlsRecord) /\ Len(a) = Len(t.rbio) - 1 /\ Holds(p, a, k + 1)
      /\ d = Nth(p, k + 1) /\ d \in TlsRecord
    <2> DEFINE s == t.rbio
    <2>1. s \in Seq(TlsRecord) /\ s # <<>> /\ Holds(p, s, k)
        BY <1>1, <1>4
    <2> HIDE DEF s, k, p
    <2>2. /\ Tail(s) \in Seq(TlsRecord) /\ Len(Tail(s)) = Len(s) - 1 /\ Holds(p, Tail(s), k + 1)
          /\ Head(s) = Nth(p, k + 1) /\ Head(s) \in TlsRecord
        BY <1>1, <1>3, <2>1, HoldsTail
    <2> QED BY <2>2 DEF s
<1>6. g \in Seq(TlsRecord) /\ Len(g) = Len(t.got) + 1 /\ Holds(p, g, 2)
    <2> DEFINE s == t.got
               z == 2
    <2>1. z + (Len(s) + 1) = k + 1 /\ z \in Nat /\ s \in Seq(TlsRecord) /\ Holds(p, s, z)
        BY <1>1, <1>3, <1>4
    <2> HIDE DEF s, z, d, p, k
    <2>2. d = Nth(p, z + (Len(s) + 1))
        BY <1>5, <2>1
    <2>3. Append(s, d) \in Seq(TlsRecord) /\ Len(Append(s, d)) = Len(s) + 1 /\ Holds(p, Append(s, d), z)
        BY <1>1, <1>5, <2>1, <2>2, HoldsAppend
    <2> QED BY <2>3 DEF s, z
<1>7. u \in TlsState
    <2> HIDE DEF a, g
    <2> QED BY <1>1, <1>5, <1>6, WithGot
<1>8. /\ u.hs = t.hs /\ u.rbio = a /\ u.wbio = t.wbio /\ u.bufferOut = t.bufferOut
      /\ u.sent = t.sent /\ u.read = t.read /\ u.closed = t.closed /\ u.n = t.n /\ u.got = g
      /\ u.run = t.run
    BY <1>1 DEF TlsState
<1>9. u = ReadRecord(t)
    BY DEF ReadRecord
<1>10. 2 + Len(g) = k + 1 /\ t.read = (2 + Len(g)) + Len(a)
    <2> DEFINE b == Len(t.got)
               c == Len(t.rbio)
               f == Len(g)
               h == Len(a)
    <2>1. b \in Nat /\ c \in Nat /\ f = b + 1 /\ h = c - 1 /\ k = 2 + b /\ t.read = k + c
        BY <1>3, <1>4, <1>5, <1>6
    <2> HIDE DEF b, c, f, h, k
    <2>2. 2 + f = k + 1 /\ t.read = (2 + f) + h
        BY <2>1
    <2> QED BY <2>2 DEF f, h
<1> HIDE DEF u, a, g, k
<1>11. InputRight(e, u)
    BY <1>2, <1>5, <1>6, <1>8, <1>10 DEF InputRight
<1>12. ~t.closed => OutputRight(e, u)
    BY <1>8 DEF Good, OutputRight, Output, Base
<1>13. Good(e, u)
    BY <1>7, <1>8, <1>11, <1>12 DEF Good
<1> QED BY <1>8, <1>9, <1>13

\* What the peer wrote next arrives.
LEMMA ReadGood ==
    ASSUME NEW e \in TlsEnd, NEW t, Good(e, t), NEW s \in Seq(TlsRecord), Holds(Peer(e), s, 0),
           NEW k \in 1..(Len(s) - t.read)
    PROVE  Good(e, [t EXCEPT !.rbio = @ \o SubSeq(s, t.read + 1, t.read + k),
                             !.read = @ + k, !.run = OnReadCalls])
<1> DEFINE m == t.read
           v == SubSeq(s, m + 1, m + k)
           a == t.rbio \o v
           b == m + k
           u == [t EXCEPT !.rbio = a, !.read = b, !.run = OnReadCalls]
           p == Peer(e)
<1>1. /\ t \in TlsState /\ t.rbio \in Seq(TlsRecord) /\ t.got \in Seq(TlsRecord) /\ p \in TlsEnd
      /\ m \in Nat /\ t.hs \in 0..3
    BY DEF Good, TlsState, Peer, TlsEnd
<1>2. Len(s) \in Nat /\ k \in Nat /\ m + k <= Len(s) /\ Len(t.got) \in Nat /\ Len(t.rbio) \in Nat
    BY <1>1, TlsLengths
<1>3. v \in Seq(TlsRecord) /\ Len(v) = k /\ Holds(p, v, m)
    <2> HIDE DEF m, p
    <2> QED BY <1>1, <1>2, HoldsSubSeq DEF p
<1>4. Holds(p, t.rbio, Used(e, t.hs) + Len(t.got)) /\ m = Used(e, t.hs) + Len(t.got) + Len(t.rbio)
    BY DEF Good, InputRight
<1>5. Used(e, t.hs) \in Nat
    BY DEF Good, Used
<1>6. a \in Seq(TlsRecord) /\ Len(a) = Len(t.rbio) + k /\ Holds(p, a, Used(e, t.hs) + Len(t.got))
    <2> DEFINE q == t.rbio
               j == Used(e, t.hs) + Len(t.got)
    <2>0. j \in Nat
        <3> DEFINE x == Used(e, t.hs)
                   y == Len(t.got)
        <3>1. x \in Nat /\ y \in Nat
            BY <1>2, <1>5
        <3> HIDE DEF x, y
        <3>2. x + y \in Nat
            BY <3>1
        <3> QED BY <3>2 DEF x, y
    <2>1. j \in Nat /\ q \in Seq(TlsRecord) /\ Holds(p, q, j) /\ m = j + Len(q)
        BY <1>1, <1>4, <2>0
    <2> HIDE DEF q, j, v, m, p
    <2>2. Holds(p, v, j + Len(q))
        BY <1>3, <2>1
    <2>3. q \o v \in Seq(TlsRecord) /\ Len(q \o v) = Len(q) + Len(v) /\ Holds(p, q \o v, j)
        BY <1>1, <1>3, <2>1, <2>2, HoldsConcat
    <2> QED BY <1>3, <2>3 DEF q, j
<1>7. OnReadCalls \in Seq(TlsCall) /\ RunRight(e, t.hs, OnReadCalls)
    <2> DEFINE h == t.hs
    <2>1. h \in 0..3
        BY <1>1
    <2> HIDE DEF h
    <2>2. OnReadCalls \in Seq(TlsCall) /\ RunRight(e, h, OnReadCalls)
        BY <2>1, RunsStarted
    <2> QED BY <2>2 DEF h
<1>8. u \in TlsState
    <2>1. b \in Nat
        BY <1>1, <1>2
    <2> HIDE DEF a, b
    <2> QED BY <1>1, <1>6, <1>7, <2>1, WithRead
<1>9. /\ u.hs = t.hs /\ u.rbio = a /\ u.wbio = t.wbio /\ u.bufferOut = t.bufferOut
      /\ u.sent = t.sent /\ u.read = b /\ u.closed = t.closed /\ u.n = t.n /\ u.got = t.got
      /\ u.run = OnReadCalls
    BY <1>1 DEF TlsState
<1>10. b = Used(e, t.hs) + Len(t.got) + Len(a)
    <2> DEFINE x == Used(e, t.hs)
               y == Len(t.got)
               z == Len(t.rbio)
               w == Len(a)
    <2>1. x \in Nat /\ y \in Nat /\ z \in Nat /\ m = x + y + z /\ w = z + k /\ b = m + k /\ m \in Nat /\ k \in Nat
        BY <1>1, <1>2, <1>4, <1>5, <1>6
    <2> HIDE DEF x, y, z, w, b, m
    <2>2. b = x + y + w
        BY <2>1
    <2> QED BY <2>2 DEF x, y, w
<1> HIDE DEF u, a, b
<1>11. InputRight(e, u)
    BY <1>6, <1>9, <1>10 DEF Good, InputRight
<1>12. ~t.closed => OutputRight(e, u)
    BY <1>9 DEF Good, OutputRight, Output, Base
<1>13. Good(e, u)
    BY <1>7, <1>8, <1>9, <1>11, <1>12 DEF Good
<1> QED BY <1>13 DEF u, a, b

-----------------------------------------------------------------------------
(* Every step.                                                             *)

LEMMA TlsInitInv == TlsInit => TlsInv
<1> SUFFICES ASSUME TlsInit PROVE TlsInv
    OBVIOUS
<1> DEFINE c == [NewTlsEnd EXCEPT !.hs = 1, !.wbio = <<Flight("hello")>>]
<1>1. tls = [e \in TlsEnd |-> IF e = "cli" THEN c ELSE NewTlsEnd]
    BY DEF TlsInit
<1>2. <<>> \in Seq(TlsRecord) /\ <<>> \in Seq(TlsCall) /\ Len(<<>>) = 0
    BY EmptySeq
<1>3. NewTlsEnd \in TlsState
    BY <1>2 DEF NewTlsEnd, TlsState
<1>4. /\ c.hs = 1 /\ c.rbio = <<>> /\ c.wbio = <<Flight("hello")>> /\ c.bufferOut = <<>> /\ c.sent = <<>>
      /\ c.read = 0 /\ c.run = <<>> /\ ~c.closed /\ c.n = 0 /\ c.got = <<>>
    BY DEF NewTlsEnd
<1>5. c \in TlsState
    <2>1. <<Flight("hello")>> \in Seq(TlsRecord)
        BY DEF Flight, TlsRecord
    <2> DEFINE h == 1
               w == <<Flight("hello")>>
    <2>2. h \in 0..3 /\ w \in Seq(TlsRecord)
        BY <2>1
    <2> HIDE DEF h, w
    <2>3. [NewTlsEnd EXCEPT !.hs = h, !.wbio = w] \in TlsState
        BY <1>3, <2>2, WithHello
    <2> QED BY <2>3 DEF h, w
<1> DEFINE d == NewTlsEnd
<1>6. /\ d.hs = 0 /\ d.rbio = <<>> /\ d.wbio = <<>> /\ d.bufferOut = <<>> /\ d.sent = <<>>
      /\ d.read = 0 /\ d.run = <<>> /\ ~d.closed /\ d.n = 0 /\ d.got = <<>>
    BY DEF NewTlsEnd
<1>7. \A e \in TlsEnd, k \in Nat : Holds(e, <<>>, k)
    BY HoldsEmpty
<1>8. "cli" \in TlsEnd /\ "srv" \in TlsEnd /\ Peer("cli") = "srv" /\ Peer("srv") = "cli"
    BY DEF TlsEnd, Peer
<1>9. \A e \in TlsEnd, h \in 0..3 : RunRight(e, h, <<>>)
    BY <1>2 DEF RunRight
<1> HIDE DEF c, d
<1>10. Good("cli", c)
    <2>1. Holds("cli", <<Flight("hello")>>, 0)
        BY DEF Holds, Nth, FlightOf
    <2>2. Len(c.wbio) = 1 /\ Len(c.sent) = 0
        BY <1>2, <1>4
    <2>3. Output(c) = 1 /\ Base(c) = 2
        BY <2>2 DEF Output, Base
    <2>4. OutputRight("cli", c)
        BY <1>2, <1>4, <1>7, <1>8, <2>1, <2>2, <2>3 DEF OutputRight, Finished
    <2>5. InputRight("cli", c)
        BY <1>2, <1>4, <1>7, <1>8 DEF InputRight, Used
    <2> QED BY <1>4, <1>5, <1>7, <1>8, <1>9, <2>4, <2>5 DEF Good
<1>11. Good("srv", d)
    <2>2. Len(d.wbio) = 0 /\ Len(d.sent) = 0
        BY <1>2, <1>6
    <2>3. Output(d) = 0 /\ Base(d) = 2
        BY <2>2 DEF Output, Base
    <2>4. OutputRight("srv", d)
        BY <1>2, <1>6, <1>7, <1>8, <2>2, <2>3 DEF OutputRight, Finished
    <2>5. InputRight("srv", d)
        BY <1>2, <1>6, <1>7, <1>8 DEF InputRight, Used
    <2> QED BY <1>3, <1>6, <1>7, <1>8, <1>9, <2>4, <2>5 DEF Good, d
<1>12. tls["cli"] = c /\ tls["srv"] = d
    BY <1>1, <1>8 DEF d
<1>13. tls \in [TlsEnd -> TlsState]
    BY <1>1, <1>3, <1>5
<1> QED BY <1>10, <1>11, <1>12, <1>13 DEF TlsInv, TlsEnd

\* One end changes, in a way that keeps it right.
LEMMA OneEnd ==
    ASSUME TlsInv, NEW e \in TlsEnd, NEW u, Good(e, u), tls' = [tls EXCEPT ![e] = u]
    PROVE  TlsInv'
<1>1. u \in TlsState
    BY DEF Good
<1>2. tls' \in [TlsEnd -> TlsState]
    BY <1>1 DEF TlsInv
<1>3. \A d \in TlsEnd : Good(d, tls'[d])
    BY DEF TlsInv
<1>4. TlsInv' <=> tls' \in [TlsEnd -> TlsState] /\ \A d \in TlsEnd : Good(d, tls'[d])
    BY DEF TlsInv, Good, OutputRight, InputRight, Output, Base, Holds, RunRight, Nth, Used, Finished
<1> QED BY <1>2, <1>3, <1>4

LEMMA TlsNextInv == TlsInv /\ [TlsNext]_tlsvars => TlsInv'
<1> SUFFICES ASSUME TlsInv, [TlsNext]_tlsvars PROVE TlsInv'
    OBVIOUS
<1>1. ASSUME NEW e \in TlsEnd, Loop(e) \/ CallSend(e) \/ CallClose(e) PROVE TlsInv'
    <2> DEFINE t == tls[e]
    <2>0. Good(e, t) /\ t \in TlsState /\ tls \in [TlsEnd -> TlsState]
        BY DEF TlsInv
    <2>1. CASE flush(e)
        <3> DEFINE u == Pop(t)
                   q == IF u.rbio # <<>> THEN <<"read", "write">> ELSE <<"write">>
        <3>1. Good(e, u)
            BY <2>0, <2>1, PopGood DEF flush
        <3>2. Good(e, Handshake(e, u))
            <4> HIDE DEF u
            <4> QED BY <3>1, HandshakeGood
        <3>3. ASSUME Finished(e, u.hs) PROVE Good(e, [u EXCEPT !.run = q \o u.run])
            <4> DEFINE h == u.hs
                       p == u.run
            <4>1. h \in 0..3 /\ p \in Seq(TlsCall) /\ RunRight(e, h, p)
                BY <3>1 DEF Good, TlsState
            <4>2. q \in Seq(TlsCall) /\ RunRight(e, h, q)
                <5> HIDE DEF u
                <5>1. /\ <<"read", "write">> \in Seq(TlsCall) /\ RunRight(e, h, <<"read", "write">>)
                      /\ <<"write">> \in Seq(TlsCall) /\ RunRight(e, h, <<"write">>)
                    <6>1. Finished(e, h)
                        BY <3>3
                    <6> HIDE DEF h
                    <6> QED BY <4>1, <6>1, RunsStarted
                <5> QED BY <5>1
            <4>3. q \o p \in Seq(TlsCall) /\ RunRight(e, h, q \o p)
                <5> HIDE DEF q, p, h
                <5> QED BY <4>1, <4>2, RunConcat
            <4> HIDE DEF u, q
            <4> QED BY <3>1, <4>3, RunGood
        <3>4. tls' = [tls EXCEPT ![e] = IF ~Finished(e, u.hs) THEN Handshake(e, u)
                                        ELSE [u EXCEPT !.run = q \o u.run]]
            BY <2>1 DEF flush
        <3> HIDE DEF u, q
        <3> QED BY <3>2, <3>3, <3>4, OneEnd
    <2>2. CASE FlushWrite(e)
        <3> DEFINE u == Pop(t)
                   v == Encrypt(u)
        <3>1. Good(e, u) /\ Finished(e, u.hs)
            BY <2>0, <2>2, PopGood DEF FlushWrite
        <3>2. Good(e, v)
            <4> HIDE DEF u
            <4> QED BY <3>1, EncryptGood
        <3>3. Good(e, FlushWriteBIO(v))
            <4> HIDE DEF v
            <4> QED BY <3>2, FlushWriteBIOGood
        <3>4. tls' = [tls EXCEPT ![e] = FlushWriteBIO(v)]
            BY <2>2 DEF FlushWrite
        <3> HIDE DEF v
        <3> QED BY <3>3, <3>4, OneEnd
    <2>3. CASE ReadDone(e)
        <3>1. Good(e, Pop(t))
            BY <2>0, <2>3, PopGood DEF ReadDone
        <3>2. tls' = [tls EXCEPT ![e] = Pop(t)]
            BY <2>3 DEF ReadDone
        <3> QED BY <3>1, <3>2, OneEnd
    <2>4. CASE OnEof(e)
        <3>1. tls' = [tls EXCEPT ![e] = [t EXCEPT !.closed = TRUE]]
            BY <2>4 DEF OnEof
        <3>2. Good(e, [t EXCEPT !.closed = TRUE])
            BY <2>0, CloseGood
        <3> QED BY <3>1, <3>2, OneEnd
    <2>5. CASE \E a \in {"none", "send", "close"} : Deliver(e, a)
        <3> DEFINE u == ReadRecord(t)
        <3>1. Good(e, u)
            <4>1. Finished(e, t.hs) /\ t.rbio # <<>>
                BY <2>0, <2>5, PopGood DEF Deliver
            <4> QED BY <2>0, <4>1, ReadRecordGood
        <3>2. Good(e, Send(u)) /\ Good(e, [u EXCEPT !.closed = TRUE])
            <4> HIDE DEF u
            <4> QED BY <3>1, SendGood, CloseGood
        <3>3. PICK a \in {"none", "send", "close"} : Deliver(e, a)
            BY <2>5
        <3>4. tls' = [tls EXCEPT ![e] = CASE a = "send"  -> Send(u)
                                          [] a = "close" -> [u EXCEPT !.closed = TRUE]
                                          [] OTHER       -> u]
            BY <3>3 DEF Deliver
        <3> HIDE DEF u
        <3>5. \E v \in {Send(u), [u EXCEPT !.closed = TRUE], u} : tls' = [tls EXCEPT ![e] = v]
            BY <3>4
        <3> QED BY <3>1, <3>2, <3>5, OneEnd
    <2>6. CASE \E k \in 1..(MaxSend + 2) : OnRead(e, k)
        <3> DEFINE p == tls[Peer(e)].sent
        <3>1. PICK k \in 1..(MaxSend + 2) : OnRead(e, k)
            BY <2>6
        <3>2. p \in Seq(TlsRecord) /\ Holds(Peer(e), p, 0)
            BY <2>0 DEF TlsInv, Good, TlsState, Peer, TlsEnd
        <3>3. k \in 1..(Len(p) - t.read)
            BY <3>1 DEF OnRead
        <3> DEFINE u == [t EXCEPT !.rbio = @ \o SubSeq(p, t.read + 1, t.read + k),
                                  !.read = @ + k, !.run = OnReadCalls]
        <3>4. tls' = [tls EXCEPT ![e] = u]
            BY <3>1 DEF OnRead
        <3>5. Good(e, u)
            <4> HIDE DEF p, t
            <4> QED BY <2>0, <3>2, <3>3, ReadGood
        <3> HIDE DEF u
        <3> QED BY <3>4, <3>5, OneEnd
    <2>7. CASE CallSend(e)
        <3>1. tls' = [tls EXCEPT ![e] = Send(t)]
            BY <2>7 DEF CallSend
        <3>2. Good(e, Send(t))
            BY <2>0, SendGood
        <3> QED BY <3>1, <3>2, OneEnd
    <2>8. CASE CallClose(e)
        <3>1. tls' = [tls EXCEPT ![e] = [t EXCEPT !.closed = TRUE]]
            BY <2>8 DEF CallClose
        <3>2. Good(e, [t EXCEPT !.closed = TRUE])
            BY <2>0, CloseGood
        <3> QED BY <3>1, <3>2, OneEnd
    <2> QED BY <1>1, <2>1, <2>2, <2>3, <2>4, <2>5, <2>6, <2>7, <2>8 DEF Loop
<1>2. CASE UNCHANGED tlsvars
    <2>1. "cli" \in TlsEnd /\ Good("cli", tls["cli"]) /\ tls \in [TlsEnd -> TlsState]
        BY DEF TlsInv, TlsEnd
    <2>2. tls' = [tls EXCEPT !["cli"] = tls["cli"]]
        BY <1>2, <2>1 DEF tlsvars
    <2> QED BY <2>1, <2>2, OneEnd
<1> QED BY <1>1, <1>2 DEF TlsNext

LEMMA TlsInvSound == TlsInv => TlsSound
<1> SUFFICES ASSUME TlsInv PROVE TlsSound
    OBVIOUS
<1>1. TlsInOrder
    <2> SUFFICES ASSUME NEW e \in TlsEnd, NEW i \in 1..Len(tls[e].got) PROVE tls[e].got[i] = Data(i)
        BY DEF TlsInOrder
    <2>1. Holds(Peer(e), tls[e].got, 2)
        BY DEF TlsInv, Good, InputRight
    <2>2. tls[e].got[i] = Nth(Peer(e), 2 + i)
        BY <2>1 DEF Holds
    <2>3. ~(2 + i <= 2) /\ (2 + i) - 2 = i
        OBVIOUS
    <2> QED BY <2>2, <2>3 DEF Nth
<1>2. TlsNothingLost
    <2> SUFFICES ASSUME NEW e \in TlsEnd, ~tls[e].closed
                 PROVE  LET w == tls[e].sent \o tls[e].wbio \o tls[e].bufferOut
                        IN  \E k \in 0..Len(w) :
                                /\ Len(w) = k + tls[e].n
                                /\ \A i \in 1..k : w[i].fl # "data"
                                /\ \A i \in 1..tls[e].n : w[k + i] = Data(i)
        BY DEF TlsNothingLost
    <2> DEFINE t == tls[e]
               p == t.sent
               q == t.wbio
               b == t.bufferOut
               s == p \o q
               w == s \o b
               k == IF Output(t) < 2 THEN Output(t) ELSE 2
    <2>1. /\ t \in TlsState /\ p \in Seq(TlsRecord) /\ q \in Seq(TlsRecord) /\ b \in Seq(TlsRecord) /\ t.n \in Nat
          /\ Holds(e, p, 0) /\ OutputRight(e, t)
        BY DEF TlsInv, Good, TlsState
    <2>2. /\ Holds(e, q, Len(p)) /\ Holds(e, b, Base(t)) /\ t.n = Base(t) - 2 + Len(b)
        BY <2>1 DEF OutputRight
    <2>3. Len(p) \in Nat /\ Len(q) \in Nat /\ Len(b) \in Nat /\ Output(t) \in Nat /\ Base(t) \in Nat /\ Base(t) >= 2
        BY <2>1, TlsLengths, Outputs
    <2>4. s \in Seq(TlsRecord) /\ Len(s) = Output(t) /\ Holds(e, s, 0)
        <3> DEFINE z == 0
        <3>1. z \in Nat /\ z + Len(p) = Len(p) /\ Holds(e, p, z)
            BY <2>1, <2>3
        <3> HIDE DEF z, p, q
        <3>2. s \in Seq(TlsRecord) /\ Len(s) = Len(p) + Len(q) /\ Holds(e, s, z)
            BY <2>1, <2>2, <3>1, HoldsConcat
        <3> QED BY <3>2 DEF z, p, q, Output
    <2>5. /\ w \in Seq(TlsRecord) /\ Len(w) = Len(s) + Len(b)
          /\ \A i \in 1..(Len(s) + Len(b)) : w[i] = IF i <= Len(s) THEN s[i] ELSE b[i - Len(s)]
        <3> HIDE DEF s, b
        <3> QED BY <2>1, <2>4, ConcatProperties
    <2>6. k \in 0..2 /\ k <= Output(t) /\ Base(t) - 2 = Output(t) - k
        BY <2>3 DEF Base
    <2> DEFINE o == Output(t)
               l == Len(b)
               n == t.n
    <2>7. o \in Nat /\ l \in Nat /\ n \in Nat /\ n = (o - k) + l /\ Len(s) = o /\ Len(w) = o + l
        BY <2>1, <2>2, <2>3, <2>4, <2>5, <2>6
    <2>8. k \in 0..Len(w) /\ Len(w) = k + n
        <3> HIDE DEF k, o, l, n, w
        <3> QED BY <2>6, <2>7 DEF o
    <2>9. ASSUME NEW i \in 1..k PROVE w[i].fl # "data"
        <3>1. i \in 1..Len(s) /\ i \in 1..(Len(s) + Len(b)) /\ i <= 2 /\ 0 + i = i
            <4> HIDE DEF k, s, b
            <4> QED BY <2>3, <2>4, <2>6
        <3>2. w[i] = s[i] /\ s[i] = Nth(e, i)
            <4> HIDE DEF s, w
            <4> QED BY <2>4, <2>5, <3>1 DEF Holds
        <3> HIDE DEF w
        <3> QED BY <3>1, <3>2 DEF Nth, Flight, FlightOf
    <2>10. ASSUME NEW i \in 1..n PROVE w[k + i] = Data(i)
        <3>1. k + i \in 1..(o + l)
            <4> HIDE DEF k, o, l, n
            <4> QED BY <2>6, <2>7 DEF o
        <3>2. CASE k + i <= o
            <4>1. k = 2
                <5> HIDE DEF o
                <5> QED BY <2>7, <3>2 DEF o
            <4>2. w[k + i] = s[k + i] /\ s[k + i] = Nth(e, 0 + (k + i))
                <5>1. k + i \in 1..Len(s) /\ k + i \in 1..(Len(s) + Len(b)) /\ k + i <= Len(s)
                    <6> HIDE DEF k, o, s, l, n
                    <6> QED BY <2>7, <3>1, <3>2 DEF l
                <5> HIDE DEF s, w, k
                <5> QED BY <2>4, <2>5, <5>1 DEF Holds
            <4>3. Nth(e, 0 + (2 + i)) = Data(i)
                <5>1. i \in Nat /\ i >= 1
                    <6> HIDE DEF n
                    <6> QED BY <2>7
                <5>2. ~(0 + (2 + i) <= 2) /\ (0 + (2 + i)) - 2 = i
                    BY <5>1
                <5> QED BY <5>2 DEF Nth
            <4> HIDE DEF k, w, s
            <4> QED BY <4>1, <4>2, <4>3
        <3>3. CASE ~(k + i <= o)
            <4> DEFINE j == (k + i) - o
            <4>1. j \in 1..l
                <5> HIDE DEF k, o, l, n
                <5> QED BY <2>6, <2>7, <3>1, <3>3 DEF o
            <4>2. w[k + i] = b[j] /\ b[j] = Nth(e, Base(t) + j)
                <5>1. k + i \in 1..(Len(s) + Len(b)) /\ ~(k + i <= Len(s)) /\ j = (k + i) - Len(s)
                    <6> HIDE DEF k, o, s, l, n
                    <6> QED BY <2>7, <3>1, <3>3 DEF l
                <5> HIDE DEF s, w, k, b, j
                <5> QED BY <2>2, <2>5, <4>1, <5>1 DEF Holds, l
            <4>3. Base(t) + j = i + 2 /\ i \in Nat /\ i >= 1
                <5> DEFINE a == Base(t)
                <5>1. a \in Nat /\ a - 2 = o - k
                    BY <2>3, <2>6
                <5>0. o \in Nat /\ n \in Nat /\ k \in 0..2 /\ j = (k + i) - o
                    BY <2>6, <2>7
                <5> HIDE DEF k, o, l, n, a, j
                <5>2. a + j = i + 2 /\ i \in Nat /\ i >= 1
                    BY <5>0, <5>1
                <5> QED BY <5>2 DEF a
            <4>4. Nth(e, i + 2) = Data(i)
                <5>1. ~(i + 2 <= 2) /\ (i + 2) - 2 = i
                    BY <4>3
                <5> QED BY <5>1 DEF Nth
            <4> HIDE DEF k, w, b, j
            <4> QED BY <4>2, <4>3, <4>4
        <3> QED BY <3>2, <3>3
    <2> HIDE DEF k, n
    <2> QED BY <2>8, <2>9, <2>10 DEF n
<1> QED BY <1>1, <1>2 DEF TlsSound

(* The packets of either application arrive in order and none twice, and none is
   lost before the wire, whatever flushes nest (SSLAdapter::flush, flushReadBIO,
   SSLSocket::send, onRead, close). *)
THEOREM TlsCorrect == TlsSpec => []TlsSound
<1>1. TlsInv /\ [TlsNext]_tlsvars => TlsInv'
    BY TlsNextInv
<1>2. TlsInit => TlsInv
    BY TlsInitInv
<1>3. TlsInv => TlsSound
    BY TlsInvSound
<1> QED BY <1>1, <1>2, <1>3, PTL DEF TlsSpec
=============================================================================

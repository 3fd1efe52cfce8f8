---------------------------- MODULE LoopHandles ----------------------------
(***************************************************************************)
(* What an application holds of the event loop: a TCP or UDP socket        *)
(* (net/src/tcpsocket.cpp, udpsocket.cpp over base/include/scy/stream.h,   *)
(* handle.h, request.h), a timer (base/src/timer.cpp) and a child process  *)
(* (base/src/process.cpp), each used from the loop's thread, built with    *)
(* NDEBUG.                                                                 *)
(*                                                                         *)
(* A socket has one context after the other, each with a native handle.    *)
(* A request holds the context it was made for until it has its answer,    *)
(* and a native handle is closed when nobody holds its context.  libuv is  *)
(* external.  The dispatch to receivers is module SocketAdapter.           *)
(***************************************************************************)
EXTENDS Integers, FiniteSets, SequencesExt

CONSTANTS
    MaxContexts,    \* bound on the contexts of a socket
    MaxSockCalls,   \* bound on the calls made on a socket
    Period,         \* times to wait
    Horizon,        \* bound on the clock of a timer
    MaxTimerCalls,
    MaxProcCalls,
    MaxLines        \* bound on the lines a child writes

VARIABLES
    sk,             \* the socket
    app,            \* what the application does in the socket's callbacks
    tm,             \* the timer
    pr              \* the process and its child

skvars == <<sk, app>>
tmvars == <<tm>>
prvars == <<pr>>

-----------------------------------------------------------------------------
(* Contexts.                                                               *)

\* lost: reset() dropped it without marking it deleted.  busy: connecting or connected.
NewContext == [native |-> "none", deleted |-> FALSE, lost |-> FALSE, busy |-> FALSE, reading |-> FALSE, listening |-> FALSE]

\* cur: _context, or 0.  reqs: requests that hold a context; one that failed at once is
\* never freed.  Auxiliary: told: the callbacks, each with the context it stems from and
\* the one the socket had; null: a null handle was used; wild: a callback after the
\* destructor.
NewSocket(kind) ==
    [ kind |-> kind, cur |-> 1, ctx |-> <<[NewContext EXCEPT !.native = "open"]>>,
      started |-> FALSE, error |-> FALSE, af |-> "none", peer |-> FALSE,
      reqs |-> {}, made |-> 0, told |-> <<>>, null |-> FALSE, wild |-> FALSE, gone |-> FALSE, calls |-> 0 ]

\* The application may close in Connect and Recv, or in Error, and connect in Close; a UDP
\* socket that does both would never return.
SockInit ==
    \E kind \in {"tcp", "udp"}, c, e, n \in BOOLEAN :
        /\ kind = "udp" => ~(c /\ n)
        /\ sk = NewSocket(kind)
        /\ app = [closes |-> c, closesOnError |-> e, connectsOnClose |-> n]

Held(s, i) == i = s.cur \/ \E q \in s.reqs : q.ctx = i

-----------------------------------------------------------------------------
(* Faulty variants, used to show that the properties can fail.             *)

\* Requests do not hold their context.
HeldByHandle(s, i) == i = s.cur

-----------------------------------------------------------------------------

\* ~Context(): uv_close(), in the same step as what dropped the last reference.
Release(s) ==
    [s EXCEPT !.ctx = [i \in DOMAIN @ |-> IF Held(s, i) THEN @[i]
                                          ELSE [@[i] EXCEPT !.native = "closed", !.reading = FALSE, !.listening = FALSE]]]

Told(s, ev, of) ==
    [s EXCEPT !.told = Append(@, [ev |-> ev, of |-> of, cur |-> s.cur]), !.wild = @ \/ s.gone]

\* init(): a closed socket gets a new context.
init(s) ==
    IF s.cur # 0 /\ s.ctx[s.cur].native = "open" THEN s
    ELSE [s EXCEPT !.ctx = Append(@, [NewContext EXCEPT !.native = "open"]), !.cur = Len(s.ctx) + 1]

Asked(s, kind) ==
    [s EXCEPT !.reqs = @ \cup {[n |-> s.made + 1, kind |-> kind, ctx |-> s.cur, leaked |-> FALSE]},
              !.made = @ + 1,
              !.ctx[s.cur].busy = @ \/ kind = "connect"]

\* The Close callback may connect again, which for UDP calls back at once.
Reconnect(s) ==
    IF ~app.connectsOnClose \/ Len(s.ctx) >= MaxContexts THEN s
    ELSE IF s.kind = "tcp" THEN Asked(init(s), "connect")
    ELSE LET t == init(s) IN Told([t EXCEPT !.peer = TRUE], "connect", t.cur)

\* TCPSocket::close(), UDPSocket::close(), Handle::close().
closeSocket(s) ==
    IF s.cur = 0 THEN [s EXCEPT !.started = FALSE]
    ELSE LET t == [s EXCEPT !.started = FALSE, !.ctx[s.cur].reading = FALSE, !.ctx[s.cur].deleted = TRUE, !.cur = 0]
         IN  Reconnect(Told(t, "close", s.cur))

\* Handle::setError(), onError(): the error stays, and the socket is closed.
Fail(s, of) ==
    LET t == Told([s EXCEPT !.error = TRUE], "error", of)
    IN  closeSocket(IF app.closesOnError THEN closeSocket(t) ELSE t)

\* reset() drops a context that the Close callback made.
resetSocket(s) ==
    LET t == closeSocket(s)
        u == IF t.cur = 0 THEN t ELSE [t EXCEPT !.ctx[t.cur].lost = TRUE]
    IN  init([u EXCEPT !.cur = 0])

\* connect() to an address: what libuv refuses calls back at once, and leaks the request.
connectTo(s) ==
    LET t == init(s)
        u == Asked(t, "connect")
        q == [n |-> u.made, kind |-> "connect", ctx |-> t.cur, leaked |-> FALSE]
    IN  IF s.kind = "udp"
        THEN LET v == Told([t EXCEPT !.peer = TRUE], "connect", t.cur)
             IN  IF app.closes THEN closeSocket(v) ELSE v
        ELSE IF ~t.ctx[t.cur].busy THEN u
        ELSE Fail([u EXCEPT !.reqs = (@ \ {q}) \cup {[q EXCEPT !.leaked = TRUE]}], t.cur)

\* onConnect(): readStart() and Connect; the handle may be another by now.
onConnect(s, of) ==
    IF s.cur = 0 THEN [s EXCEPT !.null = TRUE]
    ELSE IF s.cur # of THEN Fail([s EXCEPT !.started = TRUE], of)
    ELSE LET t == Told([s EXCEPT !.started = TRUE, !.ctx[of].reading = TRUE], "connect", of)
         IN  IF app.closes THEN closeSocket(t) ELSE t

-----------------------------------------------------------------------------
(* The calls on a socket, and the loop.                                    *)

SockCall == ~sk.gone /\ ~sk.null /\ sk.calls < MaxSockCalls /\ Len(sk.ctx) < MaxContexts
SockDoes(s) == sk' \in {Release([s EXCEPT !.calls = @ + 1])} /\ UNCHANGED app

connect == SockCall /\ SockDoes(connectTo(sk))

\* connect() to a name asks the resolver first.
connectName == SockCall /\ SockDoes(Asked(init(sk), "dns"))

\* bind(): TCP looks at the family alone; UDP starts to receive.
Bound(s, f, fails) ==
    LET t == IF s.kind = "udp" THEN init(s)
             ELSE IF s.af # f THEN resetSocket([s EXCEPT !.af = f]) ELSE s
    IN  IF t.cur = 0 THEN [t EXCEPT !.null = TRUE]
        ELSE IF fails THEN Fail(t, t.cur)
        ELSE [t EXCEPT !.ctx[t.cur].reading = @ \/ s.kind = "udp"]

bind(f, fails) == SockCall /\ SockDoes(Bound(sk, f, fails))

Listening(s, fails) ==
    LET t == init(s) IN  IF fails THEN Fail(t, t.cur) ELSE [t EXCEPT !.ctx[t.cur].listening = TRUE]

listen(fails) == SockCall /\ sk.kind = "tcp" /\ SockDoes(Listening(sk, fails))

close == SockCall /\ SockDoes(closeSocket(sk))

\* The destructors close what the Close callback opened, and tell nobody.
Destroyed(s) ==
    LET t == closeSocket(s)
    IN  IF t.cur = 0 THEN [t EXCEPT !.gone = TRUE]
        ELSE [t EXCEPT !.ctx[t.cur].deleted = TRUE, !.cur = 0, !.gone = TRUE]

destroy == SockCall /\ SockDoes(Destroyed(sk))

\* The answer to a request, which is then freed: nothing if its context was closed.
Answered(s, q, ok) ==
    LET t == IF s.ctx[q.ctx].deleted THEN s
             ELSE IF s.gone THEN [s EXCEPT !.wild = TRUE]
             ELSE IF ~ok THEN Fail(s, q.ctx)
             ELSE IF q.kind = "connect" THEN onConnect(s, q.ctx)
             ELSE connectTo(s)
    IN  [t EXCEPT !.reqs = @ \ {q}]

Answer(q, ok) ==
    /\ q \in sk.reqs /\ ~q.leaked /\ ~sk.null
    /\ sk' \in {Release(Answered(sk, q, ok))}
    /\ UNCHANGED app

\* handleRead(), UDPSocket::onRecv(): data, or the end.
Received(s, ok) ==
    LET t == Told(s, "recv", s.cur)
    IN  IF ~ok THEN Fail(s, s.cur) ELSE IF app.closes THEN closeSocket(t) ELSE t

Read(ok) ==
    /\ sk.cur # 0 /\ sk.ctx[sk.cur].reading /\ ~sk.null /\ sk.calls < MaxSockCalls
    /\ SockDoes(Received(sk, ok))

\* acceptConnection(): a new socket, which belongs to whoever takes it.
Accept ==
    /\ sk.cur # 0 /\ sk.ctx[sk.cur].listening /\ ~sk.null /\ sk.calls < MaxSockCalls
    /\ SockDoes(Told(sk, "accept", sk.cur))

Answers == \E q \in sk.reqs, ok \in BOOLEAN : Answer(q, ok)

\* Weak fairness of Answers, in terms of the requests alone: libuv answers each.
AnswersCome ==
    <>[](~sk.null /\ \E q \in sk.reqs : ~q.leaked)
        => []<><<\E q \in sk.reqs : q \notin sk'.reqs>>_skvars

SockNext ==
    \/ connect \/ connectName \/ close \/ destroy
    \/ \E fails \in BOOLEAN : listen(fails) \/ \E f \in {"v4", "v6"} : bind(f, fails)
    \/ Answers \/ Accept
    \/ \E ok \in BOOLEAN : Read(ok)

-----------------------------------------------------------------------------
(* The timer.                                                              *)

\* repeat, called and due are libuv's: the repeat value, the callback set, the next
\* expiry.  threw: the last call threw.  Auxiliary: armed: when the expiry was set, and
\* for how long; fired: the expiries so far.
NewTimer(timeout, interval) ==
    [ timeout |-> timeout, interval |-> interval, repeat |-> 0, called |-> FALSE, active |-> FALSE, due |-> 0,
      now |-> 0, count |-> 0, error |-> FALSE, threw |-> FALSE, armed |-> <<0, 0>>, fired |-> <<>>, calls |-> 0 ]

TimerInit == \E t, i \in Period : tm = NewTimer(t, i)

TimerCall == tm.calls < MaxTimerCalls
TimerDoes(t) == tm' = [t EXCEPT !.calls = @ + 1]

Armed(t, wait) == [t EXCEPT !.active = TRUE, !.due = t.now + wait, !.armed = <<t.now, wait>>]

\* throwLastError() after each call: an error is never forgotten.
Checked(t) == [t EXCEPT !.threw = t.error]

CanStart(t) == ~t.active /\ (t.timeout > 0 \/ t.interval > 0)

startTimer(t) == Checked(Armed([t EXCEPT !.count = 0, !.repeat = t.interval, !.called = TRUE], t.timeout))

stopTimer(t) == IF ~t.active THEN t ELSE Checked([t EXCEPT !.active = FALSE, !.count = 0])

\* again(): an expiry for a repeating timer only.
again(t) ==
    IF ~t.called THEN Checked([t EXCEPT !.error = TRUE])
    ELSE LET u == Checked(IF t.repeat = 0 THEN t ELSE Armed(t, t.repeat))
         IN  IF u.threw THEN u ELSE [u EXCEPT !.count = 0]

restart(t) == IF t.active THEN again(t) ELSE startTimer(t)

Start == TimerCall /\ CanStart(tm) /\ TimerDoes(startTimer(tm))
Stop == TimerCall /\ TimerDoes(stopTimer(tm))
Restart == TimerCall /\ (tm.active \/ CanStart(tm)) /\ TimerDoes(restart(tm))
Again == TimerCall /\ TimerDoes(again(tm))
setTimeout(v) == TimerCall /\ ~tm.active /\ TimerDoes([tm EXCEPT !.timeout = v])
setInterval(v) == TimerCall /\ TimerDoes([tm EXCEPT !.interval = v, !.repeat = v])

\* An expiry: libuv arms a repeating timer before the callback, which may stop or
\* restart it.
Expire(act) ==
    /\ tm.active /\ tm.now >= tm.due
    /\ LET t == [tm EXCEPT !.active = FALSE]
           u == IF t.repeat = 0 THEN t ELSE Armed(t, t.repeat)
           v == [u EXCEPT !.count = @ + 1, !.fired = Append(@, [at |-> tm.now, armed |-> tm.armed])]
       IN  \/ act = "none" /\ tm' = v
           \/ act = "stop" /\ TimerCall /\ TimerDoes(stopTimer(v))
           \/ act = "restart" /\ TimerCall /\ (v.active \/ CanStart(v)) /\ TimerDoes(restart(v))

\* Time passes between turns of the loop.
TimerTick == tm.now < Horizon /\ (tm.active => tm.now < tm.due) /\ tm' = [tm EXCEPT !.now = @ + 1]

Expires == \E act \in {"none", "stop", "restart"} : Expire(act)

TimerNext ==
    \/ Start \/ Stop \/ Restart \/ Again \/ Expires \/ TimerTick
    \/ \E v \in Period : setTimeout(v) \/ setInterval(v)

-----------------------------------------------------------------------------
(* The process.                                                            *)

\* child: "none", "runs", "dead" (not yet reaped) or "reaped".  wrote: lines in the
\* pipe or read.  Auxiliary: other: another program has the child's pid.
NewProcess ==
    [ spawned |-> FALSE, error |-> FALSE, threw |-> FALSE, reads |-> FALSE, gone |-> FALSE,
      child |-> "none", wrote |-> 0, got |-> 0, exits |-> 0, other |-> FALSE, stray |-> FALSE, calls |-> 0 ]

ProcInit == pr = NewProcess

ProcCall == ~pr.gone /\ pr.calls < MaxProcCalls
ProcDoes(p) == pr' = [p EXCEPT !.calls = @ + 1]

\* spawn(): more than ten arguments are refused; an earlier error makes it throw, though
\* the child runs.
spawn(fails) ==
    /\ ProcCall /\ ~pr.spawned
    /\ ProcDoes(CASE fails = "args" -> [pr EXCEPT !.threw = TRUE]
                  [] fails = "spawn" -> [pr EXCEPT !.error = TRUE, !.threw = TRUE]
                  [] OTHER -> [pr EXCEPT !.spawned = TRUE, !.child = "runs",
                                         !.threw = pr.error, !.reads = ~pr.error])

\* kill(): by pid, whoever has it.
killed(p) ==
    IF ~p.spawned THEN p
    ELSE [p EXCEPT !.child = IF @ = "runs" THEN "dead" ELSE @, !.stray = @ \/ p.other]

kill == ProcCall /\ ProcDoes(killed(pr))

\* ~Process(), and the handles close: nothing is called back any more.
destroyProcess == ProcCall /\ ProcDoes([killed(pr) EXCEPT !.gone = TRUE, !.reads = FALSE])

ChildWrites == pr.child = "runs" /\ pr.wrote < MaxLines /\ pr' = [pr EXCEPT !.wrote = @ + 1]
ChildExits == pr.child = "runs" /\ pr' = [pr EXCEPT !.child = "dead"]

\* onstdout
onRead == pr.reads /\ pr.got < pr.wrote /\ pr' = [pr EXCEPT !.got = @ + 1]

\* libuv reaps the child; exit_cb is called while there is a handle.
Reap == pr.child = "dead" /\ pr' = [pr EXCEPT !.child = "reaped", !.exits = IF pr.gone THEN @ ELSE @ + 1]

PidReused == pr.child = "reaped" /\ ~pr.other /\ pr' = [pr EXCEPT !.other = TRUE]

ProcNext ==
    \/ \E fails \in {"args", "spawn", "no"} : spawn(fails)
    \/ kill \/ destroyProcess \/ ChildWrites \/ ChildExits \/ onRead \/ Reap \/ PidReused

-----------------------------------------------------------------------------
\* A callback of a socket is one of its present context: an answer that comes after
\* close() is for nobody, also when the socket is in use again or was destroyed, but for
\* a context that reset() dropped while the Close callback used it (Answer, close,
\* reset); each context that is closed says so once; a native handle is closed as soon
\* as no request needs it, and none before (~Context); and a null handle is used only by
\* bind() of a closed TCP socket to its own family, or through a dropped context.
SocketSound ==
    LET lost == \E i \in DOMAIN sk.ctx : sk.ctx[i].lost
        closes(i) == Cardinality({k \in DOMAIN sk.told : sk.told[k].ev = "close" /\ sk.told[k].of = i})
    IN  /\ \A k \in DOMAIN sk.told :
               LET e == sk.told[k] IN  e.of = e.cur \/ e.ev = "close" \/ sk.ctx[e.of].lost
        /\ \A i \in DOMAIN sk.ctx : closes(i) <= 1 /\ (closes(i) = 1 => sk.ctx[i].deleted)
        /\ \A i \in DOMAIN sk.ctx : sk.ctx[i].deleted /\ ~sk.gone => closes(i) = 1
        /\ \A q \in sk.reqs : sk.ctx[q.ctx].native = "open"
        /\ \A i \in DOMAIN sk.ctx :
               (sk.ctx[i].deleted /\ sk.ctx[i].native = "open") => \E q \in sk.reqs : q.ctx = i
        /\ sk.wild => lost
        /\ sk.null => lost \/ (sk.kind = "tcp" /\ sk.af # "none")
        /\ sk.started /\ ~lost => sk.cur # 0 /\ sk.ctx[sk.cur].reading

\* Expiries come when they are due, one for each time the timer was armed and not
\* disarmed (start, again, stop), and a timer that was never started has none.  A child
\* is read to its end in order, its exit is told once and never after the destructor,
\* and only what runs under the child's own pid is killed until that pid is used again;
\* spawn() that throws leaves a child only after an earlier failure.
TimersAndChildrenSound ==
    /\ \A k \in DOMAIN tm.fired : tm.fired[k].at >= tm.fired[k].armed[1] + tm.fired[k].armed[2]
    /\ \A k \in DOMAIN tm.fired : k > 1 => tm.fired[k].armed[1] >= tm.fired[k - 1].at
    /\ tm.count <= Len(tm.fired) /\ (tm.active => tm.called)
    /\ pr.got <= pr.wrote /\ pr.exits <= 1
    /\ pr.exits = 1 => pr.child = "reaped"
    /\ pr.threw /\ pr.spawned => pr.error
    /\ pr.stray => pr.other
    /\ pr.gone /\ pr.spawned => pr.child # "runs"

\* The native handles of closed sockets are closed, when their requests have their
\* answers, but for requests that failed at once (Request::invoke); an active timer is
\* never overdue for ever (uv_timer_start).
HandlesReleased ==
    /\ []<>(sk.null \/ \A i \in DOMAIN sk.ctx :
               (sk.ctx[i].deleted /\ sk.ctx[i].native = "open") => \E q \in sk.reqs : q.leaked /\ q.ctx = i)
    /\ []<>(tm.active => tm.now < tm.due)
=============================================================================

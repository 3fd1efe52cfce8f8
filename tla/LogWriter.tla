----------------------------- MODULE LogWriter -----------------------------
(***************************************************************************)
(* Logging (base/src/logger.cpp): the streams that threads log with, the   *)
(* channels of the logger, its writer, and the files of the channels.      *)
(* Channel 1 is a RotatingFileChannel, channel 2 a FileChannel.  A message *)
(* has the number of its stream.                                           *)
(*                                                                         *)
(* The writers are numbered in the order in which they are set: 0 and 2    *)
(* are LogWriters, which write at once, 1 an AsyncLogWriter, which queues  *)
(* and has a thread.  setWriter() takes no mutex, and Logger::write() may  *)
(* run between any two of its steps: it may queue a message that nobody    *)
(* will look for, or call a writer that was deleted.                       *)
(*                                                                         *)
(* setDefault() locks the mutex of the logger twice and is left out.       *)
(* AsyncLogWriter::flush() is called by its destructor only.               *)
(***************************************************************************)
EXTENDS Integers, Sequences, Functions

CONSTANTS
    MaxMessages,      \* bound: streams made
    MaxLogCalls,      \* bound: calls that change the channels
    MaxLogTime,       \* bound on the clock, in seconds
    RotationInterval, \* of channel 1, in seconds
    ChannelName,      \* the names of the two channels
    LogLevel          \* the levels of messages

ASSUME LogAssumption ==
    /\ MaxLogTime \in Nat /\ RotationInterval \in Nat
    /\ DOMAIN ChannelName = {1, 2} /\ LogLevel \subseteq Int

VARIABLE lw

Channel == {1, 2}
Nothing == [n |-> 0, to |-> 0, level |-> 0, ts |-> 0]

\* reg, default: _channels and _defaultChannel; stream: the LogStream of the thread that
\* logs; writer: what _writer points to; freed: how many writers are deleted; pending,
\* thread, held, cancelled, dtor: of writer 1; files: what the rotating channel wrote, by
\* the time in the file's name.
\* Auxiliary: seen: what _writer pointed to when the stream was made; removed: the last
\* stream made before a channel was freed; sent: messages a writer got; late: those it
\* got after the last look at its queue, or deleted; shown: what each channel was to
\* write; stale: messages to a freed channel.
LogInit ==
    lw = [ reg |-> [x \in Range(ChannelName) |-> 0], default |-> 0, added |-> {}, calls |-> 0, alive |-> Channel,
           level |-> [c \in Channel |-> 1], stream |-> Nothing, flushed |-> TRUE, made |-> 0,
           writer |-> 0, freed |-> 0, seen |-> 0, crashed |-> FALSE, pending |-> <<>>, thread |-> "none", held |-> Nothing, cancelled |-> FALSE,
           dtor |-> "none", files |-> [s \in 0..MaxLogTime |-> <<>>], open |-> -1, rotatedAt |-> 0,
           output |-> <<>>, now |-> 0,
           removed |-> [c \in Channel |-> 0], sent |-> {}, cleared |-> {}, late |-> {}, shown |-> [c \in Channel |-> <<>>], stale |-> {} ]

-----------------------------------------------------------------------------
(* A faulty variant, used to show that the properties can fail.            *)

RemoveKeepsDefault(x) ==
    LET c == lw.reg[x]
    IN  /\ c # 0 /\ lw.calls < MaxLogCalls
        /\ lw' = [lw EXCEPT !.reg[x] = 0, !.alive = @ \ {c}, !.removed[c] = lw.made, !.calls = @ + 1]

-----------------------------------------------------------------------------
(* The channels.                                                           *)

\* Logger::add(): the first channel is the default one; a name may be taken over.
addChannel(c) ==
    /\ c \notin lw.added /\ lw.calls < MaxLogCalls
    /\ lw' = [lw EXCEPT !.reg[ChannelName[c]] = c, !.added = @ \cup {c},
                        !.default = IF @ = 0 THEN c ELSE @, !.calls = @ + 1]

\* Logger::remove(): the channel of that name is deleted.
removeChannel(x) ==
    LET c == lw.reg[x]
    IN  /\ c # 0 /\ lw.calls < MaxLogCalls
        /\ lw' = [lw EXCEPT !.reg[x] = 0, !.default = IF @ = c THEN 0 ELSE @,
                            !.alive = @ \ {c}, !.removed[c] = lw.made, !.calls = @ + 1]

setLevel(l) ==
    lw.level[1] < l /\ lw.calls < MaxLogCalls /\ lw' = [lw EXCEPT !.level[1] = l, !.calls = @ + 1]

\* RotatingFileChannel::rotate(): std::ofstream empties a file of that name.
rotate(l) == [l EXCEPT !.files[l.now] = <<>>, !.open = l.now, !.rotatedAt = l.now]

\* LogChannel::write() of the channel of a message.
ChannelWrite(l, m) ==
    LET turn == l.open = -1 \/ m.ts - l.rotatedAt > RotationInterval
        r == IF m.to = 1 /\ turn THEN rotate(l) ELSE l
        given == [l EXCEPT !.output = Append(@, m.n)]
    IN  IF m.to \notin l.alive THEN [given EXCEPT !.stale = @ \cup {m.n}]
        ELSE IF l.level[m.to] > m.level THEN given
        ELSE [r EXCEPT !.output = Append(@, m.n), !.shown[m.to] = Append(@, m.n),
                       !.files = IF m.to = 1 THEN [r.files EXCEPT ![r.open] = Append(@, m.n)] ELSE @]

-----------------------------------------------------------------------------
(* The thread that logs.                                                   *)

\* LogStream::LogStream(): the channel of a name is looked up now.
NewStream(level, x) ==
    /\ lw.flushed /\ lw.made < MaxMessages
    /\ lw' = [lw EXCEPT !.made = @ + 1, !.flushed = FALSE, !.seen = lw.writer,
                        !.stream = [n |-> lw.made + 1, to |-> IF x = "" THEN 0 ELSE lw.reg[x],
                                    level |-> level, ts |-> lw.now]]

\* Logger::write(): to the default channel, dropped if there is none, else by writer w.
\* A LogWriter writes at once, an AsyncLogWriter queues; of one that is deleted, the
\* memory may still do as a LogWriter (~AsyncLogWriter leaves that vtable) or not.
Write(l, s, w) ==
    LET m == [s EXCEPT !.to = IF @ = 0 THEN l.default ELSE @]
        got(e) == [l EXCEPT !.sent = @ \cup {m.n}, !.late = @ \cup e]
        lost == got({m.n})
        queued == got(IF l.dtor = "ended" THEN {m.n} ELSE {})
    IN  IF m.to = 0 THEN {l}
        ELSE IF w < l.freed THEN {lost, [lost EXCEPT !.crashed = TRUE], ChannelWrite(lost, m)}
        ELSE IF w = 1 THEN {[queued EXCEPT !.pending = Append(@, m)]}
        ELSE {ChannelWrite(got({}), m)}

\* LogStream::flush(): std::endl, write() and the destructor, whichever is first.  write()
\* read _writer since the stream was made, perhaps before setWriter() changed it.
Flush ==
    /\ ~lw.flushed
    /\ \E w \in lw.seen..lw.writer : \E l \in Write(lw, lw.stream, w) :
          lw' = [l EXCEPT !.flushed = TRUE, !.seen = 0]

clearLog ==
    /\ lw.writer = 1 /\ lw.dtor = "none" /\ lw.pending # <<>>
    /\ lw' = [lw EXCEPT !.cleared = @ \cup {m.n : m \in Range(lw.pending)}, !.pending = <<>>]

LogTick == lw.now < MaxLogTime /\ lw' = [lw EXCEPT !.now = @ + 1]

-----------------------------------------------------------------------------
(* setWriter() and AsyncLogWriter: while (!cancelled()) writeNext().       *)

\* setWriter(new AsyncLogWriter), whose thread runs: delete _writer.
setWriter ==
    /\ lw.freed = 0
    /\ lw' = [lw EXCEPT !.freed = 1, !.thread = "test"]

\* _writer = writer.
AssignWriter == lw.writer < lw.freed /\ lw' = [lw EXCEPT !.writer = lw.freed]

ThreadTest ==
    /\ lw.thread = "test"
    /\ lw' = [lw EXCEPT !.thread = IF lw.cancelled THEN "exited" ELSE "next"]

\* writeNext() pops under the mutex, and writes without it.
ThreadNext ==
    /\ lw.thread = "next"
    /\ lw' = IF lw.pending = <<>> THEN [lw EXCEPT !.thread = "test"]
             ELSE [lw EXCEPT !.thread = "write", !.held = Head(lw.pending), !.pending = Tail(@)]

ThreadWrite ==
    /\ lw.thread = "write"
    /\ lw' = [ChannelWrite(lw, lw.held) EXCEPT !.held = Nothing, !.thread = "test"]

LogThread == ThreadTest \/ ThreadNext \/ ThreadWrite

\* ~AsyncLogWriter(), by setWriter(new LogWriter): cancel, join, flush; what is queued
\* after the last look goes with the queue.
Cancel ==
    /\ lw.writer = 1 /\ lw.dtor = "none"
    /\ lw' = [lw EXCEPT !.cancelled = TRUE, !.dtor = "join"]

JoinThread == lw.dtor = "join" /\ lw.thread = "exited" /\ lw' = [lw EXCEPT !.dtor = "flush"]

FlushNext ==
    /\ lw.dtor = "flush"
    /\ lw' = IF lw.pending = <<>> THEN [lw EXCEPT !.dtor = "ended"]
             ELSE [lw EXCEPT !.dtor = "write", !.held = Head(lw.pending), !.pending = Tail(@)]

FlushWrite ==
    /\ lw.dtor = "write"
    /\ lw' = [ChannelWrite(lw, lw.held) EXCEPT !.held = Nothing, !.dtor = "flush"]

DeleteWriter ==
    /\ lw.dtor = "ended"
    /\ lw' = [lw EXCEPT !.dtor = "gone", !.freed = 2, !.pending = <<>>]

Destructor == JoinThread \/ FlushNext \/ FlushWrite \/ DeleteWriter

LogSteps ==
    \/ \E c \in Channel : addChannel(c)
    \/ \E x \in Range(ChannelName) : removeChannel(x)
    \/ \E l \in LogLevel : setLevel(l + 1) \/ \E x \in Range(ChannelName) \cup {""} : NewStream(l, x)
    \/ Flush \/ clearLog \/ LogTick \/ setWriter \/ AssignWriter \/ LogThread \/ Cancel \/ Destructor

LogNext == ~lw.crashed /\ LogSteps

LogSpec == LogInit /\ [][LogNext]_lw

-----------------------------------------------------------------------------
(* Properties.                                                             *)

Held == IF lw.held.n = 0 THEN <<>> ELSE <<lw.held.n>>
Queued == Held \o [i \in DOMAIN lw.pending |-> lw.pending[i].n]

\* The files of the rotating channel, one after the other, hold what it was to write.
FilesFaithful ==
    /\ Range(lw.shown[1]) = UNION {Range(lw.files[s]) : s \in 0..MaxLogTime}
    /\ \A s, t \in 0..MaxLogTime : \A i \in DOMAIN lw.files[s], j \in DOMAIN lw.files[t] :
          s < t \/ (s = t /\ i < j) => lw.files[s][i] < lw.files[t][j]

\* Channels get messages in the order in which they were logged, through changes of the
\* writer too, and none that a writer got is lost but by clear(), or when write() ran in
\* setWriter() after the last look of ~AsyncLogWriter at its queue; no file of the
\* rotating channel is emptied by a later rotation (rotate); only a message whose stream
\* was made before its channel was removed goes to a freed channel (remove), never one
\* of the default channel made later.
LogFaithful ==
    /\ \A i, j \in DOMAIN (lw.output \o Queued) : i < j => (lw.output \o Queued)[i] < (lw.output \o Queued)[j]
    /\ Range(lw.output \o Queued) \subseteq lw.sent
    /\ lw.sent \subseteq Range(lw.output \o Queued) \cup lw.cleared \cup lw.late
    /\ FilesFaithful
    /\ \A n \in lw.stale : \E c \in Channel \ lw.alive : n <= lw.removed[c]
    /\ lw.default # 0 => lw.default \in lw.alive

\* The queue is emptied, by the thread, the destructor or clear(), and setWriter()
\* returns (join, flush), unless a deleted writer is called and the program ends.
Changing == lw.writer < lw.freed \/ lw.dtor \notin {"none", "gone"}

LogEnds ==
    /\ Queued # <<>> ~> Queued = <<>>
    /\ Changing ~> ~Changing \/ lw.crashed
=============================================================================

---------------------------- MODULE MediaCapture ----------------------------
(***************************************************************************)
(* MediaCapture (av/src/mediacapture.cpp): a thread reads a source, decodes *)
(* it and emits packets, while several threads call start(), stop() and    *)
(* close().  start() and stop() run under _mutex, and stop() holds it      *)
(* while it joins the thread; close() frees the decoders without it.       *)
(* A packet's callback may call stop(), on the capture's own thread.       *)
(***************************************************************************)
EXTENDS Integers

CONSTANTS
    Caller,        \* threads that call start() and stop()
    Owner,         \* the one of them that opens and closes the capture
    NoCaller,
    NFrames,       \* frames in the source
    MaxCapCalls    \* bound: calls made

ASSUME CaptureAssumption == Owner \in Caller

VARIABLES
    reader,     \* _thread
    step,       \* where run() is
    capture,    \* the fields of MediaCapture
    caller,     \* caller[c]: idle, join (in stop()), or free (in close(), after stop())
    closing,    \* closing[c]: the stop() in progress is part of close()
    capcalls,   \* calls made so far
    seen        \* auxiliary: what the properties remember

capvars == <<reader, step, capture, caller, closing, capcalls, seen>>

-----------------------------------------------------------------------------
(***************************************************************************)
(* scy::Thread (base/thread.h, thread.cpp) on top of Runner (base/runner.h, *)
(* runner.cpp): what each call does to the std::thread and to the context  *)
(* that the owner shares with it.  `at` is where the thread is: not        *)
(* started, created but not yet in runAsync(), in the function it runs,    *)
(* between two runs of it, or done.                                        *)
(*                                                                         *)
(* The context is never reset: a thread that is started again still has    *)
(* the flag cancelled of its first life.                                   *)
(***************************************************************************)

Thread(repeating) ==
    [at |-> "none", joinable |-> FALSE, running |-> FALSE,
     cancelled |-> FALSE, repeating |-> repeating]

\* Assigning to a std::thread that is joinable terminates the program.
Startable(t) == ~t.joinable

start(t) == [t EXCEPT !.at = "created", !.joinable = TRUE]

cancel(t) == [t EXCEPT !.cancelled = TRUE]

\* join() waits for the thread to be done.
Joined(t) == [t EXCEPT !.joinable = FALSE]

\* runAsync(): running is set by the new thread, not by start().
Enter(t) == [t EXCEPT !.at = "func", !.running = TRUE]

Return(t) == [t EXCEPT !.at = "test"]

\* while (c->repeating && !c->cancelled); c->running = false.
Again(t) ==
    IF t.repeating /\ ~t.cancelled
    THEN [t EXCEPT !.at = "func"]
    ELSE [t EXCEPT !.at = "done", !.running = FALSE]

Alive(t) == t.at \in {"created", "func", "test"}

-----------------------------------------------------------------------------
(* The capture.                                                            *)

\* looping: setLoopInput() makes the thread a repeating one.
CapInit ==
    /\ \E looping \in BOOLEAN :
          /\ reader = Thread(looping)
          /\ capture = [source |-> "none", frame |-> 0, stopping |-> FALSE,
                        looping |-> looping, mutex |-> NoCaller]
    /\ step = "begin"
    /\ caller = [c \in Caller |-> "idle"]
    /\ closing = [c \in Caller |-> FALSE]
    /\ capcalls = 0
    /\ seen = [quiet |-> TRUE, late |-> FALSE, missed |-> FALSE, raced |-> FALSE,
               under |-> FALSE, told |-> FALSE, ended |-> FALSE]

\* The program goes on: it has neither been terminated nor used freed decoders.
Up == ~seen.ended

-----------------------------------------------------------------------------
(* Faulty variants, used to show that the properties can fail.             *)

StopWithoutCancel(c) ==
    /\ capture.mutex = NoCaller
    /\ seen' = [seen EXCEPT !.quiet = @ \/ ~reader.running,
                            !.missed = @ \/ reader.at = "created"]
    /\ IF reader.running
       THEN /\ capture' = [capture EXCEPT !.stopping = TRUE, !.mutex = c]
            /\ caller' = [caller EXCEPT ![c] = "join"]
       ELSE /\ capture' = [capture EXCEPT !.stopping = TRUE]
            /\ caller' = [caller EXCEPT ![c] = IF closing'[c] THEN "free" ELSE "idle"]
    /\ UNCHANGED <<reader, step>>

DecodeAnyway ==
    /\ Up /\ reader.at = "func" /\ step = "got"
    /\ step' = "decode"
    /\ UNCHANGED <<reader, capture, caller, closing, capcalls, seen>>

-----------------------------------------------------------------------------
(* The callers.                                                            *)

Call(c) == Up /\ caller[c] = "idle" /\ capcalls < MaxCapCalls /\ capcalls' = capcalls + 1

\* A source that cannot be opened leaves nothing; one without a usable stream
\* leaves its format context behind, and only close() removes it.
openStream ==
    /\ Call(Owner)
    /\ capture.source = "none"
    /\ \E s \in {"none", "bad", "open"} : capture' = [capture EXCEPT !.source = s, !.frame = 0]
    /\ UNCHANGED <<reader, step, caller, closing, seen>>

startAct(c) ==
    /\ Call(c)
    /\ capture.mutex = NoCaller
    /\ capture.source = "open" /\ ~reader.running
    /\ capture' = [capture EXCEPT !.stopping = FALSE]
    /\ reader' = IF Startable(reader) THEN start(reader) ELSE reader
    /\ seen' = [seen EXCEPT !.quiet = FALSE, !.told = FALSE, !.ended = ~Startable(reader),
                            !.raced = @ \/ \E d \in Caller : caller[d] = "free"]
    /\ UNCHANGED <<step, caller, closing>>

\* stop(): a thread that has been created and is not yet running is not joined.
stop(c) ==
    /\ capture.mutex = NoCaller
    /\ seen' = [seen EXCEPT !.quiet = @ \/ ~reader.running,
                            !.missed = @ \/ reader.at = "created"]
    /\ IF reader.running
       THEN /\ reader' = cancel(reader)
            /\ capture' = [capture EXCEPT !.stopping = TRUE, !.mutex = c]
            /\ caller' = [caller EXCEPT ![c] = "join"]
       ELSE /\ capture' = [capture EXCEPT !.stopping = TRUE]
            /\ caller' = [caller EXCEPT ![c] = IF closing'[c] THEN "free" ELSE "idle"]
            /\ UNCHANGED reader
    /\ UNCHANGED step

stopAct(c) == Call(c) /\ closing' = [closing EXCEPT ![c] = FALSE] /\ stop(c)

close == Call(Owner) /\ closing' = [closing EXCEPT ![Owner] = TRUE] /\ stop(Owner)

JoinReader(c) ==
    /\ Up /\ caller[c] = "join" /\ reader.at = "done"
    /\ reader' = Joined(reader)
    /\ capture' = [capture EXCEPT !.mutex = NoCaller]
    /\ caller' = [caller EXCEPT ![c] = IF closing[c] THEN "free" ELSE "idle"]
    /\ seen' = [seen EXCEPT !.quiet = TRUE]
    /\ UNCHANGED <<step, closing, capcalls>>

\* The rest of close(): decoders and format context are deleted, without _mutex.
FreeDecoders(c) ==
    /\ Up /\ caller[c] = "free"
    /\ capture' = [capture EXCEPT !.source = "none"]
    /\ caller' = [caller EXCEPT ![c] = "idle"]
    /\ seen' = [seen EXCEPT !.under = @ \/ (Alive(reader) /\ capture.source = "open")]
    /\ UNCHANGED <<reader, step, closing, capcalls>>

-----------------------------------------------------------------------------
(* The thread: run().                                                      *)

In(s) == Up /\ reader.at = "func" /\ step = s
CallersRest == UNCHANGED <<caller, closing, capcalls>>

ThreadEnter ==
    /\ Up /\ reader.at = "created"
    /\ reader' = Enter(reader) /\ step' = "begin"
    /\ UNCHANGED <<capture, seen>> /\ CallersRest

\* A looping capture goes back to the first frame; a seek that fails throws.
Begin ==
    /\ In("begin")
    /\ \/ /\ ~capture.looping
          /\ step' = "read" /\ UNCHANGED <<capture, seen>>
       \/ /\ capture.looping /\ capture.source = "open"
          /\ \/ step' = "read" /\ capture' = [capture EXCEPT !.frame = 0]
             \/ step' = "tail" /\ UNCHANGED capture
          /\ UNCHANGED seen
       \/ /\ capture.looping /\ capture.source # "open"
          /\ seen' = [seen EXCEPT !.ended = TRUE] /\ UNCHANGED <<step, capture>>
    /\ UNCHANGED reader /\ CallersRest

\* av_read_frame(): a frame, or the end of the file or an error.
ReadFrame ==
    /\ In("read")
    /\ \/ /\ capture.source = "open" /\ capture.frame < NFrames
          /\ capture' = [capture EXCEPT !.frame = @ + 1]
          /\ step' = "got" /\ UNCHANGED seen
       \/ capture.source = "open" /\ step' = "eof" /\ UNCHANGED <<capture, seen>>
       \/ capture.source # "open" /\ seen' = [seen EXCEPT !.ended = TRUE] /\ UNCHANGED <<step, capture>>
    /\ UNCHANGED reader /\ CallersRest

\* if (_stopping) break;
TestStopping ==
    /\ In("got")
    /\ step' = IF capture.stopping THEN "tail" ELSE "decode"
    /\ UNCHANGED <<reader, capture, caller, closing, capcalls, seen>>

TestEof ==
    /\ In("eof")
    /\ step' = IF capture.stopping THEN "tail" ELSE "flush"
    /\ UNCHANGED <<reader, capture, caller, closing, capcalls, seen>>

\* decode() emits what it decodes, throws, or, in a callback of the packet,
\* gets to call stop(); flush() emits what the decoders kept.
Decode ==
    /\ In("decode") \/ In("flush")
    /\ \/ /\ capture.source = "open"
          /\ step' \in (IF step = "flush" THEN {"tail", "selfstop"} ELSE {"read", "tail", "selfstop"})
          /\ \E emits \in BOOLEAN :
                /\ step' = "selfstop" => emits
                /\ seen' = [seen EXCEPT !.late = @ \/ (emits /\ seen.quiet)]
       \/ /\ capture.source # "open"
          /\ seen' = [seen EXCEPT !.ended = TRUE] /\ UNCHANGED step
    /\ UNCHANGED <<reader, capture>> /\ CallersRest

\* stop() from the callback takes _mutex, and join() of its own thread throws
\* through decode() into run(), which catches it.
SelfStop ==
    /\ In("selfstop") /\ capture.mutex = NoCaller
    /\ capture' = [capture EXCEPT !.stopping = TRUE]
    /\ reader' = cancel(reader)
    /\ step' = "tail"
    /\ UNCHANGED seen /\ CallersRest

\* if (_stopping || !_looping): Closing is emitted.
LeaveRun ==
    /\ In("tail")
    /\ LET ends == capture.stopping \/ ~capture.looping
       IN  /\ capture' = [capture EXCEPT !.stopping = @ \/ ends]
           /\ seen' = [seen EXCEPT !.told = @ \/ ends]
    /\ reader' = Return(reader) /\ step' = "begin"
    /\ CallersRest

LoopTest ==
    /\ Up /\ reader.at = "test"
    /\ reader' = Again(reader)
    /\ UNCHANGED <<step, capture, seen>> /\ CallersRest

ReaderThread ==
    \/ ThreadEnter \/ Begin \/ ReadFrame \/ TestStopping \/ TestEof
    \/ Decode \/ SelfStop \/ LeaveRun \/ LoopTest

CapNext ==
    \/ openStream \/ close
    \/ \E c \in Caller : startAct(c) \/ stopAct(c) \/ JoinReader(c) \/ FreeDecoders(c)
    \/ ReaderThread

CapSpec == CapInit /\ [][CapNext]_capvars

-----------------------------------------------------------------------------
(* Properties.                                                             *)

\* From the return of stop() (mediacapture.cpp:138) to the next start() nobody gets
\* a packet, even when stop() came before the thread had begun to run.
QuietAfterStop == ~seen.late

\* close() (mediacapture.cpp:53) frees the decoders under the running thread only
\* when its stop() was too early to see the thread, or another thread has called
\* start() in between.
FreedWhenStopped == seen.under => seen.missed \/ seen.raced

\* A thread that has ended has told its observers, unless it was a looping one.
EndIsTold == Up /\ reader.at = "done" /\ ~capture.looping => seen.told

(* Whatever the threads that call start(), stop() and close() do to each other and *)
(* to the thread of the capture (start, stop, run).                                *)
CaptureSound == QuietAfterStop /\ FreedWhenStopped /\ EndIsTold

\* The callback of a packet waits for the _mutex of the caller that joins its thread.
CapStuck == step = "selfstop" /\ capture.mutex # NoCaller

\* stop() returns, and a thread that was started ends if it is not looping.
CaptureEnds ==
    /\ \A c \in Caller : caller[c] = "join" ~> caller[c] # "join" \/ CapStuck \/ ~Up
    /\ (reader.at = "created" /\ ~capture.looping) ~> reader.at = "done" \/ CapStuck \/ ~Up
=============================================================================

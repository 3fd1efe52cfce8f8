---------------------------- MODULE WebrtcMedia ----------------------------
(***************************************************************************)
(* Media between the capture and WebRTC (webrtc/src): AudioPacketModule,   *)
(* which hands captured audio to WebRTC in frames from a thread of its     *)
(* own; VideoPacketSource, which passes captured video on; StreamRecorder, *)
(* which encodes the tracks of a peer.                                     *)
(*                                                                         *)
(* Three threads meet in the audio module: WebRTC's, which starts and      *)
(* stops it, the capture's, and the process thread, which is created by    *)
(* the first start and joined by the last stop.  Recording and playout     *)
(* share it.  What a thread does under _crit or _critCallback is one step. *)
(***************************************************************************)
EXTENDS Integers, Sequences

CONSTANTS
    FrameSamples,   \* kNumberSamples: the samples of a frame
    MaxAudio,       \* bound: samples captured
    MaxAudioCalls,  \* bound: calls of WebRTC
    PacketTime,     \* the times of video packets
    MaxVideo        \* bound: calls and packets of the video source and recorder

ASSUME MediaAssumption == FrameSamples \in Nat /\ PacketTime \subseteq Int

VARIABLES
    adm,        \* the audio module: flags, callback, thread, messages
    admcall,    \* the call WebRTC's thread is in
    samples,    \* [fifo, accepted, sent]: samples held; auxiliary: taken, sent
    admcalls,   \* bound: calls so far
    vsrc,       \* the video source: state, attached, offset, last packet; auxiliary: the first
    rec         \* the recorder: tracks, flags, encoder; auxiliary: what it encoded

wmvars == <<adm, admcall, samples, admcalls, vsrc, rec>>

Use == {"recording", "playing"}

Track == {"video", "audio"}

WmInit ==
    /\ adm = [recording |-> FALSE, playing |-> FALSE, ready |-> {}, callback |-> FALSE,
              started |-> FALSE, thread |-> "none", starts |-> 0, runs |-> 0]
    /\ admcall = "none"
    /\ samples = [fifo |-> <<>>, accepted |-> 0, sent |-> <<>>]
    /\ admcalls = 0
    /\ vsrc = [attached |-> FALSE, offset |-> 0, time |-> -1, stamp |-> 0, first |-> -1, calls |-> 0]
    /\ rec = [tracks |-> {}, awaiting |-> {}, shouldInit |-> TRUE, known |-> {},
              streams |-> {}, active |-> FALSE, at |-> [t \in Track |-> "none"],
              raced |-> FALSE, late |-> FALSE, astray |-> FALSE, inits |-> 0, calls |-> 0]

-----------------------------------------------------------------------------
(* AudioPacketModule: WebRTC's thread                                      *)

CanCall == admcall = "none" /\ admcalls < MaxAudioCalls

\* InitRecording(), InitPlayout().
InitUse(u) ==
    /\ CanCall /\ u \notin adm.ready
    /\ adm' = [adm EXCEPT !.ready = @ \cup {u}]
    /\ UNCHANGED <<admcall, samples, admcalls, vsrc, rec>>

\* RegisterAudioCallback().
Register(cb) ==
    /\ CanCall /\ adm.callback # cb
    /\ adm' = [adm EXCEPT !.callback = cb] /\ admcalls' = admcalls + 1
    /\ UNCHANGED <<admcall, samples, vsrc, rec>>

shouldStartProcessing(a) == a.recording \/ a.playing

\* StartRecording(), StartPlayout(): -1 unless initialised.
StartUse(u) ==
    /\ CanCall /\ u \in adm.ready
    /\ adm' = [adm EXCEPT !.recording = @ \/ u = "recording", !.playing = @ \/ u = "playing"]
    /\ admcall' = "start" /\ admcalls' = admcalls + 1
    /\ UNCHANGED <<samples, vsrc, rec>>

\* StopRecording(), StopPlayout().
StopUse(u) ==
    /\ CanCall
    /\ adm' = [adm EXCEPT !.recording = @ /\ u # "recording", !.playing = @ /\ u # "playing"]
    /\ admcall' = IF shouldStartProcessing(adm') THEN "start" ELSE "stop"
    /\ admcalls' = admcalls + 1
    /\ UNCHANGED <<samples, vsrc, rec>>

\* updateProcessing(true): creates the thread if there is none, and posts.
updateStart ==
    /\ admcall = "start"
    /\ adm' = [adm EXCEPT !.thread = IF @ = "none" THEN "idle" ELSE @, !.starts = @ + 1]
    /\ admcall' = "none"
    /\ UNCHANGED <<samples, admcalls, vsrc, rec>>

\* updateProcessing(false): Thread::Stop() asks the thread to quit and joins it.  The
\* message in hand ends, and those that wait go with the thread.  The destructor
\* does the same.
QuitThread ==
    /\ admcall = "stop" /\ admcall' = "join"
    /\ UNCHANGED <<adm, samples, admcalls, vsrc, rec>>

updateStop ==
    /\ admcall = "join" /\ adm.thread \in {"none", "idle"}
    /\ adm' = [adm EXCEPT !.thread = "none", !.starts = 0, !.runs = 0, !.started = FALSE]
    /\ admcall' = "none"
    /\ UNCHANGED <<samples, admcalls, vsrc, rec>>

-----------------------------------------------------------------------------
(* AudioPacketModule: the capture's thread and the process thread          *)

Numbers(from, n) == [i \in 1..n |-> from + i]

\* A faulty variant, used to show that the properties can fail: the buffer starts again.
CaptureOverwrites(n) ==
    /\ samples.accepted + n <= MaxAudio
    /\ adm.callback /\ adm.recording
    /\ samples' = [samples EXCEPT !.fifo = Numbers(samples.accepted, n), !.accepted = @ + n]
    /\ UNCHANGED <<adm, admcall, admcalls, vsrc, rec>>

\* onAudioCaptured(): AudioBuffer::write() makes room for all.
onAudioCaptured(n) ==
    /\ samples.accepted + n <= MaxAudio
    /\ adm.callback /\ adm.recording
    /\ samples' = [samples EXCEPT !.fifo = @ \o Numbers(samples.accepted, n), !.accepted = @ + n]
    /\ UNCHANGED <<adm, admcall, admcalls, vsrc, rec>>

\* The thread has been asked to quit: it takes no message any more.
Quitting == admcall = "join"

\* OnMessage(MSG_START_PROCESS): nothing when already started.
startProcessP ==
    /\ adm.thread = "idle" /\ adm.starts > 0 /\ ~Quitting
    /\ adm' = [adm EXCEPT !.starts = @ - 1, !.thread = IF adm.started THEN "idle" ELSE "frame",
                          !.started = TRUE]
    /\ UNCHANGED <<admcall, samples, admcalls, vsrc, rec>>

\* OnMessage(MSG_RUN_PROCESS), when its delay is over.
runProcessP ==
    /\ adm.thread = "idle" /\ adm.runs > 0 /\ ~Quitting
    /\ adm' = [adm EXCEPT !.runs = @ - 1, !.thread = "frame", !.started = TRUE]
    /\ UNCHANGED <<admcall, samples, admcalls, vsrc, rec>>

\* AudioBuffer::read(): nothing unless there is a whole frame.
Readable(s) == Len(s.fifo) >= FrameSamples

\* sendFrameP(); receiveFrameP() only asserts that playout is not implemented.
sendFrameP(s) ==
    IF adm.recording /\ adm.callback /\ Readable(s)
    THEN [s EXCEPT !.fifo = SubSeq(@, FrameSamples + 1, Len(@)),
                   !.sent = @ \o SubSeq(s.fifo, 1, FrameSamples)]
    ELSE s

processFrameP ==
    /\ adm.thread = "frame"
    /\ samples' = sendFrameP(samples)
    /\ adm' = [adm EXCEPT !.thread = "post"]
    /\ UNCHANGED <<admcall, admcalls, vsrc, rec>>

\* The end of processFrameP(): PostDelayed(), which a thread that quits refuses.
PostRun ==
    /\ adm.thread = "post"
    /\ adm' = [adm EXCEPT !.thread = "idle", !.runs = IF Quitting THEN @ ELSE @ + 1]
    /\ UNCHANGED <<admcall, samples, admcalls, vsrc, rec>>

ProcessThread == startProcessP \/ runProcessP \/ processFrameP \/ PostRun
Update == updateStart \/ QuitThread \/ updateStop

-----------------------------------------------------------------------------
(* VideoPacketSource                                                       *)

VideoCall == vsrc.calls < MaxVideo

\* Start(): attaches, unless the capturer runs.
StartVideo ==
    /\ VideoCall
    /\ vsrc' = [vsrc EXCEPT !.attached = TRUE, !.calls = @ + 1]
    /\ UNCHANGED <<adm, admcall, samples, admcalls, rec>>

\* Stop(): detaches, unless the capturer is stopped.
StopVideo ==
    /\ VideoCall
    /\ vsrc' = [vsrc EXCEPT !.attached = FALSE, !.calls = @ + 1]
    /\ UNCHANGED <<adm, admcall, samples, admcalls, rec>>

\* onVideoCaptured(): an offset of 0 means that there has been no packet.
onVideoCaptured(time) ==
    LET offset == IF vsrc.offset = 0 THEN -time ELSE vsrc.offset
        stamp  == time + offset + 1000
    IN  /\ VideoCall /\ vsrc.attached /\ time > vsrc.time
        /\ vsrc' = [vsrc EXCEPT !.offset = offset, !.time = time, !.stamp = stamp,
                                !.first = IF @ < 0 THEN time ELSE @, !.calls = @ + 1]
        /\ UNCHANGED <<adm, admcall, samples, admcalls, rec>>

-----------------------------------------------------------------------------
(* StreamRecorder: the threads of the two tracks                           *)

Recorded(r) ==
    /\ rec' = r
    /\ UNCHANGED <<adm, admcall, samples, admcalls, vsrc>>

\* setVideoTrack(), setAudioTrack().
setTrack(t) ==
    /\ t \notin rec.tracks
    /\ Recorded([rec EXCEPT !.tracks = @ \cup {t}, !.awaiting = @ \cup {t},
                            !.late = @ \/ rec.known # {}])

\* OnFrame(), OnData(): the first frame tells the format, and initialises the
\* encoder if no frame has done so.  Audio with one channel is dropped before.
OnFrame(t) ==
    LET first == t \in rec.awaiting IN
    /\ t \in rec.tracks /\ rec.at[t] = "none" /\ rec.calls < MaxVideo
    /\ Recorded([rec EXCEPT !.awaiting = @ \ {t}, !.known = @ \cup {t}, !.calls = @ + 1,
                            !.at[t] = IF first /\ rec.shouldInit THEN "init" ELSE "encode",
                            !.raced = @ \/ (first /\ \E o \in Track : rec.at[o] = "init")])

\* MultiplexEncoder::init(), with the streams of the tracks there are; uninit() when
\* it throws.
initEncoder(t, ok) ==
    /\ rec.at[t] = "init"
    /\ Recorded([rec EXCEPT !.at[t] = "encode", !.inits = IF ok THEN @ + 1 ELSE @,
                            !.active = ok, !.streams = IF ok THEN rec.tracks ELSE {},
                            !.shouldInit = IF ok THEN FALSE ELSE @])

\* encodeVideo(), encodeAudio(), if the encoder is active.
Encode(t) ==
    /\ rec.at[t] = "encode"
    /\ Recorded([rec EXCEPT !.at[t] = "none", !.astray = @ \/ (rec.active /\ t \notin rec.streams)])

-----------------------------------------------------------------------------
AudioNext ==
    \/ \E u \in Use : InitUse(u) \/ StartUse(u) \/ StopUse(u)
    \/ \E cb \in BOOLEAN : Register(cb)
    \/ updateStart \/ QuitThread \/ updateStop
    \/ \E n \in 1..(FrameSamples + 1) : onAudioCaptured(n)
    \/ startProcessP \/ runProcessP \/ processFrameP \/ PostRun

VideoNext == StartVideo \/ StopVideo \/ \E t \in PacketTime : onVideoCaptured(t)

RecordNext ==
    \E t \in Track : \/ setTrack(t) \/ OnFrame(t) \/ Encode(t)
                     \/ \E ok \in BOOLEAN : initEncoder(t, ok)

WmSpec == WmInit /\ [][AudioNext \/ VideoNext \/ RecordNext]_wmvars /\ WF_wmvars(ProcessThread) /\ WF_wmvars(Update)

-----------------------------------------------------------------------------
(* Properties                                                              *)

\* What WebRTC gets is the audio captured while it recorded, whole and in order,
\* however starts, stops and captures interleave (onAudioCaptured, sendFrameP); there
\* is one chain of MSG_RUN_PROCESS messages although recording and playout both start
\* it (startProcessP), none when neither runs and no call is under way
\* (updateProcessing); video keeps the distances of the packets' times, unless the
\* first had time 0 (onVideoCaptured); the encoder of a recorder is initialised once,
\* and a frame goes to a stream it has, unless the first frames of both tracks race or
\* a track was set after a frame (OnFrame, OnData).
WebrtcMediaSound ==
    /\ samples.sent \o samples.fifo = Numbers(0, samples.accepted)
    /\ adm.runs + (IF adm.thread \in {"frame", "post"} THEN 1 ELSE 0) <= 1
    /\ admcall = "none" => (shouldStartProcessing(adm) <=> adm.thread # "none")
    /\ adm.thread = "none" => adm.runs + adm.starts = 0 /\ ~adm.started
    /\ vsrc.first > 0 => vsrc.stamp = 1000 + vsrc.time - vsrc.first
    /\ ~rec.raced /\ ~rec.late => rec.inits <= 1 /\ ~rec.astray

\* A call of WebRTC returns though it joins the thread (updateProcessing), and a frame
\* that is captured is sent unless the recording ends (processFrameP).
WebrtcMediaMoves ==
    /\ []<>(admcall = "none")
    /\ []<>~(adm.recording /\ adm.callback /\ Readable(samples))
=============================================================================

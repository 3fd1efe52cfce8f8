---------------------------- MODULE MediaEncoder ----------------------------
(***************************************************************************)
(* MultiplexPacketEncoder on MultiplexEncoder (av/src/multiplex*.cpp), with *)
(* its video and audio encoders and the buffer of audio samples.  Packets  *)
(* and changes of the stream's state reach it one at a time, under the     *)
(* _mutex of MultiplexPacketEncoder.  FFmpeg is external: a codec keeps    *)
(* its first few frames before it gives the oldest back (VideoDelay,       *)
(* AudioDelays), and may fail; where it fails, its encoder throws.         *)
(*                                                                         *)
(* `written` is what the muxer gets.  Of what the muxer then writes,       *)
(* dispatchOutputPacket() drops the header, which init() has written       *)
(* before the state is Ready; a muxer to a file keeps it.                  *)
(***************************************************************************)
EXTENDS Integers, SequencesExt

CONSTANTS
    Time,         \* times of packets
    VideoBase,    \* <<m, d>>: a time t is m * t / d in the time base of the stream
    AudioBase,
    VideoDelay,
    AudioDelays,  \* the delays that audio codecs have
    FrameSize,    \* samples of an audio frame
    MaxSamples,   \* samples of an audio packet are 1..MaxSamples
    MaxMedia      \* bound: packets and state changes offered

VARIABLES
    mux,      \* [state, open: _formatCtx, pts: _pts, delay: of the audio codec]
    codecs,   \* [video: frames kept by the codec, audio: how many it keeps, fifo: samples]
    written,  \* what the muxer has been given
    offered,  \* packets and state changes so far
    kept      \* auxiliary, of a session: video frames and samples taken, audio frames written,
              \* refused: the audio codec refused one

muxvars == <<mux, codecs, written, offered, kept>>

NoCodecs == [video |-> <<>>, audio |-> 0, fifo |-> 0]
NothingKept == [video |-> <<>>, samples |-> 0, audio |-> 0, refused |-> FALSE]

MuxInit ==
    /\ \E d \in AudioDelays : mux = [state |-> "None", open |-> FALSE, pts |-> 0, delay |-> d]
    /\ codecs = NoCodecs
    /\ written = <<>>
    /\ offered = 0
    /\ kept = NothingKept

isActive == mux.state = "Ready"
Offer == offered < MaxMedia /\ offered' = offered + 1

Item(kind, n) == [kind |-> kind, n |-> n]
Items(kind, s) == [i \in DOMAIN s |-> Item(kind, s[i])]

\* *pts converted to the time base of the stream; the division is of doubles,
\* cut off on assignment.
Rescale(t, base) == (t * base[1]) \div base[2]

-----------------------------------------------------------------------------
(* The state of the stream: onStreamStateChange().                         *)

\* init(): what fails is cleaned up, and the state is Error.
Active ==
    /\ Offer /\ ~isActive
    /\ \/ /\ mux' = [mux EXCEPT !.state = "Ready", !.open = TRUE]
          /\ written' = Append(written, Item("header", 0))
       \/ /\ mux' = [mux EXCEPT !.state = "Error", !.open = FALSE]
          /\ UNCHANGED written
    /\ codecs' = NoCodecs
    /\ kept' = NothingKept

\* AudioEncoder::flushBuffer() reads frames while there is a whole one and the codec
\* gives one back for it, or fails on it, and then the frame is gone.
flushBuffer(fifo) ==
    LET keeps == codecs.audio < mux.delay
        whole == fifo \div FrameSize
        read == IF keeps THEN Min({whole, 1}) ELSE whole
        After(i, audio, given, refused) ==
            [fifo |-> fifo - i * FrameSize, audio |-> audio, given |-> given, refused |-> refused]
    IN  {IF keeps THEN After(read, codecs.audio + read, 0, FALSE) ELSE After(read, codecs.audio, read, FALSE)}
        \cup {After(i, codecs.audio, i - 1, TRUE) : i \in 1..read}

AudioItems(first, n) == [i \in 1..n |-> Item("audio", first + i)]

\* What a session has taken and written after flushBuffer(), of n more samples, and then
\* d frames drained from the codec.
Account(n, b, d) ==
    [kept EXCEPT !.samples = @ + n - (IF b.refused THEN FrameSize ELSE 0),
                 !.audio = @ + b.given + d, !.refused = @ \/ b.refused]

\* uninit(): the trailer, then cleanup().
uninit(state, drained) ==
    /\ written' = written \o drained \o (IF mux.open THEN <<Item("trailer", 0)>> ELSE <<>>)
    /\ mux' = [mux EXCEPT !.state = state, !.open = FALSE]
    /\ codecs' = NoCodecs

\* flush() drains the codecs, the video first, then uninit(); frames that stay in the
\* buffer because the codec has kept one are forgotten.  A codec that fails, in
\* flushBuffer() or after any number of frames, ends flush() and skips uninit().
FlushVideoFails ==
    \E n \in 0..Len(codecs.video) :
        /\ written' = written \o Items("video", SubSeq(codecs.video, 1, n))
        /\ codecs' = [codecs EXCEPT !.video = SubSeq(@, n + 1, Len(@))]
        /\ UNCHANGED <<mux, kept>>

FlushAudio ==
    \E b \in flushBuffer(codecs.fifo) : \E d \in 0..b.audio :
        LET drained == Items("video", codecs.video) \o AudioItems(kept.audio, b.given + d)
        IN  /\ b.refused => d = 0
            /\ \/ ~b.refused /\ d = b.audio /\ uninit("Stopped", drained)
               \/ /\ written' = written \o drained
                  /\ codecs' = [video |-> <<>>, audio |-> b.audio - d, fifo |-> b.fifo]
                  /\ UNCHANGED mux
            /\ kept' = Account(0, b, d)

Stopping == Offer /\ isActive /\ (FlushVideoFails \/ FlushAudio)

\* The destructor does not flush.
Destroy ==
    /\ mux.state # "Destroyed"
    /\ uninit("Destroyed", <<>>)
    /\ offered' = MaxMedia
    /\ UNCHANGED kept

-----------------------------------------------------------------------------
(* Packets: process().                                                     *)

\* A faulty Later, used to show that the properties can fail.
LaterOrSame(t, base) == Rescale(t, base) >= mux.pts

\* updateStreamPts(): one _pts for all streams, whatever their time bases.
Later(t, base) == Rescale(t, base) > mux.pts

updateStreamPts(t, base) ==
    mux' = [mux EXCEPT !.pts = IF Later(t, base) THEN Rescale(t, base) ELSE @]

\* encodeVideo(): a frame that is not later is dropped, and so is one the codec
\* fails on.  The codec keeps the frame or gives its oldest back, which is written.
VideoPacket(t) ==
    /\ Offer /\ isActive
    /\ updateStreamPts(t, VideoBase)
    /\ LET frames == Append(codecs.video, Rescale(t, VideoBase))
       IN  \/ UNCHANGED <<codecs, written, kept>>
           \/ /\ Later(t, VideoBase)
              /\ kept' = [kept EXCEPT !.video = Append(@, Rescale(t, VideoBase))]
              /\ IF Len(frames) <= VideoDelay
                 THEN codecs' = [codecs EXCEPT !.video = frames] /\ UNCHANGED written
                 ELSE /\ codecs' = [codecs EXCEPT !.video = Tail(frames)]
                      /\ written' = Append(written, Item("video", Head(frames)))

\* encodeAudio(): the answer of updateStreamPts() is not looked at.  A codec that
\* fails throws with the frame it was given, and what follows stays in the buffer.
AudioPacket(t, n) ==
    /\ Offer /\ isActive
    /\ updateStreamPts(t, AudioBase)
    /\ \E b \in flushBuffer(codecs.fifo + n) :
          /\ codecs' = [codecs EXCEPT !.fifo = b.fifo, !.audio = b.audio]
          /\ written' = written \o AudioItems(kept.audio, b.given)
          /\ kept' = Account(n, b, 0)

MuxNext ==
    \/ Active \/ Stopping \/ Destroy
    \/ \E t \in Time : VideoPacket(t)
    \/ \E t \in Time, n \in 1..MaxSamples : AudioPacket(t, n)

-----------------------------------------------------------------------------
(* Properties.                                                             *)

IsVideo(x) == x.kind = "video"

\* The muxer gets video packets whose times increase strictly, over all sessions
\* (multiplexencoder.cpp:296), which is what it needs to interleave them.
VideoIncreases ==
    LET v == SelectSeq(written, IsVideo)
    IN  \A i, j \in DOMAIN v : i < j => v[i].n < v[j].n

\* Header and trailer alternate, and packets are written between the two.
Framed ==
    \A i \in DOMAIN written :
        written[i].kind = "header" <=> (i = 1 \/ written[i - 1].kind = "trailer")

\* When the stream has stopped, every video frame that the codec took has been
\* written, in order, however often a flush() failed before; and less than a frame of
\* the samples is missing, if the codec keeps no frame, or one and refused none.
SessionComplete ==
    mux.state = "Stopped" =>
        /\ IsSuffix(Items("video", kept.video), SelectSeq(written, IsVideo))
        /\ mux.delay = 0 \/ (mux.delay = 1 /\ ~kept.refused) =>
              kept.samples - kept.audio * FrameSize \in 0..(FrameSize - 1)

EncoderSound == VideoIncreases /\ Framed /\ SessionComplete
=============================================================================

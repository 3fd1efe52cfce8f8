----------------------------- MODULE MediaCodec -----------------------------
(***************************************************************************)
(* One decoder or encoder of the media library (av/src/videodecoder.cpp,   *)
(* audiodecoder.cpp, videoencoder.cpp, audioencoder.cpp), on the context   *)
(* it extends (videocontext.cpp, audiocontext.cpp) and the converter of    *)
(* formats that belongs to it (videoconverter.cpp, audioresampler.cpp),    *)
(* built with NDEBUG; and the output buffer of the resampler.              *)
(*                                                                         *)
(* FFmpeg is external: a codec keeps CodecDelay frames before it gives the *)
(* oldest back, and may fail.  A frame is its number and its format.  The  *)
(* numbers in `short` are those of audio frames too short for a resampler  *)
(* to give anything for them.                                              *)
(* Module MediaEncoder has the cutting of audio into frames.               *)
(***************************************************************************)
EXTENDS Integers, FiniteSets, SequencesExt

CONSTANTS
    Format,         \* formats of pictures or samples
    Planar,         \* those of them that are planar
    CodecDelay,
    ShortFrames,    \* what `short` may be
    MaxCodecCalls,  \* bound on the calls made on a codec
    Rates,          \* <<in, out>>: sample rates of resamplers
    MaxResample     \* bound on the samples given to a resampler

VARIABLES
    cdc,            \* the codec
    rsm             \* the resampler

cdcvars == <<cdc>>
rsmvars == <<rsm>>

Audio(c) == c.kind \in {"adec", "aenc"}
Encoder(c) == c.kind \in {"aenc", "venc"}

\* ctx: of the AVCodecContext; the constructor of AudioContext leaves it unset.
\* source: the format of the stream to decode.  supported: the formats of the codec to
\* encode with.  cfmt: what the codec was opened with.  conv: the converter's formats.
\* Auxiliary: fed, out, lost: frames taken, emitted, and lost to errors or for want of
\* a stream; buffered: those that stayed in a resampler, to come with the next; mixed: the codec got a frame of another format than it, and the buffer of
\* samples, were made for; wild: avcodec_close() got a pointer nobody set; changed: the
\* output format was changed after open().
NewCodec(kind, source, supported, muxed, short) ==
    [ kind |-> kind, ctx |-> IF kind \in {"adec", "aenc"} THEN "unset" ELSE "null",
      opened |-> FALSE, ready |-> FALSE, frame |-> FALSE,
      stream |-> kind \in {"adec", "vdec"}, muxed |-> muxed,
      source |-> source, supported |-> supported, cfmt |-> source,
      ip |-> source, op |-> source, conv |-> <<>>, fifo |-> "none",
      time |-> 0, held |-> <<>>, fed |-> 0, out |-> <<>>, lost |-> {}, buffered |-> {}, short |-> short,
      mixed |-> FALSE, wild |-> FALSE, changed |-> FALSE, gone |-> FALSE, calls |-> 0 ]

CodecInit ==
    \E kind \in {"adec", "vdec", "aenc", "venc"}, f \in Format, muxed \in BOOLEAN :
    \E s \in {<<g>> : g \in Format} \cup {<<g, h>> : g, h \in Format}, short \in ShortFrames :
        /\ kind \in {"adec", "vdec"} => s = <<f>> /\ ~muxed
        /\ kind # "adec" => short = {}
        /\ cdc = NewCodec(kind, f, s, muxed, short)

Call == ~cdc.gone /\ cdc.calls < MaxCodecCalls
Does(c) == cdc' = [c EXCEPT !.calls = @ + 1]

-----------------------------------------------------------------------------
(* Opening and closing.                                                    *)

\* selectPixelFormat(), selectSampleFormat(): the format asked for, or the first one
\* that is planar as it is, or none.
selectFormat(supported, f) ==
    LET alike == SelectSeq(supported, LAMBDA g : (g \in Planar) = (f \in Planar))
    IN  IF f \in ToSet(supported) THEN f ELSE IF alike = <<>> THEN "none" ELSE alike[1]

\* create() of a decoder.  Where it throws, it leaves things as they are.
createDecoder(c, fails) ==
    LET a == [c EXCEPT !.ctx = "live"]
        b == [a EXCEPT !.frame = TRUE]
    IN  CASE fails = "find" -> a
          [] fails = "open" -> b
          [] OTHER -> [b EXCEPT !.opened = TRUE, !.cfmt = c.source, !.ip = c.source, !.op = c.source]

\* VideoEncoder::create(): the frame has the input format, the output format is that of
\* the codec.
createVideoEncoder(c, fails) ==
    LET f == selectFormat(c.supported, c.op)
        b == [c EXCEPT !.ctx = "live", !.stream = c.muxed, !.frame = TRUE]
    IN  CASE fails = "find" -> c
          [] fails = "open" \/ f = "none" -> b
          [] OTHER -> [b EXCEPT !.opened = TRUE, !.cfmt = f, !.op = f]

\* AudioEncoder::create(): the buffer is made for the format asked for, before the output
\* format becomes that of the codec.
createAudioEncoder(c, fails) ==
    LET f == selectFormat(c.supported, c.op)
        a == [c EXCEPT !.ctx = "live", !.stream = c.muxed]
    IN  CASE fails = "find" -> c
          [] fails = "open" \/ f = "none" -> a
          [] OTHER -> [a EXCEPT !.opened = TRUE, !.frame = TRUE, !.fifo = c.op, !.cfmt = f, !.op = f]

create(fails) ==
    /\ Call /\ ~cdc.opened /\ ~cdc.frame /\ cdc.ctx # "live"
    /\ ~Encoder(cdc) => cdc.stream
    /\ Does(CASE cdc.kind = "venc" -> createVideoEncoder(cdc, fails)
              [] cdc.kind = "aenc" -> createAudioEncoder(cdc, fails)
              [] OTHER -> createDecoder(cdc, fails))

\* The application chooses the output format, of an encoder before create().
setOutput(f) ==
    /\ Call /\ (Encoder(cdc) => cdc.ctx # "live")
    /\ Does([cdc EXCEPT !.op = f, !.changed = @ \/ cdc.ready])

\* recreateConverter(): once there is a converter, there always is one.
recreateConverter(c) ==
    IF c.conv = <<>> /\ c.ip = c.op THEN <<>> ELSE <<c.ip, c.op>>

\* recreateResampler() is called from open() alone.
recreateResampler(c) == IF c.ip = c.op THEN c.conv ELSE <<c.ip, c.op>>

open ==
    /\ Call /\ cdc.opened
    /\ Does([cdc EXCEPT !.conv = IF Audio(cdc) THEN recreateResampler(cdc) ELSE recreateConverter(cdc),
                        !.ready = TRUE])

\* VideoContext::close(), AudioContext::close(): the latter forgets its stream, and
\* neither closes the buffer of samples.
closed(c) ==
    [c EXCEPT !.frame = FALSE, !.ctx = "null", !.wild = @ \/ c.ctx = "unset",
              !.opened = FALSE, !.ready = FALSE, !.conv = <<>>, !.time = 0,
              !.stream = @ /\ ~Audio(c),
              !.lost = @ \cup {c.held[i][1] : i \in DOMAIN c.held}, !.held = <<>>]

close == Call /\ Does(closed(cdc))

destroy == Call /\ Does([closed(cdc) EXCEPT !.gone = TRUE])

-----------------------------------------------------------------------------
(* Decoding and encoding.                                                  *)

\* VideoConverter::convert(), AudioResampler::resample(): a frame of another format than
\* the converter is for comes out as rubbish.
Converted(conv, f) == IF conv = <<>> THEN f ELSE IF conv[1] = f THEN conv[2] ELSE "rubbish"

\* VideoContext::convert() follows the format of its input.
convert(c, f) == LET d == [c EXCEPT !.ip = f] IN [d EXCEPT !.conv = recreateConverter(d)]

Emitted(c, n, f) ==
    [c EXCEPT !.out = Append(@, [n |-> n, is |-> f, said |-> c.op]), !.time = IF c.stream THEN n ELSE @]

\* emitPacket() of the decoders: the frame in the output format, with its time; nothing
\* is emitted when the resampler has nothing to give.
EmitDecoded(c, u) ==
    LET d == IF Audio(c) THEN c ELSE convert(c, u[2])
    IN  IF Audio(c) /\ c.conv # <<>> /\ u[1] \in c.short
        THEN [c EXCEPT !.buffered = @ \cup {u[1]}, !.time = u[1]]
        ELSE Emitted(d, u[1], Converted(d.conv, u[2]))

\* emitPacket() of the encoders; the one for video wants a stream.
EmitEncoded(c, u) ==
    IF c.kind = "venc" /\ ~c.stream THEN [c EXCEPT !.lost = @ \cup {u[1]}]
    ELSE Emitted(c, u[1], c.op)

Emit(c, u) == IF Encoder(c) THEN EmitEncoded(c, u) ELSE EmitDecoded(c, u)

\* The codec takes a frame, and may give one.
Through(c, f) ==
    LET d == [c EXCEPT !.fed = @ + 1, !.held = Append(@, <<c.fed + 1, f>>)]
    IN  IF Len(d.held) <= CodecDelay THEN d
        ELSE Emit([d EXCEPT !.held = Tail(@)], Head(d.held))

Drain(c, n) == FoldLeft(Emit, [c EXCEPT !.held = SubSeq(@, n + 1, Len(@))], SubSeq(c.held, 1, n))

\* What the codec refuses throws, and is lost.
Taken(c, f, error) ==
    IF error THEN [c EXCEPT !.fed = @ + 1, !.lost = @ \cup {c.fed + 1}] ELSE Through(c, f)

\* decode(): all frames of a packet in turn; an error throws, and the rest is lost.
decode(fs, error) ==
    /\ Call /\ cdc.ready /\ ~Encoder(cdc)
    /\ Audio(cdc) => ToSet(fs) = {cdc.source}
    /\ Does(Taken(FoldLeft(Through, cdc, Front(fs)), Last(fs), error))

\* VideoEncoder::encode(): the frame has the format create() gave it.
encodeVideo(error) ==
    /\ Call /\ cdc.ready /\ cdc.kind = "venc"
    /\ LET d == convert(cdc, cdc.source)
           f == Converted(d.conv, cdc.source)
       IN  Does(Taken([d EXCEPT !.mixed = @ \/ f # d.cfmt], f, error))

\* AudioEncoder::encode(): through the resampler and the buffer.
encodeAudio(error) ==
    /\ Call /\ cdc.ready /\ cdc.kind = "aenc"
    /\ LET f == Converted(cdc.conv, cdc.source)
       IN  Does(Taken([cdc EXCEPT !.mixed = @ \/ (cdc.fifo = cdc.cfmt /\ f # cdc.fifo)], f, error))

\* VideoDecoder, VideoEncoder and AudioEncoder flush until nothing comes; AudioDecoder
\* asks once.
flush ==
    /\ Call /\ cdc.ready
    /\ Does(Drain(cdc, IF cdc.kind = "adec" THEN Min({1, Len(cdc.held)}) ELSE Len(cdc.held)))

CodecNext ==
    \/ \E fails \in {"find", "open", "no"} : create(fails)
    \/ \E f \in Format : setOutput(f)
    \/ open \/ close \/ destroy \/ flush
    \/ \E error \in BOOLEAN : encodeVideo(error) \/ encodeAudio(error)
    \/ \E f, g \in Format, error \in BOOLEAN : decode(<<f>>, error) \/ decode(<<f, g>>, error)

-----------------------------------------------------------------------------
(* The resampler.  swr_convert() gives what it has, as far as there is     *)
(* room, and keeps the rest.                                               *)

CeilDiv(a, b) == (a + b - 1) \div b

\* given: samples that came out; room: maxNumSamples; buffers: allocated and not freed.
ResampleInit ==
    \E r \in Rates : rsm = [rate |-> r, fed |-> 0, given |-> 0, room |-> 0, last |-> 0,
                            live |-> FALSE, buffers |-> 0, grown |-> 0]

openResampler ==
    /\ ~rsm.live
    /\ rsm' = [rsm EXCEPT !.live = TRUE]

\* close() frees the buffer it has.
closeResampler ==
    /\ rsm.live
    /\ rsm' = [rsm EXCEPT !.live = FALSE, !.buffers = IF rsm.room > 0 THEN @ - 1 ELSE @,
                          !.room = 0, !.last = 0, !.fed = 0, !.given = 0]

\* swr_get_delay(): the input not yet used, to the nearest sample.
DelayOf(s) == (2 * (s.fed * s.rate[2] - s.given * s.rate[1]) + s.rate[2]) \div (2 * s.rate[2])

\* resample(): a buffer that is too small is replaced, and not freed.
resample(n) ==
    /\ rsm.live /\ rsm.fed + n <= MaxResample /\ rsm.grown < 3
    /\ LET required == CeilDiv((DelayOf(rsm) + n) * rsm.rate[2], rsm.rate[1])
           grows == required > rsm.room
           room == IF grows THEN required ELSE rsm.room
           has == ((rsm.fed + n) * rsm.rate[2]) \div rsm.rate[1] - rsm.given
           ret == Min({has, room})
       IN  rsm' = [rsm EXCEPT !.fed = @ + n, !.given = @ + ret, !.last = ret, !.room = room,
                              !.buffers = IF grows THEN @ + 1 ELSE @,
                              !.grown = IF grows THEN @ + 1 ELSE @]

ResampleNext == openResampler \/ closeResampler \/ \E n \in 1..4 : resample(n)

-----------------------------------------------------------------------------
(* Frames leave a codec in the order they came, and each is emitted, kept, *)
(* buffered by the resampler or lost, never twice (decode, flush, close),  *)
(* and the time is that of the last one; what a decoder emits has          *)
(* the format it says, whenever that changes, but for an output format     *)
(* that is changed after open() of an audio decoder (convert,              *)
(* recreateConverter); a codec gets frames of the format it was opened     *)
(* with, but for an audio encoder that does not have the format asked for  *)
(* (selectFormat, create); and what close() frees was made by create(),    *)
(* but for an audio codec that has no context yet.  What remains of the    *)
(* resampler's input is less than a sample or two (resample).              *)
CodecSound ==
    /\ \A i, j \in DOMAIN cdc.out : i < j => cdc.out[i].n < cdc.out[j].n
    /\ LET emitted == {cdc.out[i].n : i \in DOMAIN cdc.out}
           kept == {cdc.held[i][1] : i \in DOMAIN cdc.held}
       IN  /\ emitted \cup kept \cup cdc.lost \cup cdc.buffered = 1..cdc.fed
           /\ Len(cdc.out) + Len(cdc.held) + Cardinality(cdc.lost) + Cardinality(cdc.buffered) = cdc.fed
           /\ cdc.time # 0 => cdc.time = Max(emitted \cup cdc.buffered)
    /\ \A i \in DOMAIN cdc.out :
           cdc.out[i].is = cdc.out[i].said \/ (Audio(cdc) /\ cdc.changed)
    /\ ~cdc.mixed
    /\ cdc.wild => Audio(cdc)
    /\ rsm.live => rsm.fed * rsm.rate[2] - rsm.given * rsm.rate[1] < rsm.rate[1] + rsm.rate[2]
    /\ rsm.last <= rsm.room
=============================================================================

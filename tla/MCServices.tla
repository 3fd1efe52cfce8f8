----------------------------- MODULE MCServices -----------------------------
(***************************************************************************)
(* Finite instances of components that run beside an application and do    *)
(* not interact: the asynchronous queue, the media capture, encoder and    *)
(* codecs, the timed manager, the logger, WebRTC peers and their media,    *)
(* and form uploads.  Each behaviour is one of one component: `part` says  *)
(* which, and the variables of the others stay as they are.  Part is a     *)
(* constant, so that a run can look at one of them alone.                  *)
(***************************************************************************)
EXTENDS AsyncQueue, TimedManager, LogWriter, WebrtcPeers, WebrtcMedia, MediaCapture

CONSTANTS
    Part, p1, p2,
    Time, VideoDelay, AudioDelays, FrameSize, MaxSamples, MaxMedia,
    Format, Planar, CodecDelay, ShortFrames, MaxCodecCalls, MaxResample,
    HeaderSize, EndSize, FieldSize, ChunkSize, PartSize, MaxFields, MaxParts

VARIABLES
    part,
    mux, codecs, written, offered, kept,
    cdc, rsm,
    form, writer, body, request

\* Half a frame of video, and two of audio, per unit of time.
VideoBase == <<1, 2>>
AudioBase == <<2, 1>>

\* Sample rates, in and out.
Rates == {<<2, 3>>, <<3, 2>>, <<1, 3>>, <<1, 1>>}

\* The names of the log channels.
ChannelNames == <<"a", "b">>

Encoder == INSTANCE MediaEncoder
Codec == INSTANCE MediaCodec
Forms == INSTANCE FormWriter

muxvars == <<mux, codecs, written, offered, kept>>
cdcvars == <<cdc, rsm>>
logvars == <<lw>>
formvars == <<form, writer, body, request>>
allvars == <<part, vars, capvars, muxvars, cdcvars, timedvars, logvars, peervars, wmvars, formvars>>

InitServices ==
    /\ part \in Part
    /\ Init /\ CapInit /\ Encoder!MuxInit /\ Codec!CodecInit /\ Codec!ResampleInit /\ TimedInit
    /\ LogInit /\ PeerInit /\ WmInit /\ Forms!FormInit
    /\ part # "capture" => ~capture.looping
    /\ part # "encoder" => mux.delay = 0
    /\ part # "codec" => cdc.kind = "adec" /\ cdc.source = "s" /\ cdc.short = {}
    /\ part # "resampler" => rsm.rate = <<1, 1>>
    /\ part # "forms" => form.encoding = "url" /\ form.transfer = "length"

NextServices ==
    /\ UNCHANGED part
    /\ \/ /\ part = "queue" /\ Next
          /\ UNCHANGED <<capvars, muxvars, cdcvars, timedvars, logvars, peervars, wmvars, formvars>>
       \/ /\ part = "capture" /\ CapNext
          /\ UNCHANGED <<vars, muxvars, cdcvars, timedvars, logvars, peervars, wmvars, formvars>>
       \/ /\ part = "encoder" /\ Encoder!MuxNext
          /\ UNCHANGED <<vars, capvars, cdcvars, timedvars, logvars, peervars, wmvars, formvars>>
       \/ /\ \/ part = "codec" /\ Codec!CodecNext /\ UNCHANGED rsm
             \/ part = "resampler" /\ Codec!ResampleNext /\ UNCHANGED cdc
          /\ UNCHANGED <<vars, capvars, muxvars, timedvars, logvars, peervars, wmvars, formvars>>
       \/ /\ part = "timed" /\ TimedNext
          /\ UNCHANGED <<vars, capvars, muxvars, cdcvars, logvars, peervars, wmvars, formvars>>
       \/ /\ part = "logs" /\ LogNext
          /\ UNCHANGED <<vars, capvars, muxvars, cdcvars, timedvars, peervars, wmvars, formvars>>
       \/ /\ part = "peers" /\ PeerNext
          /\ UNCHANGED <<vars, capvars, muxvars, cdcvars, timedvars, logvars, wmvars, formvars>>
       \/ /\ \/ part = "audio" /\ AudioNext
             \/ part = "video" /\ VideoNext
             \/ part = "record" /\ RecordNext
          /\ UNCHANGED <<vars, capvars, muxvars, cdcvars, timedvars, logvars, peervars, formvars>>
       \/ /\ part = "forms" /\ Forms!FormNext
          /\ UNCHANGED <<vars, capvars, muxvars, cdcvars, timedvars, logvars, peervars, wmvars>>

\* Threads that are inside a call run, and so do the threads of the components, the
\* timer, the idler and the garbage collector.  Nobody has to call anything.
FairnessServices ==
    /\ WF_vars(part = "queue" /\ Worker) /\ WF_vars(part = "queue" /\ CloseStep)
    /\ \A p \in Producer : WF_vars(part = "queue" /\ Push(p))
    /\ WF_capvars(part = "capture" /\ ReaderThread)
    /\ \A c \in Caller : WF_capvars(part = "capture" /\ JoinReader(c))
    /\ WF_timedvars(part = "timed" /\ Timer)
    /\ WF_logvars(part = "logs" /\ ~lw.crashed /\ LogThread)
    /\ WF_logvars(part = "logs" /\ ~lw.crashed /\ (Destructor \/ AssignWriter))
    /\ \A p \in Peer : WF_peervars(part = "peers" /\ Collect(p))
    /\ WF_wmvars(part = "audio" /\ ProcessThread) /\ WF_wmvars(part = "audio" /\ Update)
    /\ WF_formvars(part = "forms" /\ Forms!IdlerTurn)

ServicesSpec == InitServices /\ [][NextServices]_allvars /\ FairnessServices

-----------------------------------------------------------------------------
(* The properties of the components; those of AsyncQueue, TimedManager,    *)
(* LogWriter, WebrtcPeers, WebrtcMedia and MediaCapture are their own.     *)

\* Modules MediaEncoder and MediaCodec: the muxer gets increasing times between a
\* header and a trailer, and all that the codecs took (updateStreamPts, flush); codecs
\* emit each frame once, in the format they say (decode, convert, flush).
\* Module FormWriter: a form is delivered whole and in order (writeMultipartChunk).
DeliveredInOrder == Encoder!EncoderSound /\ Codec!CodecSound /\ Forms!FormDelivered

\* Each module: close(), stop() and destructors return, threads end, expired items
\* and closed peers go, messages are written, and uploads end (join, onTimerUpdate, run).
ServicesEnd ==
    /\ CloseReturns
    /\ CaptureEnds /\ TimeoutsHappen /\ ClosedPeersGo /\ LogEnds /\ Forms!FormEnds
    /\ WebrtcMediaMoves

\* Module FormWriter: the Content-Length announced is the length of what is sent
\* (calculateMultipartContentLength).
LengthAnnounced == Forms!LengthAnnounced
=============================================================================

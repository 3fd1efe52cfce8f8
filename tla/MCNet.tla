------------------------------- MODULE MCNet -------------------------------
(***************************************************************************)
(* Finite instances of the layers of a connection: HTTP and WebSocket      *)
(* connections and their messages, TLS below them, the dispatch of socket  *)
(* events to receivers, and the handles of the event loop at the bottom.   *)
(* Each behaviour is one of one layer: `layer` says which, and the         *)
(* variables of the others stay as they are.                               *)
(***************************************************************************)
EXTENDS HttpConnection, SslSocket

CONSTANTS
    Receiver, MaxDepth, MaxAdds, IntWidth, MaxSets, MaxChunks,
    MaxContexts, MaxSockCalls, Period, Horizon, MaxTimerCalls, MaxProcCalls, MaxLines,
    PacketType, Slot, MaxStream, MaxPacketCalls

VARIABLES
    layer,
    refs, dirty, stack, sock, adds, wild, pk,
    msg, item, chunks,
    sk, app, tm, pr

Adapter == INSTANCE SocketAdapter
Messages == INSTANCE HttpMessage
Handles == INSTANCE LoopHandles

adaptervars == <<refs, dirty, stack, sock, adds, wild>>
hmvars == <<msg, item, chunks>>
skvars == <<sk, app>>
tmvars == <<tm>>
lhvars == <<sk, app, tm, pr>>
netvars == <<layer, vars, tlsvars, adaptervars, pk, hmvars, lhvars>>

InitNet ==
    /\ layer \in {"http", "tls", "adapter", "message", "socket", "timer", "process", "packets"}
    /\ Init /\ TlsInit /\ Adapter!Init /\ Adapter!PkInit /\ Messages!HmInit
    /\ Handles!SockInit /\ Handles!TimerInit /\ Handles!ProcInit
    /\ layer # "http" => opt = CHOOSE o \in Options : TRUE
    /\ layer # "tls" => trusted
    /\ layer # "message" => chunks = Messages!NewAdapter("chunked", <<>>)
    /\ layer # "socket" => sk.kind = "tcp" /\ \A k \in DOMAIN app : ~app[k]
    /\ layer # "timer" => tm.timeout = 0 /\ tm.interval = 0

NextNet ==
    /\ UNCHANGED layer
    /\ \/ layer = "http" /\ Next /\ UNCHANGED <<tlsvars, adaptervars, pk, hmvars, lhvars>>
       \/ layer = "tls" /\ TlsNext /\ UNCHANGED <<vars, adaptervars, pk, hmvars, lhvars>>
       \/ layer = "adapter" /\ Adapter!Next /\ UNCHANGED <<vars, tlsvars, pk, hmvars, lhvars>>
       \/ layer = "packets" /\ Adapter!PkNext /\ UNCHANGED <<vars, tlsvars, adaptervars, hmvars, lhvars>>
       \/ layer = "message" /\ Messages!HmNext /\ UNCHANGED <<vars, tlsvars, adaptervars, pk, lhvars>>
       \/ /\ \/ layer = "socket" /\ Handles!SockNext /\ UNCHANGED <<tm, pr>>
             \/ layer = "timer" /\ Handles!TimerNext /\ UNCHANGED <<skvars, pr>>
             \/ layer = "process" /\ Handles!ProcNext /\ UNCHANGED <<skvars, tm>>
          /\ UNCHANGED <<vars, tlsvars, adaptervars, pk, hmvars>>

\* The fairness of each layer's own specification.
FairnessNet ==
    /\ WF_vars(layer = "http" /\ CliLoop) /\ WF_vars(layer = "http" /\ SrvLoop)
    /\ \A e \in {"cli", "srv"} : WF_tlsvars(layer = "tls" /\ Loop(e))
    /\ Handles!AnswersCome
    /\ WF_tmvars(layer = "timer" /\ Handles!Expires)

NetSpec == InitNet /\ [][NextNet]_netvars /\ FairnessNet

-----------------------------------------------------------------------------
\* Module HttpMessage: headers, cookies, URLs and chunks come back from what was
\* written, in whatever pieces they are read (on_header_field, splitParameters).
\* Module SocketAdapter: the packets made of a stream are those it holds, in order
\* (PacketSocketEmitter::onSocketRecv), each attached receiver is called once by a
\* dispatch, whatever its callbacks add, remove or close, and the data and info of
\* packets are freed once, by their owner (~RawPacket).
\* Module LoopHandles: callbacks belong to the present life of a socket, timer or
\* process, whatever answers come late or callbacks close and connect again (close,
\* reset, uv_timer_start, exit_cb).
LayersSound ==
    /\ layer = "message" => Messages!MessageReadBack /\ Messages!TextsReadBack /\ Messages!ChunksReadBack
    /\ Adapter!PacketsInOrder /\ Adapter!ReceiversCalledOnce /\ Adapter!PacketsOwned
    /\ Handles!SocketSound /\ Handles!TimersAndChildrenSound

\* Modules HttpConnection and SslSocket: nobody waits for ever.  Closing,
\* connecting and responding come to an end at both sides, and what was sent
\* over TLS is received unless the connection is closed.  Module LoopHandles: handles
\* are released and timers expire (~Context, uv_timer_start).
ConnectionsSettle == Settles /\ (layer = "tls" => TlsDelivers) /\ Handles!HandlesReleased
=============================================================================

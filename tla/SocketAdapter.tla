--------------------------- MODULE SocketAdapter ---------------------------
(***************************************************************************)
(* The receivers of a socket (net/src/socketadapter.cpp) and the UDP       *)
(* socket that dispatches to them (udpsocket.cpp, handle.h).  An event is  *)
(* given to the receivers from the newest to the oldest; a receiver's      *)
(* callback may add and remove receivers, connect or close the socket, all *)
(* of which dispatch again before the callback returns, or throw           *)
(* StopPropagation.  One of the receivers is PacketSocketEmitter           *)
(* (packetsocket.cpp), which makes packets of the bytes received: the      *)
(* second half of the module is about what it makes of a stream, and about *)
(* who owns a packet's data and info (packet.h, packetfactory.h).          *)
(***************************************************************************)
EXTENDS Integers, Sequences, SequencesExt, FiniteSets

CONSTANTS
    Receiver,   \* the adapters that may be attached
    MaxDepth,   \* bound on dispatches in progress at once
    MaxAdds,    \* bound on the calls of addReceiver()
    PacketType, \* the packet types an application may register
    Slot,       \* the application's places for packets
    MaxStream,  \* bound on the messages of a stream, of two halves each
    MaxPacketCalls  \* bound on the application's calls on packets

VARIABLES
    refs,       \* _receivers, the oldest first
    dirty,      \* _dirty
    stack,      \* the dispatches in progress, the innermost first
    sock,       \* the uv handle: initialized and not closed, receiving
    adds,       \* calls of addReceiver() so far
    wild,       \* a dispatch read past the end of _receivers
    pk          \* a packet emitter, and the packets alive

vars == <<refs, dirty, stack, sock, adds, wild>>

Event == {"connect", "recv", "error", "close"}

Live == { r \in Receiver : \E i \in 1..Len(refs) : refs[i] = [ptr |-> r, alive |-> TRUE] }

Init ==
    /\ refs = <<>> /\ dirty = FALSE /\ stack = <<>>
    /\ sock = [init |-> FALSE, open |-> TRUE, recv |-> FALSE]
    /\ adds = 0 /\ wild = FALSE

-----------------------------------------------------------------------------
(* Faulty variants, used to show that the properties can fail.             *)

RemoveErases(rs, r) == SelectSeq(rs, LAMBDA f : f.ptr # r)

-----------------------------------------------------------------------------
(* SocketAdapter                                                           *)

hasReceiver(r) == \E i \in 1..Len(refs) : refs[i].ptr = r

PushReceiver(rs, r) == Append(rs, [ptr |-> r, alive |-> TRUE])

MarkDead(rs, r) ==
    [i \in 1..Len(rs) |-> IF rs[i].ptr = r THEN [rs[i] EXCEPT !.alive = FALSE] ELSE rs[i]]

\* cleanupReceivers(): nothing to do unless a receiver was added since.
Cleaned == IF dirty THEN SelectSeq(refs, LAMBDA f : f.alive) ELSE refs

\* A dispatch starts with a clean-up.  must: the receivers that were
\* attached then and have not been removed since; erased: an inner dispatch
\* has erased entries below this one's index.
Frame(ev, rs) ==
    [ev |-> ev, cur |-> Len(rs), calling |-> FALSE, called |-> <<>>,
     must |-> {rs[i].ptr : i \in {j \in 1..Len(rs) : rs[j].alive}}, erased |-> FALSE]

Erasing(st) ==
    [i \in 1..Len(st) |->
        [st[i] EXCEPT !.erased = @ \/ (dirty /\ \E j \in 1..st[i].cur : ~refs[j].alive)]]

\* onSocketConnect(), onSocketRecv(), onSocketError(), onSocketClose()
Dispatch(ev, st) ==
    /\ Len(st) < MaxDepth
    /\ refs' = Cleaned /\ dirty' = FALSE
    /\ stack' = <<Frame(ev, Cleaned)>> \o Erasing(st)

\* The application runs in a callback, or outside of any dispatch.
InApp == ~wild /\ (stack # <<>> => Head(stack).calling)

addReceiver(r) ==
    /\ InApp /\ adds < MaxAdds
    /\ adds' = adds + 1
    /\ IF hasReceiver(r) THEN UNCHANGED <<refs, dirty>>
       ELSE /\ refs' = PushReceiver(refs, r)
            /\ dirty' = TRUE
    /\ UNCHANGED <<stack, sock, wild>>

removeReceiver(r) ==
    /\ InApp /\ r \in Live
    /\ refs' = MarkDead(refs, r)
    /\ stack' = [i \in 1..Len(stack) |-> [stack[i] EXCEPT !.must = @ \ {r}]]
    /\ UNCHANGED <<dirty, sock, adds, wild>>

\* One turn of the loop of a dispatch.
Call ==
    /\ stack # <<>> /\ ~wild
    /\ LET f == Head(stack) IN
       /\ ~f.calling /\ f.cur > 0
       /\ IF f.cur > Len(refs) THEN wild' = TRUE /\ UNCHANGED stack
          ELSE LET ref == refs[f.cur] IN
               /\ stack' = [stack EXCEPT ![1] =
                     [f EXCEPT !.cur = @ - 1, !.calling = ref.alive,
                               !.called = IF ref.alive THEN Append(@, ref.ptr) ELSE @]]
               /\ UNCHANGED wild
    /\ UNCHANGED <<refs, dirty, sock, adds>>

Return ==
    /\ stack # <<>> /\ ~wild /\ Head(stack).calling
    /\ stack' = [stack EXCEPT ![1].calling = FALSE]
    /\ UNCHANGED <<refs, dirty, sock, adds, wild>>

-----------------------------------------------------------------------------
(* UDPSocket                                                               *)

\* close(): recvStop() and Handle::close(), whose onClose() runs once.
Close(st) ==
    IF sock.open THEN sock' = [init |-> FALSE, open |-> FALSE, recv |-> FALSE] /\ Dispatch("close", st)
    ELSE stack' = st /\ UNCHANGED <<sock, refs, dirty>>

close ==
    /\ InApp /\ sock.open
    /\ Close(stack)
    /\ UNCHANGED <<adds, wild>>

\* init(): a closed socket gets a new handle.
Opened == [sock EXCEPT !.init = TRUE, !.open = TRUE]

connect ==
    /\ InApp
    /\ sock' = Opened
    /\ Dispatch("connect", stack)
    /\ UNCHANGED <<adds, wild>>

\* bind() starts to receive, or sets the error of the handle: onError()
\* dispatches the error, then closes.
bind(ok) ==
    /\ InApp /\ ~sock.recv
    /\ IF ok THEN sock' = [Opened EXCEPT !.recv = TRUE] /\ UNCHANGED <<stack, refs, dirty>>
       ELSE sock' = Opened /\ Dispatch("error", stack)
    /\ UNCHANGED <<adds, wild>>

onRecv(ok) ==
    /\ stack = <<>> /\ ~wild /\ sock.recv
    /\ Dispatch(IF ok THEN "recv" ELSE "error", stack)
    /\ UNCHANGED <<sock, adds, wild>>

\* The end of a dispatch: its loop is done, or a receiver threw
\* StopPropagation.  onError() goes on to close the socket.
Done ==
    /\ stack # <<>> /\ ~wild
    /\ Head(stack).calling \/ Head(stack).cur = 0
    /\ IF Head(stack).ev = "error" THEN Close(Tail(stack))
       ELSE stack' = Tail(stack) /\ UNCHANGED <<sock, refs, dirty>>
    /\ UNCHANGED <<adds, wild>>

Next ==
    \/ Call \/ Return \/ Done \/ close \/ connect
    \/ \E r \in Receiver : addReceiver(r) \/ removeReceiver(r)
    \/ \E ok \in BOOLEAN : bind(ok) \/ onRecv(ok)

Spec == Init /\ [][Next]_vars

-----------------------------------------------------------------------------
(* Packets and their memory.  An allocation is a number; 0 is a null       *)
(* pointer and Wire the socket's own receive buffer, which is valid during *)
(* the callback only.                                                      *)

Wire == -1

NoPacket == [kind |-> "none", data |-> 0, own |-> FALSE, info |-> 0, made |-> FALSE]

New(s) == [s EXCEPT !.next = @ + 1, !.alive = @ \cup {s.next}]

Delete(s, a) ==
    IF a = 0 THEN s ELSE [s EXCEPT !.twice = @ \/ a \notin s.alive, !.alive = @ \ {a}]

\* The data a packet frees, if any: _free is set.
Owned(p) == IF p.own THEN p.data ELSE 0

\* RawPacket::copyData(): nothing happens without data.
CopyData(s, k, some) ==
    IF ~some THEN s
    ELSE LET d == Delete(s, Owned(s.pkts[k]))
         IN  [New(d) EXCEPT !.pkts[k].data = d.next, !.pkts[k].own = TRUE]

\* PacketInfo::clone()
CloneInfo(s, j, k) ==
    LET has == s.pkts[j].info # 0
        n == IF has THEN New(s) ELSE s
    IN  [n EXCEPT !.pkts[k].info = IF has THEN s.next ELSE 0]

\* A packet without data or info of its own.
FlagPacket(kind) == [NoPacket EXCEPT !.kind = kind, !.own = kind # "flag"]

\* The copy constructors.  A raw or socket packet copies the data, whoever
\* owns it, and clones the info; a stun::Message copies its attributes and
\* leaves its info behind.
MessageCopied(s, k) ==
    [New(s) EXCEPT !.pkts[k] = [FlagPacket("message") EXCEPT !.data = s.next]]

Copied(s, j, k) ==
    LET p == s.pkts[j]
        c == [s EXCEPT !.pkts[k] = FlagPacket(p.kind)]
    IN  IF p.kind = "message" THEN MessageCopied(s, k)
        ELSE CopyData(CloneInfo(c, j, k), k, p.data # 0)

\* ~RawPacket(), ~Message() and then ~IPacket()
Destroyed(s, k) ==
    LET p == s.pkts[k]
    IN  [Delete(Delete(s, Owned(p)), p.info) EXCEPT !.pkts[k] = NoPacket]

\* Assignment.  IPacket::operator= takes a clone of the other's info and
\* forgets its own, and RawPacket, which has no operator= of its own, then
\* takes the other's pointer and its flag.  stun::Message has its own.
Assigned(s, j, k) ==
    LET p == s.pkts[j]
        c == CloneInfo([s EXCEPT !.lost = @ \cup ({s.pkts[k].info} \ {0})], j, k)
    IN  IF p.kind = "message" THEN s
        ELSE [c EXCEPT !.pkts[k].data = p.data, !.pkts[k].own = p.own,
                       !.lost = @ \cup ({Owned(s.pkts[k])} \ {0}),
                       !.shared = @ \/ Owned(p) # 0]

\* The constructors: on the socket's buffer, on a copy of const data, on a
\* buffer whose ownership is then assigned, with a PacketInfo, and with
\* neither data nor info.
Made(s, k, kind) ==
    LET p == [FlagPacket(IF kind \in {"view", "copy", "given"} THEN "raw" ELSE kind) EXCEPT
                 !.own = kind \in {"copy", "given"}, !.made = TRUE]
        put(t, q) == [t EXCEPT !.pkts[k] = q]
    IN  CASE kind = "view"   -> put(s, [p EXCEPT !.data = Wire])
          [] kind = "copy"   -> CopyData(put(s, p), k, TRUE)
          [] kind = "given"  -> put(New(s), [p EXCEPT !.data = s.next])
          [] kind = "socket" -> put(New(s), [p EXCEPT !.data = Wire, !.info = s.next])
          [] kind = "flag"   -> put(s, p)

-----------------------------------------------------------------------------
(* PacketFactory: the types are sorted by falling priority; std::sort puts *)
(* equal ones in any order.                                                *)

compareProiroty(l, r) == l.prio > r.prio

Sorted(types) == \A i, j \in 1..Len(types) : compareProiroty(types[j], types[i]) => j < i

unregisterPacketType(types, t) == SelectSeq(types, LAMBDA x : x.type # t)

registerPacketType(types, t, prio) ==
    LET all == Append(unregisterPacketType(types, t), [type |-> t, prio |-> prio])
    IN  { s \in SetToSeqs(Range(all)) : Sorted(s) }

\* createPacket(): the first type whose read() takes the bytes makes the
\* packet; the others have deleted theirs.
createPacket(types, takes) == SelectSeq(types, LAMBDA x : x.type \in takes)

-----------------------------------------------------------------------------
(* The emitter and its application                                         *)

\* stun::Transaction registers stun::Message when it is made.
PkInit ==
    pk = [types |-> <<[type |-> CHOOSE t \in PacketType : TRUE, prio |-> 0]>>, at |-> "idle",
          pos |-> 0, end |-> 0,                     \* halves parsed, received
          reads |-> {0}, refused |-> {}, stops |-> {}, got |-> <<>>,
          pkts |-> [k \in Slot \cup {"cur"} |-> NoPacket],
          alive |-> {}, next |-> 1, twice |-> FALSE, lost |-> {}, shared |-> FALSE,
          out |-> <<>>, calls |-> 0]            \* out: writes libuv has queued

\* The application runs outside of the emitter, or in onPacket().
AppOnPackets == pk.at \in {"idle", "callback"} /\ pk.calls < MaxPacketCalls

Counted(s) == [s EXCEPT !.calls = @ + 1]

register(t, prio) ==
    /\ AppOnPackets
    /\ \E ts \in registerPacketType(pk.types, t, prio) : pk' = Counted([pk EXCEPT !.types = ts])

unregister(t) ==
    /\ AppOnPackets /\ \E i \in 1..Len(pk.types) : pk.types[i].type = t
    /\ pk' = Counted([pk EXCEPT !.types = unregisterPacketType(@, t)])

\* The socket's buffer is there in the callback only.
Make(k, kind) ==
    /\ AppOnPackets /\ pk.pkts[k] = NoPacket
    /\ kind \in {"view", "socket"} => pk.at = "callback"
    /\ pk' = Counted(Made(pk, k, kind))

clone(j, k) ==
    /\ AppOnPackets /\ pk.pkts[j].kind # "none" /\ pk.pkts[k] = NoPacket
    /\ pk.pkts[j].data = Wire => pk.at = "callback"
    /\ pk' = Counted(Copied(pk, j, k))

\* RawPacket::read(); a SocketPacket is write only and a flag packet reads
\* nothing.
read(k) ==
    /\ AppOnPackets /\ pk.pkts[k].kind = "raw"
    /\ pk' = Counted(CopyData(pk, k, TRUE))

assign(j, k) ==
    /\ AppOnPackets /\ j # k /\ pk.pkts[j].kind # "none" /\ pk.pkts[j].kind = pk.pkts[k].kind
    /\ pk' = Counted(Assigned(pk, j, k))

destroy(k) ==
    /\ AppOnPackets /\ pk.pkts[k].kind # "none"
    /\ pk' = Destroyed(pk, k)

\* SocketAdapter::sendPacket() down to uv_write() or uv_udp_send(), which refuse,
\* write at once or queue the pointer.  Raw packets are sent where they are, other
\* ones from a buffer that is gone when sendPacket() returns.
SendFrom(s, k) ==
    IF s.pkts[k].kind = "message" THEN [data |-> s.next, from |-> "temporary"]
    ELSE [data |-> s.pkts[k].data, from |-> k]

sendPacket(k, queued) ==
    /\ AppOnPackets /\ pk.pkts[k].data # 0
    /\ pk.pkts[k].data = Wire => pk.at = "callback"
    /\ LET w == SendFrom(pk, k)
           s == IF w.from = "temporary" THEN Delete(New(pk), w.data) ELSE pk
       IN  pk' = Counted([s EXCEPT !.out = IF queued THEN Append(@, w) ELSE @])

\* The loop has written what was queued first, and tells nobody.
Written ==
    /\ pk.at = "idle" /\ pk.out # <<>>
    /\ pk' = [pk EXCEPT !.out = Tail(@)]

\* PacketSocketEmitter::onSocketRecv() is called with what was read, from
\* the front of a message or not.
Recv(n) ==
    /\ pk.at = "idle" /\ pk.types # <<>> /\ pk.end + n <= 2 * MaxStream
    /\ pk' = [pk EXCEPT !.at = "loop", !.end = @ + n, !.reads = @ \cup {pk.end + n}]

\* One turn of its loop: a packet of the message at the front, with its
\* PacketInfo, is given to onPacket(); or nobody takes the bytes, and the rest
\* of what was read is dropped.
Parse(takes) ==
    /\ pk.at = "loop" /\ pk.pos < pk.end
    /\ LET m == pk.pos \div 2 + 1
           entire == pk.pos % 2 = 0 /\ pk.pos + 2 <= pk.end
       IN  IF entire /\ createPacket(pk.types, takes) # <<>>
           THEN pk' = [New(New(pk)) EXCEPT
                          !.at = "callback", !.got = Append(@, m),
                          !.pkts["cur"] = [kind |-> "message", data |-> pk.next, own |-> TRUE,
                                           info |-> pk.next + 1, made |-> TRUE]]
           ELSE pk' = [pk EXCEPT !.at = "idle", !.pos = pk.end,
                                 !.refused = IF entire THEN @ \cup {m} ELSE @]

LoopEnds ==
    /\ pk.at = "loop" /\ pk.pos = pk.end
    /\ pk' = [pk EXCEPT !.at = "idle"]

\* onPacket() returns: the packet is deleted.
Handled ==
    /\ pk.at = "callback"
    /\ pk' = [Destroyed(pk, "cur") EXCEPT !.at = "loop", !.pos = @ + 2]

\* net::Transaction::onPacket() throws StopPropagation when the packet is its
\* response: nobody deletes the packet, and the rest of what was read is dropped.
Stopped ==
    /\ pk.at = "callback"
    /\ pk' = [pk EXCEPT !.at = "idle", !.pos = pk.end, !.stops = @ \cup {pk.pos \div 2 + 1},
                        !.lost = @ \cup {pk.pkts["cur"].data, pk.pkts["cur"].info},
                        !.pkts["cur"] = NoPacket]

PkNext ==
    \/ \E t \in PacketType : unregister(t) \/ \E prio \in {0, 1} : register(t, prio)
    \/ \E k \in Slot :
        \/ \E kind \in {"view", "copy", "given", "socket", "flag"} : Make(k, kind)
        \/ \E j \in Slot : assign(j, k)
        \/ \E j \in Slot \cup {"cur"} : clone(j, k)
        \/ read(k) \/ destroy(k)
        \/ \E queued \in BOOLEAN : sendPacket(k, queued)
    \/ Written
    \/ \E n \in 1..4 : Recv(n)
    \/ \E takes \in SUBSET PacketType : Parse(takes)
    \/ LoopEnds \/ Handled \/ Stopped

-----------------------------------------------------------------------------
(* Properties                                                              *)

\* What a dispatch promises, whatever its callbacks do to the list or to the
\* socket, as long as no inner dispatch erases entries under it: each
\* receiver is called at most once, its index stays within the list, and a
\* dispatch that reaches the end has called all of those that were attached
\* when it began and stayed so.
ReceiversCalledOnce ==
    \A i \in 1..Len(stack) :
        LET f == stack[i] IN
        ~f.erased =>
            /\ IsInjective(f.called)
            /\ f.cur <= Len(refs)
            /\ f.cur = 0 => f.must \subseteq Range(f.called)
\* Packets and their memory, whatever is copied, read into, assigned and
\* destroyed and in whatever order (RawPacket::copyData, ~RawPacket, ~IPacket,
\* onSocketRecv).  Nothing is deleted twice; the data and the info a packet owns
\* are alive and its own; a copy never refers to the socket's buffer; and what is
\* alive belongs to a packet, or was lost where the code forgets it, by an
\* assignment or by StopPropagation.  A queued write of a raw packet reads living
\* memory as long as that packet keeps its data; one of a packet that generates its
\* bytes never does, which is an error of sendPacket().  Raw packets that own data are not to be
\* assigned: no claim is made after that.
PacketsOwned ==
    LET keeps(k) == {Owned(pk.pkts[k]), pk.pkts[k].info} \ {0}
    IN  ~pk.shared =>
            /\ ~pk.twice
            /\ pk.alive \ pk.lost = UNION { keeps(k) : k \in DOMAIN pk.pkts }
            /\ \A j, k \in DOMAIN pk.pkts : j # k => keeps(j) \cap keeps(k) = {}
            /\ \A i \in 1..Len(pk.out) :
                  LET w == pk.out[i] IN
                  IF w.from = "temporary" THEN w.data \notin pk.alive
                  ELSE w.data # Wire /\ w.data = pk.pkts[w.from].data => w.data \in pk.alive
            /\ \A k \in DOMAIN pk.pkts :
                  pk.pkts[k].data = Wire /\ pk.lost = {} => pk.pkts[k].made

\* What the emitter makes of a stream (onSocketRecv, createPacket): packets are
\* emitted in order, none twice, and a message that was received is emitted
\* unless nobody took it, a read ended inside it, or what was read from its
\* front on began in the middle of a message, or followed one nobody took or one
\* at which propagation was stopped.
PacketsInOrder ==
    LET first(m) == CHOOSE b \in pk.reads :          \* where the read of m's front began
                        b <= 2*m - 2 /\ \A c \in pk.reads : c <= 2*m - 2 => c <= b
    IN  /\ \A i, j \in 1..Len(pk.got) : i < j => pk.got[i] < pk.got[j]
        /\ Sorted(pk.types) /\ \A i, j \in 1..Len(pk.types) : pk.types[i].type = pk.types[j].type => i = j
        /\ \A m \in 1..(pk.pos \div 2) :
              \/ m \in Range(pk.got) \cup pk.refused
              \/ 2*m - 1 \in pk.reads \/ first(m) % 2 = 1
              \/ \E n \in pk.refused \cup pk.stops : n < m /\ first(m) <= 2*n - 2
=============================================================================

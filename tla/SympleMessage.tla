--------------------------- MODULE SympleMessage ---------------------------
(***************************************************************************)
(* What Symple clients send each other (symple/src/message.cpp, address,   *)
(* peer, event, presence, command and form), as the socket.io packets it   *)
(* travels in (socketio/src/packet.cpp), built with NDEBUG.                *)
(*                                                                         *)
(* Part 1: an application composes a message and sends it; the server,     *)
(* which this repository does not contain, passes it to the other client,  *)
(* which parses the packet, hands the message to its application and       *)
(* answers presence probes and commands by itself.                         *)
(* Part 2: a form is a tree of JSON values in which FormElement and        *)
(* FormField are raw pointers.  An element lives in a slot of the vector   *)
(* of its parent's "elements": growing the vector moves its elements, but  *)
(* not what they own.                                                      *)
(***************************************************************************)
EXTENDS Integers, Sequences, FiniteSets, TLC

CONSTANTS
    Party,        \* the two clients
    Null,         \* the JSON value null
    Datum,        \* names of data members
    MaxEdits,     \* bound on what is done to the messages before they are sent
    MaxSends,     \* bound on the messages composed
    FieldId,      \* identifiers of form elements; "id" may be one of them
    MaxElements,  \* bound on the elements ever added to a form
    MaxFormCalls  \* bound on the calls made on forms

VARIABLES
    draft,        \* the message a client is composing, and what is meant by it
    wire,         \* per client: the packets on their way to it
    got,          \* per client: the messages handed to its application
    sent,         \* auxiliary: all messages sent
    tree          \* the form, and the elements the application holds

msgvars == <<draft, wire, got, sent>>
treevars == <<tree>>

Kind == {"message", "event", "presence", "command"}
Other(c) == CHOOSE d \in Party : d # c

\* JSON objects are functions.
Put(m, k, v) == (k :> v) @@ m
Value(m, k, default) == IF k \in DOMAIN m THEN m[k] ELSE default

-----------------------------------------------------------------------------
(* Addresses: user|id.  A text is a sequence of names and bars.            *)

Address(user, id) == [user |-> user, id |-> id]

toString(a) ==
    (IF a.user # "" THEN <<a.user>> ELSE <<>>)
        \o (IF a.id # "" THEN <<"|", a.id>> ELSE <<>>)

\* util::split(addr, '|') and the first two pieces of it.
parse(text) ==
    LET bars == {i \in DOMAIN text : text[i] = "|"}
        piece(i) == IF i \in DOMAIN text /\ text[i] # "|" THEN text[i] ELSE ""
        first == CHOOSE i \in bars : \A j \in bars : i <= j
    IN  IF bars = {} THEN Address(piece(1), "")
        ELSE Address(IF first = 1 THEN "" ELSE piece(1), piece(first + 1))

\* Peer::address(): the user and the session of a client.
OurPeer(c) == Address(c, c)

-----------------------------------------------------------------------------
(* Messages.                                                               *)

\* Message(json): an id and a type are filled in; the other constructors
\* overwrite the type, and an Event gets a time.
Message(root, fresh) ==
    LET m == IF "id" \in DOMAIN root THEN root ELSE Put(root, "id", fresh)
    IN  IF "type" \in DOMAIN m THEN m ELSE Put(m, "type", "message")

Event(root, fresh) ==
    LET m == Put(Message(root, fresh), "type", "event")
    IN  IF "time" \in DOMAIN m THEN m ELSE Put(m, "time", 0)

Presence(root, fresh) == Put(Message(root, fresh), "type", "presence")

Command(root, fresh) == Put(Message(root, fresh), "type", "command")

Typed(kind, root, fresh) ==
    CASE kind = "event" -> Event(root, fresh)
      [] kind = "presence" -> Presence(root, fresh)
      [] kind = "command" -> Command(root, fresh)
      [] OTHER -> Message(root, fresh)

validEvent(m) == "name" \in DOMAIN m
validCommand(m) == "node" \in DOMAIN m

valid(m) ==
    /\ {"type", "id"} \subseteq DOMAIN m
    /\ m.type = "event" => validEvent(m)
    /\ m.type = "command" => validCommand(m)

to(m) == parse(Value(m, "to", <<>>))
from(m) == parse(Value(m, "from", <<>>))
isRequest(m) == "status" \notin DOMAIN m
setStatus(m, code) == Put(m, "status", code)

isProbe(m) == Value(m, "probe", FALSE)
setProbe(m, flag) == Put(m, "probe", flag)

\* (*this)["data"]: looking at a member creates it.
Touch(m, k) == IF k \in DOMAIN m THEN m ELSE Put(m, k, Null)
IsNull(m, k) == Touch(m, k)[k] = Null

setData(m, k) == Put(m, "data", IF IsNull(m, "data") THEN k :> k ELSE Put(m.data, k, k))
hasData(m, k) == ~IsNull(m, "data") /\ k \in DOMAIN m.data

\* Erasing from null throws, when "data" has been created.
removeData(m, k) ==
    IF IsNull(m, "data") THEN Touch(m, "data")
    ELSE Put(m, "data", [j \in DOMAIN m.data \ {k} |-> m.data[j]])

\* clear() leaves null null.
clearData(m) == IF IsNull(m, "data") THEN Touch(m, "data") ELSE Put(m, "data", <<>>)
clearNotes(m) == IF IsNull(m, "notes") THEN Touch(m, "notes") ELSE Put(m, "notes", <<>>)

addNote(m, n) == Put(m, "notes", IF IsNull(m, "notes") THEN <<n>> ELSE Append(m.notes, n))
setNote(m, n) == addNote(clearNotes(m), n)

-----------------------------------------------------------------------------
(* socket.io packets.  The text is a frame digit, a type digit, the id and *)
(* JSON; NoId stands for no digits.                                        *)

NoId == -1
Packet(id, event, message) ==
    [frame |-> 4, type |-> 2, id |-> id, nsp |-> "/", event |-> event, message |-> message]

\* print(): the namespace is not written, and only events have JSON.
print(p) ==
    [ frame |-> p.frame, type |-> p.type, id |-> p.id,
      json |-> IF p.type = 2 THEN <<IF p.event = "" THEN "message" ELSE p.event, p.message>>
               ELSE <<>> ]

\* read(): frames other than Message have no type; an array of one has no
\* event of its own.
readPacket(t) ==
    [ frame |-> t.frame, type |-> IF t.frame = 4 THEN t.type ELSE NoId,
      id |-> t.id, nsp |-> "/",
      event |-> IF Len(t.json) > 1 THEN t.json[1] ELSE "message",
      message |-> IF Len(t.json) > 1 THEN t.json[2]
                  ELSE IF t.json # <<>> THEN t.json[1] ELSE Null ]

-----------------------------------------------------------------------------
(* Sending and receiving.                                                  *)

Canonical(m) ==
    [ data |-> IF IsNull(m, "data") THEN {} ELSE DOMAIN m.data,
      notes |-> IF IsNull(m, "notes") THEN <<>> ELSE m.notes,
      to |-> to(m) ]

NoDraft(edits) == [msg |-> <<>>, edits |-> edits, by |-> "", kind |-> "message",
            meant |-> [data |-> {}, notes |-> <<>>, to |-> Address("", "")]]

\* assertCanSend(): from is ours, and nobody writes to himself.
CanSend(c, m) ==
    /\ to(m).id # OurPeer(c).id
    /\ valid(m)

From(c, m) == Put(m, "from", toString(OurPeer(c)))

\* The server passes an event on without the packet's id, to the client it is for.
Route(c, m) ==
    IF to(m).id \in {"", Other(c)} /\ to(m).user \in {"", Other(c)}
    THEN << [print(Packet(1, "message", m)) EXCEPT !.id = NoId] >>
    ELSE <<>>

\* Client::send() of a message, or of none: what goes out, and what of it arrives.
\* One that cannot be sent throws.
Deliver(c, ms) ==
    LET out == [i \in DOMAIN ms |-> From(c, ms[i])]
    IN  IF ms = <<>> \/ ~CanSend(c, out[1]) THEN <<<<>>, <<>>>> ELSE <<Route(c, out[1]), out>>

setTo(m, a) == Put(m, "to", toString(a))

respondTo(m) == setTo(m, from(m))

\* createPresence() and sendPresence(to, probe).
presence(c, probe, fresh) ==
    setProbe(Put(Presence(<<>>, fresh), "data", "id" :> c), probe)

Compose(c, kind) ==
    /\ draft.by = "" /\ Len(sent) < MaxSends
    /\ LET m == IF kind = "presence" THEN presence(c, TRUE, <<c, Len(sent)>>)
                ELSE Typed(kind, <<>>, <<c, Len(sent)>>)
       IN  draft' = [draft EXCEPT !.msg = m, !.by = c, !.kind = kind, !.meant.data = Canonical(m).data]
    /\ UNCHANGED <<wire, got, sent>>

Edited(c, m, meant) ==
    /\ draft.by = c /\ draft.edits < MaxEdits
    /\ draft' = [draft EXCEPT !.msg = m, !.meant = meant, !.edits = @ + 1]
    /\ UNCHANGED <<wire, got, sent>>

EditTo(c) ==
    \E a \in {OurPeer(c), OurPeer(Other(c)), Address(Other(c), ""), Address("", Other(c))} :
        Edited(c, setTo(draft.msg, a), [draft.meant EXCEPT !.to = a])

EditData(c, k) ==
    LET m == draft.msg
        w == draft.meant
    IN  \/ Edited(c, setData(m, k), [w EXCEPT !.data = @ \cup {k}])
        \/ Edited(c, removeData(m, k), [w EXCEPT !.data = @ \ {k}])
        \/ Edited(c, clearData(m), [w EXCEPT !.data = {}])
        \/ Edited(c, Touch(m, "data"), w)

EditNotes(c, n) ==
    LET m == draft.msg
        w == draft.meant
    IN  \/ Edited(c, addNote(m, n), [w EXCEPT !.notes = Append(@, n)])
        \/ Edited(c, setNote(m, n), [w EXCEPT !.notes = <<n>>])
        \/ Edited(c, clearNotes(m), [w EXCEPT !.notes = <<>>])

\* setName() of an event, setNode() of a command: without them they are not valid.
EditNode(c) ==
    /\ draft.kind \in {"event", "command"}
    /\ Edited(c, Put(draft.msg, IF draft.kind = "event" THEN "name" ELSE "node", "n"),
              draft.meant)

Send(c) ==
    /\ draft.by = c
    /\ LET d == Deliver(c, <<draft.msg>>)
       IN  /\ wire' = [wire EXCEPT ![Other(c)] = @ \o d[1]]
           /\ sent' = sent \o d[2]
    /\ draft' = NoDraft(draft.edits)
    /\ UNCHANGED got

\* Client::emit(): the message as its kind; others are taken for messages.
\* Applications may answer a command inside their slot.
Receive(c) ==
    /\ wire[c] # <<>>
    /\ LET p == readPacket(Head(wire[c]))
           m == Typed(p.message.type, p.message, <<c, Len(sent), "new">>)
           answer(s) == respondTo(setStatus(m, s))
           probed == m.type = "presence" /\ "data" \in DOMAIN m /\ isProbe(m)
           replies(inSlot) ==
               IF ~valid(m) THEN <<>>
               ELSE IF probed
               THEN <<setTo(presence(c, FALSE, <<c, Len(sent), "reply">>), from(m))>>
               ELSE IF m.type = "command" /\ isRequest(m)
               THEN <<answer(IF inSlot THEN 200 ELSE 404)>>
               ELSE <<>>
       IN  \E inSlot \in (IF m.type = "command" /\ isRequest(m) THEN BOOLEAN ELSE {FALSE}) :
               LET d == Deliver(c, replies(inSlot))
               IN  /\ wire' = [wire EXCEPT ![c] = Tail(@), ![Other(c)] = @ \o d[1]]
                   /\ sent' = sent \o d[2]
           /\ got' = [got EXCEPT ![c] = IF valid(m) THEN Append(@, m) ELSE @]
    /\ UNCHANGED draft

MsgInit ==
    /\ draft = NoDraft(0)
    /\ wire = [c \in Party |-> <<>>]
    /\ got = [c \in Party |-> <<>>]
    /\ sent = <<>>

MsgNext ==
    \E c \in Party :
        \/ \E kind \in Kind : Compose(c, kind)
        \/ EditTo(c) \/ EditNode(c) \/ \E k \in Datum : EditData(c, k) \/ EditNotes(c, k)
        \/ Send(c) \/ Receive(c)

-----------------------------------------------------------------------------
(* Forms.                                                                  *)

Root == [vec |-> 1, slot |-> 1, born |-> 0]
Element(id, born) == [id |-> id, kids |-> 0, values |-> <<>>, error |-> FALSE, born |-> born]

\* copied: vectors were replaced by copies.  want: the values each element was given,
\* and whether it was asked for one before.
TreeInit ==
    tree = [ vec |-> 1 :> <<Element("", 0)>>, next |-> 2, born |-> 0, calls |-> 0,
             handles |-> {Root}, copied |-> FALSE, want |-> 0 :> <<>>, early |-> {} ]

Alive(h) == h.vec \in DOMAIN tree.vec
At(h) == tree.vec[h.vec][h.slot]

\* The vectors that element e owns, directly or through its own elements.
RECURSIVE Owned(_)
Owned(e) ==
    IF e.kids = 0 THEN {}
    ELSE {e.kids} \cup UNION {Owned(tree.vec[e.kids][i]) : i \in DOMAIN tree.vec[e.kids]}

Without(v, gone) == [w \in DOMAIN v \ gone |-> v[w]]

\* std::vector doubles its capacity, and then moves its elements.
Full(n) == n \in {1, 2, 4, 8}

Call(h) == h \in tree.handles /\ Alive(h) /\ tree.calls < MaxFormCalls

Change(h, e) ==
    tree' = [tree EXCEPT !.vec[h.vec][h.slot] = e, !.calls = @ + 1]

\* addPage(), addSection(), addField().
addElement(h, id) ==
    /\ Call(h) /\ tree.born < MaxElements
    /\ LET b == tree.born + 1
           old == At(h).kids
           kids == IF old = 0 THEN <<Element(id, b)>> ELSE Append(tree.vec[old], Element(id, b))
           moves == old = 0 \/ Full(Len(tree.vec[old]))
           v == IF moves THEN tree.next ELSE old
           owner == [tree.vec EXCEPT ![h.vec][h.slot].kids = v]
       IN  tree' = [tree EXCEPT
               !.vec = (v :> kids) @@ Without(owner, IF moves THEN {old} ELSE {}),
               !.next = IF moves THEN @ + 1 ELSE @,
               !.handles = @ \cup {[vec |-> v, slot |-> Len(kids), born |-> b]},
               !.want = (b :> <<>>) @@ @, !.born = b, !.calls = @ + 1]

\* An empty id is part of every id.
Matches(cur, id, partial) == IF partial THEN id \in {"", cur} ELSE cur = id

\* The elements that do not match are copied, with all they own.  An element without
\* an id throws, before anything is changed.
clearElements(h, id, partial) ==
    /\ Call(h) /\ At(h).kids # 0
    /\ LET e == At(h)
           kids == tree.vec[e.kids]
           kept == SelectSeq(kids, LAMBDA k : ~Matches(k.id, id, partial))
           moved(v) == IF v = 0 THEN 0 ELSE v + tree.next
           copy(ks) == [i \in DOMAIN ks |-> [ks[i] EXCEPT !.kids = moved(@)]]
           below == UNION {Owned(kept[i]) : i \in DOMAIN kept}
           copies == [v \in {moved(w) : w \in below} |-> copy(tree.vec[v - tree.next])]
           rest == [Without(tree.vec, Owned(e)) EXCEPT
                       ![h.vec][h.slot].kids = IF kept = <<>> THEN 0 ELSE moved(e.kids)]
       IN  IF \E i \in DOMAIN kids : kids[i].id = "" THEN Change(h, e)
           ELSE tree' = [tree EXCEPT
                    !.vec = (IF kept = <<>> THEN <<>> ELSE moved(e.kids) :> copy(kept)) @@ copies @@ rest,
                    !.next = 2 * @, !.copied = TRUE, !.calls = @ + 1]

\* FormElement::clear().
clear(h) ==
    /\ Call(h)
    /\ tree' = [tree EXCEPT
           !.vec = [Without(@, Owned(At(h))) EXCEPT ![h.vec][h.slot] = Element("", h.born)],
           !.want[h.born] = <<>>, !.early = @ \ {h.born}, !.calls = @ + 1]

setError(h) == Call(h) /\ Change(h, [At(h) EXCEPT !.error = TRUE])

setValue(h) ==
    /\ Call(h)
    /\ tree' = [tree EXCEPT !.vec[h.vec][h.slot].values = <<tree.calls>>,
                            !.want[h.born] = <<tree.calls>>,
                            !.early = @ \ {h.born}, !.calls = @ + 1]

addValue(h) ==
    /\ Call(h)
    /\ tree' = [tree EXCEPT !.vec[h.vec][h.slot].values = Append(@, tree.calls),
                            !.want[h.born] = Append(@, tree.calls), !.calls = @ + 1]

\* value(): asking for the first value of a field that has none throws, and leaves null there.
value(h) ==
    /\ Call(h)
    /\ tree' = [tree EXCEPT !.vec[h.vec][h.slot].values = IF @ = <<>> THEN <<Null>> ELSE @,
                            !.early = IF At(h).values = <<>> THEN @ \cup {h.born} ELSE @,
                            !.calls = @ + 1]

\* json::hasNestedKey(): an element has members that are strings, and the search in a
\* string never ends.  So it sees only the first of the elements, and of theirs.
RECURSIVE hasErrors(_)
hasErrors(e) ==
    IF e.kids = 0 THEN "overflow"
    ELSE LET k == tree.vec[e.kids][1] IN IF k.error THEN "yes" ELSE hasErrors(k)

\* json::findNestedObjectWithProperty() compares a member's value with the key: only an
\* element whose id is "id" can be found.
hasField(e, id) ==
    id = "id" /\ (e.id = id \/ \E v \in Owned(e) : \E i \in DOMAIN tree.vec[v] : tree.vec[v][i].id = id)

TreeNext ==
    \E h \in tree.handles :
        \/ \E id \in FieldId : \/ addElement(h, id)
                               \/ \E partial \in BOOLEAN : clearElements(h, id, partial)
        \/ clear(h) \/ setError(h) \/ setValue(h) \/ addValue(h) \/ value(h)

-----------------------------------------------------------------------------
(* Messages are delivered as they were meant: a message holds what its     *)
(* setters were given, however its members came to be (setData,            *)
(* removeData, hasData, setNote); applications get the messages of the     *)
(* other client whole, once and in order (Packet::print and read, emit);   *)
(* and a command is answered exactly once, to its sender and with its id,  *)
(* whether or not the application answers it (respond, isRequest).         *)
MessagesAsMeant ==
    /\ draft.by # "" => Canonical(draft.msg) = draft.meant
    /\ \A c \in Party :
           LET mine == SelectSeq(sent, LAMBDA m : from(m) = OurPeer(Other(c)) /\ Route(Other(c), m) # <<>>)
           IN  /\ Len(got[c]) <= Len(mine)
               /\ got[c] = SubSeq(mine, 1, Len(got[c]))
    /\ \A c \in Party : \A i \in DOMAIN got[c] :
           LET m == got[c][i]
           IN  m.type = "command" /\ isRequest(m) =>
                   Cardinality({k \in DOMAIN sent : /\ sent[k].id = m.id /\ ~isRequest(sent[k])
                                                    /\ to(sent[k]) = from(m)}) = 1

(* Forms hold together: an element that may be used is the one it was      *)
(* returned for, the last one added to its parent may always be used       *)
(* unless its form was copied (addElement, clearElements); every vector    *)
(* has one owner; a field has the values it was given, in order, and the   *)
(* first one is read unless it was asked for too early (setValue, value);  *)
(* and errors and fields that are found are there (hasErrors, hasField).   *)
FormHolds ==
    /\ \A h \in tree.handles : Alive(h) => At(h).born = h.born
    /\ \A v \in DOMAIN tree.vec :
           /\ ~tree.copied => \E h \in tree.handles : h.vec = v /\ h.slot = Len(tree.vec[v])
           /\ v # 1 => Cardinality({o \in UNION {{w} \X DOMAIN tree.vec[w] : w \in DOMAIN tree.vec} :
                                       tree.vec[o[1]][o[2]].kids = v}) = 1
           /\ \A i \in DOMAIN tree.vec[v] :
                  LET e == tree.vec[v][i]
                  IN  e.values = (IF e.born \in tree.early THEN <<Null>> ELSE <<>>) \o tree.want[e.born]
    /\ LET all == UNION {{tree.vec[v][i] : i \in DOMAIN tree.vec[v]} : v \in DOMAIN tree.vec}
       IN  /\ hasErrors(tree.vec[1][1]) = "yes" => \E e \in all : e.error
           /\ \A id \in FieldId : hasField(tree.vec[1][1], id) => \E e \in all : e.id = id
=============================================================================

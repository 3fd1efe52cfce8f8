---------------------------- MODULE StunMessage ----------------------------
(***************************************************************************)
(* STUN messages (stun/src/message.cpp, attributes.cpp) and the bit reader *)
(* and writer they are coded with (base/src/buffer.cpp).  A message is     *)
(* built one attribute at a time; in every state it is written to bytes    *)
(* and read back.  Types and lengths are below 256.                        *)
(***************************************************************************)
EXTENDS Integers, Sequences, SequencesExt

CONSTANTS
    MaxAttrs,   \* bound on the attributes of a message
    Kinds       \* the kinds of attributes that are added

VARIABLES
    attrs,      \* _attrs
    size        \* _size

mvars == <<attrs, size>>

kMessageHeaderSize == 20
kAttributeHeaderSize == 4

\* One type for each class of attributes; "channel" is a type that create()
\* does not make an attribute of.
TypeID == [string |-> 6, error |-> 9, u32 |-> 13, address |-> 22, u64 |-> 42,
           flag |-> 37, integrity |-> 8, channel |-> 12]

\* Attributes: bytes of a string, a code and its reason, an address.
Attr(k, v) == [kind |-> k, val |-> v]

Values(k) ==
    CASE k = "string"    -> {<<>>, <<7>>, <<7, 8, 9>>, <<7, 8, 9, 10>>}
      [] k = "error"     -> {<<4, 1>>, <<4, 38, 7>>, <<4, 38, 7, 8, 9, 10, 11>>}
      [] k = "u32"       -> {<<0, 0, 2, 88>>}
      [] k = "channel"   -> {<<64, 0, 0, 0>>}
      [] k = "u64"       -> {<<1, 2, 3, 4, 5, 6, 7, 8>>}
      [] k = "address"   -> {<<21, 179, 127, 0, 0, 1>>}
      [] k = "flag"      -> {<<>>}
      [] k = "integrity" -> {<<1>>, <<2>>}

MInit == attrs = <<>> /\ size = 0

-----------------------------------------------------------------------------
(* Faulty variants, used to show that the properties can fail.             *)

UnpaddedSize(n) == n

-----------------------------------------------------------------------------
(* Writing                                                                 *)

\* Attribute::size()
attrSize(a) ==
    CASE a.kind \in {"string", "u32", "u64", "flag", "channel"} -> Len(a.val)
      [] a.kind = "error" -> 2 + Len(a.val)
      [] a.kind = "address" -> 8
      [] a.kind = "integrity" -> 20

\* What message::add() counts for an attribute.
Padded(n) == IF n % 4 # 0 THEN n + 4 - (n % 4) ELSE n

writePadding(n) == IF n % 4 = 0 THEN <<>> ELSE [i \in 1..(4 - (n % 4)) |-> 0]

\* XOR with the magic cookie, an involution on bytes.
Xor(b) == 255 - b

XorAll(s) == [i \in 1..Len(s) |-> Xor(s[i])]

\* computeHMAC(): a hash of the key and of all the bytes before the attribute.
Hmac(key, input) == FoldLeft(LAMBDA h, b : (h * 31 + b + 1) % 65521, key, input)

HmacBytes(key, input) ==
    LET h == Hmac(key, input) IN [i \in 1..20 |-> IF i % 2 = 1 THEN h \div 256 ELSE h % 256]

\* write() of one attribute, after the bytes before it.
writeAttr(before, a) ==
    CASE a.kind \in {"u32", "u64", "flag", "channel"} -> a.val
      [] a.kind = "string" -> a.val \o writePadding(Len(a.val))
      [] a.kind = "error" -> <<0, 0>> \o a.val \o writePadding(2 + Len(a.val))
      [] a.kind = "address" -> <<0, 1>> \o XorAll(a.val)
      [] a.kind = "integrity" -> HmacBytes(a.val[1], before)

Header == <<0, 1, 0, size>> \o [i \in 1..16 |-> i]

write ==
    FoldLeft(LAMBDA buf, a : buf \o <<0, TypeID[a.kind], 0, attrSize(a)>> \o writeAttr(buf, a),
             Header, attrs)

-----------------------------------------------------------------------------
(* Reading                                                                 *)

Take(buf, pos, n) == SubSeq(buf, pos + 1, pos + n)

Enough(buf, pos, n) == pos + n <= Len(buf)

\* Attribute::create()
KindOf(type, len) ==
    LET known == {k \in DOMAIN TypeID :
                    /\ TypeID[k] = type /\ k # "channel"
                    /\ k \in {"u32", "u64", "address", "flag", "integrity"} =>
                           len = [u32 |-> 4, u64 |-> 8, address |-> 8, flag |-> 0, integrity |-> 20][k]
                    /\ k = "error" => len >= 4}
    IN  IF known = {} THEN "unknown" ELSE CHOOSE k \in known : TRUE

reasonLength(n) == n - 4

\* The bytes consumePadding() skips.
consumePadding(n) == IF n % 4 = 0 THEN 0 ELSE 4 - (n % 4)

\* read() of an attribute at pos: the attribute and the new position.  An
\* integrity attribute keeps its bytes and the input it will be verified with.
readAttr(buf, pos, k, len) ==
    CASE k \in {"u32", "u64", "flag"} -> [attr |-> Attr(k, Take(buf, pos, len)), pos |-> pos + len]
      [] k = "string" ->
            [attr |-> Attr(k, Take(buf, pos, len)), pos |-> pos + len + consumePadding(len)]
      [] k = "error" ->
            [attr |-> Attr(k, Take(buf, pos + 2, 2) \o Take(buf, pos + 4, reasonLength(len))),
             pos  |-> pos + 4 + reasonLength(len) + consumePadding(len)]
      [] k = "address" -> [attr |-> Attr(k, XorAll(Take(buf, pos + 2, 6))), pos |-> pos + 8]
      [] k = "integrity" ->
            [attr |-> [kind |-> k, val |-> Take(buf, pos, 20),
                       input |-> Take(buf, 0, pos - kAttributeHeaderSize)], pos |-> pos + 20]

\* The loop of read(): an attribute that cannot be created is counted, but
\* its bytes are not skipped.
RECURSIVE readAttrs(_, _, _, _)
readAttrs(buf, pos, rest, got) ==
    IF rest <= 0 THEN [ok |-> TRUE, attrs |-> got, pos |-> pos]
    ELSE IF ~Enough(buf, pos, 4) THEN [ok |-> FALSE, attrs |-> got, pos |-> pos]
    ELSE LET len == buf[pos + 4]
             k   == KindOf(buf[pos + 2], len)
             at  == pos + kAttributeHeaderSize
             r   == readAttr(buf, at, k, len)
         IN  IF k = "unknown"
             THEN readAttrs(buf, at, rest - Padded(len) - kAttributeHeaderSize, got)
             ELSE IF ~Enough(buf, at, len) THEN [ok |-> FALSE, attrs |-> got, pos |-> at]
             ELSE readAttrs(buf, r.pos, rest - Padded(len) - kAttributeHeaderSize, Append(got, r.attr))

read(buf) ==
    IF buf[4] > Len(buf) THEN [ok |-> FALSE, attrs |-> <<>>, pos |-> 0]
    ELSE readAttrs(buf, kMessageHeaderSize, buf[4], <<>>)

verifyHmac(a, key) == a.val = HmacBytes(key, a.input)

-----------------------------------------------------------------------------

\* Message::add().  "MessageIntegrity must be at the end".
Add(a) ==
    /\ Len(attrs) < MaxAttrs
    /\ attrs # <<>> => Last(attrs).kind # "integrity"
    /\ attrs' = Append(attrs, a)
    /\ size' = size + Padded(attrSize(a)) + kAttributeHeaderSize

MNext == \E k \in Kinds : \E v \in Values(k) : Add(Attr(k, v))

MSpec == MInit /\ [][MNext]_mvars

-----------------------------------------------------------------------------
(* Properties                                                              *)

\* A message reads back as it was built: add(), write() and read() each
\* count padding in their own way and agree, and the integrity attribute
\* verifies with the key it was written with and with no other.
StunReadsBack ==
    LET r == read(write) IN
    /\ r.ok /\ r.pos = size + kMessageHeaderSize
    /\ Len(r.attrs) = Len(attrs)
    /\ \A i \in 1..Len(attrs) :
          IF attrs[i].kind = "integrity"
          THEN \A key \in {1, 2} : verifyHmac(r.attrs[i], key) <=> key = attrs[i].val[1]
          ELSE r.attrs[i] = attrs[i]
=============================================================================

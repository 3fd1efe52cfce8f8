----------------------------- MODULE Encodings -----------------------------
(***************************************************************************)
(* The streaming base64 and hex coders (base/src/base64.cpp, base64.h,     *)
(* hex.h).  The text is coded and decoded in blocks that end anywhere, so  *)
(* both sides keep what is left of a group between two calls.  A code      *)
(* character is the number it stands for, and what decode_value() makes of *)
(* a line feed or a pad is negative.  The buffers of numbers follow.       *)
(***************************************************************************)
EXTENDS Integers, Sequences, SequencesExt

CONSTANTS
    Byte,       \* the bytes that texts are made of
    MaxText,    \* the length of the longest text
    LineLength, \* the line length of the encoders
    Width,      \* the widths in bytes of the numbers written
    BufLimit,   \* the capacity of the buffer
    MaxItems,   \* bound: numbers written
    MaxLine     \* bound: characters of a text

VARIABLES
    codec,      \* "base64" or "hex"
    text,       \* the plain text
    enc,        \* the encoder: bytes taken, state, characters written
    dec,        \* the decoder: characters taken, state, bytes written
    bw,         \* the writer: bytes, position, limit, order, whether it grows
    bitems,     \* auxiliary: the numbers in the buffer, with their positions
    br,         \* the reader of the buffer: position, numbers read
    tr          \* the reader of a text: the text, position, what it has read

evars == <<codec, text, enc, dec>>

NL == -1
Pad == -2

EInit ==
    /\ codec \in {"base64", "hex"}
    /\ text \in UNION {[1..n -> Byte] : n \in 0..MaxText}
    /\ enc = [pos |-> 0, step |-> "A", result |-> 0, line |-> 0, out |-> <<>>, done |-> FALSE]
    /\ dec = [pos |-> 0, step |-> "a", held |-> 0, out |-> <<>>]

-----------------------------------------------------------------------------
(* base64                                                                  *)

\* A line feed after linelength / 4 groups.
EndGroup(e) ==
    IF e.line + 1 = LineLength \div 4
    THEN [e EXCEPT !.line = 0, !.out = Append(@, NL)] ELSE [e EXCEPT !.line = @ + 1]

\* One byte of encode_block().
encode_byte(e, b) ==
    CASE e.step = "A" -> [e EXCEPT !.out = Append(@, b \div 4), !.result = (b % 4) * 16, !.step = "B"]
      [] e.step = "B" -> [e EXCEPT !.out = Append(@, e.result + b \div 16),
                                   !.result = (b % 16) * 4, !.step = "C"]
      [] e.step = "C" -> EndGroup([e EXCEPT !.out = @ \o <<e.result + b \div 64, b % 64>>, !.step = "A"])

\* The state that encode_block() keeps when its block ends.
Suspend(e) == e

encode_blockend(e) ==
    [e EXCEPT !.done = TRUE,
              !.out = @ \o CASE e.step = "A" -> <<>>
                             [] e.step = "B" -> <<e.result, Pad, Pad>>
                             [] e.step = "C" -> <<e.result, Pad>>]

\* One character of decode_block(): what is no code is skipped.
decode_char(d, c) ==
    IF c \in {NL, Pad} THEN d
    ELSE CASE d.step = "a" -> [d EXCEPT !.held = (c % 64) * 4, !.step = "b"]
           [] d.step = "b" -> [d EXCEPT !.out = Append(@, d.held + c \div 16),
                                        !.held = (c % 16) * 16, !.step = "c"]
           [] d.step = "c" -> [d EXCEPT !.out = Append(@, d.held + c \div 4),
                                        !.held = (c % 4) * 64, !.step = "d"]
           [] d.step = "d" -> [d EXCEPT !.out = Append(@, d.held + c), !.step = "a"]

-----------------------------------------------------------------------------
(* hex                                                                     *)

hex_encode_byte(e, b) ==
    LET f == [e EXCEPT !.out = @ \o <<b \div 16, b % 16>>] IN
    IF e.line + 2 >= LineLength THEN [f EXCEPT !.line = 0, !.out = Append(@, NL)]
    ELSE [f EXCEPT !.line = @ + 2]

\* The character a block ends with in the middle of a byte is kept for the
\* next decode().
KeepLastByte(d, c) == [d EXCEPT !.step = "b", !.held = c]

hex_decode_char(d, c) ==
    IF c = NL THEN d
    ELSE IF d.step = "a" THEN KeepLastByte(d, c)
    ELSE [d EXCEPT !.out = Append(@, d.held * 16 + c), !.step = "a"]

-----------------------------------------------------------------------------
(* Blocks                                                                  *)

Block(s, from, n) == SubSeq(s, from + 1, from + n)

\* encode(inbuf, nread, outbuf)
Encode(n) ==
    /\ ~enc.done /\ n \in 1..(Len(text) - enc.pos)
    /\ LET op(e, b) == IF codec = "base64" THEN encode_byte(e, b) ELSE hex_encode_byte(e, b) IN
       enc' = Suspend(FoldLeft(op, [enc EXCEPT !.pos = @ + n], Block(text, enc.pos, n)))
    /\ UNCHANGED <<codec, text, dec>>

\* finalize(outbuf)
Finalize ==
    /\ ~enc.done /\ enc.pos = Len(text)
    /\ enc' = IF codec = "base64" THEN encode_blockend(enc) ELSE [enc EXCEPT !.done = TRUE]
    /\ UNCHANGED <<codec, text, dec>>

\* decode(inbuf, nread, outbuf)
Decode(n) ==
    /\ n \in 1..(Len(enc.out) - dec.pos)
    /\ LET op(d, c) == IF codec = "base64" THEN decode_char(d, c) ELSE hex_decode_char(d, c) IN
       dec' = FoldLeft(op, [dec EXCEPT !.pos = @ + n], Block(enc.out, dec.pos, n))
    /\ UNCHANGED <<codec, text, enc>>

ENext ==
    \/ \E n \in 1..MaxText : Encode(n)
    \/ \E n \in 1..(2 * MaxText + 3) : Decode(n)
    \/ Finalize

ESpec == EInit /\ [][ENext]_evars

-----------------------------------------------------------------------------
(* Properties                                                              *)

\* Whatever the blocks, what the decoder has written is the start of the
\* text, it lags by less than one group, and all of it is there at the end;
\* base64 output comes in groups of four.
BlocksDecode ==
    /\ IsPrefix(dec.out, text)
    /\ enc.done /\ dec.pos = Len(enc.out) => dec.out = text
    /\ enc.done /\ codec = "base64" =>
           Len(SelectSeq(enc.out, LAMBDA c : c # NL)) = 4 * ((Len(text) + 2) \div 3)

-----------------------------------------------------------------------------
(***************************************************************************)
(* BitReader, BitWriter and DynamicBitWriter (base/include/scy/buffer.h,   *)
(* base/src/buffer.cpp).  Numbers are written into a buffer, some of them  *)
(* are updated in place, and all are read back; texts are taken apart      *)
(* into lines and words.  A number is the sequence of its bytes, the       *)
(* lowest first, as a little-endian host keeps it.                         *)
(***************************************************************************)

bvars == <<bw, bitems, br, tr>>

\* The characters of texts: a letter, a digit, a blank and a line feed.
Char == {"a", "1", " ", "n"}

NoByte == -1

-----------------------------------------------------------------------------
(* BitWriter                                                               *)

\* hostToNetwork(), networkToHost(), and the byte that U24 leaves out.
Ordered(val, order) == IF order = "network" THEN Reverse(val) ELSE val

available(b) == b.limit - b.pos

NewWriter(order, dynamic) ==
    [bytes |-> IF dynamic THEN <<>> ELSE [i \in 1..BufLimit |-> NoByte],
     pos |-> 0, limit |-> BufLimit, order |-> order, dynamic |-> dynamic,
     shifted |-> FALSE]

Overwrite(bytes, at, val) ==
    [i \in DOMAIN bytes |-> IF i \in (at + 1)..(at + Len(val)) THEN val[i - at] ELSE bytes[i]]

Insert(bytes, at, val) == SubSeq(bytes, 1, at) \o val \o SubSeq(bytes, at + 1, Len(bytes))

\* put(): throws when the buffer is full.  A DynamicBitWriter inserts.
CanPut(b, val) == b.dynamic \/ b.pos + Len(val) <= b.limit

put(b, val) ==
    IF b.dynamic
    THEN LET bytes == Insert(b.bytes, b.pos, val) IN
         [b EXCEPT !.bytes = bytes, !.limit = Len(bytes), !.pos = @ + Len(val)]
    ELSE [b EXCEPT !.bytes = Overwrite(@, b.pos, val), !.pos = @ + Len(val)]

\* update(): compares the end of the number with the space that is left.  A
\* DynamicBitWriter inserts, and what follows is shifted.
CanUpdate(b, val, at) == at + Len(val) <= available(b)

update(b, val, at) ==
    IF ~CanUpdate(b, val, at) THEN b
    ELSE IF b.dynamic THEN [b EXCEPT !.bytes = Insert(@, at, val), !.shifted = TRUE]
    ELSE [b EXCEPT !.bytes = Overwrite(@, at, val)]

-----------------------------------------------------------------------------
(* BitReader, on texts                                                     *)

\* The number of characters from position p on that are in S.
Run(chars, p, S) ==
    LET stops == {i \in p..(Len(chars) - 1) : chars[i + 1] \notin S}
    IN  IF stops = {} THEN Len(chars) - p ELSE (CHOOSE i \in stops : \A j \in stops : i <= j) - p

\* The end of each method: no position beyond the limit.
Advance(chars, p, len) == IF Len(chars) > p + len THEN p + len ELSE Len(chars)

\* The characters taken; beyond the text they may be anything.
Taken(chars, p, len) == [i \in 1..len |-> IF p + i <= Len(chars) THEN chars[p + i] ELSE "?"]

\* readToNext(val, c), readLine(val) and, without val, skipToChar and
\* skipToNextLine.
readToNext(t, c) ==
    LET len == Run(t.text, t.pos, Char \ {c}) IN
    [t EXCEPT !.call = "next", !.from = t.pos, !.val = Taken(t.text, t.pos, len),
              !.pos = Advance(t.text, t.pos, len)]

readLine(t) ==
    LET len == Run(t.text, t.pos, Char \ {"n"}) IN
    [t EXCEPT !.call = "line", !.from = t.pos, !.val = Taken(t.text, t.pos, len),
              !.pos = Advance(t.text, t.pos, len + 1)]

skipWhitespace(t) ==
    [t EXCEPT !.call = "skip", !.pos = Advance(t.text, t.pos, Run(t.text, t.pos, {" "}))]

\* readNextWord() and readNextNumber(): the blanks skipped are counted in len, so
\* as many characters of the word are taken unseen.
readNext(t, S) ==
    LET blanks == Run(t.text, t.pos, {" "})
        p      == Advance(t.text, t.pos, blanks)
        seen   == IF p + blanks < Len(t.text) THEN Run(t.text, p + blanks, S) ELSE 0
    IN  [t EXCEPT !.call = IF blanks <= Run(t.text, p, S) THEN "word" ELSE "blanks",
                  !.from = p, !.val = Taken(t.text, p, blanks + seen),
                  !.pos = Advance(t.text, p, blanks + seen)]

Word == {"a", "1"}
Digit == {"1"}

-----------------------------------------------------------------------------
BInit ==
    /\ bw \in {NewWriter(o, d) : o \in {"network", "host"}, d \in BOOLEAN}
    /\ bitems = <<>>
    /\ br = [pos |-> 0, got |-> <<>>]
    /\ tr = [text |-> <<>>, pos |-> 0, call |-> "none", from |-> 0, val |-> <<>>]

\* A number of w bytes that tells its bytes apart.
Number(n, w) == [i \in 1..w |-> 10 * n + i]

\* putU8() to putU64(), until the reader starts.
Put(w) ==
    LET val == Number(Len(bitems) + 1, w) IN
    /\ tr.text = <<>> /\ br.pos = 0 /\ Len(bitems) < MaxItems /\ ~bw.shifted
    /\ CanPut(bw, val)
    /\ bw' = put(bw, Ordered(val, bw.order))
    /\ bitems' = Append(bitems, [at |-> bw.pos, val |-> val, updated |-> FALSE])
    /\ UNCHANGED <<br, tr>>

\* updateU8() to updateU64() of a number written before.
Update(k) ==
    LET it == bitems[k]  val == Number(k + 5, Len(it.val)) IN
    /\ br.pos = 0 /\ ~it.updated /\ ~bw.shifted
    /\ bw' = update(bw, Ordered(val, bw.order), it.at)
    /\ bitems' = IF CanUpdate(bw, val, it.at)
                 THEN [bitems EXCEPT ![k] = [it EXCEPT !.val = val, !.updated = TRUE]] ELSE bitems
    /\ UNCHANGED <<br, tr>>

\* getU8() to getU64() of the next number, within what has been written.
Get ==
    LET k == Len(br.got) + 1  len == Len(bitems[k].val) IN
    /\ k <= Len(bitems) /\ len <= bw.pos - br.pos
    /\ br' = [pos |-> br.pos + len,
              got |-> Append(br.got, Ordered(Taken(bw.bytes, br.pos, len), bw.order))]
    /\ UNCHANGED <<bw, bitems, tr>>

\* A reader of a text instead, and its methods.
Open(chars) ==
    /\ bw = NewWriter("network", FALSE) /\ tr.text = <<>>
    /\ tr' = [tr EXCEPT !.text = chars] /\ UNCHANGED <<bw, bitems, br>>

Parse(t) == tr.pos < Len(tr.text) /\ tr' = t /\ UNCHANGED <<bw, bitems, br>>

BNext ==
    \/ \E w \in Width : Put(w)
    \/ \E k \in DOMAIN bitems : Update(k)
    \/ Get
    \/ \E n \in 1..MaxLine : \E chars \in [1..n -> Char] : Open(chars)
    \/ Parse(readLine(tr)) \/ Parse(readToNext(tr, "1")) \/ Parse(skipWhitespace(tr))
    \/ Parse(readNext(tr, Word)) \/ Parse(readNext(tr, Digit))

BSpec == BInit /\ [][BNext]_bvars

-----------------------------------------------------------------------------
(* Properties                                                              *)

\* What was written, and updated where update() agreed, is read back in either
\* byte order, whether the buffer was fixed or has grown, unless an update of a
\* growing buffer has shifted it (put, update, get); readers of text stay within
\* it, take what lies up to the next character asked for, and words without
\* blanks, unless more blanks than letters came before one (readLine, readToNext,
\* readNextWord).
BuffersReadBack ==
    /\ ~bw.shifted => \A k \in DOMAIN br.got : br.got[k] = bitems[k].val
    /\ bw.pos <= bw.limit
    /\ tr.pos <= Len(tr.text)
    /\ tr.call \in {"line", "next", "word"} =>
           /\ tr.val = Taken(tr.text, tr.from, Len(tr.val)) /\ tr.from + Len(tr.val) <= Len(tr.text)
           /\ tr.call = "line" => /\ ~Contains(tr.val, "n")
                                  /\ tr.pos = Len(tr.text) \/ tr.text[tr.pos] = "n"
           /\ tr.call = "next" => ~Contains(tr.val, "1") /\ tr.pos = tr.from + Len(tr.val)
           /\ tr.call = "word" => ~Contains(tr.val, " ") /\ ~Contains(tr.val, "n")
=============================================================================

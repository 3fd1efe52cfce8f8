----------------------------- MODULE FormWriter -----------------------------
(***************************************************************************)
(* FormWriter and its parts (http/src/form.cpp): a form is submitted over   *)
(* an HTTP request, one piece per turn of an idler (base/idler.h), while    *)
(* its owner may stop it.  Of the text only lengths are kept: of the header *)
(* of a part (boundary and header lines), of the end, of the value of a     *)
(* field and of the data of a part.  A piece is [what, n], n bytes.         *)
(***************************************************************************)
EXTENDS Integers, SequencesExt

CONSTANTS
    HeaderSize, EndSize, FieldSize,
    ChunkSize,     \* FILE_CHUNK_SIZE
    PartSize,      \* lengths of parts
    MaxFields, MaxParts

VARIABLES
    form,     \* what is to be sent, and how
    writer,   \* the state of the FormWriter and of its idler
    body,     \* the pieces emitted
    request   \* Content-Length, -1 if not set; the total and the progress told

formvars == <<form, writer, body, request>>

FormInit ==
    /\ \E e \in {"url", "multipart"}, t \in {"length", "chunked", "http10"} :
          /\ e = "url" => t # "chunked"
          /\ form = [encoding |-> e, transfer |-> t, fields |-> 0, parts |-> <<>>]
    /\ writer = [run |-> "new", initial |-> TRUE, state |-> 0, part |-> 1, complete |-> FALSE]
    /\ body = <<>>
    /\ request = [length |-> -1, total |-> 0, progress |-> 0]

Piece(what, n) == [what |-> what, n |-> n]
Size(pieces) == FoldSeq(LAMBDA p, n : p.n + n, 0, pieces)

-----------------------------------------------------------------------------
(* Parts: at is how far a file has been read, initial is _initialWrite.    *)

FormPart(file, n) == [file |-> file, size |-> n, at |-> 0, initial |-> TRUE]

\* The size of a file is taken when the part is made, which opens it.
FilePart(n) == FormPart(TRUE, n)
StringPart(n) == FormPart(FALSE, n)

\* write() takes everything that is left of a file; reset() goes back.
Rest(p) == IF p.file THEN p.size - p.at ELSE p.size
WrittenWhole(p) == [p EXCEPT !.at = p.size, !.initial = FALSE]
resetPart(p) == [p EXCEPT !.at = 0, !.initial = TRUE]

\* writeChunk(): a file is read in chunks, and the last read finds its end, be it with
\* a few bytes or with none; a string is written at once.
FileChunk(p) ==
    [n |-> IF Rest(p) >= ChunkSize THEN ChunkSize ELSE Rest(p), more |-> Rest(p) >= ChunkSize]

StringChunk(p) == [n |-> p.size, more |-> FALSE]

NextChunk(p) == IF p.file THEN FileChunk(p) ELSE StringChunk(p)

FilesLength == FoldSeq(LAMBDA p, n : p.size + n, 0, form.parts)

-----------------------------------------------------------------------------
(* Building and submitting the form.                                       *)

addField ==
    /\ writer.run = "new" /\ form.fields < MaxFields
    /\ form' = [form EXCEPT !.fields = @ + 1]
    /\ UNCHANGED <<writer, body, request>>

addPart(file, n) ==
    /\ writer.run = "new" /\ form.encoding = "multipart" /\ Len(form.parts) < MaxParts
    /\ form' = [form EXCEPT !.parts = Append(@, IF file THEN FilePart(n) ELSE StringPart(n))]
    /\ UNCHANGED <<writer, body, request>>

\* writePartHeader(): all headers but the first begin a new line.  _initial says which
\* is the first, and stays false once a header has been written, wherever to.
HeaderPiece(what, first, n) == Piece(what, n + HeaderSize + IF first THEN 0 ELSE 2)

FieldPieces(initial) ==
    [i \in 1..form.fields |-> HeaderPiece("field", initial /\ i = 1, FieldSize)]

\* calculateMultipartContentLength() writes everything into a string, and resets the
\* parts.
calculateMultipartContentLength ==
    LET parts == [i \in DOMAIN form.parts |->
                    HeaderPiece("part", writer.initial /\ form.fields = 0 /\ i = 1, Rest(form.parts[i]))]
    IN  Size(FieldPieces(writer.initial) \o parts) + EndSize

UrlSize == form.fields * FieldSize + (IF form.fields > 0 THEN form.fields - 1 ELSE 0)

\* start(): prepareSubmit() and the idler, whose context is reset.
startForm ==
    /\ writer.run = "new"
    /\ form.encoding = "url" => form.fields > 0
    /\ LET calculated == form.encoding = "multipart" /\ form.transfer = "length"
           headers == form.fields + Len(form.parts) > 0
       IN  /\ request' = [request EXCEPT
                             !.length = IF form.encoding = "url" THEN UrlSize
                                        ELSE IF calculated THEN calculateMultipartContentLength ELSE -1,
                             !.total = FilesLength]
           /\ writer' = [writer EXCEPT !.run = "running", !.initial = @ /\ ~(calculated /\ headers)]
           /\ form' = IF calculated
                      THEN [form EXCEPT !.parts = [i \in DOMAIN @ |-> resetPart(WrittenWhole(@[i]))]]
                      ELSE form
    /\ UNCHANGED body

stopForm ==
    /\ writer.run = "running"
    /\ writer' = [writer EXCEPT !.run = "cancelled"]
    /\ UNCHANGED <<form, body, request>>

-----------------------------------------------------------------------------
(* One turn of the idler: writeAsync().                                    *)

writeUrl ==
    /\ writer.run = "running" /\ form.encoding = "url"
    /\ body' = Append(body, Piece("url", UrlSize))
    /\ writer' = [writer EXCEPT !.complete = TRUE, !.run = "cancelled"]
    /\ UNCHANGED <<form, request>>

Turn(s) == writer.run = "running" /\ form.encoding = "multipart" /\ writer.state = s

WriteFields ==
    /\ Turn(0)
    /\ body' = body \o FieldPieces(writer.initial)
    /\ writer' = [writer EXCEPT !.initial = @ /\ form.fields = 0, !.state = 1]
    /\ UNCHANGED <<form, request>>

WritePart ==
    /\ Turn(1) /\ writer.part <= Len(form.parts)
    /\ LET p == form.parts[writer.part]
           c == NextChunk(p)
           header == IF p.initial THEN <<HeaderPiece("part", writer.initial, 0)>> ELSE <<>>
           chunk == IF c.n > 0 THEN <<Piece("chunk", c.n)>> ELSE <<>>
           last == ~c.more /\ writer.part = Len(form.parts)
       IN  /\ body' = body \o header \o chunk
           /\ request' = [request EXCEPT !.progress = @ + c.n]
           /\ form' = [form EXCEPT !.parts[writer.part] = [p EXCEPT !.at = @ + c.n, !.initial = FALSE]]
           /\ writer' = [writer EXCEPT !.initial = FALSE,
                                       !.part = IF c.more THEN @ ELSE @ + 1,
                                       !.state = IF last THEN 2 ELSE 1]

NoParts ==
    /\ Turn(1) /\ form.parts = <<>>
    /\ writer' = [writer EXCEPT !.state = 2]
    /\ UNCHANGED <<form, body, request>>

WriteEnd ==
    /\ Turn(2)
    /\ body' = body \o <<Piece("end", EndSize)>>
                    \o (IF form.transfer = "chunked" THEN <<Piece("final", 5)>> ELSE <<>>)
    /\ writer' = [writer EXCEPT !.complete = TRUE, !.state = -1, !.run = "cancelled"]
    /\ UNCHANGED <<form, request>>

IdlerTurn == writeUrl \/ WriteFields \/ WritePart \/ NoParts \/ WriteEnd

FormNext ==
    \/ addField \/ startForm \/ stopForm \/ IdlerTurn
    \/ \E file \in BOOLEAN, n \in PartSize : addPart(file, n)

-----------------------------------------------------------------------------
(* Properties.                                                             *)

Pieces(what) == SelectSeq(body, LAMBDA p : p.what = what)

\* A form that is complete (form.cpp:353) has sent every field, every part with all of
\* its bytes however they fall into chunks, and one end, and has told all its progress.
FormDelivered ==
    writer.complete /\ form.encoding = "multipart" =>
        /\ Len(Pieces("field")) = form.fields /\ Len(Pieces("part")) = Len(form.parts)
        /\ Size(Pieces("chunk")) = FilesLength
        /\ request.progress = request.total
        /\ Len(Pieces("end")) = 1

\* The Content-Length that is announced is the length of the body that is sent
\* (form.h:91, "Processes the entire stream and calculates the content length").
LengthAnnounced ==
    writer.complete /\ request.length >= 0 => Size(body) = request.length

\* A form that is started is completed or stopped.
FormEnds == writer.run = "running" ~> writer.run = "cancelled"
=============================================================================

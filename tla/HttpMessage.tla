---------------------------- MODULE HttpMessage ----------------------------
(***************************************************************************)
(* HTTP messages (http/src: message, request, response, parser, cookie,    *)
(* url, util, authenticator; packetizers.h; base's NVCollection).  A       *)
(* message is built by its setters, written, and read back by a Parser     *)
(* that gets it in pieces; parameters, cookies and URLs are formatted and  *)
(* taken apart; the adapters frame a stream of packets.                    *)
(*                                                                         *)
(* A text is a sequence of symbols, a word or a byte being one.            *)
(***************************************************************************)
EXTENDS Integers, Sequences, SequencesExt

CONSTANTS
    IntWidth,   \* the bits of an int; a uint64_t has twice as many here
    MaxSets,    \* bound: calls of setters
    MaxChunks   \* bound: packets given to an adapter

VARIABLES
    msg,        \* a message: its headers, what is on the wire, its parser
    item,       \* a text that was formatted and taken apart
    chunks      \* an adapter: its output, the packets it got

hmvars == <<msg, item, chunks>>

-----------------------------------------------------------------------------
(* NVCollection: the values of each name, in the order of the names.       *)

Name == <<"Authorization", "Connection", "Content-Length", "Content-Type",
          "Host", "Set-Cookie", "Transfer-Encoding", "WWW-Authenticate", "X-Other">>

NoHeaders == [n \in Range(Name) |-> <<>>]

has(h, n) == h[n] # <<>>
get(h, n, default) == IF has(h, n) THEN h[n][1] ELSE default
set(h, n, v) == [h EXCEPT ![n] = IF @ = <<>> THEN <<v>> ELSE [@ EXCEPT ![1] = v]]
add(h, n, v) == [h EXCEPT ![n] = Append(@, v)]
erase(h, n) == [h EXCEPT ![n] = <<>>]

Digit == <<"0", "1", "2", "3", "4", "5", "6", "7", "8", "9">>

\* util::itostr() and util::strtoi(), of up to two digits.
itostr(n) == IF n < 10 THEN <<Digit[n + 1]>> ELSE <<Digit[(n \div 10) + 1], Digit[(n % 10) + 1]>>
strtoi(s) == FoldLeft(LAMBDA a, d : 10 * a + (CHOOSE i \in 0..9 : Digit[i + 1] = d), 0, s)

-----------------------------------------------------------------------------
(* Message, Request and Response                                           *)

\* The length that int(length) turns into -1 is taken for unknown.
Unknown(length) == length % 2^IntWidth = 2^IntWidth - 1

setContentLength(h, length) ==
    IF Unknown(length) THEN erase(h, "Content-Length") ELSE set(h, "Content-Length", itostr(length))

getContentLength(h) ==
    IF has(h, "Content-Length") THEN strtoi(h["Content-Length"][1]) ELSE 2^(2 * IntWidth) - 1

setTransferEncoding(h, chunked) ==
    IF chunked THEN set(h, "Transfer-Encoding", <<"chunked">>) ELSE erase(h, "Transfer-Encoding")

isChunkedTransferEncoding(h) == get(h, "Transfer-Encoding", <<"identity">>) = <<"chunked">>

setContentType(h, t) == IF t = <<>> THEN erase(h, "Content-Type") ELSE set(h, "Content-Type", t)

setKeepAlive(h, keep) == set(h, "Connection", IF keep THEN <<"Keep-Alive">> ELSE <<"Close">>)

getKeepAlive(h, version) ==
    IF has(h, "Connection") THEN h["Connection"][1] # <<"Close">> ELSE version = "HTTP/1.1"

setHost(h, host, p) ==
    set(h, "Host", IF p \in {80, 443} THEN <<host>> ELSE <<host, ":">> \o itostr(p))

\* setCredentials(), and getCredentials(): the first word and the rest.
setCredentials(h, info) == set(h, "Authorization", <<"Basic", " ">> \o info)
getCredentials(h) == <<h["Authorization"][1][1], SubSeq(h["Authorization"][1], 3, Len(h["Authorization"][1]))>>

\* isBasicCredentials(), and Authenticator::authenticate(): answers the first basic
\* challenge, looking at WWW-Authenticate and at whatever headers come after it.
isBasicCredentials(v) == Len(v) > 0 /\ v[1] = "Basic" /\ (Len(v) > 1 => v[2] = " ")

authenticate(h, response) ==
    IF has(response, "WWW-Authenticate")
       /\ \E n \in {"WWW-Authenticate", "X-Other"} : \E i \in DOMAIN response[n] : isBasicCredentials(response[n][i])
    THEN setCredentials(h, <<"user", "pass">>) ELSE h

\* write(): the headers by name, and those of one name as they were added.
Written(h) ==
    FoldLeft(LAMBDA s, n : s \o FoldLeft(LAMBDA t, v : Append(t, <<n, v>>), <<>>, h[n]), <<>>, Name)

-----------------------------------------------------------------------------
(* Parser: http_parser calls back with pieces of a text, cut where a read  *)
(* ended.                                                                  *)

\* A name is two symbols on the wire, so that it can be cut.
FieldText(n) == <<n, "-">>
FieldName(t) == t[1]

Token(kind, text) == [kind |-> kind, text |-> text]

Wire(uri, h) ==
    <<Token("url", uri)>>
    \o FoldLeft(LAMBDA s, nv : s \o <<Token("field", FieldText(nv[1])), Token("value", nv[2])>>,
                <<>>, Written(h))

\* _wasHeaderValue is not initialised: w may be either.
NewParser(w) ==
    [headers |-> NoHeaders, uri |-> <<>>, lastField |-> <<>>, lastValue |-> <<>>,
     wasValue |-> w, complete |-> FALSE]

\* onHeader().
onHeader(p) == [p EXCEPT !.headers = add(@, FieldName(p.lastField), p.lastValue)]

\* onURL(): each piece replaces what came before.
on_url(p, piece) == [p EXCEPT !.uri = piece]

on_header_field(p, piece) ==
    IF p.wasValue
    THEN LET q == IF p.lastField # <<>> THEN [onHeader(p) EXCEPT !.lastValue = <<>>] ELSE p
         IN  [q EXCEPT !.lastField = piece, !.wasValue = FALSE]
    ELSE [p EXCEPT !.lastField = @ \o piece]

on_header_value(p, piece) ==
    IF ~p.wasValue THEN [p EXCEPT !.lastValue = piece, !.wasValue = TRUE]
    ELSE [p EXCEPT !.lastValue = @ \o piece]

on_headers_complete(p) ==
    [IF p.lastField # <<>> THEN onHeader(p) ELSE p EXCEPT !.complete = TRUE]

Callback(p, kind, piece) ==
    CASE kind = "url"   -> on_url(p, piece)
      [] kind = "field" -> on_header_field(p, piece)
      [] kind = "value" -> on_header_value(p, piece)

-----------------------------------------------------------------------------
(* Parameters, cookies, URLs                                               *)

TrimRight(s) ==
    LET keep == {i \in 0..Len(s) : \A j \in (i + 1)..Len(s) : s[j] = " "}
    IN  SubSeq(s, 1, CHOOSE i \in keep : \A j \in keep : i <= j)

NewSplit == [mode |-> "lead", name |-> <<>>, value |-> <<>>, out |-> <<>>]

\* The end of a parameter.
EndParameter(s) ==
    LET name == TrimRight(s.name) IN
    [NewSplit EXCEPT !.out = IF name = <<>> THEN s.out ELSE Append(s.out, <<name, TrimRight(s.value)>>)]

\* splitParameters(), one symbol: names, values, quotes and backslashes.
SplitSymbol(s, c) ==
    CASE s.mode = "escape" -> [s EXCEPT !.value = Append(@, c), !.mode = "value"]
      [] s.mode = "quoted escape" -> [s EXCEPT !.value = Append(@, c), !.mode = "quoted"]
      [] s.mode = "quoted" -> CASE c = "\"" -> [s EXCEPT !.mode = "value"]
                                [] c = "\\" -> [s EXCEPT !.mode = "quoted escape"]
                                [] OTHER    -> [s EXCEPT !.value = Append(@, c)]
      [] s.mode = "lead" /\ c = " " -> s
      [] s.mode \in {"lead", "name"} /\ c = "=" -> [s EXCEPT !.mode = "lead value"]
      [] s.mode \in {"lead", "name"} /\ c \notin {" ", "=", ";"} ->
             [s EXCEPT !.mode = "name", !.name = Append(@, c)]
      [] s.mode = "name" /\ c = " " -> [s EXCEPT !.name = Append(@, c)]
      [] s.mode = "lead value" /\ c = " " -> s
      [] c = ";" -> EndParameter(s)
      [] s.mode \in {"lead value", "value"} /\ c = "\"" -> [s EXCEPT !.mode = "quoted"]
      [] s.mode \in {"lead value", "value"} /\ c = "\\" -> [s EXCEPT !.mode = "escape"]
      [] OTHER -> [s EXCEPT !.mode = "value", !.value = Append(@, c)]

splitParameters(text) == EndParameter(FoldLeft(SplitSymbol, NewSplit, text)).out

\* Half seconds: Timestamp::resolution() is 2, and a date is written in seconds.
Resolution == 2

Cookie ==
    [version : {0, 1},
     value : {<<"v">>, <<"v", ";">>, <<"v", " ", "w">>, <<"\"">>, <<"\\", "v">>},
     comment : {<<>>, <<"c">>}, path : {<<>>, <<"/", "p">>}, maxAge : {-1, 0, 5},
     secure : BOOLEAN, httpOnly : BOOLEAN]

If(cond, text) == IF cond THEN text ELSE <<>>

Quote(v) == <<"\"">> \o v \o <<"\"">>

\* Cookie::toString(): the domain is written like the path.
toString(c, now) ==
    IF c.version = 0
    THEN <<"name", "=">> \o c.value
         \o If(c.path # <<>>, <<";", " ", "path", "=">> \o c.path)
         \o If(c.maxAge >= 0, <<";", " ", "expires", "=">> \o itostr((now + c.maxAge * Resolution) \div Resolution))
         \o If(c.secure, <<";", " ", "secure">>) \o If(c.httpOnly, <<";", " ", "HttpOnly">>)
    ELSE <<"name", "=">> \o Quote(c.value)
         \o If(c.comment # <<>>, <<";", " ", "comment", "=">> \o Quote(c.comment))
         \o If(c.path # <<>>, <<";", " ", "path", "=">> \o Quote(c.path))
         \o If(c.maxAge >= 0, <<";", " ", "max-age", "=">> \o Quote(itostr(c.maxAge)))
         \o If(c.secure, <<";", " ", "secure">>) \o If(c.httpOnly, <<";", " ", "HttpOnly">>)
         \o <<";", " ", "version", "=">> \o Quote(<<"1">>)

\* Division of C++, which truncates.
Trunc(a, b) == IF a >= 0 THEN a \div b ELSE -((-a) \div b)

\* Cookie(NVCollection): a name that is no attribute is the cookie's.
ReadCookie(params, now) ==
    FoldLeft(LAMBDA c, nv :
        CASE nv[1] = <<"comment">>  -> [c EXCEPT !.comment = nv[2]]
          [] nv[1] = <<"path">>     -> [c EXCEPT !.path = nv[2]]
          [] nv[1] = <<"max-age">>  -> [c EXCEPT !.maxAge = strtoi(nv[2])]
          [] nv[1] = <<"expires">>  -> [c EXCEPT !.maxAge = Trunc(strtoi(nv[2]) * Resolution - now, Resolution)]
          [] nv[1] = <<"secure">>   -> [c EXCEPT !.secure = TRUE]
          [] nv[1] = <<"HttpOnly">> -> [c EXCEPT !.httpOnly = TRUE]
          [] nv[1] = <<"version">>  -> [c EXCEPT !.version = strtoi(nv[2])]
          [] OTHER                  -> [c EXCEPT !.value = nv[2]],
        [version |-> 0, value |-> <<>>, comment |-> <<>>, path |-> <<>>, maxAge |-> -1,
         secure |-> FALSE, httpOnly |-> FALSE], params)

\* A value that toString() writes as it is, and that can be read again.
PlainValue(c) ==
    /\ ~Contains(c.value, "\"") /\ ~Contains(c.value, "\\")
    /\ c.version = 0 => ~Contains(c.value, ";") /\ c.comment = <<>>

\* URL::encode() and decode(), on bytes; "a" is unreserved, "%" is 37.
Unreserved == {97, 98}

encode(bytes) ==
    FoldLeft(LAMBDA s, b : s \o IF b \in Unreserved THEN <<b>> ELSE <<37, b \div 16, b % 16>>, <<>>, bytes)

decode(text) ==
    FoldLeft(LAMBDA s, c :
        CASE s.need = 2 -> [s EXCEPT !.need = 1, !.high = c]
          [] s.need = 1 -> [s EXCEPT !.need = 0, !.out = Append(@, s.high * 16 + c)]
          [] c = 37     -> [s EXCEPT !.need = 2]
          [] OTHER      -> [s EXCEPT !.out = Append(@, c)],
        [out |-> <<>>, need |-> 0, high |-> 0], text).out

\* splitURIParameters(), one symbol: REST parameters, which are named by their
\* number, and then those of the query.
SetParameter(out, name, value) ==
    IF name = <<>> \/ value = <<>> THEN out
    ELSE [n \in DOMAIN out \cup {name} |-> IF n = name THEN value ELSE out[n]]

NewUriSplit == [mode |-> "first", name |-> <<>>, value |-> <<>>, out |-> <<>>]

EndUriParameter(s) ==
    LET name == IF s.mode = "rest" THEN itostr(Cardinality(DOMAIN s.out)) ELSE s.name
    IN  [s EXCEPT !.name = <<>>, !.value = <<>>, !.out = SetParameter(@, name, s.value)]

UriSymbol(s, c) ==
    CASE s.mode = "first" -> [s EXCEPT !.mode = IF c = "?" THEN "name" ELSE "rest"]
      [] s.mode = "rest" /\ c = "/" -> EndUriParameter(s)
      [] s.mode = "rest" /\ c = "?" -> [EndUriParameter(s) EXCEPT !.mode = "name"]
      [] s.mode = "name" /\ c = "=" -> [s EXCEPT !.mode = "value"]
      [] s.mode = "name" -> [s EXCEPT !.name = Append(@, c)]
      [] s.mode = "value" /\ c = "&" -> [EndUriParameter(s) EXCEPT !.mode = "name"]
      [] OTHER -> [s EXCEPT !.value = Append(@, c)]

splitURIParameters(uri) == EndUriParameter(FoldLeft(UriSymbol, NewUriSplit, uri)).out

\* URL: parse() keeps the text and which parts it has; a part that is missing is <<>>.
Url == [scheme : {<<"http">>, <<"https">>}, user : {<<>>, <<"u">>, <<"u", ":", "p", ":">>},
        port : {<<>>, <<"8">>, <<"8", "0">>}, path : {<<>>, <<"/", "p">>},
        query : {<<>>, <<"q">>}, fragment : {<<>>, <<"f">>}]

UrlText(u) ==
    u.scheme \o <<"://">> \o If(u.user # <<>>, u.user \o <<"@">>) \o <<"host">>
    \o If(u.port # <<>>, <<":">> \o u.port)
    \o u.path \o If(u.query # <<>>, <<"?">> \o u.query) \o If(u.fragment # <<>>, <<"#">> \o u.fragment)

port(u) == IF u.port # <<>> THEN strtoi(u.port) ELSE IF u.scheme = <<"http">> THEN 80 ELSE 443

authority(u) ==
    If(u.user # <<>>, u.user \o <<"@">>) \o <<"host">> \o If(u.port # <<>>, <<":">> \o itostr(port(u)))

pathEtc(u) == u.path \o If(u.query # <<>>, <<"?">> \o u.query) \o If(u.fragment # <<>>, <<"#">> \o u.fragment)

\* extractCredentials(): up to the first colon, and the rest.
extractCredentials(info) ==
    LET colons == {i \in DOMAIN info : info[i] = ":"} IN
    IF colons = {} THEN <<info, <<>>>>
    ELSE LET p == CHOOSE i \in colons : \A j \in colons : i <= j
         IN  <<SubSeq(info, 1, p - 1), SubSeq(info, p + 1, Len(info))>>

-----------------------------------------------------------------------------
(* ChunkedAdapter and MultipartAdapter                                     *)

NewAdapter(kind, sep) == [kind |-> kind, sep |-> sep, initial |-> TRUE, out |-> <<>>, packets |-> <<>>]

\* emitHeader(), before the first packet.
emitHeader(a) == If(a.initial, <<"header">>)

\* process(): the separator is not counted in the size of a chunk.
process(a, data) ==
    [a EXCEPT !.initial = FALSE, !.packets = Append(@, data),
              !.out = @ \o emitHeader(a) \o
                  IF a.kind = "chunked"
                  THEN itostr(Len(data)) \o <<"crlf">> \o a.sep \o data \o <<"crlf">>
                  ELSE <<"--end">> \o data]

\* What a receiver makes of it.
Received(a) ==
    FoldLeft(LAMBDA s, c :
        CASE c = "header" -> [s EXCEPT !.headers = @ + 1, !.bad = @ \/ s.got # <<>>]
          [] a.kind = "multipart" /\ c = "--end" -> [s EXCEPT !.got = Append(@, <<>>)]
          [] a.kind = "multipart" -> [s EXCEPT !.got[Len(s.got)] = Append(@, c)]
          [] s.mode = "size" -> [s EXCEPT !.mode = "line", !.need = strtoi(<<c>>), !.got = Append(@, <<>>)]
          [] s.mode = "line" -> [s EXCEPT !.mode = "data", !.bad = @ \/ c # "crlf"]
          [] s.need > 0 -> [s EXCEPT !.need = @ - 1, !.got[Len(s.got)] = Append(@, c)]
          [] OTHER -> [s EXCEPT !.mode = "size", !.bad = @ \/ c # "crlf"],
        [mode |-> "size", need |-> 0, got |-> <<>>, headers |-> 0, bad |-> FALSE], a.out)

-----------------------------------------------------------------------------
NoRequest == [length |-> 2^(2 * IntWidth) - 1, chunked |-> FALSE, type |-> <<>>,
              keep |-> TRUE, cookies |-> 0, basic |-> FALSE]

HmInit ==
    /\ msg = [phase |-> "build", h |-> NoHeaders, asked |-> NoRequest, sets |-> 0,
              wire |-> <<>>, at |-> 1, off |-> 0, cut |-> FALSE, parser |-> NewParser(TRUE)]
    /\ item = [kind |-> "none"]
    /\ \E k \in {"chunked", "multipart"}, sep \in {<<>>, <<"sep">>} : chunks = NewAdapter(k, sep)

\* One of them at a time: a message, a text or an adapter.
Alone == item.kind = "none" /\ chunks = NewAdapter("chunked", <<>>)

Build(h, asked) ==
    /\ Alone /\ msg.phase = "build" /\ msg.sets < MaxSets
    /\ msg' = [msg EXCEPT !.h = h, !.asked = asked, !.sets = @ + 1]
    /\ UNCHANGED <<item, chunks>>

Ask(field, v) == [msg.asked EXCEPT ![field] = v]

SetLength(n) == Build(setContentLength(msg.h, n), Ask("length", n))
SetChunked(b) == Build(setTransferEncoding(msg.h, b), Ask("chunked", b))
SetType(t) == Build(setContentType(msg.h, t), Ask("type", t))
SetKeepAlive(b) == Build(setKeepAlive(msg.h, b), Ask("keep", b))
SetHost(p) == Build(setHost(msg.h, "host", p), msg.asked)
AddCookie == Build(add(msg.h, "Set-Cookie", <<"name", "=">>), Ask("cookies", msg.asked.cookies + 1))

Authenticate(challenge) ==
    LET response == FoldLeft(LAMBDA h, v : add(h, "WWW-Authenticate", v), NoHeaders, challenge)
    IN  Build(authenticate(msg.h, response),
              Ask("basic", msg.asked.basic \/ Contains(challenge, <<"Basic", " ", "realm">>)))

\* Request::write(), and the Parser that reads it.
Write(w) ==
    /\ Alone /\ msg.phase = "build"
    /\ msg' = [msg EXCEPT !.phase = "parse", !.wire = Wire(<<"/", "path">>, msg.h), !.parser = NewParser(w)]
    /\ UNCHANGED <<item, chunks>>

\* http_parser has read n more symbols of a text, and calls back.
Read(n) ==
    LET t == msg.wire[msg.at]  piece == SubSeq(t.text, msg.off + 1, msg.off + n) IN
    /\ msg.phase = "parse" /\ msg.at <= Len(msg.wire) /\ n <= Len(t.text) - msg.off
    /\ msg' = [msg EXCEPT !.parser = Callback(@, t.kind, piece),
                          !.at = IF msg.off + n = Len(t.text) THEN @ + 1 ELSE @,
                          !.off = IF msg.off + n = Len(t.text) THEN 0 ELSE @ + n,
                          !.cut = @ \/ (t.kind = "url" /\ n < Len(t.text))]
    /\ UNCHANGED <<item, chunks>>

ReadEnd ==
    /\ msg.phase = "parse" /\ msg.at > Len(msg.wire)
    /\ msg' = [msg EXCEPT !.phase = "done", !.parser = on_headers_complete(@)]
    /\ UNCHANGED <<item, chunks>>

\* A cookie, a URL or a text is formatted and taken apart, each on its own.
Look(i) ==
    /\ Alone /\ msg.sets = 0 /\ msg.phase = "build"
    /\ item' = i /\ UNCHANGED <<msg, chunks>>

LookCookie(c, now) == Look([kind |-> "cookie", was |-> c, is |-> ReadCookie(splitParameters(toString(c, now)), now)])

LookUrl(bytes) == Look([kind |-> "url", was |-> bytes, is |-> decode(encode(bytes))])

UriText(rest, query) ==
    FoldLeft(LAMBDA u, v : u \o <<"/", v>>, <<>>, rest) \o <<"?">>
    \o FoldLeft(LAMBDA u, nv : u \o If(u # <<>>, <<"&">>) \o <<nv[1], "=", nv[2]>>, <<>>, query)

LookUri(rest, query) ==
    Look([kind |-> "uri", was |-> [rest |-> rest, query |-> query],
          is |-> splitURIParameters(UriText(rest, query))])

LookParts(u) ==
    Look([kind |-> "parts", was |-> u,
          is |-> [text |-> u.scheme \o <<"://">> \o authority(u) \o pathEtc(u),
                  credentials |-> extractCredentials(u.user)]])

Process(data) ==
    /\ msg.sets = 0 /\ msg.phase = "build" /\ item.kind = "none" /\ Len(chunks.packets) < MaxChunks
    /\ chunks' = process(chunks, data) /\ UNCHANGED <<msg, item>>

HmNext ==
    \/ \E n \in {0, 12, 2^(IntWidth + 1) - 1, 2^(2 * IntWidth) - 1} : SetLength(n)
    \/ \E b \in BOOLEAN : SetChunked(b) \/ SetKeepAlive(b)
    \/ \E t \in {<<>>, <<"text", "html">>} : SetType(t)
    \/ \E p \in {80, 81} : SetHost(p)
    \/ AddCookie
    \/ \E ch \in {<<>>, <<<<"Digest">>>>, <<<<"Digest">>, <<"Basic", " ", "realm">>>>} : Authenticate(ch)
    \/ (\E w \in BOOLEAN : Write(w)) \/ (\E n \in 1..2 : Read(n)) \/ ReadEnd
    \/ \E c \in Cookie, now \in {0, 1} : LookCookie(c, now)
    \/ \E n \in 0..3 : \E bytes \in [1..n -> {97, 37, 47, 127}] : LookUrl(bytes)
    \/ \E n \in 0..2, m \in 0..2 : \E rest \in [1..n -> {"a", "b"}],
           query \in [1..m -> {"x", "y"} \X {"a", "b"}] : LookUri(rest, query)
    \/ \E u \in Url : LookParts(u)
    \/ \E n \in 1..3 : Process([i \in 1..n |-> Digit[Len(chunks.packets) + 1]])

HmSpec == HmInit /\ [][HmNext]_hmvars

-----------------------------------------------------------------------------
(* Properties                                                              *)

\* A message that was read in any pieces has the headers that were written, each name
\* with its values in order, and its getters tell what the setters were told, except
\* for a length that int() takes for -1 (setContentLength) and a URL that was read in
\* two pieces (onURL).
MessageReadBack ==
    LET h == msg.parser.headers IN
    msg.phase = "done" =>
        /\ h = msg.h
        /\ Unknown(msg.asked.length) \/ getContentLength(h) = msg.asked.length
        /\ isChunkedTransferEncoding(h) = msg.asked.chunked
        /\ get(h, "Content-Type", <<>>) = msg.asked.type
        /\ getKeepAlive(h, "HTTP/1.1") = msg.asked.keep
        /\ Len(h["Set-Cookie"]) = msg.asked.cookies
        /\ has(h, "Authorization") = msg.asked.basic
        /\ msg.asked.basic => getCredentials(h) = <<"Basic", <<"user", "pass">>>>
        /\ msg.cut \/ msg.parser.uri = <<"/", "path">>

\* A cookie whose value needs no escape comes back, but for the second that an expiry
\* date loses (toString, Cookie); URLs decode to what was encoded, and are
\* the sum of their parts (authority, pathEtc); parameters of a path and a query have
\* their numbers and names (splitURIParameters).
TextsReadBack ==
    /\ item.kind = "cookie" /\ PlainValue(item.was) =>
           /\ [item.is EXCEPT !.maxAge = 0] = [item.was EXCEPT !.maxAge = 0]
           /\ \/ item.is.maxAge = item.was.maxAge
              \/ item.was.version = 0 /\ item.was.maxAge > 0 /\ item.is.maxAge = item.was.maxAge - 1
    /\ item.kind = "url" => item.is = item.was
    /\ item.kind = "parts" =>
           LET user == item.is.credentials[1]  password == item.is.credentials[2] IN
           /\ item.is.text = UrlText(item.was)
           /\ item.was.user = user \o If(Len(user) < Len(item.was.user), <<":">>) \o password
           /\ ~Contains(user, ":")
    /\ item.kind = "uri" =>
           /\ \A i \in DOMAIN item.was.rest : item.is[itostr(i - 1)] = <<item.was.rest[i]>>
           /\ \A i \in DOMAIN item.was.query :
                  (\A j \in DOMAIN item.was.query : j > i => item.was.query[j][1] # item.was.query[i][1])
                      => item.is[<<item.was.query[i][1]>>] = <<item.was.query[i][2]>>

\* A receiver of an adapter's stream gets one header and then each packet in a chunk or
\* part of its own, unless a separator of frames is written into the chunks (process).
ChunksReadBack ==
    LET got == Received(chunks) IN
    chunks.kind = "multipart" \/ chunks.sep = <<>> =>
        ~got.bad /\ got.got = chunks.packets /\ (got.headers = 1 <=> chunks.packets # <<>>)
=============================================================================

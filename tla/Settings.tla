------------------------------ MODULE Settings ------------------------------
(***************************************************************************)
(* Settings and the texts they are kept in: the configuration that threads *)
(* share and its file (base/src/configuration.cpp, json/src/               *)
(* configuration.cpp, json/include/scy/json/json.h), splitting, trimming,  *)
(* comparing and converting texts (base/include/scy/util.h, base/src/      *)
(* util.cpp, numeric.cpp), paths (base/src/filesystem.cpp) and network     *)
(* addresses (net/src/address.cpp).                                        *)
(*                                                                         *)
(* A text is a sequence of characters of a small alphabet; `tx` is typed   *)
(* one character at a time.  The C library, libuv and nlohmann::json are   *)
(* external.                                                               *)
(***************************************************************************)
EXTENDS Integers, FiniteSets, SequencesExt

CONSTANTS
    Thread,         \* threads that share a configuration
    NoThread,
    MaxConfCalls,   \* bound on the calls made on a configuration
    MaxCrashes,
    MaxTyped,       \* bound on the length of a text
    MaxNumber       \* bound on the numbers formatted

VARIABLES
    cf,             \* the configuration, its file and its threads
    tx              \* a text and a number

cfvars == <<cf>>
txvars == <<tx>>

-----------------------------------------------------------------------------
(* Texts.                                                                  *)

\* The characters, in the order of their codes.
Chars == <<" ", "!", "*", "-", ".", "/", "0", "1", "2", "3", "4", "5", "6", "7", "8", "9", ":",
           "A", "[", "\\", "]", "a", "h", "x">>
Code(c) == CHOOSE i \in DOMAIN Chars : Chars[i] = c
Digit == <<"0", "1", "2", "3", "4", "5", "6", "7", "8", "9">>
isspace(c) == c = " "
isalnum(c) == c \notin {" ", "!", "*", "-", ".", "/", ":", "[", "\\", "]"}
tolower(c) == IF c = "A" THEN "a" ELSE c
toLower(s) == [i \in DOMAIN s |-> tolower(s[i])]

\* std::string::find(): 0 for npos.
find(s, x, from) ==
    LET at == {i \in from..(Len(s) - Len(x) + 1) : SubSeq(s, i, i + Len(x) - 1) = x}
    IN  IF at = {} THEN 0 ELSE Min(at)
From(s, i) == SubSeq(s, i, Len(s))

\* split() at a text: after a delimiter it goes on one character further.
RECURSIVE SplitFrom(_, _, _, _, _)
SplitFrom(s, delim, limit, elems, prev) ==
    LET pos == find(s, delim, prev)
    IN  IF pos = 0 THEN Append(elems, From(s, prev))
        ELSE IF Len(elems) + 1 = limit THEN elems \o <<From(s, prev), <<>>>>
        ELSE SplitFrom(s, delim, limit, Append(elems, SubSeq(s, prev, pos - 1)), pos + 1)

split(s, delim, limit) == SplitFrom(s, delim, limit, <<>>, 1)

\* split() at a character: std::getline(), and the rest.
RECURSIVE LinesFrom(_, _, _, _)
LinesFrom(s, c, limit, elems) ==
    LET pos == find(s, <<c>>, 1)
        got == Append(elems, IF pos = 0 THEN s ELSE SubSeq(s, 1, pos - 1))
    IN  IF s = <<>> THEN elems
        ELSE IF pos = 0 THEN got
        ELSE IF Len(got) + 1 = limit THEN Append(got, From(s, pos + 1))
        ELSE LinesFrom(From(s, pos + 1), c, limit, got)

splitChar(s, c, limit) == LinesFrom(s, c, limit, <<>>)

RECURSIVE Replaced(_, _, _, _, _)
Replaced(s, from, to, start, result) ==
    LET pos == find(s, from, start)
    IN  IF pos = 0 THEN result \o From(s, start)
        ELSE Replaced(s, from, to, pos + Len(from), result \o SubSeq(s, start, pos - 1) \o to)

replaceInPlace(s, from, to) == Replaced(s, from, to, 1, <<>>)

trimLeft(s) == From(s, Min({i \in 1..(Len(s) + 1) : i = Len(s) + 1 \/ ~isspace(s[i])}))
trimRight(s) == SubSeq(s, 1, Max({i \in 0..Len(s) : i = 0 \/ ~isspace(s[i])}))
trim(s) ==
    LET first == Min({i \in 1..(Len(s) + 1) : i = Len(s) + 1 \/ ~isspace(s[i])})
        last == Max({i \in (first - 1)..Len(s) : i = first - 1 \/ ~isspace(s[i])})
    IN  SubSeq(s, first, last)

\* icompare(): -1, 0 or 1.
icompare(a, b) ==
    LET n == Min({Len(a), Len(b)})
        diff == {i \in 1..n : tolower(a[i]) # tolower(b[i])}
        sign(x, y) == IF x < y THEN -1 ELSE IF x > y THEN 1 ELSE 0
    IN  IF diff = {} THEN sign(Len(a), Len(b))
        ELSE sign(Code(tolower(a[Min(diff)])), Code(tolower(b[Min(diff)])))

Special(c) == ~isalnum(c) /\ c # "."

\* Erasing a character skips the next one.
removeSpecialCharacters(s) ==
    LET RECURSIVE walk(_, _)
        walk(t, i) == IF i > Len(t) THEN t
                      ELSE walk(IF Special(t[i]) THEN RemoveAt(t, i) ELSE t, i + 1)
    IN  walk(s, 1)

\* copyStream(), copyToString(): a buffer at a time.
copyStream(s, size) ==
    FlattenSeq([k \in 1..((Len(s) + size - 1) \div size) |->
                    SubSeq(s, (k - 1) * size + 1, Min({k * size, Len(s)}))])

-----------------------------------------------------------------------------
(* Numbers in texts.                                                       *)

RECURSIVE Decimal(_)
Decimal(n) == IF n < 10 THEN <<Digit[n + 1]>> ELSE Append(Decimal(n \div 10), Digit[(n % 10) + 1])

itostr(n) == IF n < 0 THEN <<"-">> \o Decimal(-n) ELSE Decimal(n)

isNumber(s) == \A i \in DOMAIN s : s[i] \in Range(Digit)

Value(s) == FoldLeft(LAMBDA v, c : v * 10 + (Code(c) - Code("0")), 0, s)

\* strtoi(): blanks, a sign, the digits that follow; 0 if there are none or too many.
\* An unsigned type takes a negative number modulo its width.
strtoi(s, bits, signed) ==
    LET t == trimLeft(s)
        neg == t # <<>> /\ t[1] = "-"
        u == IF neg THEN Tail(t) ELSE t
        n == Max({k \in 0..Len(u) : isNumber(SubSeq(u, 1, k))})
        v == Value(SubSeq(u, 1, n))
        top == IF signed THEN 2^(bits - 1) - (IF neg THEN 0 ELSE 1) ELSE 2^bits - 1
    IN  IF n = 0 \/ v > top THEN 0
        ELSE IF ~neg THEN v
        ELSE IF signed THEN -v ELSE (2^bits - v) % 2^bits

\* format(), format0(): printf() with a width.
format(n, width, zero) ==
    LET s == itostr(n)
        pad == [i \in 1..(width - Len(s)) |-> IF zero THEN "0" ELSE " "]
    IN  IF zero /\ n < 0 THEN <<"-">> \o pad \o Tail(s) ELSE pad \o s

HexDigit == <<"0", "1", "2", "3", "4", "5", "6", "7", "8", "9", "a", "b", "c", "d", "e", "f">>
RECURSIVE Hex(_)
Hex(n) == IF n < 16 THEN <<HexDigit[n + 1]>> ELSE Append(Hex(n \div 16), HexDigit[(n % 16) + 1])

\* formatHex(): a negative number as unsigned.
formatHex(n, width, bits) ==
    LET s == Hex(n % 2^bits) IN  [i \in 1..(width - Len(s)) |-> "0"] \o s

\* tryParseHex(): sscanf("%x%c") takes blanks, a sign and 0x, and the digits must be all
\* that follows.  <<FALSE, 0>> is what parseHex() throws.
parseHex(s, bits) ==
    LET t == trimLeft(s)
        neg == t # <<>> /\ t[1] = "-"
        u == IF neg THEN Tail(t) ELSE t
        digits == IF IsPrefix(<<"0", "x">>, u) THEN From(u, 3) ELSE u
        value == FoldLeft(LAMBDA v, c : v * 16 + (CHOOSE d \in 1..16 : HexDigit[d] = tolower(c)) - 1, 0, digits)
    IN  IF digits = <<>> \/ \E i \in DOMAIN digits : tolower(digits[i]) \notin Range(HexDigit) THEN <<FALSE, 0>>
        ELSE <<TRUE, (IF neg THEN -value ELSE value) % 2^bits>>

\* parseInt(): the unsigned number becomes an int.
parseInt(s) ==
    LET h == parseHex(From(s, 3), 16)
    IN  IF ~IsPrefix(<<"0", "x">>, s) THEN <<TRUE, strtoi(s, 16, TRUE)>>
        ELSE <<h[1], IF h[2] >= 2^15 THEN h[2] - 2^16 ELSE h[2]>>

\* Versions.  compareVersion() gives up at any smaller number, wherever it is.
compareVersion(l, r) ==
    LET ln == split(l, <<".">>, -1)
        rn == split(r, <<".">>, -1)
        both == 1..Min({Len(ln), Len(rn)})
        num(s) == strtoi(s, 16, TRUE)
    IN  /\ l # <<>>
        /\ \/ r = <<>>
           \/ /\ \A i \in both : num(ln[i]) >= num(rn[i])
              /\ \E i \in both : num(ln[i]) > num(rn[i])

\* matchNodes(): a pattern of nodes and wildcards.
matchNodes(params, xparams) ==
    /\ Len(xparams) <= Len(params)
    /\ Len(params) > Len(xparams) => Last(xparams) = <<"*">>
    /\ \A i \in DOMAIN xparams : xparams[i] = <<"*">> \/ xparams[i] = params[i]

matches(node, xnode) == xnode = <<"*">> \/ matchNodes(split(node, <<"/">>, -1), split(xnode, <<"/">>, -1))

-----------------------------------------------------------------------------
(* Paths.                                                                  *)

lastSep(p) == SelectLastInSeq(p, LAMBDA c : c = "/")
lastDot(p) == SelectLastInSeq(p, LAMBDA c : c = ".")

filename(p) == From(p, lastSep(p) + 1)
dirname(p) == IF lastSep(p) = 0 THEN <<".">> ELSE SubSeq(p, 1, lastSep(p) - 1)

HasExt(p) == lastDot(p) > lastSep(p)
basename(p) == IF HasExt(p) THEN SubSeq(p, 1, lastDot(p) - 1) ELSE p

\* substr((dotp + includeDot) ? 0 : 1): nearly always the whole path.
extname(p, includeDot) ==
    IF ~HasExt(p) THEN <<>> ELSE IF lastDot(p) > 1 \/ includeDot THEN p ELSE From(p, 2)

trimslash(p) == IF p # <<>> /\ lastSep(p) = Len(p) THEN Front(p) ELSE p
normalize(p) == trimslash(replaceInPlace(p, <<"\\">>, <<"/">>))

addsep(p) == IF p # <<>> /\ Last(p) # "/" THEN Append(p, "/") ELSE p
addnode(p, node) == addsep(p) \o node

\* mkdirr(): the directories it makes; every path starts at the root.
mkdirr(p) ==
    LET levels == SelectSeq(splitChar(normalize(p), "/", -1), LAMBDA l : l # <<>>)
    IN  [k \in DOMAIN levels |-> FlattenSeq([i \in 1..k |-> <<"/">> \o levels[i]])]

-----------------------------------------------------------------------------
(* Addresses.                                                              *)

\* inet_pton() and getservbyname(), for the alphabet of addresses.
pton(host) ==
    IF host = <<"4">> THEN "IPv4" ELSE IF host \in {<<"6", ":", "6">>, <<":", ":">>} THEN "IPv6" ELSE "none"
getservbyname(s) == IF s = <<"h">> THEN 80 ELSE 0

resolveService(s) == IF strtoi(s, 16, FALSE) > 0 THEN strtoi(s, 16, FALSE) ELSE getservbyname(s)

\* Address::init(): "none" for what it throws.
AddressBase(family, host, port) == [family |-> family, host |-> host, port |-> port]
MakeAddress(host, port) == AddressBase(IF port = 0 THEN "none" ELSE pton(host), host, port)

parseAddress(t) ==
    LET closing == find(t, <<"]">>, 1)
        colon == IF t[1] = "[" THEN closing + 1 ELSE find(t, <<":">>, 1)
        host == IF t[1] = "[" THEN SubSeq(t, 2, closing - 1) ELSE SubSeq(t, 1, colon - 1)
    IN  IF (t[1] = "[" /\ closing = 0) \/ colon = 0 \/ colon > Len(t) \/ (colon <= Len(t) /\ t[colon] # ":")
        THEN MakeAddress(<<>>, 0)
        ELSE MakeAddress(host, resolveService(From(t, colon + 1)))

toString(a) ==
    (IF a.family = "IPv6" THEN <<"[">> \o a.host \o <<"]">> ELSE a.host) \o <<":">> \o itostr(a.port)

Less(a, b) == (a.family = "IPv4" /\ b.family = "IPv6") \/ a.port < b.port
Equal(a, b) == a.host = b.host /\ a.port = b.port

-----------------------------------------------------------------------------
(* The text that is typed.                                                 *)

Alphabet ==
    [ words   |-> {" ", "!", "a", "A"},
      list    |-> {"a", "/", "*"},
      version |-> {"1", "2", "."},
      number  |-> {" ", "-", "0", "7", "x"},
      path    |-> {"a", ".", "/", "\\"},
      address |-> {"[", "]", ":", "4", "6", "h"} ]

Texts(kind, n) == UNION {[1..k -> Alphabet[kind]] : k \in 0..n}

TextInit == \E kind \in DOMAIN Alphabet : tx = [kind |-> kind, text |-> <<>>, n |-> -MaxNumber]

Type(c) == Len(tx.text) < MaxTyped /\ tx.n = -MaxNumber /\ tx' = [tx EXCEPT !.text = Append(@, c)]

\* Numbers are counted through instead of typed.
Count == tx.kind = "number" /\ tx.text = <<>> /\ tx.n < 5 * MaxNumber /\ tx' = [tx EXCEPT !.n = @ + 1]

TextNext == Count \/ \E c \in Alphabet[tx.kind] : Type(c)

-----------------------------------------------------------------------------
(* The configuration.                                                      *)

\* A key in the module's scope and the same key in the default scope.
Key == {"cur", "def"}
Missing == "none"
Empty == [k \in Key |-> Missing]

\* seen: what a scoped read could answer since it began; disturbed: a key was removed
\* meanwhile.
NewThread == [at |-> "idle", first |-> Missing, ret |-> Missing, seen |-> {}, disturbed |-> FALSE]

\* base, json: who holds Configuration::_mutex and json::Configuration::_mutex.
\* Auxiliary: saved: what save() last wrote, torn: a crash cut a save() off, lost: load()
\* left other settings.
ConfInit ==
    cf = [ root |-> Empty, file |-> [is |-> "none", root |-> Empty], path |-> FALSE, base |-> NoThread, json |-> NoThread,
           th |-> [t \in Thread |-> NewThread], saved |-> {}, torn |-> FALSE, lost |-> FALSE,
           calls |-> 0, crashes |-> 0 ]

\* What ScopedConfiguration promises: the module's value, the default's, the caller's.
Effective(root) ==
    IF root["cur"] # Missing THEN root["cur"] ELSE IF root["def"] # Missing THEN root["def"] ELSE "app"

WithRoot(c, root) ==
    LET removed == \E k \in Key : c.root[k] # Missing /\ root[k] = Missing
    IN  [c EXCEPT !.root = root,
                  !.th = [t \in Thread |->
                      IF @[t].at # "reading" THEN @[t]
                      ELSE [@[t] EXCEPT !.seen = @ \cup {Effective(root)}, !.disturbed = @ \/ removed]]]

Calls(t) == cf.th[t].at = "idle" /\ cf.calls < MaxConfCalls
Counted(c) == [c EXCEPT !.calls = @ + 1]
JsonFree == cf.json = NoThread
BothFree == JsonFree /\ cf.base = NoThread

\* setString() and the like: PropertyChanged is emitted under Configuration::_mutex.
setRaw(t, k, v) ==
    /\ Calls(t) /\ BothFree
    /\ cf' = [Counted(WithRoot(cf, [cf.root EXCEPT ![k] = v])) EXCEPT !.base = t, !.th[t].at = "emit"]

\* The slots return, or one of them asks the configuration and waits for its own lock.
PropertyChanged(t, asks) ==
    /\ cf.th[t].at = "emit"
    /\ cf' = IF asks THEN [cf EXCEPT !.th[t].at = "stuck"]
             ELSE [cf EXCEPT !.base = NoThread, !.th[t].at = "idle"]

\* ScopedConfiguration::getString(): the default's value is read first.
readDefault(t) ==
    /\ Calls(t) /\ BothFree
    /\ cf' = [Counted(cf) EXCEPT !.th[t] =
                  [NewThread EXCEPT !.at = "reading", !.seen = {Effective(cf.root)},
                                    !.first = IF cf.root["def"] = Missing THEN "app" ELSE cf.root["def"]]]

readCurrent(t) ==
    /\ cf.th[t].at = "reading" /\ BothFree
    /\ cf' = [cf EXCEPT !.th[t].at = "idle",
                        !.th[t].ret = IF cf.root["cur"] = Missing THEN cf.th[t].first ELSE cf.root["cur"]]

remove(t, k) == Calls(t) /\ JsonFree /\ cf' = Counted(WithRoot(cf, [cf.root EXCEPT ![k] = Missing]))

\* removeAll() throws at the first key that matches: the iterator is the root's.
removeAll(t) == Calls(t) /\ JsonFree /\ cf' = Counted(cf)

\* replace(): in the text of the settings, keys and values alike.
dump(root) == FlattenSeq([k \in 1..2 |-> LET key == <<"cur", "def">>[k]
                                        IN  IF root[key] = Missing THEN <<>> ELSE <<key, root[key]>>])
parse(text) ==
    [k \in Key |-> LET at == {i \in DOMAIN text : i % 2 = 1 /\ text[i] = k}
                   IN  IF at = {} THEN Missing ELSE text[Max(at) + 1]]

replace(t, from, to) ==
    /\ Calls(t) /\ JsonFree
    /\ cf' = Counted(WithRoot(cf, parse(replaceInPlace(dump(cf.root), <<from>>, <<to>>))))

\* load(): what cannot be read or parsed is ignored.
load(t) ==
    /\ Calls(t) /\ JsonFree
    /\ LET c == IF cf.file.is # "whole" THEN cf ELSE WithRoot(cf, cf.file.root)
       IN  cf' = [Counted(c) EXCEPT !.path = TRUE, !.lost = cf.saved # {} /\ c.root \notin cf.saved]

\* save(): the file is emptied and then written.
save(t) ==
    /\ Calls(t) /\ JsonFree /\ cf.path
    /\ cf' = [Counted(cf) EXCEPT !.json = t, !.th[t].at = "saving", !.file.is = "torn"]

saveFile(t) ==
    /\ cf.th[t].at = "saving"
    /\ cf' = [cf EXCEPT !.json = NoThread, !.th[t].at = "idle", !.torn = FALSE,
                        !.file = [is |-> "whole", root |-> cf.root], !.saved = {cf.root}]

\* The program ends somewhere and starts again.
Crash ==
    /\ cf.crashes < MaxCrashes
    /\ cf' = [cf EXCEPT !.root = Empty, !.path = FALSE, !.base = NoThread, !.json = NoThread,
                        !.th = [t \in Thread |-> NewThread], !.torn = (cf.file.is = "torn"), !.lost = FALSE,
                        !.crashes = @ + 1]

ConfNext ==
    \/ Crash
    \/ \E t \in Thread :
          \/ \E k \in Key : remove(t, k) \/ \E v \in {"v", "w"} : setRaw(t, k, v)
          \/ \E asks \in BOOLEAN : PropertyChanged(t, asks)
          \/ readDefault(t) \/ readCurrent(t) \/ removeAll(t)
          \/ replace(t, "v", "w") \/ replace(t, "cur", "def")
          \/ load(t) \/ save(t) \/ saveFile(t)

-----------------------------------------------------------------------------
\* A scoped read answers what was the effective setting at some moment of the call,
\* whatever other threads set meanwhile, unless a key was removed (getString); what
\* load() reads is what save() last wrote, unless a crash cut a save() off (saveFile);
\* and Configuration::_mutex is held for good only by a thread whose PropertyChanged
\* slot asked the configuration (setRaw).
ConfigurationSound ==
    /\ \A t \in Thread :
           LET r == cf.th[t] IN  r.at = "idle" /\ r.ret # Missing => r.ret \in r.seen \/ r.disturbed
    /\ cf.lost => cf.torn
    /\ cf.base # NoThread => cf.th[cf.base].at \in {"emit", "stuck"}
    /\ cf.json # NoThread => cf.th[cf.json].at = "saving" /\ cf.file.is = "torn"

\* What was split is there again when it is joined, but for a last empty line (split);
\* replacing is what the pieces joined by the new text are (replaceInPlace); trimming at
\* both ends is trimming at each (trim); comparing orders texts by their small letters
\* (icompare); a copy in blocks is a copy (copyStream).
WordsSound ==
    LET s == tx.text
        Joined(parts, sep) == FoldLeft(LAMBDA a, b : a \o sep \o b, Head(parts), Tail(parts))
    IN  /\ Joined(split(s, <<"a">>, -1), <<"a">>) = s
        /\ LET l == split(s, <<"a">>, 2)
           IN  Joined(l, <<"a">>) = s \/ (Len(l) = 3 /\ l[3] = <<>> /\ Joined(Front(l), <<"a">>) = s)
        /\ \A limit \in {-1, 2, 3} :
               LET l == splitChar(s, "a", limit)
               IN  s # <<>> => Joined(l, <<"a">>) \in {s} \cup (IF Last(s) = "a" THEN {Front(s)} ELSE {})
        /\ replaceInPlace(s, <<"a">>, <<"!", "!">>) = Joined(split(s, <<"a">>, -1), <<"!", "!">>)
        /\ ~Contains(removeSpecialCharacters(s), "!") \/ find(s, <<"!", "!">>, 1) # 0
               \/ find(s, <<"!", " ">>, 1) # 0 \/ find(s, <<" ", "!">>, 1) # 0
        /\ trim(s) = trimLeft(trimRight(s)) /\ trim(s) = trimRight(trimLeft(s))
        /\ \A r \in Texts("words", 2) :
               icompare(s, r) = -icompare(r, s) /\ (icompare(s, r) = 0 <=> toLower(s) = toLower(r))
        /\ copyStream(s, 2) = s /\ copyStream(s, 1) = s

\* Numbers come back from their texts, padded or not, decimal or not (format, strtoi,
\* parseInt); a version that compares greater is greater, and not less (compareVersion);
\* a pattern with more wildcards matches more (matchNodes).
NumbersSound ==
    LET s == tx.text
        nodes(t) == split(t, <<"/">>, -1)
        Number(t) == [i \in DOMAIN split(t, <<".">>, -1) |-> strtoi(split(t, <<".">>, -1)[i], 16, TRUE)]
        Greater(l, r) == \E i \in DOMAIN l \cap DOMAIN r : l[i] > r[i] /\ \A j \in 1..(i - 1) : l[j] = r[j]
    IN  /\ tx.kind = "number" =>
               /\ \A w \in {1, 4}, z \in BOOLEAN :
                      LET f == format(tx.n, w, z)
                      IN  strtoi(f, 16, TRUE) = tx.n /\ Len(f) = Max({w, Len(itostr(tx.n))})
               /\ parseInt(<<"0", "x">> \o formatHex(tx.n, 4, 16)) = <<TRUE, tx.n>>
               /\ strtoi(itostr(tx.n), 16, FALSE) = tx.n % 2^16
               /\ isNumber(s) /\ s # <<>> => strtoi(s, 16, TRUE) = strtoi(s, 16, FALSE) \/ Value(s) >= 2^15
        /\ tx.kind = "version" =>
               \A r \in Texts("version", 3) : r # <<>> /\ compareVersion(s, r) =>
                   Greater(Number(s), Number(r)) /\ ~compareVersion(r, s)
        /\ tx.kind = "list" => \A x \in Texts("list", 3) : matches(s, x) =>
               \A i \in DOMAIN nodes(x) : matchNodes(nodes(s), [nodes(x) EXCEPT ![i] = <<"*">>]) \/ x = <<"*">>

\* A path is its directory and its file, what mkdirr() makes ends with the path, and one
\* slash at the end goes (normalize); an address that was read is written so that it
\* is read again as the same one (Address, toString), and addresses of one family are
\* ordered one way (operator<).
PathsAndAddressesSound ==
    LET s == tx.text
        a == parseAddress(s)
        Known == {b \in {parseAddress(t) : t \in {<<"4", ":", "h">>, <<"[", ":", ":", "]", ":", "6">>, <<"4", ":", "6">>}} :
                     b.family # "none"}
    IN  /\ tx.kind = "path" =>
               /\ lastSep(s) > 0 => dirname(s) \o <<"/">> \o filename(s) = s
               /\ lastSep(s) > 1 /\ Last(dirname(s)) # "/" => addnode(dirname(s), filename(s)) = s
               /\ HasExt(s) => basename(s) \o <<".">> \o From(s, lastDot(s) + 1) = s
               /\ ~HasExt(s) => basename(s) = s /\ extname(s, TRUE) = <<>>
               /\ ~Contains(normalize(s), "\\")
               /\ LET n == normalize(s)
                  IN  n # <<>> /\ n[1] = "/" /\ Last(n) # "/" /\ find(n, <<"/", "/">>, 1) = 0 => Last(mkdirr(s)) = n
        /\ tx.kind = "address" /\ s # <<>> /\ a.family # "none" =>
               /\ parseAddress(toString(a)) = a
               /\ \A b \in Known :
                      /\ Equal(a, b) <=> a = b
                      /\ Less(a, b) /\ Less(b, a) => a.family # b.family
                      /\ ~Less(a, a)
=============================================================================

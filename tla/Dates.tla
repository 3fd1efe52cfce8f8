------------------------------- MODULE Dates -------------------------------
(***************************************************************************)
(* Dates and times (base/src/datetime.cpp): the conversions between a      *)
(* Julian day and a Gregorian date, the correction of their rounding, the  *)
(* week number, time zones, and formatting and parsing; and the next day   *)
(* of a DailyTrigger (sched/src/trigger.cpp).  They are compared with a    *)
(* calendar that is advanced one day at a time.  Local times and the       *)
(* stopwatch follow.                                                       *)
(***************************************************************************)
EXTENDS Integers, Sequences, SequencesExt, FiniteSets

CONSTANTS
    Span,       \* days walked from each of the starting dates
    MaxClock,   \* bound: the last hour
    DstFrom,    \* daylight saving time lasts from this hour
    DstTo       \* to this one

VARIABLES
    today,      \* the reference calendar: date and day of the week
    zday,       \* its day number
    left,       \* days still to walk
    lclock,     \* the system's time
    ldt,        \* a LocalDateTime: its DateTime and its tzd
    lwatch,     \* a Stopwatch
    lmeant,     \* auxiliary: the instant ldt stands for
    lorigin,    \* auxiliary: how ldt got its tzd
    lran        \* auxiliary: hours the stopwatch has run since its last reset

dvars == <<today, zday, left>>

-----------------------------------------------------------------------------
(* DateTime                                                                *)

isLeapYear(year) == year % 4 = 0 /\ (year % 100 # 0 \/ year % 400 = 0)

daysOfMonth(year, month) ==
    IF month = 2 /\ isLeapYear(year) THEN 29
    ELSE <<31, 28, 31, 30, 31, 30, 31, 31, 30, 31, 30, 31>>[month]

\* toJulianDay(), less 1721118.5: January and February belong to the year
\* before.
toJulianDay(year, month, day) ==
    LET m == IF month < 3 THEN month + 12 ELSE month
        y == IF month < 3 THEN year - 1 ELSE year
    IN  day + <<0, 0, 0, 31, 61, 92, 122, 153, 184, 214, 245, 275, 306, 337>>[m]
            + 365 * y + y \div 4 - y \div 100 + y \div 400

\* computeGregorian(): z whole days, min the minute of the day.  The
\* quarters of the double arithmetic are kept by a factor of four.
computeGregorian(z, min) ==
    LET g4    == 4 * z - 1
        a     == g4 \div 146097
        b     == a - a \div 4
        year  == (4 * b + g4) \div 1461
        c     == b + z - (1461 * year) \div 4
        month == (5 * c + 456) \div 153
        day   == c - (153 * month - 457) \div 5
    IN  [ year  |-> IF month > 12 THEN year + 1 ELSE year,
          month |-> IF month > 12 THEN month - 12 ELSE month,
          day   |-> day, hour |-> min \div 60, min |-> min % 60 ]

\* computeDaytime(): the hour comes from the exact time, and the date is put
\* right when the rounded one lies on the other side of midnight.
computeDaytime(d, hour, min) ==
    LET back ==
            IF d.day > 1 THEN [d EXCEPT !.day = @ - 1]
            ELSE IF d.month > 1
                 THEN [d EXCEPT !.month = @ - 1, !.day = daysOfMonth(d.year, d.month - 1)]
                 ELSE [d EXCEPT !.year = @ - 1, !.month = 12, !.day = 31]
        forward ==
            IF d.day < daysOfMonth(d.year, d.month) THEN [d EXCEPT !.day = @ + 1]
            ELSE IF d.month < 12 THEN [d EXCEPT !.month = @ + 1, !.day = 1]
                 ELSE [d EXCEPT !.year = @ + 1, !.month = 1, !.day = 1]
        e == IF hour = 23 /\ d.hour = 0 THEN back
             ELSE IF hour = 0 /\ d.hour = 23 THEN forward ELSE d
    IN  [e EXCEPT !.hour = hour, !.min = min]

\* DateTime(utcTime): minute m of day z, of which the double is off by err.
DateTime(z, m, err) ==
    LET t == z * 1440 + m + err IN
    computeDaytime(computeGregorian(t \div 1440, t % 1440), m \div 60, m % 60)

\* checkLimit() and normalize(): the microseconds that computeGregorian() rounds
\* up are carried over.
checkLimit(d, lower, higher, limit) ==
    IF d[lower] >= limit
    THEN [d EXCEPT ![higher] = @ + d[lower] \div limit, ![lower] = @ % limit] ELSE d

normalize(d) ==
    LET t == checkLimit(checkLimit(checkLimit(checkLimit(checkLimit(d,
                 "micro", "milli", 1000), "milli", "sec", 1000), "sec", "min", 60),
                 "min", "hour", 60), "hour", "day", 24)
        over == t.day > daysOfMonth(t.year, t.month)
        m    == IF over THEN t.month + 1 ELSE t.month
    IN  [t EXCEPT !.day = IF over THEN @ - daysOfMonth(t.year, t.month) ELSE @,
                  !.month = IF m > 12 THEN m - 12 ELSE m,
                  !.year = IF m > 12 THEN @ + 1 ELSE @]

\* What assign() asserts and the parser demands.
isValid(d) ==
    /\ d.year \in 0..9999 /\ d.month \in 1..12 /\ d.day \in 1..daysOfMonth(d.year, d.month)
    /\ d.hour \in 0..23 /\ d.min \in 0..59 /\ d.sec \in 0..59
    /\ d.milli \in 0..999 /\ d.micro \in 0..999

dayOfWeek(z) == (z + 1721120) % 7

dayOfYear(d) ==
    d.day + FoldSeq(+, 0, [m \in 1..(d.month - 1) |-> daysOfMonth(d.year, m)])

weekOf(doy, baseDay) ==
    LET offs == IF baseDay <= 4 THEN 0 ELSE 1 IN
    IF doy < baseDay THEN offs ELSE (doy - baseDay) \div 7 + 1 + offs

\* week(firstDayOfWeek)
week(d, first) ==
    LET baseDay == CHOOSE k \in 1..7 : dayOfWeek(toJulianDay(d.year, 1, k)) = first
    IN  weekOf(dayOfYear(d), baseDay)

hourAMPM(h) == IF h < 1 THEN 12 ELSE IF h > 12 THEN h - 12 ELSE h

-----------------------------------------------------------------------------
(* Timespan.  TLC's integers have 32 bits: two of the thousand             *)
(* microseconds of a millisecond are told apart.                           *)

MILLISECONDS == 2
SECONDS == 1000 * MILLISECONDS
MINUTES == 60 * SECONDS
HOURS == 60 * MINUTES
DAYS == 24 * HOURS

\* assign(days, hours, minutes, seconds, microseconds)
Timespan(days, hours, minutes, seconds, micros) ==
    micros + seconds * SECONDS + minutes * MINUTES + hours * HOURS + days * DAYS

\* The division of C++ drops the fraction; the remainder has the sign of a.
Quot(a, b) == IF a >= 0 THEN a \div b ELSE -((-a) \div b)
Rem(a, b) == a - b * Quot(a, b)

\* days(), hours(), ... microseconds(), and the totals.
SpanParts(s) ==
    [ days |-> Quot(s, DAYS), hours |-> Rem(Quot(s, HOURS), 24),
      minutes |-> Rem(Quot(s, MINUTES), 60), seconds |-> Rem(Quot(s, SECONDS), 60),
      millis |-> Rem(Quot(s, MILLISECONDS), 1000), micros |-> Rem(s, MILLISECONDS),
      useconds |-> Rem(s, SECONDS) ]

SpanTotals(s) ==
    [hours |-> Quot(s, HOURS), minutes |-> Quot(s, MINUTES), seconds |-> Quot(s, SECONDS)]

\* One conversion of append(str, timespan, fmt).
SpanField(c, s) ==
    LET p == SpanParts(s)  t == SpanTotals(s) IN
    CASE c = "d" -> p.days [] c = "H" -> p.hours [] c = "h" -> t.hours
      [] c = "M" -> p.minutes [] c = "m" -> t.minutes [] c = "S" -> p.seconds
      [] c = "s" -> t.seconds [] c = "i" -> p.millis [] c = "c" -> Quot(p.millis, 100)
      [] c = "F" -> p.millis * MILLISECONDS + p.micros

-----------------------------------------------------------------------------
(* DateTimeFormatter and DateTimeParser.  A text is the sequence of its    *)
(* fields; the separators between them are dropped.                        *)

Format ==
    [ ISO8601      |-> <<"Y", "m", "d", "H", "M", "S", "z">>,
      ISO8601_FRAC |-> <<"Y", "m", "d", "H", "M", "s", "z">>,
      RFC822       |-> <<"w", "e", "b", "y", "H", "M", "S", "z">>,
      RFC1123      |-> <<"w", "e", "b", "Y", "H", "M", "S", "z">>,
      RFC850       |-> <<"W", "e", "b", "y", "H", "M", "S", "z">>,
      ASCTIME      |-> <<"w", "b", "e", "H", "M", "S", "Y">>,
      SORTABLE     |-> <<"Y", "m", "d", "H", "M", "S">>,
      TWELVE       |-> <<"Y", "m", "d", "h", "M", "S", "a">> ]

\* tzdISO() and tzdRFC(): a sign, hours and minutes, or the name of UTC.
tzdText(tzd) ==
    LET v == IF tzd >= 0 THEN tzd ELSE -tzd IN
    IF tzd = 0 THEN [zone |-> "Z"]
    ELSE [zone |-> "none", sign |-> IF tzd >= 0 THEN 1 ELSE -1,
          hh |-> v \div 3600, mm |-> (v % 3600) \div 60]

MONTH_NAMES ==
    <<"Jan", "Feb", "Mar", "Apr", "May", "Jun", "Jul", "Aug", "Sep", "Oct", "Nov", "Dec">>

\* "%b" writes the first letters of the name.
MonthName(c, month) == IF c = "b" THEN MONTH_NAMES[month] ELSE month

\* The first name that begins with the letters read.
parseMonth(x) ==
    CHOOSE i \in 1..12 : MONTH_NAMES[i] = x /\ \A j \in 1..(i - 1) : MONTH_NAMES[j] # x

\* One conversion of append().
Field(c, t) ==
    CASE c = "Y" -> t.year [] c = "y" -> t.year % 100
      [] c \in {"m", "b"} -> MonthName(c, t.month) [] c \in {"d", "e"} -> t.day
      [] c = "H" -> t.hour [] c = "h" -> hourAMPM(t.hour) [] c = "M" -> t.min
      [] c = "S" -> t.sec [] c = "s" -> <<t.sec, t.milli * 1000 + t.micro>>
      [] c = "a" -> t.hour < 12 [] c = "z" -> tzdText(t.tzd)
      [] OTHER -> 0

append(fmt, t) == [i \in 1..Len(Format[fmt]) |-> Field(Format[fmt][i], t)]

\* The year of "%y", and of "%r" below 1000.
centuryOf(y) == IF y >= 69 THEN y + 1900 ELSE y + 2000

parseAMPM(h, am) == IF am THEN (IF h = 12 THEN 0 ELSE h) ELSE (IF h < 12 THEN h + 12 ELSE h)

parseTZD(x) == IF x.zone = "Z" THEN 0 ELSE x.sign * (x.hh * 3600 + x.mm * 60)

\* One conversion of parse().
parseField(c, x, t) ==
    CASE c = "Y" -> [t EXCEPT !.year = x]
      [] c = "y" -> [t EXCEPT !.year = centuryOf(x)]
      [] c = "r" -> [t EXCEPT !.year = IF x < 1000 THEN centuryOf(x) ELSE x]
      [] c = "m" -> [t EXCEPT !.month = x]
      [] c = "b" -> [t EXCEPT !.month = parseMonth(x)]
      [] c \in {"d", "e"} -> [t EXCEPT !.day = x]
      [] c \in {"H", "h"} -> [t EXCEPT !.hour = x]
      [] c = "M" -> [t EXCEPT !.min = x]
      [] c = "S" -> [t EXCEPT !.sec = x]
      [] c = "s" -> [t EXCEPT !.sec = x[1], !.milli = x[2] \div 1000, !.micro = x[2] % 1000]
      [] c = "a" -> [t EXCEPT !.hour = parseAMPM(t.hour, x)]
      [] c = "z" -> [t EXCEPT !.tzd = parseTZD(x)]
      [] OTHER -> t

Zero == [year |-> 0, month |-> 1, day |-> 1, hour |-> 0, min |-> 0, sec |-> 0,
         milli |-> 0, micro |-> 0, tzd |-> 0]

Invalid == "component out of range"

parse(convs, text) ==
    LET t == FoldLeftDomain(LAMBDA u, i : parseField(convs[i], text[i], u), Zero, text)
    IN  IF isValid(t) THEN t ELSE Invalid

\* tryParse(str) picks the format from the shape of the text: a name and a
\* comma, with its year taken by "%r"; a name and a space; or digits.
tryParse(fmt, text) ==
    parse(IF fmt \in {"RFC822", "RFC1123", "RFC850"}
          THEN [Format[fmt] EXCEPT ![4] = "r"] ELSE Format[fmt], text)

-----------------------------------------------------------------------------
(* DailyTrigger::update()                                                  *)

\* One pass over daysExcluded, and the six passes; days are counted from
\* the day the search starts.
skipPass(next, excluded) ==
    FoldSeq(LAMBDA x, n : IF x = n % 7 THEN n + 1 ELSE n, next, Reverse(excluded))

nextRun(start, excluded) ==
    FoldSeq(LAMBDA i, n : skipPass(n, excluded), start, [i \in 1..6 |-> i])

-----------------------------------------------------------------------------
(* The reference calendar                                                  *)

\* Dates and their days of the week, near the ends of centuries and others.
Start == { [date |-> <<1899, 12, 1>>, dow |-> 5], [date |-> <<1999, 12, 1>>, dow |-> 3],
           [date |-> <<2023, 12, 1>>, dow |-> 5], [date |-> <<2099, 12, 1>>, dow |-> 2] }

DInit ==
    /\ today \in Start
    /\ zday = toJulianDay(today.date[1], today.date[2], today.date[3])
    /\ left = Span

MonthDays(y, m) ==
    IF m \in {4, 6, 9, 11} THEN 30
    ELSE IF m # 2 THEN 31
    ELSE IF (4 * (y \div 4) = y /\ 100 * (y \div 100) # y) \/ 400 * (y \div 400) = y THEN 29 ELSE 28

Tomorrow ==
    LET y == today.date[1]  m == today.date[2]  d == today.date[3] IN
    [ date |-> IF d < MonthDays(y, m) THEN <<y, m, d + 1>>
               ELSE IF m < 12 THEN <<y, m + 1, 1>> ELSE <<y + 1, 1, 1>>,
      dow  |-> (today.dow + 1) % 7 ]

DNext ==
    /\ left > 0
    /\ today' = Tomorrow /\ zday' = zday + 1 /\ left' = left - 1

DSpec == DInit /\ [][DNext]_dvars

Stamp(h, mi, s, us, z) ==
    [year |-> today.date[1], month |-> today.date[2], day |-> today.date[3],
     hour |-> h, min |-> mi, sec |-> s, milli |-> us \div 1000, micro |-> us % 1000, tzd |-> z]

-----------------------------------------------------------------------------
(* Properties                                                              *)

\* The date computed from a time is the calendar's, to the minute and on
\* both sides of midnight, whichever way the double was rounded; the day
\* number, the day of the week and the week number (week 1 contains January
\* 4, and weeks change on the first day of the week) agree with it.
CalendarExact ==
    LET d == [year |-> today.date[1], month |-> today.date[2], day |-> today.date[3]]
        jan4 == zday - dayOfYear(d) + 4
    IN  /\ \A m \in {0, 1, 719, 1438, 1439}, err \in {-1, 0, 1} :
              LET t == DateTime(zday, m, err) IN
              /\ <<t.year, t.month, t.day>> = today.date
              /\ t.hour = m \div 60 /\ t.min = m % 60
        /\ toJulianDay(d.year, d.month, d.day) = zday
        /\ dayOfWeek(zday) = today.dow
        /\ \A first \in {0, 1} :
              week(d, first) =
                  LET sow(z) == z - ((dayOfWeek(z) - first + 7) % 7)
                  IN  (sow(zday) - sow(jan4)) \div 7 + 1

\* What was formatted is what the parser reads back, and what it reads back
\* when it has to find the format itself, for every format of the library
\* and for the years its two-digit forms can tell apart.
DatesRoundTrip ==
    today.date[3] \in {1, 31} =>
    \A h \in {0, 1, 12, 23}, us \in {7, 123456}, z \in {0, 3600, 19800, -12600} :
        LET t == Stamp(h, 59, 58, us, z)
            kept(fmt) == [t EXCEPT !.milli = IF fmt = "ISO8601_FRAC" THEN @ ELSE 0,
                                   !.micro = IF fmt = "ISO8601_FRAC" THEN @ ELSE 0,
                                   !.tzd = IF Contains(Format[fmt], "z") THEN @ ELSE 0]
        IN  \A fmt \in DOMAIN Format :
                (Contains(Format[fmt], "y") => t.year \in 1969..2068) =>
                    /\ parse(Format[fmt], append(fmt, t)) = kept(fmt)
                    /\ tryParse(fmt, append(fmt, t)) = kept(fmt)

\* A time rounded up to the next second, minute, hour, day, month or year is the
\* calendar's (normalize); and the parts of a span, of either sign, make up the
\* span, as numbers and as text (Timespan, append).
CarriesExact ==
    LET up == normalize([Stamp(23, 59, 59, 999000, 0) EXCEPT !.micro = 1000])
        s  == left * 383839
    IN  /\ <<up.year, up.month, up.day>> = Tomorrow.date /\ isValid(up) /\ up.hour = 0 /\ up.milli = 0
        /\ \A span \in {s, -s, s + 5 * DAYS, -s - 3 * DAYS} :
              LET p == SpanParts(span) IN
              /\ Timespan(p.days, p.hours, p.minutes, p.seconds, p.useconds) = span
              /\ p.useconds = SpanField("F", span)
              /\ SpanField("h", span) = 24 * p.days + p.hours
              /\ SpanField("m", span) = 60 * SpanField("h", span) + p.minutes
              /\ SpanField("s", span) = 60 * SpanField("m", span) + SpanField("S", span)

\* A daily task is set to the first day that is not excluded, in whatever
\* order the excluded days are listed.
NextRunAllowed ==
    left > Span - 7 =>
    \A ex \in SUBSET (0..6) : ex # 0..6 =>
        \A list \in {SetToSeq(ex), Reverse(SetToSeq(ex))} :
            LET n == nextRun(today.dow, list) IN
            /\ n % 7 \notin ex
            /\ \A k \in today.dow..(n - 1) : k % 7 \in ex

-----------------------------------------------------------------------------
(***************************************************************************)
(* Instants, spans, local times and the stopwatch                          *)
(* (base/include/scy/datetime.h, base/src/datetime.cpp) in a zone with     *)
(* daylight saving time.  The unit of a TimeVal is an hour.                *)
(***************************************************************************)

lvars == <<lclock, ldt, lwatch, lmeant, lorigin, lran>>

-----------------------------------------------------------------------------
(* Timestamp: tenths of its unit, counted from an earlier origin.          *)

Epoch == 17     \* 0x01b21dd213814000

utcTime(ts) == ts * 10 + Epoch

fromUtcTime(val) == (val - Epoch) \div 10

-----------------------------------------------------------------------------
(* Timezone                                                                *)

utcOffset == 1

isDst(ts) == DstFrom <= ts /\ ts < DstTo

Tzd(ts) == utcOffset + (IF isDst(ts) THEN 1 ELSE 0)

\* What mktime() may say of fields: a time read once, twice or never.
DstOfFields(ts) ==
    LET reads == {u \in (ts - 2)..ts : u + Tzd(u) = ts}
    IN  IF reads = {} THEN BOOLEAN ELSE {isDst(u) : u \in reads}

-----------------------------------------------------------------------------
(* LocalDateTime                                                           *)

\* timestamp() is that of the fields; utcTime() takes the tzd off.
LocalTimestamp(d) == fromUtcTime(d.utc)

LocalUtcTime(d) == d.utc - d.tzd * 10

adjustForTzd(d) == [d EXCEPT !.utc = @ + d.tzd * 10]

\* determineTzd(true), of a DateTime in UTC.
determineTzd(utc) ==
    adjustForTzd([utc |-> utc, tzd |-> Tzd(fromUtcTime(utc))])

\* operator+=(span) and operator-=(span)
AddSpan(d, span) == determineTzd(LocalUtcTime(d) + span * 10)

-----------------------------------------------------------------------------
(* Stopwatch                                                               *)

NewWatch == [start |-> 0, elapsed |-> 0, running |-> FALSE]

Elapsed(w, now) == IF w.running THEN w.elapsed + (now - w.start) ELSE w.elapsed

-----------------------------------------------------------------------------
LInit ==
    /\ lclock = 0
    /\ ldt = determineTzd(utcTime(0)) /\ lmeant = 0 /\ lorigin = "instant"
    /\ lwatch = NewWatch /\ lran = 0

Become(d, instant, origin) ==
    /\ ldt' = d /\ lmeant' = instant /\ lorigin' = origin
    /\ UNCHANGED <<lclock, lwatch, lran>>

\* LocalDateTime(), and LocalDateTime(dateTime)
Construct == Become(determineTzd(utcTime(lclock)), lclock, "instant")

\* LocalDateTime(year, month, ...) and assign(year, month, ...): the fields of
\* hour ts.
AssignFields(ts) ==
    \E dst \in DstOfFields(ts) :
        LET d == [utc |-> utcTime(ts), tzd |-> utcOffset + (IF dst THEN 1 ELSE 0)]
        IN  Become(d, fromUtcTime(LocalUtcTime(d)),
                   IF \E u \in (ts - 2)..ts : u + Tzd(u) = ts THEN "instant" ELSE "gap")

\* LocalDateTime(tzd, dateTime, adjust)
WithTzd(tzd, adjust) ==
    LET d == [utc |-> utcTime(lclock), tzd |-> tzd] IN
    IF adjust THEN Become(adjustForTzd(d), lclock, "given")
    ELSE Become(d, lclock - tzd, "given")

Add(span) == Become(AddSpan(ldt, span), lmeant + span, "instant")

\* operator=(timestamp) does nothing when the timestamp is that of the fields.
AssignTimestamp(ts) ==
    IF ts # LocalTimestamp(ldt) THEN Become(determineTzd(utcTime(ts)), ts, "instant")
    ELSE Become(ldt, lmeant, lorigin)

\* start(), stop(), reset() and restart()
Watch(w, ran) == lwatch' = w /\ lran' = ran /\ UNCHANGED <<lclock, ldt, lmeant, lorigin>>

start == ~lwatch.running /\ Watch([lwatch EXCEPT !.start = lclock, !.running = TRUE], lran)

stop ==
    /\ lwatch.running
    /\ Watch([lwatch EXCEPT !.elapsed = @ + (lclock - lwatch.start), !.running = FALSE], lran)

reset == Watch([lwatch EXCEPT !.elapsed = 0, !.running = FALSE], 0)

restart == Watch([start |-> lclock, elapsed |-> 0, running |-> TRUE], 0)

\* An hour passes.
LTick ==
    /\ lclock < MaxClock /\ lclock' = lclock + 1
    /\ lran' = IF lwatch.running THEN lran + 1 ELSE lran
    /\ UNCHANGED <<ldt, lwatch, lmeant, lorigin>>

LNext ==
    \/ Construct \/ start \/ stop \/ reset \/ restart \/ LTick
    \/ \E ts \in 0..MaxClock : AssignFields(ts) \/ AssignTimestamp(ts)
    \/ \E tzd \in 0..2, adjust \in BOOLEAN : WithTzd(tzd, adjust)
    \/ \E span \in -2..2 : lmeant + span \in 0..MaxClock /\ Add(span)

LSpec == LInit /\ [][LNext]_lvars

-----------------------------------------------------------------------------
(* Properties                                                              *)

\* However a local time was made and moved, over the changes to and from
\* daylight saving time, it stands for the same instant in UTC and shows that
\* instant's local time, unless its tzd was given or its fields name an hour
\* that was skipped (determineTzd, operator+=); and the stopwatch shows the time
\* it has run, whenever it was stopped and started again (start, stop, elapsed).
LocalTimeExact ==
    /\ fromUtcTime(LocalUtcTime(ldt)) = lmeant
    /\ lorigin = "instant" => ldt.tzd = Tzd(lmeant) /\ LocalTimestamp(ldt) = lmeant + Tzd(lmeant)
    /\ Elapsed(lwatch, lclock) = lran
=============================================================================

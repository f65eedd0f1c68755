----------------------------- MODULE Timecodes ------------------------------
(***************************************************************************)
(* The readers of timecodes: the sentences of the NMEA driver              *)
(* (refclock_nmea.rs) and of the timecode parser (parse.rs), which read    *)
(* the same sentences by rules of their own, and the fixed-width formats   *)
(* of the generic clock; and the calendars that count the days.            *)
(*                                                                         *)
(* A calendar date walks from day to day.  A sentence about it is a record *)
(* of its fields: a number that is none is Bad, an empty field Empty.  A   *)
(* fixed-width line is a sequence of two-digit groups.                     *)
(***************************************************************************)
EXTENDS CivilDates, SequencesExt

CONSTANTS Starts,       \* dates to walk from: [y, m, d, n], n the days since 1970
          DaysWalked,   \* bound on the days of a walk
          Clocks,       \* times of day: [h, mi, s, digits], digits after the point
          Zones,        \* zone fields of ZDA: [h, mi]
          Formats,      \* lists of fixed-width formats, each a sequence of letters
          Bad, Empty

VARIABLES date,         \* [y, m, d, n]
          walked,       \* days since the start
          line          \* the sentence or the fixed-width line of now

timeVars == <<date, walked, line>>

\* civil_from_days of ntpdig, which prints times.
CivilFromDays(n) ==
  LET z == n + 719468
      era == z \div 146097
      doe == z - era * 146097
      yoe == (doe - doe \div 1460 + doe \div 36524 - doe \div 146096) \div 365
      doy == doe - (365 * yoe + yoe \div 4 - yoe \div 100)
      mp == (5 * doy + 2) \div 153
      m == IF mp < 10 THEN mp + 3 ELSE mp - 9
  IN  [y |-> yoe + era * 400 + (IF m <= 2 THEN 1 ELSE 0), m |-> m, d |-> doy - (153 * mp + 2) \div 5 + 1]

\* ntp_calendar: the day of the year and back; past the year it is December 31.
MonthTable(y) == [DaysInMonth EXCEPT ![2] = IF LeapYear(y) THEN 29 ELSE 28]
YmdToYd(y, m, d) == d + SumFunctionOnSet(MonthTable(y), 1 .. m - 1)
YdToYmd(y, yd) ==
  LET In == {m \in 1 .. 12 : yd <= YmdToYd(y, m, MonthTable(y)[m])} IN
  IF In = {} THEN <<12, 31>> ELSE LET m == Min(In) IN <<m, yd - YmdToYd(y, m, 0)>>

\* Seconds are a day and the second of it.  Of negative ones, unix_seconds_to_hms
\* takes the remainder from a whole day, which makes midnight the hour 24.
Hms(i) == LET s == IF i.day >= 0 THEN i.sec ELSE 86400 - ((86400 - i.sec) % 86400)
          IN  [h |-> s \div 3600, mi |-> (s % 3600) \div 60, s |-> s % 60]

\* 1900-01-01 is 25567 days before 1970-01-01.  ts_to_ntp and tv_to_ntp take a
\* second more from an instant before 1970, and the way back does not.
SecondBefore(i) == IF i.sec = 0 THEN [day |-> i.day - 1, sec |-> 86399] ELSE [i EXCEPT !.sec = @ - 1]
SinceNtpEpoch(i) == [i EXCEPT !.day = @ + 25567]
TsToNtp(i) == SinceNtpEpoch(IF i.day >= 0 THEN i ELSE SecondBefore(i))
NtpToTs(ts) == [ts EXCEPT !.day = @ - 25567]

\* unix_seconds_to_ymd: its division rounds down, so only the day counts.
Ymd(i) == CivilFromDays(i.day)

\* NtpCalendar::from_ntp; day 0 was a Thursday.
FromNtp(ts) == LET i == NtpToTs(ts)
               IN  [day |-> Ymd(i), time |-> Hms(i), weekday |-> (i.day + 4) % 7]

\* The parser takes the day number of 1970-01-01 off once more; it is 0.
CivilDays(y, m, d) == DaysFromCivil(y, m, d) - DaysFromCivil(1970, 1, 1)

Unread == [none |-> TRUE]
NoDay == [y |-> 0, m |-> 1, d |-> 1]

Intact(s) == s.sum = "right"

\* Nine digits count, missing ones are zeros.
Nanos(digits) == FoldLeft(LAMBDA v, k : v * 10 + (IF k <= Len(digits) THEN digits[k] ELSE 0),
                          0, [k \in 1 .. 9 |-> k])

TimeOk(t) == t \notin {Bad, Empty} /\ t.h <= 23 /\ t.mi <= 59 /\ t.s <= 59
TimeRead(t) == [h |-> t.h, mi |-> t.mi, s |-> t.s, ns |-> Nanos(t.digits)]

DateOk(s) == Bad \notin {s.d, s.m} /\ s.d \in 1 .. 31 /\ s.m \in 1 .. 12

Position(s) == s.position = "given"

WithTime(s, day, status) == [time |-> TimeRead(s.time), day |-> day, status |-> status]

\* The driver's sentences.
DriverGga(s) == IF s.n >= 15 /\ Position(s) /\ s.quality # Bad /\ s.altitude # Bad
                THEN WithTime(s, NoDay, s.quality) ELSE Unread
DriverRmc(s) == IF s.n >= 12 /\ Position(s) /\ s.status # Empty /\ DateOk(s)
                THEN WithTime(s, [y |-> s.y % 100, m |-> s.m, d |-> s.d], s.status) ELSE Unread
DriverGll(s) == IF s.n >= 7 /\ Position(s) /\ s.status # Empty
                THEN WithTime(s, NoDay, s.status) ELSE Unread
DriverZda(s) == IF s.n >= 5 /\ DateOk(s) /\ s.y # Bad /\ s.y \in 1900 .. 2100
                THEN WithTime(s, [y |-> s.y, m |-> s.m, d |-> s.d], "A") ELSE Unread

\* parse_nmea_sentence.
DriverReads(s) ==
  IF ~Intact(s) \/ ~TimeOk(s.time) THEN Unread
  ELSE CASE s.kind = "GGA" -> DriverGga(s) [] s.kind = "RMC" -> DriverRmc(s)
         [] s.kind = "GLL" -> DriverGll(s) [] s.kind = "ZDA" -> DriverZda(s)
         [] OTHER -> Unread

\* The parser's: it needs fewer fields of GGA and RMC, and more of ZDA.
Timecode(s, day, offset) == [time |-> TimeRead(s.time), day |-> day, offset |-> offset]
Year4(yy) == IF yy >= 80 THEN 1900 + yy ELSE 2000 + yy

ParserGga(s) == IF s.n >= 6 THEN Timecode(s, NoDay, 0) ELSE Unread
\* The pivot of the fixed-width formats; a mutant of the one of the sentences.
Year4At70(yy) == IF yy >= 70 THEN 1900 + yy ELSE 2000 + yy
ParserYear(yy) == Year4(yy)
ParserRmc(s) == IF s.n >= 10 /\ s.status = "A" /\ DateOk(s)
                THEN Timecode(s, [y |-> ParserYear(s.y % 100), m |-> s.m, d |-> s.d], 0) ELSE Unread
\* Truncating division: half an hour is lost.
ZoneHours(z) == IF z = Empty THEN 0
                ELSE z.h + (IF z.h >= 0 THEN z.mi \div 60 ELSE -(z.mi \div 60))
ParserZda(s) == IF s.n >= 7 /\ s.zone # Bad /\ DateOk(s) /\ s.y # Bad
                THEN Timecode(s, [y |-> s.y, m |-> s.m, d |-> s.d], ZoneHours(s.zone)) ELSE Unread

\* parse_nmea_timecode; it does not know GLL.
ParserReads(s) ==
  IF ~Intact(s) \/ ~TimeOk(s.time) THEN Unread
  ELSE CASE s.kind = "GGA" -> ParserGga(s) [] s.kind = "RMC" -> ParserRmc(s)
         [] s.kind = "ZDA" -> ParserZda(s) [] OTHER -> Unread

\* A letter of a format: the field it sets, and the two-digit groups it takes.
Letters == [Y |-> "y", y |-> "y", M |-> "m", D |-> "d", h |-> "h", m |-> "mi", s |-> "s"]
Groups(c) == IF c = "Y" THEN 2 ELSE 1

\* The groups of the first n letters, and those of letter i.
Widths(fmt, n) == SumFunctionOnSet([i \in DOMAIN fmt |-> Groups(fmt[i])], 1 .. n)
GroupsOf(fmt, i) == Widths(fmt, i - 1) + 1 .. Widths(fmt, i)

FieldValue(c, gs, pos) ==
  CASE c = "Y" -> gs[pos] * 100 + gs[pos + 1]
    [] c = "y" -> Year4At70(gs[pos])
    [] OTHER -> gs[pos]

\* The letters before the first that no field has; of two for a field the later
\* one counts.
Known(fmt) == {i \in DOMAIN fmt : \A j \in 1 .. i : fmt[j] \in DOMAIN Letters}
LettersFor(fmt, f) == {i \in DOMAIN fmt : Letters[fmt[i]] = f}
Value(fmt, gs, f) ==
  IF LettersFor(fmt, f) = {} THEN (IF f \in {"m", "d"} THEN 1 ELSE 0)
  ELSE LET i == Max(LettersFor(fmt, f)) IN FieldValue(fmt[i], gs, Widths(fmt, i - 1) + 1)

\* One format: "bad" where a group is no number, "no" where the line does not
\* fit, otherwise the fields.
Fill(fmt, gs) ==
  IF Len(gs) < Widths(fmt, Len(fmt)) THEN [is |-> "no"]
  ELSE IF \E i \in Known(fmt) : \E k \in GroupsOf(fmt, i) : gs[k] = Bad THEN [is |-> "bad"]
  ELSE IF Known(fmt) # DOMAIN fmt THEN [is |-> "no"]
  ELSE [is |-> "read", tc |-> [f \in {"y", "m", "d", "h", "mi", "s"} |-> Value(fmt, gs, f)]]

InRange(tc) == /\ tc.m \in 1 .. 12 /\ tc.d \in 1 .. 31
               /\ tc.h <= 23 /\ tc.mi <= 59 /\ tc.s <= 60

\* parse_fixed_width_timecode: the first format that fits, and a group that is
\* no number ends the search.
Ends(r) == r.is = "bad" \/ (r.is = "read" /\ InRange(r.tc))
FixedWidth(gs, formats) ==
  LET r == [i \in DOMAIN formats |-> Fill(formats[i], gs)]
      ends == {i \in DOMAIN formats : Ends(r[i])}
  IN  IF ends = {} \/ r[Min(ends)].is = "bad" THEN Unread ELSE r[Min(ends)].tc

\* A line in a format, as a clock writes it: group k, of the letter that has it.
Digits(c, first, t, now) ==
  CASE c = "Y" -> IF first THEN t.y \div 100 ELSE t.y % 100
    [] c = "y" -> t.y % 100
    [] c = "M" -> t.m
    [] c = "D" -> t.d
    [] c = "h" -> now.h
    [] c = "m" -> now.mi
    [] OTHER -> now.s
Printed(fmt, t, now) ==
  [k \in 1 .. Widths(fmt, Len(fmt)) |->
     LET i == CHOOSE i \in DOMAIN fmt : k \in GroupsOf(fmt, i)
     IN  Digits(fmt[i], k = Widths(fmt, i - 1) + 1, t, now)]

Sentence(kind, t, c, s) ==
  [kind |-> kind, sum |-> "right", n |-> 15, time |-> c, status |-> s, position |-> "given",
   quality |-> 1, altitude |-> Empty, y |-> t.y, m |-> t.m, d |-> t.d, zone |-> Empty]

\* What may be wrong with one of them.
Variants(s) ==
  {s} \cup {[s EXCEPT !.n = k] : k \in {5, 6, 7, 10, 12}}
  \cup {[s EXCEPT !.sum = "wrong"], [s EXCEPT !.position = "missing"], [s EXCEPT !.quality = Bad],
        [s EXCEPT !.altitude = Bad], [s EXCEPT !.time = Empty], [s EXCEPT !.d = 32], [s EXCEPT !.m = Bad],
        [s EXCEPT !.y = IF s.kind = "ZDA" THEN Bad ELSE @]}
  \cup {[s EXCEPT !.zone = z] : z \in Zones \cup {Bad}}

Sentences(t) == UNION {Variants(Sentence(k, t, c, s)) :
                         k \in {"GGA", "RMC", "GLL", "ZDA", "TXT"}, c \in Clocks, s \in {"A", "V", Empty}}

\* The calendar: the days of a month, and those since 1970, by the years, the
\* leap days among them and the months of this one.
DaysOfMonth(y, m) == DaysInMonth[m] + (IF m = 2 /\ LeapYear(y) THEN 1 ELSE 0)
LeapDays(y) == y \div 4 - y \div 100 + y \div 400
MonthStart == <<0, 31, 59, 90, 120, 151, 181, 212, 243, 273, 304, 334>>
DayNumber(y, m, d) ==
  365 * (y - 1970) + LeapDays(IF m > 2 THEN y ELSE y - 1) - LeapDays(1969) + MonthStart[m] + d - 1

\* A format whose letters set fields, each another one.
Sound(fmt) == /\ fmt \in Seq(DOMAIN Letters)
              /\ \A i, j \in DOMAIN fmt : Letters[fmt[i]] = Letters[fmt[j]] => i = j

\* A walk begins at a date of the calendar; a line is read in a sound format,
\* or in the first that fits of several; Bad and Empty are no numbers.
ASSUME TimeAssumption ==
  /\ \A s \in Starts : /\ s \in [y : Nat \ {0}, m : 1..12, d : 1..31, n : Int]
                       /\ s.d <= DaysOfMonth(s.y, s.m) /\ s.n = DayNumber(s.y, s.m, s.d)
  /\ Clocks \in SUBSET [h : 0..23, mi : 0..60, s : 0..60, digits : Seq(0..9)]
  /\ \A fs \in Formats : Len(fs) \in Nat /\ (Len(fs) = 1 => DOMAIN fs = {1} /\ Sound(fs[1]))
  /\ Bad \notin Int /\ Empty \notin {"A", "V"}

Tomorrow(t) ==
  CASE t.d < DaysOfMonth(t.y, t.m) -> [y |-> t.y, m |-> t.m, d |-> t.d + 1, n |-> t.n + 1]
    [] t.m < 12 /\ t.d = DaysOfMonth(t.y, t.m) -> [y |-> t.y, m |-> t.m + 1, d |-> 1, n |-> t.n + 1]
    [] OTHER -> [y |-> t.y + 1, m |-> 1, d |-> 1, n |-> t.n + 1]

TimeInit == date \in Starts /\ walked = 0 /\ line = Unread

NextDate == /\ walked < DaysWalked /\ walked' = walked + 1
            /\ date' = Tomorrow(date) /\ line' = Unread

\* On the first day of a walk, and its last: every sentence, and every format.
Shows == /\ line = Unread /\ walked \in {0, DaysWalked}
         /\ \/ line' \in Sentences(date)
            \/ \E fs \in Formats, c \in Clocks :
                 \E i \in DOMAIN fs : line' = [kind |-> "fixed", formats |-> fs, by |-> i, c |-> c,
                                               groups |-> Printed(fs[i], date, c)]
         /\ UNCHANGED <<date, walked>>

TimeNext == NextDate \/ Shows

TimeSpec == TimeInit /\ [][TimeNext]_timeVars

\* Zeller's congruence: the day of the week, Sunday 0, without a day count.
Zeller(y, m, d) ==
  LET yy == IF m <= 2 THEN y - 1 ELSE y
      mm == IF m <= 2 THEN m + 12 ELSE m
      j == yy \div 100
      k == yy % 100
  IN  (d + (13 * (mm + 1)) \div 5 + k + k \div 4 + j \div 4 + 5 * j + 6) % 7

\* What NtpCalendar should say of an instant of the day t.
CalendarOf(t, sec) ==
  [day |-> [y |-> t.y, m |-> t.m, d |-> t.d], weekday |-> Zeller(t.y, t.m, t.d),
   time |-> [h |-> sec \div 3600, mi |-> (sec % 3600) \div 60, s |-> sec % 60]]

\* The routines of one day, and the calendar of an NTP time on it.
DaysAgree(t) ==
  LET yday == JulianDays(t.y, t.m, t.d) - JulianDays(t.y, 1, 1) + 1 IN
  /\ DaysFromCivil(t.y, t.m, t.d) = t.n
  /\ CivilDays(t.y, t.m, t.d) = t.n
  /\ JulianDays(t.y, t.m, t.d) = t.n
  /\ t.n >= 0 => DateDays(t.y, t.m, t.d) = t.n /\ YdayDays(t.y, yday) = t.n
  /\ CivilFromDays(t.n) = [y |-> t.y, m |-> t.m, d |-> t.d]
  /\ YmdToYd(t.y, t.m, t.d) = yday
  /\ YdToYmd(t.y, yday) = <<t.m, t.d>>

NtpDate(t, sec) == FromNtp(TsToNtp([day |-> t.n, sec |-> sec]))
NtpDatesAgree(t) ==
  /\ \A sec \in {2, 43200, 86399} : NtpDate(t, sec) = CalendarOf(t, IF t.n >= 0 THEN sec ELSE sec - 1)
  /\ \A sec \in {0, 1} :
       IF t.n >= 0 THEN NtpDate(t, sec) = CalendarOf(t, sec)
       ELSE IF sec = 0 THEN NtpDate(t, sec).day = CivilFromDays(t.n - 1) ELSE NtpDate(t, sec).time.h = 24

\* The engine's own routine leaves the eras of 400 years out and counts from
\* 1 March 1970: from March 1600 to February 2000 it is 59 days early.
EngineStrays(t) ==
  LET era == (IF t.m > 2 THEN t.y ELSE t.y - 1) \div 400
  IN  TimecodeDays(t.y, t.m, t.d) = t.n - 59 - 146097 * (era - 4)

(* Whichever routine of the drivers, the parser, the statistics files and  *)
(* the calendar counts the days of a date, it counts them right, and       *)
(* the date of that many days is the date again; the routines of the       *)
(* drivers, which start counting there, from 1970 on.  The engine's own is *)
(* the exception, and wrong by the days EngineStrays says and no more.     *)
(* The calendar of an NTP time is right as well, weekday included; before  *)
(* 1970 it is a second behind, so that at midnight it is the day before,   *)
(* and a second later 24 o'clock (refclock drivers, parse, ntp_filegen,    *)
(* ntpdig, daemon_engine, ntp_calendar, ntp_fp).                           *)
CalendarsAgree == DaysAgree(date) /\ EngineStrays(date) /\ NtpDatesAgree(date)

Shown == [y |-> date.y, m |-> date.m, d |-> date.d]

\* Both readers take the sentence.
ReadAlike(s, a, b) ==
  LET day == IF s.kind = "RMC" THEN [a.day EXCEPT !.y = Year4(@)] ELSE a.day IN
  /\ a.time = b.time /\ day = b.day
  /\ (s.kind = "ZDA" \/ (s.kind = "RMC" /\ date.y \in 1980 .. 2079)) => day = Shown

DriverOnly(s) == \/ s.kind = "GLL"
                 \/ s.kind = "RMC" /\ s.status # "A"
                 \/ s.kind = "ZDA" /\ (s.n < 7 \/ s.zone = Bad)

ParserOnly(s) == IF s.kind = "ZDA" THEN s.y \notin 1900 .. 2100
                 ELSE s.n < 15 \/ ~Position(s) \/ Bad \in {s.quality, s.altitude}

\* One format, a time there is and a year its digits tell.
OneReading(l) == /\ Len(l.formats) = 1 /\ l.c.mi <= 59
                 /\ Contains(l.formats[1], "y") => date.y \in 1970 .. 2069

ReadAsPrinted(l) ==
  LET fmt == l.formats[1]
      tc == FixedWidth(l.groups, l.formats)
  IN  /\ tc # Unread
      /\ (Contains(fmt, "Y") \/ Contains(fmt, "y")) => tc.y = date.y
      /\ Contains(fmt, "D") => tc.d = date.d
      /\ Contains(fmt, "s") => tc.s = l.c.s

(* A sentence both readers accept they read alike, and as the receiver     *)
(* meant it as long as two digits tell the year; what the parser refuses   *)
(* and the driver takes is a GLL, a void RMC or a ZDA without good zone    *)
(* fields, and the other way round a sentence without fields the time does *)
(* not need, or of a year far away.  A fixed-width line is read as it was  *)
(* written when its format is the only one (parse_nmea_sentence,           *)
(* parse_nmea_timecode, parse_fixed_width_timecode).                       *)
SentencesAgree ==
  /\ "sum" \in DOMAIN line =>
       LET a == DriverReads(line)
           b == ParserReads(line)
       IN  CASE a # Unread /\ b # Unread -> ReadAlike(line, a, b)
             [] a # Unread /\ b = Unread -> DriverOnly(line)
             [] a = Unread /\ b # Unread -> ParserOnly(line)
             [] OTHER -> TRUE
  /\ "groups" \in DOMAIN line /\ OneReading(line) => ReadAsPrinted(line)
=============================================================================

----------------------------- MODULE NmeaClock ------------------------------
(***************************************************************************)
(* The NMEA driver (refclock_nmea.rs) as a function of its state and the   *)
(* next line.  A line is a sentence with its kind, whether it parses       *)
(* (checksum, fields, ranges), whether the receiver calls it valid, the    *)
(* tick `at` at which it was written and, when it has one, the date it     *)
(* shows, a position in the calendar Dates.  Positions are left out.       *)
(*                                                                         *)
(* The driver keeps the date of the last dated sentence, with a two-digit  *)
(* year, and the four-digit year of the last ZDA: GGA and GLL give only a  *)
(* time of day and are dated with them.                                    *)
(***************************************************************************)
EXTENDS CivilDates, Sequences

CONSTANTS Dates,        \* consecutive days: records [d, m, y]
          TicksPerDay   \* instants of a day

ASSUME NmeaAssumption ==
  /\ Dates \in Seq([d : 1 .. 31, m : 1 .. 12, y : 1970 .. 2100]) /\ Dates # <<>>
  /\ TicksPerDay \in Nat \ {0}

DayOf(t) == t \div TicksPerDay + 1
TodOf(t) == t % TicksPerDay

Dated == {"RMC", "ZDA"}
TimeOnly == {"GGA", "GLL"}

\* A date as the driver caches it; none is day 0.
NoDate == [d |-> 0, m |-> 0, yy |-> 0]
Cached(k) == [d |-> Dates[k].d, m |-> Dates[k].m, yy |-> Dates[k].y % 100]
FullYear(yy) == IF yy >= 80 THEN 1900 + yy ELSE 2000 + yy

\* Ticks since the first day of Dates.
At(y, m, d, tod) == (DaysFromCivil(y, m, d)
                     - DaysFromCivil(Dates[1].y, Dates[1].m, Dates[1].d)) * TicksPerDay + tod

NmeaNew == [date |-> NoDate, year4 |-> 0, from |-> 0]

(* sentence_to_unix: no time from a sentence the receiver calls void, and  *)
(* none from a time of day without a date.                                 *)
Usable(c, l) == /\ l.kind # "ZDA" => l.valid
                /\ l.kind \in TimeOnly => c.date # NoDate

SentenceTime(c, l) ==
  CASE l.kind = "RMC" -> LET k == Cached(l.date) IN At(FullYear(k.yy), k.m, k.d, TodOf(l.at))
    [] l.kind = "ZDA" -> LET k == Dates[l.date] IN At(k.y, k.m, k.d, TodOf(l.at))
    [] OTHER -> At(IF c.year4 # 0 THEN c.year4 ELSE FullYear(c.date.yy), c.date.m, c.date.d, TodOf(l.at))

\* `from` is history: when the sentence was written that gave the date.
CacheDate(c, l) ==
  CASE l.kind = "RMC" -> [c EXCEPT !.date = Cached(l.date), !.from = l.at]
    [] l.kind = "ZDA" -> [date |-> Cached(l.date), year4 |-> Dates[l.date].y, from |-> l.at]
    [] OTHER -> c

\* Mutant: the date is taken before the status is looked at.
NmeaCachesVoid(c, l) ==
  LET k == IF l.good THEN CacheDate(c, l) ELSE c IN
  IF ~l.good \/ ~Usable(k, l)
  THEN [out |-> "more", drv |-> k]
  ELSE [out |-> "sample", drv |-> k, time |-> SentenceTime(k, l), leap |-> "none",
        of |-> {l.id}, src |-> [l EXCEPT !.date = k.from]]
\* read_sample on one line: lines that do not parse and sentences without a
\* time are passed over, and only then is the date cached.
NmeaStep(c, l) ==
  IF ~l.good \/ ~Usable(c, l)
  THEN [out |-> "more", drv |-> c]
  ELSE [out |-> "sample", drv |-> CacheDate(c, l), time |-> SentenceTime(c, l), leap |-> "none",
        of |-> {l.id}, src |-> [l EXCEPT !.date = CacheDate(c, l).from]]

=============================================================================

----------------------------- MODULE CivilDates -----------------------------
(***************************************************************************)
(* The calendar arithmetic of the reference clocks.  Every driver brings   *)
(* its own routine for the days since 1970: the one of Hinnant (NMEA and   *)
(* the timecode parser), the sum over years and months (Modem, JJY, HP),   *)
(* the sum over years and a day of the year (Arbiter, TrueTime, Zyfer,     *)
(* Spectracom) and the engine's own for timecodes, which is wrong; the     *)
(* statistics files have one more.                                         *)
(***************************************************************************)
EXTENDS Integers, FiniteSetsExt

\* Mutant: every fourth year.
FourthYear(y) == y % 4 = 0
LeapYear(y) == (y % 4 = 0 /\ y % 100 # 0) \/ y % 400 = 0

DaysInMonth == [m \in 1 .. 12 |-> CASE m = 2 -> 28 [] m \in {4, 6, 9, 11} -> 30 [] OTHER -> 31]

YearDays(y) == SumFunction([k \in 1970 .. y - 1 |-> IF LeapYear(k) THEN 366 ELSE 365])

\* days_from_civil of the NMEA driver, less the day number of 1970-01-01.
DaysFromCivil(y, m, d) ==
  LET yy == IF m <= 2 THEN y - 1 ELSE y
      era == yy \div 400
      yoe == yy - era * 400
      doy == (153 * (IF m > 2 THEN m - 3 ELSE m + 9) + 2) \div 5 + d - 1
  IN  era * 146097 + yoe * 365 + yoe \div 4 - yoe \div 100 + doy - 719468

\* yday_to_unix: the day of the year is added to the years before.
YdayDays(y, yday) == YearDays(y) + yday - 1

\* date_to_unix: the months before it, with February's leap day.
DateDays(y, m, d) ==
  YearDays(y) + SumFunctionOnSet(DaysInMonth, 1 .. m - 1)
  + (IF m > 2 /\ LeapYear(y) THEN 1 ELSE 0) + d - 1

\* days_since_epoch of the statistics files: by way of the Julian day number.
JulianDays(y, m, d) ==
  LET a == (14 - m) \div 12
      yy == y + 4800 - a
      mm == m + 12 * a - 3
  IN  d + (153 * mm + 2) \div 5 + 365 * yy + yy \div 4 - yy \div 100 + yy \div 400 - 32045 - 2440588

\* parsed_timecode_to_sample: the years of the era are counted, the eras are
\* not, and the days begin on 1 March 1970.
TimecodeDays(y, m, d) ==
  LET yy == IF m <= 2 THEN y - 1 ELSE y
      mm == IF m <= 2 THEN m + 12 ELSE m
      era == (IF yy >= 0 THEN yy ELSE yy - 399) \div 400
      yoe == yy - era * 400
      Doe(k) == k * 365 + k \div 4 - k \div 100
  IN  Doe(yoe) + (153 * (mm - 3) + 2) \div 5 + d - 1 - Doe(370)
=============================================================================

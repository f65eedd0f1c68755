----------------------------- MODULE MCRefclocks ----------------------------
(* Instances of RefclockManager for TLC: each kind of clock by itself, with  *)
(* a pulse source beside an NMEA clock, over the end of a year at which the  *)
(* two-digit year changes its century.                                       *)
EXTENDS RefclockManager

DateSeq == <<[d |-> 31, m |-> 12, y |-> 2079], [d |-> 1, m |-> 1, y |-> 2080]>>

One(t) == <<[type |-> t, subtype |-> "unset"]>>
SetupSet == {One(t) : t \in Known \cup {"local"}}
  \cup {<<[type |-> "jjy", subtype |-> s]>> : s \in {"jjy01", "seiko"}}
  \cup {<<[type |-> "pps", subtype |-> "unset"], [type |-> "hpgps", subtype |-> "unset"]>>}
\* Only clocks whose samples depend on the time need one that runs.
LastInstant(s) == IF \E i \in DOMAIN s : s[i].type \in {"gpsd", "shm"} THEN 1 ELSE 2

Line(form, good, sync, leap, n) ==
  <<[form |-> form, good |-> good, sync |-> sync, leap |-> leap, id |-> n]>>
Bytes(seq, n) == [k \in DOMAIN seq |-> [b |-> seq[k], id |-> n]]
TimePacket == <<16, 66, 7, 16, 16, 16, 3>>
UtcPacket == <<16, 143, 7, 171, 16, 3>>
OncorePacket == <<170, 68, 18, 64, 234, 7, 7, 1, 2>>

NmeaReports(n, t) ==
  LET S(kind, good, valid, date) ==
        <<[kind |-> kind, good |-> good, valid |-> valid, date |-> date, id |-> n, at |-> t]>>
      today == IF DayOf(t) \in DOMAIN Dates THEN DayOf(t) ELSE Len(Dates)
  IN  {S("RMC", TRUE, TRUE, today), S("ZDA", TRUE, TRUE, today), S("RMC", FALSE, TRUE, today)}
      \cup {S("RMC", TRUE, FALSE, k) : k \in DOMAIN Dates}
      \cup {S(k, TRUE, v, 0) : k \in TimeOnly, v \in BOOLEAN}

ReportSet(type, n, t) ==
  CASE type = "nmea" -> NmeaReports(n, t)
    [] type = "trimble" -> {Bytes(p, n) : p \in {TimePacket, UtcPacket, <<16, 65, 7, 7, 7, 7, 7, 7, 16, 3>>}}
    [] type = "oncore" -> {Bytes(OncorePacket, n), Bytes([OncorePacket EXCEPT ![5] = 7], n)}
    [] type = "jjy" -> {Line(f, TRUE, TRUE, "none", n) : f \in {"date", "time", "full", "wild"}}
                       \cup {Line("time", FALSE, TRUE, "none", n)}
    [] type = "hpgps" -> {Line("full", TRUE, TRUE, l, n) : l \in {"none", "add"}}
                         \cup {Line(f, TRUE, TRUE, "none", n) : f \in {"manual", "wild"}}
                         \cup {Line("full", TRUE, FALSE, "none", n)}
    [] type \in {"modem", "generic"} -> {Line("full", TRUE, TRUE, "none", n)}
    [] OTHER -> {Line(f, TRUE, TRUE, "none", n) : f \in {"short", "cut", "manual"}}
                \cup {Line("full", TRUE, s, "none", n) : s \in BOOLEAN}
                \cup {Line("full", FALSE, TRUE, "none", n)}

LeftoverSet(type) ==
  CASE type = "trimble" -> {<<>>, Bytes(<<16, 3>>, 0), Bytes(<<7, 16, 16, 16, 3>>, 0)}
    [] type = "oncore" -> {<<>>, Bytes(<<234, 7, 170, 7>>, 0)}
    [] OTHER -> {<<>>}
=============================================================================

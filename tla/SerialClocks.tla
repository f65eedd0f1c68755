---------------------------- MODULE SerialClocks ----------------------------
(***************************************************************************)
(* The other serial drivers, each as a function of its state, the next     *)
(* line or byte on its device and the time t at which it is read.  A line  *)
(* is kept by its form (how long it is, which layout it has), whether its  *)
(* numbers parse (good), whether the receiver says it is locked (sync) and *)
(* its leap warning.  A line of "wild" form is whole and names a month of   *)
(* 14 or more, for which date_to_unix has no entry.                        *)
(*                                                                         *)
(* Whatever a timecode says, the sample is stamped with the time at which  *)
(* the line was read: the drivers compute the second the timecode names    *)
(* and drop it.                                                            *)
(***************************************************************************)
EXTENDS Sequences, FiniteSetsExt

CONSTANTS PacketBytes,   \* room of the Trimble report buffer (RMAX, 172)
          TimeBytes,     \* least data of a Trimble time packet (10)
          UtcBytes,      \* least data of a packet with the offset of UTC (8)
          OncoreBytes    \* length of an Oncore message (44)

ASSUME SerialAssumption == PacketBytes \in Nat /\ TimeBytes \in Nat /\ UtcBytes \in Nat \ {0, 1} /\ OncoreBytes \in Nat \ {0}

More(c) == [out |-> "more", drv |-> c]              \* continue with the next line
Fail(c) == [out |-> "none", drv |-> c]              \* Ok(None) or Err: no sample this poll
Panics(c) == [out |-> "panic", drv |-> c]           \* a slice out of range
Sample(c, l, t, leap) ==
  [out |-> "sample", drv |-> c, time |-> t, leap |-> leap, of |-> {l.id}, src |-> l]
AlarmUnless(sync) == IF sync THEN "none" ELSE "alarm"

-----------------------------------------------------------------------------
(* Drivers with one line per sample.  A line of "cut" form passes the test *)
(* of the length and is shorter than the last field read from it.          *)

ArbiterStep(c, l, t) ==
  CASE l.form = "short" -> More(c)
    [] l.form = "cut" -> Panics(c)
    [] l.form \notin {"short", "cut"} /\ ~l.good -> More(c)
    [] OTHER -> Sample(c, l, t, AlarmUnless(l.sync))

\* A number that does not parse ends the read; a line in a mode in which the
\* time is not set from GPS (form "manual") is passed over.
ZyferStep(c, l, t) ==
  CASE l.form \in {"short", "cut"} -> More(c)
    [] l.form \notin {"short", "cut"} /\ ~l.good -> Fail(c)
    [] l.form = "manual" /\ l.good -> More(c)
    [] OTHER -> Sample(c, l, t, AlarmUnless(l.sync))

\* A sample is given only when one was asked for, and nothing asks.
TrueTimeStep(c, l, t) ==
  CASE l.form = "short" -> More(c)
    [] l.form = "cut" -> Panics(c)
    [] l.form \notin {"short", "cut"} /\ l.good /\ c.polled ->
         Sample([c EXCEPT !.polled = FALSE], l, t, AlarmUnless(l.sync))
    [] OTHER -> More(c)

\* Format 2, with a year, and what is not format 2 read as format 0.
SpectracomStep(c, l, t) ==
  IF l.form \in {"short", "cut"} \/ ~l.good THEN More(c) ELSE Sample(c, l, t, AlarmUnless(l.sync))

\* Only a locked receiver with a small figure of merit ("manual": a large one)
\* and a right checksum gives a sample, which carries its leap warning.
HpGpsStep(c, l, t) ==
  CASE l.form = "wild" /\ l.good /\ l.sync -> Panics(c)
    [] l.form = "full" /\ l.good /\ l.sync -> Sample(c, l, t, l.leap)
    [] OTHER -> More(c)

\* One line a poll; the format it is opened with, "%H%M%S", begins with a
\* character that is no specifier, so that no line ever matches it.
GenericStep(c, l, t) == Fail(c)

-----------------------------------------------------------------------------
(* JJY.  A Tristate receiver answers with a date line and a time line: the *)
(* sample is given on the first line that is no date when both were heard. *)
(* The other receivers put both on one line.                               *)

Tristate == {"jjy01", "gpsclock"}

\* A date with its month, wild or not, and a time; what is neither is no news.
DateHeard(c, l) == IF l.good THEN [c EXCEPT !.got = @ \cup {"date"}, !.date = l.id, !.wild = l.form = "wild"] ELSE c
TimeHeard(c, l) == IF l.form = "time" /\ l.good THEN [c EXCEPT !.got = @ \cup {"time"}, !.time = l.id] ELSE c

\* Mutant: a Tristate sample forgets that its date and its time were used.
JjyKeepsParts(c, l, t) ==
  LET time == TimeHeard(c, l) IN
  CASE l.form \in {"date", "wild"} -> More(DateHeard(c, l))
    [] l.form \notin {"date", "wild"} /\ time.got # {"date", "time"} -> More(time)
    [] OTHER -> IF time.wild THEN Panics(time)
                ELSE [Sample(time, l, t, "none") EXCEPT !.of = {time.date, time.time}]
JjyTristate(c, l, t) ==
  LET time == TimeHeard(c, l) IN
  CASE l.form \in {"date", "wild"} -> More(DateHeard(c, l))
    [] l.form \notin {"date", "wild"} /\ time.got # {"date", "time"} -> More(time)
    [] OTHER -> IF time.wild THEN Panics(time)
                ELSE [Sample([time EXCEPT !.got = {}], l, t, "none") EXCEPT !.of = {time.date, time.time}]

JjyOneLine(c, l, t) ==
  CASE l.form = "wild" /\ l.good -> Panics(c)
    [] l.form = "full" /\ l.good -> Sample(c, l, t, "none")
    [] OTHER -> More(c)

JjyStep(c, l, t) == IF c.subtype \in Tristate THEN JjyTristate(c, l, t) ELSE JjyOneLine(c, l, t)

-----------------------------------------------------------------------------
(* Trimble TSIP: DLE id data DLE ETX, where a DLE in the data is sent      *)
(* twice.  buf holds the bytes with the packet each came in.               *)

DLE == 16
ETX == 3
Room(buf, more) == SubSeq(buf \o more, 1, IF Len(buf \o more) > PacketBytes THEN PacketBytes ELSE Len(buf \o more))

\* A whole packet: a time packet gives a sample, the packet with the offset
\* of UTC is kept, others are dropped.
TrimblePacket(c, t) ==
  LET id == c.buf[1].b
      n == Len(c.buf) - 1
      idle == [c EXCEPT !.st = "empty"]
  IN  CASE id = 66 /\ n >= TimeBytes ->
             [Sample(idle, c.buf[1], t, "none") EXCEPT !.of = {c.buf[k].id : k \in 1 .. Len(c.buf)}]
        [] id = 143 /\ n >= UtcBytes /\ c.buf[3].b = 171 -> More([idle EXCEPT !.utc = TRUE])
        [] OTHER -> More(idle)

TrimbleStep(c, l, t) ==
  CASE c.st = "empty" -> More(IF l.b = DLE THEN [c EXCEPT !.st = "dle1", !.buf = <<>>] ELSE c)
    [] c.st = "dle1" -> More([c EXCEPT !.st = "data", !.buf = <<l>>])
    [] c.st = "data" /\ l.b = DLE -> More([c EXCEPT !.st = "dle2"])
    [] c.st = "data" /\ l.b # DLE ->
         More(IF Len(c.buf) < PacketBytes THEN [c EXCEPT !.buf = Append(@, l)] ELSE [c EXCEPT !.st = "empty"])
    [] c.st = "dle2" /\ l.b = ETX -> TrimblePacket(c, t)
    [] c.st = "dle2" /\ l.b # ETX ->
         More([c EXCEPT !.st = "data",
                        !.buf = Room(@, IF l.b = DLE THEN <<l>> ELSE <<[l EXCEPT !.b = DLE], l>>)])

-----------------------------------------------------------------------------
(* Oncore: three bytes to find the start, a message of fixed length, two   *)
(* bytes of checksum that nothing compares.                                *)

OncoreStep(c, l, t) ==
  CASE c.st = "sync1" -> More(IF l.b = 170 THEN [c EXCEPT !.st = "sync2", !.buf = <<>>] ELSE c)
    [] c.st = "sync2" -> More([c EXCEPT !.st = IF l.b = 68 THEN "sync3" ELSE "sync1"])
    [] c.st = "sync3" -> More([c EXCEPT !.st = IF l.b = 18 THEN "idlen" ELSE "sync1"])
    [] c.st = "idlen" -> More([c EXCEPT !.st = "data", !.buf = <<l>>])
    [] c.st = "data" -> More([c EXCEPT !.buf = Append(@, l),
                                       !.st = IF Len(c.buf) + 1 >= OncoreBytes THEN "sum1" ELSE "data"])
    [] c.st = "sum1" -> More([c EXCEPT !.st = "sum2"])
    [] c.st = "sum2" ->
         LET idle == [c EXCEPT !.st = "sync1"] IN
         IF c.buf[1].b = 64 /\ c.buf[2].b = 234
         THEN [Sample(idle, c.buf[1], t, "none") EXCEPT !.of = {c.buf[k].id : k \in 1 .. Len(c.buf)}]
         ELSE More(idle)

-----------------------------------------------------------------------------
\* The state of each driver once its device is open.
SerialNew(type, subtype) ==
  CASE type = "jjy" -> [subtype |-> subtype, got |-> {}, date |-> 0, time |-> 0, wild |-> FALSE]
    [] type = "truetime" -> [polled |-> FALSE]
    [] type = "trimble" -> [st |-> "empty", buf |-> <<>>, utc |-> FALSE]
    [] type = "oncore" -> [st |-> "sync1", buf |-> <<>>]
    [] OTHER -> [open |-> TRUE]

SerialStep(type, c, l, t) ==
  CASE type = "arbiter" -> ArbiterStep(c, l, t)
    [] type = "zyfer" -> ZyferStep(c, l, t)
    [] type = "truetime" -> TrueTimeStep(c, l, t)
    [] type = "spectracom" -> SpectracomStep(c, l, t)
    [] type = "hpgps" -> HpGpsStep(c, l, t)
    [] type = "generic" -> GenericStep(c, l, t)
    [] type = "jjy" -> JjyStep(c, l, t)
    [] type = "trimble" -> TrimbleStep(c, l, t)
    [] type = "oncore" -> OncoreStep(c, l, t)

=============================================================================

-------------------------- MODULE RefclockManager --------------------------
(***************************************************************************)
(* The reference clocks of the daemon: the manager of daemon_engine.rs     *)
(* that opens, polls and closes them, the drivers, the devices they read   *)
(* and the engine's handling of the samples.                               *)
(*                                                                         *)
(* Every tenth turn of the main loop polls the clocks one after another,   *)
(* with the time at which the poll began, and hands the samples to the     *)
(* engine when all have been read.  A driver reads until it has a sample,  *)
(* its device has no more, or an error ends it; meanwhile the devices run  *)
(* on.  Serial drivers (NmeaClock, SerialClocks) wait for their device     *)
(* without limit.  The system clock is right: `now' is the true time, and  *)
(* a sample carries the report it was made from, for the properties.       *)
(***************************************************************************)
EXTENDS NmeaClock, SerialClocks

CONSTANTS FirstNow,     \* the clock when the daemon starts
          Setups,       \* sequences of clocks: records [type, subtype]
          Reports(_, _, _),   \* what a serial device may write: type, number, time
          Leftovers(_),       \* what it may have half written before it was opened
          LastNow(_),   \* bound on the clock, for a sequence of clocks
          MaxReports,   \* bound on what each device writes
          MaxQueue,     \* bound on what a device has written unread
          DeviceLines,  \* lines read after the handshake with gpsd (5)
          MaxOffset     \* largest offset taken (1 000 000 s)

ASSUME ManagerAssumption ==
  /\ FirstNow \in Nat /\ MaxReports \in Nat /\ MaxQueue \in Nat
  /\ DeviceLines \in Nat \ {0} /\ MaxOffset \in Nat
  /\ Setups \subseteq Seq([type : STRING, subtype : STRING])
  /\ \A s \in Setups : LastNow(s) \in Nat /\ FirstNow <= LastNow(s)

Serial == {"arbiter", "zyfer", "truetime", "spectracom", "hpgps", "modem", "generic", "jjy", "trimble", "oncore"}
Known == Serial \cup {"nmea", "gpsd", "shm", "pps"}
MaxBackoff == 30

VARIABLES now,      \* the time
          phase,    \* of the process: start, up, closed, dead
          setup,    \* the configured clocks
          active,   \* which of them are open
          drv,      \* state of each driver
          dev,      \* what each device offers
          poll,     \* which clock is read (0: none), since when
          pending,  \* samples read, not yet handled
          taken,    \* the last sample each association took
          used      \* history: reports that samples were made of

vars == <<now, phase, setup, active, drv, dev, poll, pending, taken, used>>

None == [out |-> "none"]
Clocks == DOMAIN setup
Type(i) == setup[i].type
Reading(i, types) == phase = "up" /\ poll.at = i /\ i \in Clocks /\ active[i] /\ Type(i) \in types

DriverNew(i) ==
  CASE Type(i) = "nmea" -> NmeaNew
    [] Type(i) = "gpsd" -> [st |-> "reading", conn |-> TRUE, fix |-> None, backoff |-> 1, left |-> 0]
    [] Type(i) = "shm" -> [last |-> -1, copy |-> <<>>, copying |-> FALSE]
    [] Type(i) = "pps" -> [seq |-> 0]
    [] Type(i) \in Serial -> SerialNew(Type(i), setup[i].subtype)
    [] OTHER -> None

\* A gpsd that has gone, a segment nobody wrote, a pulse source at rest.
Devices(s) ==
  CASE s.type = "gpsd" -> {[q |-> <<>>, closed |-> FALSE, up |-> TRUE, conn |-> 1, n |-> 0]}
    [] s.type = "shm" -> {[count |-> 0, valid |-> 0, hi |-> 0, lo |-> 0, step |-> 0, mode |-> k, n |-> 0] : k \in {0, 1}}
    [] s.type = "pps" -> {[seq |-> 0, at |-> 0]}
    [] OTHER -> {[q |-> k, closed |-> FALSE, n |-> 0] : k \in Leftovers(s.type)}

Init == /\ now = FirstNow /\ phase = "start"
        /\ setup \in Setups
        /\ active = [i \in Clocks |-> FALSE]
        /\ drv = [i \in Clocks |-> None]
        /\ dev \in {f \in [Clocks -> UNION {Devices(setup[i]) : i \in Clocks}] :
                      \A i \in Clocks : f[i] \in Devices(setup[i])}
        /\ poll = [at |-> 0, rx |-> 0]
        /\ pending = <<>> /\ taken = [i \in Clocks |-> None]
        /\ used = [i \in Clocks |-> {}]

-----------------------------------------------------------------------------
(* Opening, polling and closing.                                           *)

\* open_all: a device that is missing stays closed, an unknown type too.
OpenAll ==
  /\ phase = "start" /\ phase' = "up"
  /\ \E opened \in SUBSET {i \in Clocks : Type(i) \in Known} :
       /\ active' = [i \in Clocks |-> i \in opened]
       /\ drv' = [i \in Clocks |-> IF i \in opened THEN DriverNew(i) ELSE None]
  /\ UNCHANGED <<now, setup, dev, poll, pending, taken, used>>

\* A reload puts a new engine in place, whose clocks nobody opens.
Reload ==
  /\ phase = "up" /\ poll.at = 0 /\ (\E i \in Clocks : active[i])
  /\ active' = [i \in Clocks |-> FALSE]
  /\ drv' = [i \in Clocks |-> None]
  /\ taken' = [i \in Clocks |-> None]
  /\ UNCHANGED <<now, phase, setup, dev, poll, pending, used>>

CloseAll ==
  /\ phase = "up" /\ poll.at = 0 /\ phase' = "closed"
  /\ active' = [i \in Clocks |-> FALSE]
  /\ drv' = [i \in Clocks |-> None]
  /\ UNCHANGED <<now, setup, dev, poll, pending, taken, used>>

BeginPoll ==
  /\ phase = "up" /\ poll.at = 0 /\ (\E i \in Clocks : active[i])
  /\ poll' = [at |-> 1, rx |-> now]
  /\ UNCHANGED <<now, phase, setup, active, drv, dev, pending, taken, used>>

SkipClosed ==
  /\ phase = "up" /\ poll.at \in Clocks /\ ~active[poll.at]
  /\ poll' = [poll EXCEPT !.at = @ + 1]
  /\ UNCHANGED <<now, phase, setup, active, drv, dev, pending, taken, used>>

\* What a driver's step means for the poll: go on, take the sample, no sample.
Outcome(i, r) ==
  /\ drv' = [drv EXCEPT ![i] = r.drv]
  /\ poll' = IF r.out \in {"sample", "none"} THEN [poll EXCEPT !.at = @ + 1] ELSE poll
  /\ pending' = IF r.out = "sample"
                THEN Append(pending, [clock |-> i, time |-> r.time, leap |-> r.leap, rx |-> poll.rx,
                                      of |-> r.of, src |-> r.src])
                ELSE pending
  /\ used' = IF r.out = "sample" THEN [used EXCEPT ![i] = @ \cup r.of] ELSE used
  /\ phase' = IF r.out = "panic" THEN "dead" ELSE phase
  /\ UNCHANGED <<now, setup, active, taken>>

(* handle_refclock_sample: the offset is the sample's time less the time   *)
(* at which the poll began; one beyond the limit is dropped.               *)
Offset(s) == s.time - s.rx
Acceptable(s) == Offset(s) <= MaxOffset /\ -Offset(s) <= MaxOffset

HandleSample ==
  /\ phase = "up" /\ poll.at = Len(setup) + 1 /\ pending # <<>>
  /\ LET s == Head(pending) IN
     taken' = IF Acceptable(s) THEN [taken EXCEPT ![s.clock] = s] ELSE taken
  /\ pending' = Tail(pending)
  /\ UNCHANGED <<now, phase, setup, active, drv, dev, poll, used>>

EndPoll ==
  /\ phase = "up" /\ poll.at = Len(setup) + 1 /\ pending = <<>>
  /\ poll' = [at |-> 0, rx |-> 0]
  /\ UNCHANGED <<now, phase, setup, active, drv, dev, pending, taken, used>>

-----------------------------------------------------------------------------
(* Serial devices and their drivers.                                       *)

WriteReport(i) ==
  /\ Type(i) \in Serial \cup {"nmea"}
  /\ ~dev[i].closed /\ dev[i].n < MaxReports /\ Len(dev[i].q) <= MaxQueue
  /\ \E r \in Reports(Type(i), dev[i].n + 1, now) :
       dev' = [dev EXCEPT ![i].q = @ \o r, ![i].n = @ + 1]
  /\ UNCHANGED <<now, phase, setup, active, drv, poll, pending, taken, used>>

Unplug(i) ==
  /\ Type(i) \in Serial \cup {"nmea"} /\ ~dev[i].closed
  /\ dev' = [dev EXCEPT ![i].closed = TRUE]
  /\ UNCHANGED <<now, phase, setup, active, drv, poll, pending, taken, used>>

\* The idle modem driver and a JJY driver without a receiver type read nothing.
Unread(i) == Type(i) = "modem" \/ (Type(i) = "jjy" /\ setup[i].subtype = "unset")

ReadLine(i) ==
  /\ Reading(i, Serial \cup {"nmea"}) /\ dev[i].q # <<>> /\ ~Unread(i)
  /\ Outcome(i, IF Type(i) = "nmea" THEN NmeaStep(drv[i], Head(dev[i].q))
                ELSE SerialStep(Type(i), drv[i], Head(dev[i].q), now))
  /\ dev' = [dev EXCEPT ![i].q = Tail(@)]

\* A device that is gone reads as the end of the file.
ReadNothing(i) ==
  /\ Reading(i, Serial \cup {"nmea"})
  /\ Unread(i) \/ (dev[i].q = <<>> /\ dev[i].closed)
  /\ Outcome(i, Fail(drv[i]))
  /\ UNCHANGED dev

-----------------------------------------------------------------------------
(* PPS: the kernel keeps the last pulse with its number, 0 before the      *)
(* first, when the time is that of 1970.                                   *)

Pulse(i) ==
  /\ Type(i) = "pps" /\ dev[i].seq < MaxReports
  /\ dev' = [dev EXCEPT ![i] = [seq |-> @.seq + 1, at |-> now]]
  /\ UNCHANGED <<now, phase, setup, active, drv, poll, pending, taken, used>>

PulseTime(d) == IF d.seq = 0 THEN At(1970, 1, 1, 0) ELSE d.at

PpsStep(c, d) ==
  IF d.seq # 0 /\ d.seq = c.seq THEN Fail(c)
  ELSE [Sample([seq |-> d.seq], [id |-> d.seq], PulseTime(d), "none") EXCEPT !.of = {d.seq} \ {0}]

ReadPulse(i) ==
  /\ Reading(i, {"pps"})
  /\ Outcome(i, PpsStep(drv[i], dev[i]))
  /\ UNCHANGED dev

-----------------------------------------------------------------------------
(* SHM: a writer fills the segment word by word.  In mode 0 it counts when *)
(* all is written; in mode 1 it counts first, and that the fields come     *)
(* next is our reading.  Both end with the valid flag, which nobody        *)
(* clears.  The driver copies the segment without a lock, in the order of  *)
(* the words: some now, the others later.                                  *)

ShmFields == <<"count", "valid", "hi", "lo">>
WriterOrder(mode) == IF mode = 0 THEN <<"hi", "lo", "count", "valid">> ELSE <<"count", "hi", "lo", "valid">>

WriterStep(d) ==
  LET f == WriterOrder(d.mode)[d.step + 1]
      n == IF d.step = 0 THEN d.n + 1 ELSE d.n
  IN  [d EXCEPT ![f] = CASE f = "count" -> @ + 1 [] f = "valid" -> 1 [] OTHER -> n,
                !.n = n, !.step = (@ + 1) % Len(ShmFields)]

WriteSegment(i) ==
  /\ Type(i) = "shm" /\ (dev[i].step = 0 => dev[i].n < MaxReports)
  /\ dev' = [dev EXCEPT ![i] = WriterStep(@)]
  /\ UNCHANGED <<now, phase, setup, active, drv, poll, pending, taken, used>>

CopySome(i) ==
  /\ Reading(i, {"shm"}) /\ ~drv[i].copying
  /\ \E k \in 0 .. Len(ShmFields) : drv' = [drv EXCEPT ![i].copy = [j \in 1 .. k |-> dev[i][ShmFields[j]]],
                                                     ![i].copying = TRUE]
  /\ UNCHANGED <<now, phase, setup, active, dev, poll, pending, taken, used>>

\* Mutant: a count is seen although the flag says that nothing is there.
ShmSeesInvalid(c, s) ==
  LET d == [c EXCEPT !.copy = <<>>, !.copying = FALSE, !.last = s[1]] IN
  IF s[1] = c.last \/ s[2] = 0 THEN Fail(d)
  ELSE [Sample(d, [id |-> s[3], low |-> s[4]], s[3], "none") EXCEPT !.of = {}]

\* The clock's time is kept as the number of the write its halves are from.
ShmStep(c, s) ==
  LET d == [c EXCEPT !.copy = <<>>, !.copying = FALSE] IN
  IF s[1] = c.last \/ s[2] = 0 THEN Fail(d)
  ELSE [Sample([d EXCEPT !.last = s[1]], [id |-> s[3], low |-> s[4]], s[3], "none") EXCEPT !.of = {}]

CopyRest(i) ==
  /\ Reading(i, {"shm"}) /\ drv[i].copying
  /\ Outcome(i, ShmStep(drv[i], [j \in 1 .. Len(ShmFields) |->
                     IF j <= Len(drv[i].copy) THEN drv[i].copy[j] ELSE dev[i][ShmFields[j]]]))
  /\ UNCHANGED dev

-----------------------------------------------------------------------------
(* gpsd, a server at the other end of a TCP connection.  Connections are   *)
(* numbered modulo 3, to keep the model finite, and a fix has its number   *)
(* for its time.                                                           *)

\* A VERSION that will do; a TPV or TIME with a time; DEVICE, SKY and ATT;
\* ERROR and a VERSION that is too old; whatever else.
Messages == {"version", "fix", "aside", "refused", "other"}

ServerSends(i) ==
  /\ Type(i) = "gpsd" /\ dev[i].up /\ ~dev[i].closed
  /\ dev[i].n < MaxReports /\ Len(dev[i].q) <= MaxQueue
  /\ \E m \in Messages : dev' = [dev EXCEPT ![i].q = Append(@, IF m = "fix" THEN [m |-> m, id |-> dev[i].n + 1]
                                                                    ELSE [m |-> m]),
                                            ![i].n = @ + 1]
  /\ UNCHANGED <<now, phase, setup, active, drv, poll, pending, taken, used>>

\* The server closes the connection, or goes away, or comes back.
ServerCloses(i) ==
  /\ Type(i) = "gpsd" /\ ~dev[i].closed
  /\ dev' = [dev EXCEPT ![i].closed = TRUE]
  /\ UNCHANGED <<now, phase, setup, active, drv, poll, pending, taken, used>>

ServerStarts(i) ==
  /\ Type(i) = "gpsd" /\ dev[i].closed
  /\ \E up \in BOOLEAN : up # dev[i].up /\ dev' = [dev EXCEPT ![i].up = up]
  /\ UNCHANGED <<now, phase, setup, active, drv, poll, pending, taken, used>>

\* process_message: is the message taken, and the fix it leaves.
Refused(m) == m.m = "refused"
Taken(m) == m.m \in {"version", "aside", "fix"}
FixAfter(c, m, k) == IF m.m = "fix" THEN [id |-> m.id, conn |-> k] ELSE c.fix

Disconnected(c) == [c EXCEPT !.conn = FALSE, !.st = "reading"]

\* read_sample: whatever message is taken, the last fix is given as a sample.
GiveFix(c) == [Sample([c EXCEPT !.backoff = 1], c.fix, c.fix.id, "none")
               EXCEPT !.of = {}]

GpsdLine(c, m, k) ==
  LET d == [c EXCEPT !.fix = FixAfter(c, m, k)] IN
  CASE c.st = "reading" /\ Refused(m) -> More(Disconnected(c))
    [] c.st = "reading" /\ ~Refused(m) -> IF Taken(m) /\ d.fix # None THEN GiveFix(d) ELSE More(d)
    [] c.st # "reading" /\ Refused(m) -> Fail([c EXCEPT !.st = "reading"])
    [] c.st = "version" /\ ~Refused(m) ->
         More(IF m.m = "version" THEN [d EXCEPT !.st = "devices", !.left = DeviceLines] ELSE d)
    [] c.st = "devices" /\ ~Refused(m) ->
         More(IF c.left = 1 THEN [d EXCEPT !.st = "reading", !.left = 0] ELSE [d EXCEPT !.left = @ - 1])

ReadMessage(i) ==
  /\ Reading(i, {"gpsd"}) /\ drv[i].conn /\ dev[i].q # <<>>
  /\ Outcome(i, GpsdLine(drv[i], Head(dev[i].q), dev[i].conn))
  /\ dev' = [dev EXCEPT ![i].q = Tail(@)]

\* Five seconds without a line: an error like any other.
ReadTimeout(i) ==
  /\ Reading(i, {"gpsd"}) /\ drv[i].conn /\ dev[i].q = <<>> /\ ~dev[i].closed
  /\ Outcome(i, IF drv[i].st = "reading" THEN More(Disconnected(drv[i])) ELSE Fail([drv[i] EXCEPT !.st = "reading"]))
  /\ UNCHANGED dev

\* The end of the connection.  While reading it is taken for a connection
\* that is still there, and read again.
ReadEnd(i) ==
  /\ Reading(i, {"gpsd"}) /\ drv[i].conn /\ dev[i].q = <<>> /\ dev[i].closed
  /\ Outcome(i, CASE drv[i].st = "reading" -> More(drv[i])
                  [] drv[i].st = "version" -> Fail([drv[i] EXCEPT !.st = "reading"])
                  [] drv[i].st = "devices" -> More([drv[i] EXCEPT !.st = "reading", !.left = 0]))
  /\ UNCHANGED dev

Doubled(b) == IF 2 * b > MaxBackoff THEN MaxBackoff ELSE 2 * b

\* Mutant: the fix of the old connection is kept.
ConnectedWithFix(c) == [c EXCEPT !.conn = TRUE, !.st = "version", !.left = 0]
\* connect: a new connection starts without a fix.
Connected(c) == [c EXCEPT !.conn = TRUE, !.st = "version", !.fix = None, !.left = 0]

\* Nothing is left of what the old connection carried.
NextConnection(d) == [d EXCEPT !.q = <<>>, !.closed = FALSE, !.conn = (@ + 1) % 3]

\* try_reconnect without a connection: wait, then connect and shake hands.
Reconnect(i) ==
  /\ Reading(i, {"gpsd"}) /\ ~drv[i].conn
  /\ LET c == [drv[i] EXCEPT !.backoff = Doubled(@)] IN
     IF dev[i].up
     THEN /\ Outcome(i, More(Connected(c)))
          /\ dev' = [dev EXCEPT ![i] = NextConnection(@)]
     ELSE Outcome(i, Fail(c)) /\ UNCHANGED dev

-----------------------------------------------------------------------------
Tick == /\ now < LastNow(setup) /\ now' = now + 1
        /\ UNCHANGED <<phase, setup, active, drv, dev, poll, pending, taken, used>>

Read(i) == \/ ReadLine(i) \/ ReadNothing(i) \/ ReadPulse(i) \/ CopySome(i) \/ CopyRest(i)
           \/ ReadMessage(i) \/ ReadTimeout(i) \/ ReadEnd(i) \/ Reconnect(i)

\* What devices do once nobody has them open is left out.
Outside(i) ==
  \/ (phase = "start" \/ active[i]) /\ (WriteReport(i) \/ Unplug(i) \/ Pulse(i) \/ WriteSegment(i))
  \/ active[i] /\ (ServerSends(i) \/ ServerCloses(i) \/ ServerStarts(i))

Loop == BeginPoll \/ SkipClosed \/ HandleSample \/ EndPoll \/ (\E i \in Clocks : Read(i))

Next == OpenAll \/ Reload \/ CloseAll \/ Tick \/ Loop \/ (\E i \in Clocks : Outside(i))

\* The main loop never rests; the devices need not run.
Spec == Init /\ [][Next]_vars /\ WF_vars(Loop)

-----------------------------------------------------------------------------
(* Properties.                                                             *)

\* The poll is at a clock that exists or past the last; what waits for the
\* engine was read in this poll; gpsd is retried after 1, 2, 4, 8, 16 and
\* from then on 30 seconds (read_sample, try_reconnect).
TypeOK ==
  /\ now \in FirstNow .. LastNow(setup) /\ phase \in {"start", "up", "closed", "dead"}
  /\ active \in [Clocks -> BOOLEAN]
  /\ poll.at \in 0 .. Len(setup) + 1 /\ poll.rx <= now
  /\ Len(pending) <= Len(setup) /\ \A k \in DOMAIN pending : pending[k].rx = poll.rx
  /\ \A i \in Clocks : active[i] /\ Type(i) = "gpsd" => drv[i].backoff \in {1, 2, 4, 8, 16, 30}

(* The time an NMEA clock gives the engine is that at which its sentence   *)
(* was written, or the sentence has only a time of day and is off by       *)
(* exactly the days since the sentence the date was taken from: neither a  *)
(* void sentence, nor the end of a year, nor the two-digit year gives the  *)
(* engine another time (read_sample, sentence_to_unix, the offset limit).  *)
DatedRight ==
  \A i \in Clocks : Type(i) = "nmea" /\ taken[i] # None =>
    LET s == taken[i].src IN
    \/ taken[i].time = s.at
    \/ s.kind \in TimeOnly /\ taken[i].time = s.at - (DayOf(s.at) - DayOf(s.date)) * TicksPerDay

(* No pulse, line or packet is made a sample twice, and a sample is made   *)
(* of one of them: for a Tristate receiver of a date and a time, both      *)
(* heard since its last sample (sequence numbers of PPS, receive_seq).     *)
NewSample == Len(pending') > Len(pending)
Newest == pending'[Len(pending')]
EventsOnce ==
  [][NewSample => /\ Newest.of \cap used[Newest.clock] = {}
                  /\ Cardinality(Newest.of) <= IF Type(Newest.clock) = "jjy" THEN 2 ELSE 1]_vars

(* A gpsd sample was received on the connection it is read from: a fix of  *)
(* a connection that is gone is not given as new (connect).                *)
FixOfThisConnection ==
  [][NewSample /\ Type(Newest.clock) = "gpsd" => Newest.src.conn = dev[Newest.clock].conn]_vars

(* A write that stays in the segment reaches the engine whole, whatever    *)
(* was read while it was written (ShmRefclock): so it is with a writer     *)
(* that counts when all is written.  Of one that counts first, as the      *)
(* header allows in mode 1, the half may be taken and the whole never.     *)
Stays == Type(1) = "shm" /\ dev[1].mode = 0 /\ active[1] /\ dev[1].step = 0 /\ dev[1].n > 0
Arrives == \/ Type(1) # "shm" \/ ~active[1] \/ dev[1].step # 0
           \/ taken[1] # None /\ taken[1].src = [id |-> dev[1].n, low |-> dev[1].n]
LastWriteTaken == Stays ~> Arrives
=============================================================================

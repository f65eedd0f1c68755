-------------------------- MODULE Refclocks_proofs ---------------------------
(***************************************************************************)
(* The reference clocks, for any clocks, reports and bounds                *)
(* (RefclockManager): the poll, the connections of gpsd, that no line or   *)
(* pulse is made a sample twice, and the dates of NMEA sentences.          *)
(*                                                                         *)
(* Polled and Waiting are about the process; Connections, LineOk and       *)
(* PulseOk about each clock by itself: a step touches the driver and the   *)
(* device of one clock, so these three are kept clock by clock.  For the   *)
(* dates, DatedInv says how a cached date, the sentences not yet read and  *)
(* the time of the poll are ordered, and what a wrong year does to a time. *)
(***************************************************************************)
EXTENDS RefclockManager, SequenceTheorems, FiniteSetTheorems, TLAPS

------------------------------------------------------------------------------
(* The inductive invariant.                                                *)

Backoffs == {1, 2, 4, 8, 16, 30}

\* The process: what is open, and how far the poll has come.
Polled ==
  /\ setup \in Setups /\ now \in FirstNow .. LastNow(setup)
  /\ phase \in {"start", "up", "closed", "dead"} /\ active \in [Clocks -> BOOLEAN]
  /\ DOMAIN drv = Clocks /\ DOMAIN dev = Clocks /\ DOMAIN used = Clocks
  /\ poll = [at |-> poll.at, rx |-> poll.rx]
  /\ poll.at \in 0 .. Len(setup) + 1 /\ poll.rx \in 0 .. now
  /\ phase = "start" => /\ poll.at = 0
                        /\ \A i \in Clocks : ~active[i] /\ used[i] = {}

\* The samples read and not yet handled: one at most of each clock passed.
Waiting ==
  /\ \E S : pending \in Seq(S)
  /\ Len(pending) <= poll.at /\ (poll.at > 0 => Len(pending) < poll.at)
  /\ \A k \in DOMAIN pending : pending[k].rx = poll.rx

GpsdDevice(d) ==
  d = [q |-> d.q, closed |-> d.closed, up |-> d.up, conn |-> d.conn, n |-> d.n]

GpsdRecord(c) ==
  c = [st |-> c.st, conn |-> c.conn, fix |-> c.fix, backoff |-> c.backoff, left |-> c.left]

GpsdDriver(c, k) ==
  /\ GpsdRecord(c)
  /\ c.st \in {"reading", "version", "devices"} /\ c.backoff \in Backoffs
  /\ c.fix # None => c.fix.conn = k

\* The fix a gpsd driver holds is of the connection it has.
Connections ==
  \A i \in Clocks : Type(i) = "gpsd" =>
    GpsdDevice(dev[i]) /\ (active[i] => GpsdDriver(drv[i], dev[i].conn))

ManagerInv == Polled /\ Waiting /\ Connections
------------------------------------------------------------------------------
(* What a driver's step does to the process.                               *)

LEMMA ClocksAreNumbers ==
  ASSUME Polled
  PROVE  /\ Len(setup) \in Nat /\ Clocks = 1 .. Len(setup)
         /\ FirstNow \in Nat /\ LastNow(setup) \in Nat /\ FirstNow <= LastNow(setup)
BY ManagerAssumption, LenProperties DEF Polled, Clocks

\* The sample a driver gives, as the poll passes it on.
SampleOf(i, r) == [clock |-> i, time |-> r.time, leap |-> r.leap, rx |-> poll.rx, of |-> r.of, src |-> r.src]

LEMMA OutcomePending ==
  ASSUME Waiting, NEW i, NEW r, Outcome(i, r)
  PROVE  /\ \E S : pending' \in Seq(S)
         /\ r.out = "sample" => /\ Len(pending') = Len(pending) + 1
                                /\ pending'[Len(pending) + 1] = SampleOf(i, r)
                                /\ \A k \in DOMAIN pending : pending'[k] = pending[k]
         /\ r.out # "sample" => pending' = pending
<1>1. PICK S : pending \in Seq(S)
  BY DEF Waiting
<1>2. CASE r.out = "sample"
  <2>1. pending' = Append(pending, SampleOf(i, r))
    BY <1>2 DEF Outcome, SampleOf
  <2>2. pending \in Seq(S \cup {SampleOf(i, r)})
    BY <1>1, SeqMonotonic
  <2>3. pending' \in Seq(S \cup {SampleOf(i, r)})
    BY <2>1, <2>2, AppendProperties
  <2>4. /\ Len(pending') = Len(pending) + 1
        /\ pending'[Len(pending) + 1] = SampleOf(i, r)
        /\ \A k \in DOMAIN pending : pending'[k] = pending[k]
    BY <2>1, <2>2, AppendProperties, LenProperties
  <2>5. QED
    BY <1>2, <2>3, <2>4
<1>3. CASE r.out # "sample"
  BY <1>1, <1>3 DEF Outcome
<1>4. QED
  BY <1>2, <1>3

LEMMA OutcomePolled ==
  ASSUME Polled, Waiting, NEW i \in Clocks, NEW r, Outcome(i, r),
         phase = "up", poll.at = i, DOMAIN dev' = Clocks
  PROVE  Polled' /\ Waiting'
<1>1. Len(setup) \in Nat /\ i \in 1 .. Len(setup)
  BY ClocksAreNumbers
<1>2. setup' = setup /\ active' = active /\ now' = now /\ Clocks' = Clocks
  BY DEF Outcome, Clocks
<1>3. poll = [at |-> i, rx |-> poll.rx] /\ poll.rx \in 0 .. now
  BY DEF Polled
<1>4. /\ poll'.rx = poll.rx /\ poll' = [at |-> poll'.at, rx |-> poll'.rx]
      /\ poll'.at = (IF r.out \in {"sample", "none"} THEN i + 1 ELSE i)
  <2>1. CASE r.out \in {"sample", "none"}
    <3>1. poll' = [poll EXCEPT !.at = poll.at + 1]
      BY <2>1 DEF Outcome
    <3>2. poll' = [at |-> i + 1, rx |-> poll.rx]
      BY <1>3, <3>1
    <3>3. QED
      BY <2>1, <3>2
  <2>2. CASE r.out \notin {"sample", "none"}
    BY <1>3, <2>2 DEF Outcome
  <2>3. QED
    BY <2>1, <2>2
<1>5. phase' \in {"up", "dead"} /\ DOMAIN drv' = DOMAIN drv /\ DOMAIN used' = DOMAIN used
  BY DEF Outcome
<1>6. Polled'
  <2>1. poll'.at \in 0 .. Len(setup) + 1 /\ poll'.rx \in 0 .. now
    BY <1>1, <1>3, <1>4
  <2>2. QED
    BY <1>2, <1>4, <1>5, <2>1 DEF Polled
<1>7. Waiting'
  <2>1. PICK S : pending \in Seq(S)
    BY DEF Waiting
  <2>2. Len(pending) \in Nat /\ DOMAIN pending = 1 .. Len(pending) /\ Len(pending) < i
    BY <1>1, <1>3, <2>1, LenProperties DEF Waiting
  <2>3. PICK T : pending' \in Seq(T)
    BY OutcomePending
  <2>4. DOMAIN pending' = 1 .. Len(pending')
    BY <2>3, LenProperties
  <2>5. CASE r.out = "sample"
    <3>1. Len(pending') = Len(pending) + 1 /\ poll'.at = i + 1
      BY <1>4, <2>5, OutcomePending
    <3>2. ASSUME NEW k \in DOMAIN pending' PROVE pending'[k].rx = poll'.rx
      <4>1. k \in DOMAIN pending \/ k = Len(pending) + 1
        BY <2>2, <2>4, <3>1
      <4>2. CASE k = Len(pending) + 1
        <5>1. pending'[k] = SampleOf(i, r)
          BY <2>5, <4>2, OutcomePending
        <5>2. QED
          BY <1>4, <5>1 DEF SampleOf
      <4>3. CASE k \in DOMAIN pending
        <5>1. pending'[k] = pending[k]
          BY <2>5, <4>3, OutcomePending
        <5>2. pending[k].rx = poll.rx
          BY <4>3 DEF Waiting
        <5>3. QED
          BY <1>4, <5>1, <5>2
      <4>4. QED
        BY <4>1, <4>2, <4>3
    <3>3. Len(pending') <= poll'.at /\ (poll'.at > 0 => Len(pending') < poll'.at)
      BY <1>1, <2>2, <3>1
    <3>4. QED
      BY <2>3, <3>2, <3>3 DEF Waiting
  <2>6. CASE r.out # "sample"
    <3>1. pending' = pending
      BY <2>6, OutcomePending
    <3>2. Len(pending) <= poll'.at /\ (poll'.at > 0 => Len(pending) < poll'.at)
      BY <1>1, <1>4, <2>2
    <3>3. QED
      BY <1>4, <2>1, <3>1, <3>2 DEF Waiting
  <2>7. QED
    BY <2>5, <2>6
<1>8. QED
  BY <1>6, <1>7

\* Only the driver that is read, and what its samples are of, change.
LEMMA OutcomeOthers ==
  ASSUME Polled, NEW i \in Clocks, NEW r, Outcome(i, r)
  PROVE  /\ setup' = setup /\ active' = active /\ Clocks' = Clocks
         /\ drv'[i] = r.drv
         /\ used'[i] = IF r.out = "sample" THEN used[i] \cup r.of ELSE used[i]
         /\ \A j \in Clocks : j # i => drv'[j] = drv[j] /\ used'[j] = used[j]
BY DEF Polled, Outcome, Clocks

\* A new sample is the one the driver gave.
LEMMA OutcomeNew ==
  ASSUME Waiting, NEW i, NEW r, Outcome(i, r), NewSample
  PROVE  r.out = "sample" /\ Newest.clock = i /\ Newest.of = r.of /\ Newest.src = r.src
<1>1. PICK S : pending \in Seq(S)
  BY DEF Waiting
<1>2. Len(pending) \in Nat
  BY <1>1, LenProperties
<1>3. r.out = "sample"
  BY <1>2, OutcomePending DEF NewSample
<1>4. Newest = SampleOf(i, r)
  BY <1>3, OutcomePending DEF Newest
<1>5. QED
  BY <1>3, <1>4 DEF SampleOf

------------------------------------------------------------------------------
(* The poll and the connections of gpsd: one lemma for each action.        *)

LEMMA ManagerInit == Init => ManagerInv
<1> SUFFICES ASSUME Init PROVE ManagerInv
  OBVIOUS
<1>1. setup \in Setups /\ Len(setup) \in Nat /\ Clocks = 1 .. Len(setup)
  BY ManagerAssumption, LenProperties DEF Init, Clocks
<1>2. Polled
  BY <1>1, ManagerAssumption DEF Init, Polled
<1>3. Waiting
  BY EmptySeq DEF Init, Waiting
<1>4. Connections
  <2> SUFFICES ASSUME NEW i \in Clocks, Type(i) = "gpsd"
               PROVE  GpsdDevice(dev[i]) /\ ~active[i]
    BY DEF Connections
  <2>1. dev[i] \in Devices(setup[i]) /\ setup[i].type = "gpsd"
    BY DEF Init, Type
  <2>2. GpsdDevice(dev[i])
    BY <2>1 DEF Devices, GpsdDevice
  <2>3. QED
    BY <2>2 DEF Init
<1>5. QED
  BY <1>2, <1>3, <1>4 DEF ManagerInv

\* Opening and closing: the drivers begin anew, the devices stay.
LEMMA LifeStep ==
  ASSUME ManagerInv, OpenAll \/ Reload \/ CloseAll
  PROVE  ManagerInv' /\ pending' = pending
<1>1. /\ setup' = setup /\ Clocks' = Clocks /\ now' = now /\ dev' = dev /\ poll' = poll
      /\ pending' = pending /\ used' = used
      /\ active' \in [Clocks -> BOOLEAN] /\ DOMAIN drv' = Clocks
      /\ phase' \in {"up", "closed"}
      /\ \A i \in Clocks : active'[i] => drv'[i] = DriverNew(i)
  <2>1. CASE OpenAll
    <3>1. PICK opened \in SUBSET {i \in Clocks : Type(i) \in Known} :
            /\ active' = [i \in Clocks |-> i \in opened]
            /\ drv' = [i \in Clocks |-> IF i \in opened THEN DriverNew(i) ELSE None]
      BY <2>1 DEF OpenAll
    <3>2. active' \in [Clocks -> BOOLEAN] /\ DOMAIN drv' = Clocks
      BY <3>1
    <3>3. \A i \in Clocks : active'[i] => drv'[i] = DriverNew(i)
      BY <3>1
    <3>4. QED
      BY <2>1, <3>2, <3>3 DEF OpenAll, Clocks
  <2>2. CASE Reload \/ CloseAll
    BY <2>2 DEF Reload, CloseAll, Clocks, ManagerInv, Polled
  <2>3. QED
    BY <2>1, <2>2
<1>2. Polled'
  BY <1>1 DEF ManagerInv, Polled
<1>3. Waiting'
  BY <1>1 DEF ManagerInv, Waiting
<1>4. Connections'
  <2> SUFFICES ASSUME NEW i \in Clocks, Type(i) = "gpsd"
               PROVE  GpsdDevice(dev[i]) /\ (active'[i] => GpsdDriver(drv'[i], dev[i].conn))
    BY <1>1 DEF Connections, Type
  <2>1. GpsdDevice(dev[i])
    BY DEF ManagerInv, Connections
  <2>2. DriverNew(i) = [st |-> "reading", conn |-> TRUE, fix |-> None, backoff |-> 1, left |-> 0]
    BY DEF DriverNew, Serial
  <2>3. GpsdDriver(DriverNew(i), dev[i].conn)
    <3> DEFINE c == DriverNew(i)
    <3>1. c = [st |-> "reading", conn |-> TRUE, fix |-> None, backoff |-> 1, left |-> 0]
      BY <2>2
    <3> HIDE DEF c
    <3>2. c.fix = None /\ c.backoff = 1 /\ c.st = "reading" /\ c.conn = TRUE /\ c.left = 0
      BY <3>1
    <3>3. GpsdDriver(c, dev[i].conn)
      BY <3>1, <3>2 DEF GpsdDriver, GpsdRecord, Backoffs
    <3>4. QED
      BY <3>3 DEF c
  <2>4. QED
    BY <1>1, <2>1, <2>3
<1>5. QED
  BY <1>1, <1>2, <1>3, <1>4 DEF ManagerInv

\* The poll goes from clock to clock, and the samples to the engine.
LEMMA PollStep ==
  ASSUME ManagerInv, BeginPoll \/ SkipClosed \/ HandleSample \/ EndPoll \/ Tick
  PROVE  /\ ManagerInv' /\ ~NewSample
         /\ UNCHANGED <<setup, active, drv, dev, used>>
<1>1. /\ setup' = setup /\ Clocks' = Clocks /\ dev' = dev /\ drv' = drv /\ active' = active
      /\ used' = used /\ phase' = phase
  BY DEF BeginPoll, SkipClosed, HandleSample, EndPoll, Tick, Clocks
<1>2. /\ Len(setup) \in Nat /\ Clocks = 1 .. Len(setup) /\ FirstNow \in Nat
      /\ now \in Nat /\ LastNow(setup) \in Nat
      /\ poll = [at |-> poll.at, rx |-> poll.rx] /\ poll.rx \in 0 .. now
      /\ poll.at \in 0 .. Len(setup) + 1
      /\ phase = "start" => poll.at = 0
  BY ClocksAreNumbers DEF ManagerInv, Polled
<1>3. PICK S : pending \in Seq(S)
  BY DEF ManagerInv, Waiting
<1>4. /\ Len(pending) \in Nat /\ DOMAIN pending = 1 .. Len(pending)
      /\ Len(pending) <= poll.at /\ (poll.at > 0 => Len(pending) < poll.at)
      /\ \A k \in DOMAIN pending : pending[k].rx = poll.rx
  BY <1>3, LenProperties DEF ManagerInv, Waiting
<1>5. Connections'
  <2>1. \A i \in Clocks : Type(i)' = Type(i)
    BY <1>1 DEF Type
  <2>2. QED
    BY <1>1, <2>1 DEF ManagerInv, Connections
<1>6. CASE BeginPoll
  <2>1. poll' = [at |-> 1, rx |-> now] /\ now' = now /\ pending' = pending
        /\ phase = "up" /\ poll.at = 0
    BY <1>6 DEF BeginPoll
  <2>2. Polled'
    BY <1>1, <1>2, <2>1 DEF ManagerInv, Polled
  <2>3. Len(pending) = 0 /\ DOMAIN pending = {}
    BY <1>4, <2>1
  <2>4. Waiting'
    BY <1>3, <2>1, <2>3 DEF Waiting
  <2>5. ~NewSample
    BY <1>4, <2>1 DEF NewSample
  <2>6. QED
    BY <1>1, <1>5, <2>2, <2>4, <2>5 DEF ManagerInv
<1>7. CASE SkipClosed
  <2>1. poll' = [at |-> poll.at + 1, rx |-> poll.rx] /\ now' = now /\ pending' = pending
        /\ phase = "up" /\ poll.at \in 1 .. Len(setup)
    BY <1>2, <1>7 DEF SkipClosed
  <2>2. poll'.at = poll.at + 1 /\ poll'.rx = poll.rx /\ poll.at + 1 \in 0 .. Len(setup) + 1
    BY <1>2, <2>1
  <2>3. Polled'
    BY <1>1, <1>2, <2>1, <2>2 DEF ManagerInv, Polled
  <2>4. Waiting'
    <3>1. Len(pending) <= poll.at + 1 /\ Len(pending) < poll.at + 1
      BY <1>2, <1>4
    <3>2. QED
      BY <1>3, <1>4, <2>1, <2>2, <3>1 DEF Waiting
  <2>5. ~NewSample
    BY <1>4, <2>1 DEF NewSample
  <2>6. QED
    BY <1>1, <1>5, <2>3, <2>4, <2>5 DEF ManagerInv
<1>8. CASE HandleSample
  <2>1. poll' = poll /\ now' = now /\ pending' = Tail(pending) /\ pending # <<>>
    BY <1>8 DEF HandleSample
  <2>2. Polled'
    BY <1>1, <2>1 DEF ManagerInv, Polled
  <2>3. /\ pending' \in Seq(S) /\ Len(pending') = Len(pending) - 1 /\ Len(pending') \in Nat
        /\ DOMAIN pending' = 1 .. Len(pending')
        /\ \A k \in 1 .. Len(pending') : pending'[k] = pending[k + 1]
    BY <1>3, <2>1, HeadTailProperties, LenProperties
  <2>4. ASSUME NEW k \in DOMAIN pending' PROVE pending'[k].rx = poll.rx
    <3>1. k + 1 \in DOMAIN pending /\ pending'[k] = pending[k + 1]
      BY <1>4, <2>3
    <3>2. QED
      BY <1>4, <3>1
  <2>5. Waiting'
    <3>1. Len(pending') <= poll.at /\ (poll.at > 0 => Len(pending') < poll.at)
      BY <1>2, <1>4, <2>3
    <3>2. QED
      BY <2>1, <2>3, <2>4, <3>1 DEF Waiting
  <2>6. ~NewSample
    BY <1>4, <2>3 DEF NewSample
  <2>7. QED
    BY <1>1, <1>5, <2>2, <2>5, <2>6 DEF ManagerInv
<1>9. CASE EndPoll
  <2>1. poll' = [at |-> 0, rx |-> 0] /\ now' = now /\ pending' = <<>> /\ pending = <<>>
        /\ phase = "up"
    BY <1>9 DEF EndPoll
  <2>2. Polled'
    BY <1>1, <1>2, <2>1 DEF ManagerInv, Polled
  <2>3. Waiting'
    BY <2>1, EmptySeq DEF Waiting
  <2>4. ~NewSample
    BY <1>4, <2>1 DEF NewSample
  <2>5. QED
    BY <1>1, <1>5, <2>2, <2>3, <2>4 DEF ManagerInv
<1>10. CASE Tick
  <2>1. /\ now' = now + 1 /\ now < LastNow(setup) /\ poll' = poll /\ pending' = pending
    BY <1>10 DEF Tick
  <2>2. now' \in FirstNow .. LastNow(setup) /\ poll.rx \in 0 .. now'
    BY <1>2, <2>1 DEF ManagerInv, Polled
  <2>3. Polled'
    BY <1>1, <2>1, <2>2 DEF ManagerInv, Polled
  <2>4. Waiting'
    BY <2>1 DEF ManagerInv, Waiting
  <2>5. ~NewSample
    BY <1>4, <2>1 DEF NewSample
  <2>6. QED
    BY <1>1, <1>5, <2>3, <2>4, <2>5 DEF ManagerInv
<1>11. QED
  BY <1>6, <1>7, <1>8, <1>9, <1>10

\* The devices go on by themselves; a gpsd stays at its connection.
LEMMA DeviceStep ==
  ASSUME ManagerInv, NEW i \in Clocks, Outside(i)
  PROVE  /\ ManagerInv' /\ ~NewSample
         /\ UNCHANGED <<setup, phase, active, drv, used>>
<1>1. /\ UNCHANGED <<now, phase, setup, active, drv, poll, pending, used>>
      /\ Clocks' = Clocks /\ DOMAIN dev' = DOMAIN dev
      /\ \A j \in Clocks : j # i => dev'[j] = dev[j]
  <2>1. /\ UNCHANGED <<now, phase, setup, active, drv, poll, pending, used>>
        /\ \E d : dev' = [dev EXCEPT ![i] = d]
    BY DEF Outside, WriteReport, Unplug, Pulse, WriteSegment, ServerSends, ServerCloses, ServerStarts
  <2>2. QED
    BY <2>1 DEF Clocks
<1>2. Polled' /\ Waiting'
  BY <1>1 DEF ManagerInv, Polled, Waiting
<1>3. Connections'
  <2> SUFFICES ASSUME NEW j \in Clocks, Type(j) = "gpsd"
               PROVE  GpsdDevice(dev'[j]) /\ (active[j] => GpsdDriver(drv[j], dev'[j].conn))
    BY <1>1 DEF Connections, Type
  <2>1. GpsdDevice(dev[j]) /\ (active[j] => GpsdDriver(drv[j], dev[j].conn))
    BY DEF ManagerInv, Connections
  <2>2. CASE j # i
    BY <1>1, <2>1, <2>2
  <2>3. CASE j = i
    <3> DEFINE d == dev[i]
               e == dev'[i]
    <3>1. GpsdDevice(e) /\ e.conn = d.conn
      <4>1. /\ d = [q |-> d.q, closed |-> d.closed, up |-> d.up, conn |-> d.conn, n |-> d.n]
            /\ i \in DOMAIN dev
        BY <2>1, <2>3 DEF GpsdDevice, ManagerInv, Polled
      <4>2. ServerSends(i) \/ ServerCloses(i) \/ ServerStarts(i)
        BY <2>3 DEF Outside, WriteReport, Unplug, Pulse, WriteSegment, Serial
      <4>3. \E f : \/ e = [d EXCEPT !.q = f, !.n = @ + 1] \/ e = [d EXCEPT !.closed = f] \/ e = [d EXCEPT !.up = f]
        BY <4>1, <4>2 DEF ServerSends, ServerCloses, ServerStarts
      <4> HIDE DEF d, e
      <4>4. PICK f : \/ e = [d EXCEPT !.q = f, !.n = @ + 1] \/ e = [d EXCEPT !.closed = f] \/ e = [d EXCEPT !.up = f]
        BY <4>3
      <4>5. CASE e = [d EXCEPT !.q = f, !.n = @ + 1]
        <5>1. e = [q |-> f, closed |-> d.closed, up |-> d.up, conn |-> d.conn, n |-> d.n + 1]
          BY <4>1, <4>5
        <5>2. QED
          BY <5>1 DEF GpsdDevice
      <4>6. CASE e = [d EXCEPT !.closed = f]
        <5>1. e = [q |-> d.q, closed |-> f, up |-> d.up, conn |-> d.conn, n |-> d.n]
          BY <4>1, <4>6
        <5>2. QED
          BY <5>1 DEF GpsdDevice
      <4>7. CASE e = [d EXCEPT !.up = f]
        <5>1. e = [q |-> d.q, closed |-> d.closed, up |-> f, conn |-> d.conn, n |-> d.n]
          BY <4>1, <4>7
        <5>2. QED
          BY <5>1 DEF GpsdDevice
      <4>8. QED
        BY <4>4, <4>5, <4>6, <4>7
    <3> HIDE DEF d, e
    <3>2. dev'[j] = e /\ dev[j] = d
      BY <2>3 DEF d, e
    <3>3. QED
      BY <2>1, <3>1, <3>2
  <2>4. QED
    BY <2>2, <2>3
<1>4. ~NewSample
  <2>1. PICK S : pending \in Seq(S)
    BY DEF ManagerInv, Waiting
  <2>2. QED
    BY <1>1, <2>1, LenProperties DEF NewSample
<1>5. QED
  BY <1>1, <1>2, <1>3, <1>4 DEF ManagerInv

\* A driver's step keeps the process in order, and the other connections.
LEMMA ReadKeeps ==
  ASSUME ManagerInv, NEW i \in Clocks, NEW r, Outcome(i, r), phase = "up", poll.at = i,
         DOMAIN dev' = Clocks, \A j \in Clocks : j # i => dev'[j] = dev[j],
         Type(i) = "gpsd" => GpsdDevice(dev'[i]) /\ GpsdDriver(r.drv, dev'[i].conn)
  PROVE  ManagerInv'
<1>1. Polled' /\ Waiting'
  BY OutcomePolled DEF ManagerInv
<1>2. /\ setup' = setup /\ active' = active /\ Clocks' = Clocks /\ drv'[i] = r.drv
      /\ \A j \in Clocks : j # i => drv'[j] = drv[j]
  BY OutcomeOthers DEF ManagerInv
<1>3. Connections'
  <2> SUFFICES ASSUME NEW j \in Clocks, Type(j) = "gpsd"
               PROVE  GpsdDevice(dev'[j]) /\ (active[j] => GpsdDriver(drv'[j], dev'[j].conn))
    BY <1>2 DEF Connections, Type
  <2>1. CASE j = i
    BY <1>2, <2>1
  <2>2. CASE j # i
    BY <1>2, <2>2 DEF ManagerInv, Connections
  <2>3. QED
    BY <2>1, <2>2
<1>4. QED
  BY <1>1, <1>3 DEF ManagerInv

LEMMA FieldSet ==
  ASSUME NEW c, GpsdRecord(c), NEW v
  PROVE  /\ [c EXCEPT !.st = v] = [st |-> v, conn |-> c.conn, fix |-> c.fix, backoff |-> c.backoff, left |-> c.left]
         /\ [c EXCEPT !.conn = v] = [st |-> c.st, conn |-> v, fix |-> c.fix, backoff |-> c.backoff, left |-> c.left]
         /\ [c EXCEPT !.fix = v] = [st |-> c.st, conn |-> c.conn, fix |-> v, backoff |-> c.backoff, left |-> c.left]
         /\ [c EXCEPT !.backoff = v] = [st |-> c.st, conn |-> c.conn, fix |-> c.fix, backoff |-> v, left |-> c.left]
         /\ [c EXCEPT !.left = v] = [st |-> c.st, conn |-> c.conn, fix |-> c.fix, backoff |-> c.backoff, left |-> v]
BY DEF GpsdRecord

LEMMA SetState ==
  ASSUME NEW c, NEW k, GpsdDriver(c, k), NEW v \in {"reading", "version", "devices"}
  PROVE  GpsdDriver([c EXCEPT !.st = v], k)
<1> DEFINE d == [c EXCEPT !.st = v]
<1>1. d = [st |-> v, conn |-> c.conn, fix |-> c.fix, backoff |-> c.backoff, left |-> c.left]
  BY FieldSet DEF GpsdDriver
<1> HIDE DEF d
<1>2. GpsdDriver(d, k)
  BY <1>1 DEF GpsdDriver, GpsdRecord
<1>3. QED
  BY <1>2 DEF d

LEMMA SetConn ==
  ASSUME NEW c, NEW k, GpsdDriver(c, k), NEW v
  PROVE  GpsdDriver([c EXCEPT !.conn = v], k)
<1> DEFINE d == [c EXCEPT !.conn = v]
<1>1. d = [st |-> c.st, conn |-> v, fix |-> c.fix, backoff |-> c.backoff, left |-> c.left]
  BY FieldSet DEF GpsdDriver
<1> HIDE DEF d
<1>2. GpsdDriver(d, k)
  BY <1>1 DEF GpsdDriver, GpsdRecord
<1>3. QED
  BY <1>2 DEF d

LEMMA SetFix ==
  ASSUME NEW c, NEW j, NEW k, GpsdDriver(c, j), NEW v, v # None => v.conn = k
  PROVE  GpsdDriver([c EXCEPT !.fix = v], k) /\ [c EXCEPT !.fix = v].fix = v
<1> DEFINE d == [c EXCEPT !.fix = v]
<1>1. d = [st |-> c.st, conn |-> c.conn, fix |-> v, backoff |-> c.backoff, left |-> c.left]
  BY FieldSet DEF GpsdDriver
<1> HIDE DEF d
<1>2. GpsdDriver(d, k) /\ d.fix = v
  BY <1>1 DEF GpsdDriver, GpsdRecord
<1>3. QED
  BY <1>2 DEF d

LEMMA SetBackoff ==
  ASSUME NEW c, NEW k, GpsdDriver(c, k), NEW v \in Backoffs
  PROVE  GpsdDriver([c EXCEPT !.backoff = v], k)
<1> DEFINE d == [c EXCEPT !.backoff = v]
<1>1. d = [st |-> c.st, conn |-> c.conn, fix |-> c.fix, backoff |-> v, left |-> c.left]
  BY FieldSet DEF GpsdDriver
<1> HIDE DEF d
<1>2. GpsdDriver(d, k)
  BY <1>1 DEF GpsdDriver, GpsdRecord
<1>3. QED
  BY <1>2 DEF d

LEMMA SetLeft ==
  ASSUME NEW c, NEW k, GpsdDriver(c, k), NEW v
  PROVE  GpsdDriver([c EXCEPT !.left = v], k)
<1> DEFINE d == [c EXCEPT !.left = v]
<1>1. d = [st |-> c.st, conn |-> c.conn, fix |-> c.fix, backoff |-> c.backoff, left |-> v]
  BY FieldSet DEF GpsdDriver
<1> HIDE DEF d
<1>2. GpsdDriver(d, k)
  BY <1>1 DEF GpsdDriver, GpsdRecord
<1>3. QED
  BY <1>2 DEF d

LEMMA SetStateLeft ==
  ASSUME NEW c, NEW k, GpsdDriver(c, k), NEW v \in {"reading", "version", "devices"}, NEW w
  PROVE  GpsdDriver([c EXCEPT !.st = v, !.left = w], k)
<1> DEFINE d == [c EXCEPT !.st = v]
<1>1. [c EXCEPT !.st = v, !.left = w] = [d EXCEPT !.left = w]
  BY Zenon
<1>2. GpsdDriver(d, k)
  BY SetState
<1> HIDE DEF d
<1>3. QED
  BY <1>1, <1>2, SetLeft

LEMMA LeaveConnection ==
  ASSUME NEW c, NEW k, GpsdDriver(c, k)
  PROVE  GpsdDriver(Disconnected(c), k)
<1> DEFINE d == [c EXCEPT !.conn = FALSE]
<1>1. Disconnected(c) = [d EXCEPT !.st = "reading"]
  BY Zenon DEF Disconnected
<1>2. GpsdDriver(d, k)
  BY SetConn
<1> HIDE DEF d
<1>3. GpsdDriver([d EXCEPT !.st = "reading"], k)
  BY <1>2, SetState
<1>4. QED
  BY <1>1, <1>3

\* A new connection starts without a fix, whatever its number.
LEMMA NewConnection ==
  ASSUME NEW c, NEW j, NEW k, GpsdDriver(c, j)
  PROVE  GpsdDriver(Connected(c), k)
<1> DEFINE b == [c EXCEPT !.conn = TRUE]
           d == [b EXCEPT !.st = "version"]
           e == [d EXCEPT !.fix = None]
<1>1. Connected(c) = [e EXCEPT !.left = 0]
  BY Zenon DEF Connected
<1>2. GpsdDriver(b, j)
  BY SetConn
<1> HIDE DEF b
<1>3. GpsdDriver(d, j)
  BY <1>2, SetState
<1> HIDE DEF d
<1>4. GpsdDriver(e, k)
  BY <1>3, SetFix
<1> HIDE DEF e
<1>5. QED
  BY <1>1, <1>4, SetLeft

LEMMA NewFix ==
  ASSUME NEW c, NEW k, GpsdDriver(c, k), NEW m
  PROVE  FixAfter(c, m, k) # None => FixAfter(c, m, k).conn = k
<1>1. CASE m.m = "fix"
  <2>1. FixAfter(c, m, k) = [id |-> m.id, conn |-> k]
    BY <1>1 DEF FixAfter
  <2>2. QED
    BY <2>1
<1>2. CASE m.m # "fix"
  BY <1>2 DEF FixAfter, GpsdDriver
<1>3. QED
  BY <1>1, <1>2

\* Whatever gpsd says, the fix is of the connection the message came on, and
\* so is the sample.
LEMMA LineKeepsConnection ==
  ASSUME NEW c, NEW k, GpsdDriver(c, k), NEW m, NEW r, r = GpsdLine(c, m, k)
  PROVE  GpsdDriver(r.drv, k) /\ (r.out = "sample" => r.src.conn = k /\ r.of = {})
<1> DEFINE d == [c EXCEPT !.fix = FixAfter(c, m, k)]
<1>1. GpsdDriver(d, k) /\ (d.fix # None => d.fix.conn = k)
  BY NewFix, SetFix
<1>2. c.st \in {"reading", "version", "devices"}
  BY DEF GpsdDriver
<1>3. r = CASE c.st = "reading" /\ Refused(m) -> More(Disconnected(c))
            [] c.st = "reading" /\ ~Refused(m) -> IF Taken(m) /\ d.fix # None THEN GiveFix(d) ELSE More(d)
            [] c.st # "reading" /\ Refused(m) -> Fail([c EXCEPT !.st = "reading"])
            [] c.st = "version" /\ ~Refused(m) ->
                 More(IF m.m = "version" THEN [d EXCEPT !.st = "devices", !.left = DeviceLines] ELSE d)
            [] c.st = "devices" /\ ~Refused(m) ->
                 More(IF c.left = 1 THEN [d EXCEPT !.st = "reading", !.left = 0] ELSE [d EXCEPT !.left = @ - 1])
  BY Zenon DEF GpsdLine
<1> HIDE DEF d
<1>4. ASSUME NEW e, GpsdDriver(e, k), r = More(e) \/ r = Fail(e)
      PROVE  GpsdDriver(r.drv, k) /\ (r.out = "sample" => r.src.conn = k /\ r.of = {})
  BY <1>4 DEF More, Fail
<1>5. CASE c.st = "reading" /\ Refused(m)
  BY <1>3, <1>4, <1>5, LeaveConnection
<1>6. CASE c.st = "reading" /\ ~Refused(m)
  <2>1. r = IF Taken(m) /\ d.fix # None THEN GiveFix(d) ELSE More(d)
    BY <1>3, <1>6
  <2>2. CASE Taken(m) /\ d.fix # None
    <3> DEFINE e == [d EXCEPT !.backoff = 1]
    <3>1. GpsdDriver(e, k)
      BY <1>1, SetBackoff DEF Backoffs
    <3>2. r = GiveFix(d)
      BY <2>1, <2>2
    <3>3. r = [[out |-> "sample", drv |-> e, time |-> d.fix.id, leap |-> "none", of |-> {d.fix.id}, src |-> d.fix]
               EXCEPT !.of = {}]
      BY <3>2 DEF GiveFix, Sample
    <3> HIDE DEF e
    <3>4. r.drv = e /\ r.src = d.fix /\ r.of = {}
      BY <3>3
    <3>5. QED
      BY <1>1, <2>2, <3>1, <3>4
  <2>3. CASE ~(Taken(m) /\ d.fix # None)
    BY <1>1, <1>4, <2>1, <2>3
  <2>4. QED
    BY <2>2, <2>3
<1>7. CASE c.st # "reading" /\ Refused(m)
  <2>1. r = Fail([c EXCEPT !.st = "reading"])
    BY <1>3, <1>7
  <2>2. QED
    BY <1>4, <2>1, SetState
<1>8. CASE c.st = "version" /\ ~Refused(m)
  <2>1. r = More(IF m.m = "version" THEN [d EXCEPT !.st = "devices", !.left = DeviceLines] ELSE d)
    BY <1>3, <1>8
  <2>2. CASE m.m = "version"
    BY <1>1, <1>4, <2>1, <2>2, SetStateLeft
  <2>3. CASE m.m # "version"
    BY <1>1, <1>4, <2>1, <2>3
  <2>4. QED
    BY <2>2, <2>3
<1>9. CASE c.st = "devices" /\ ~Refused(m)
  <2>1. r = More(IF c.left = 1 THEN [d EXCEPT !.st = "reading", !.left = 0] ELSE [d EXCEPT !.left = @ - 1])
    BY <1>3, <1>9
  <2>2. CASE c.left = 1
    BY <1>1, <1>4, <2>1, <2>2, SetStateLeft
  <2>3. CASE c.left # 1
    BY <1>1, <1>4, <2>1, <2>3, SetLeft
  <2>4. QED
    BY <2>2, <2>3
<1>10. QED
  BY <1>2, <1>5, <1>6, <1>7, <1>8, <1>9

\* A sample of a gpsd clock is of the connection that clock has, and of no line.
NewFixOfConnection ==
  NewSample /\ Type(Newest.clock) = "gpsd"
    => Newest.src.conn = dev[Newest.clock].conn /\ Newest.of = {}

\* The drivers other than that of gpsd.
LEMMA OtherReads ==
  ASSUME ManagerInv, NEW i \in Clocks,
         ReadLine(i) \/ ReadNothing(i) \/ ReadPulse(i) \/ CopySome(i) \/ CopyRest(i)
  PROVE  ManagerInv' /\ NewFixOfConnection
<1>1. Type(i) # "gpsd" /\ phase = "up" /\ poll.at = i
  BY DEF ReadLine, ReadNothing, ReadPulse, CopySome, CopyRest, Reading, Serial
<1>2. CASE ReadLine(i) \/ ReadNothing(i) \/ ReadPulse(i) \/ CopyRest(i)
  <2>1. /\ \E r : Outcome(i, r)
        /\ dev' = dev \/ \E d : dev' = [dev EXCEPT ![i] = d]
    BY <1>2 DEF ReadLine, ReadNothing, ReadPulse, CopyRest
  <2>2. PICK r : Outcome(i, r)
    BY <2>1
  <2>3. DOMAIN dev' = Clocks /\ \A j \in Clocks : j # i => dev'[j] = dev[j]
    BY <2>1 DEF ManagerInv, Polled
  <2>4. ManagerInv'
    BY <1>1, <2>2, <2>3, ReadKeeps
  <2>5. NewSample => Newest.clock = i
    BY <2>2, OutcomeNew DEF ManagerInv
  <2>6. QED
    BY <1>1, <2>4, <2>5 DEF NewFixOfConnection
<1>3. CASE CopySome(i)
  <2>1. /\ UNCHANGED <<now, phase, setup, active, dev, poll, pending, used>>
        /\ Clocks' = Clocks /\ DOMAIN drv' = DOMAIN drv
        /\ \A j \in Clocks : j # i => drv'[j] = drv[j]
    <3>1. \E d : drv' = [drv EXCEPT ![i] = d]
      BY <1>3 DEF CopySome
    <3>2. UNCHANGED <<now, phase, setup, active, dev, poll, pending, used>>
      BY <1>3 DEF CopySome
    <3>3. QED
      BY <3>1, <3>2 DEF Clocks
  <2>2. Polled' /\ Waiting'
    BY <2>1 DEF ManagerInv, Polled, Waiting
  <2>3. Connections'
    BY <1>1, <2>1 DEF ManagerInv, Connections, Type
  <2>4. ~NewSample
    <3>1. PICK S : pending \in Seq(S)
      BY DEF ManagerInv, Waiting
    <3>2. QED
      BY <2>1, <3>1, LenProperties DEF NewSample
  <2>5. QED
    BY <2>2, <2>3, <2>4 DEF ManagerInv, NewFixOfConnection
<1>4. QED
  BY <1>2, <1>3

\* A step of a gpsd driver that keeps to the connection of its device.
LEMMA GpsdRead ==
  ASSUME ManagerInv, NEW i \in Clocks, Type(i) = "gpsd", phase = "up", poll.at = i,
         NEW r, Outcome(i, r), DOMAIN dev' = Clocks,
         \A j \in Clocks : j # i => dev'[j] = dev[j],
         GpsdDevice(dev'[i]), GpsdDriver(r.drv, dev'[i].conn),
         r.out = "sample" => r.src.conn = dev[i].conn /\ r.of = {}
  PROVE  ManagerInv' /\ NewFixOfConnection
<1>1. ManagerInv'
  BY ReadKeeps
<1>2. NewSample => r.out = "sample" /\ Newest.clock = i /\ Newest.src = r.src /\ Newest.of = r.of
  BY OutcomeNew DEF ManagerInv
<1>3. QED
  BY <1>1, <1>2 DEF NewFixOfConnection

LEMMA QueueSet ==
  ASSUME NEW d, GpsdDevice(d), NEW v
  PROVE  GpsdDevice([d EXCEPT !.q = v]) /\ [d EXCEPT !.q = v].conn = d.conn
<1> DEFINE e == [d EXCEPT !.q = v]
<1>1. e = [q |-> v, closed |-> d.closed, up |-> d.up, conn |-> d.conn, n |-> d.n]
  BY DEF GpsdDevice
<1> HIDE DEF e
<1>2. GpsdDevice(e) /\ e.conn = d.conn
  BY <1>1 DEF GpsdDevice
<1>3. QED
  BY <1>2 DEF e

LEMMA NewDevice ==
  ASSUME NEW d, GpsdDevice(d)
  PROVE  GpsdDevice(NextConnection(d))
<1> DEFINE no == FALSE
           next == (d.conn + 1) % 3
           d1 == [d EXCEPT !.q = <<>>]
           d2 == [d1 EXCEPT !.closed = no]
           d3 == [d2 EXCEPT !.conn = next]
<1>1. NextConnection(d) = d3
  BY Zenon DEF NextConnection
<1>2. GpsdDevice(d1)
  BY QueueSet
<1> HIDE DEF d1, no, next
<1>3. d2 = [q |-> d1.q, closed |-> no, up |-> d1.up, conn |-> d1.conn, n |-> d1.n]
  BY <1>2 DEF GpsdDevice
<1> HIDE DEF d2
<1>4. d3 = [q |-> d1.q, closed |-> no, up |-> d1.up, conn |-> next, n |-> d1.n]
  BY <1>3
<1> HIDE DEF d3
<1>5. GpsdDevice(d3)
  BY <1>4 DEF GpsdDevice
<1>6. QED
  BY <1>1, <1>5

LEMMA GpsdReads ==
  ASSUME ManagerInv, NEW i \in Clocks,
         ReadMessage(i) \/ ReadTimeout(i) \/ ReadEnd(i) \/ Reconnect(i)
  PROVE  ManagerInv' /\ NewFixOfConnection
<1> DEFINE c == drv[i]
           d == dev[i]
           k == dev[i].conn
<1>1. Type(i) = "gpsd" /\ phase = "up" /\ poll.at = i /\ active[i]
  BY DEF ReadMessage, ReadTimeout, ReadEnd, Reconnect, Reading
<1>2. GpsdDriver(c, k) /\ GpsdDevice(d) /\ DOMAIN dev = Clocks
  BY <1>1 DEF ManagerInv, Connections, Polled
<1>3. c.st \in {"reading", "version", "devices"} /\ c.backoff \in Backoffs
  BY <1>2 DEF GpsdDriver
<1>4. ASSUME NEW r, Outcome(i, r), dev' = dev, NEW b, GpsdDriver(b, k), r = More(b) \/ r = Fail(b)
      PROVE  ManagerInv' /\ NewFixOfConnection
  <2>1. r.drv = b /\ r.out # "sample"
    BY <1>4 DEF More, Fail
  <2>2. GpsdDevice(dev'[i]) /\ GpsdDriver(r.drv, dev'[i].conn)
    BY <1>2, <1>4, <2>1
  <2>3. QED
    BY <1>1, <1>2, <1>4, <2>1, <2>2, GpsdRead
<1>5. CASE ReadMessage(i)
  <2> DEFINE r == GpsdLine(c, Head(dev[i].q), k)
             e == [d EXCEPT !.q = Tail(d.q)]
  <2>1. Outcome(i, r) /\ dev' = [dev EXCEPT ![i].q = Tail(@)]
    BY <1>5 DEF ReadMessage
  <2>2. GpsdDriver(r.drv, k) /\ (r.out = "sample" => r.src.conn = k /\ r.of = {})
    BY <1>2, LineKeepsConnection
  <2>3. /\ dev'[i] = e /\ DOMAIN dev' = Clocks
        /\ \A j \in Clocks : j # i => dev'[j] = dev[j]
    BY <1>2, <2>1
  <2>4. GpsdDevice(dev'[i]) /\ dev'[i].conn = k
    <3>1. GpsdDevice(e) /\ e.conn = k
      BY <1>2, QueueSet
    <3> HIDE DEF e
    <3>2. QED
      BY <2>3, <3>1
  <2> HIDE DEF r
  <2>5. QED
    BY <1>1, <2>1, <2>2, <2>3, <2>4, GpsdRead
<1>6. CASE ReadTimeout(i)
  <2>1. /\ Outcome(i, IF c.st = "reading" THEN More(Disconnected(c)) ELSE Fail([c EXCEPT !.st = "reading"]))
        /\ dev' = dev
    BY <1>6 DEF ReadTimeout
  <2>2. GpsdDriver(Disconnected(c), k) /\ GpsdDriver([c EXCEPT !.st = "reading"], k)
    BY <1>2, LeaveConnection, SetState
  <2> HIDE DEF c, k
  <2>3. CASE c.st = "reading"
    BY <1>4, <2>1, <2>2, <2>3
  <2>4. CASE c.st # "reading"
    BY <1>4, <2>1, <2>2, <2>4
  <2>5. QED
    BY <2>3, <2>4
<1>7. CASE ReadEnd(i)
  <2>1. /\ Outcome(i, CASE c.st = "reading" -> More(c)
                        [] c.st = "version" -> Fail([c EXCEPT !.st = "reading"])
                        [] c.st = "devices" -> More([c EXCEPT !.st = "reading", !.left = 0]))
        /\ dev' = dev
    BY <1>7 DEF ReadEnd
  <2>2. GpsdDriver([c EXCEPT !.st = "reading", !.left = 0], k) /\ GpsdDriver([c EXCEPT !.st = "reading"], k)
    BY <1>2, SetState, SetStateLeft
  <2> HIDE DEF c, k
  <2>3. CASE c.st = "reading"
    <3>1. Outcome(i, More(c))
      BY <2>1, <2>3
    <3>2. QED
      BY <1>2, <1>4, <2>1, <3>1
  <2>4. CASE c.st = "version"
    <3>1. Outcome(i, Fail([c EXCEPT !.st = "reading"]))
      BY <2>1, <2>4
    <3>2. QED
      BY <1>4, <2>1, <2>2, <3>1
  <2>5. CASE c.st = "devices"
    <3>1. Outcome(i, More([c EXCEPT !.st = "reading", !.left = 0]))
      BY <2>1, <2>5
    <3>2. QED
      BY <1>4, <2>1, <2>2, <3>1
  <2>6. QED
    BY <1>3, <2>3, <2>4, <2>5
<1>8. CASE Reconnect(i)
  <2> DEFINE b == [c EXCEPT !.backoff = Doubled(c.backoff)]
             e == NextConnection(d)
  <2>1. GpsdDriver(b, k)
    <3>1. Doubled(c.backoff) \in Backoffs
      BY <1>3 DEF Doubled, MaxBackoff, Backoffs
    <3>2. QED
      BY <1>2, <3>1, SetBackoff
  <2>2. IF d.up
        THEN /\ Outcome(i, More(Connected(b)))
             /\ dev' = [dev EXCEPT ![i] = NextConnection(@)]
        ELSE Outcome(i, Fail(b)) /\ dev' = dev
    BY <1>8 DEF Reconnect
  <2>3. CASE ~d.up
    <3> HIDE DEF b, c, d, k
    <3>1. QED
      BY <1>4, <2>1, <2>2, <2>3
  <2>4. CASE d.up
    <3>1. /\ dev'[i] = e /\ DOMAIN dev' = Clocks
          /\ \A j \in Clocks : j # i => dev'[j] = dev[j]
      <4> HIDE DEF b
      <4>1. QED
        BY <1>2, <2>2, <2>4
    <3>2. GpsdDevice(dev'[i])
      BY <1>2, <3>1, NewDevice
    <3>3. GpsdDriver(Connected(b), dev'[i].conn)
      BY <2>1, NewConnection
    <3> DEFINE r == More(Connected(b))
    <3>4. r.drv = Connected(b) /\ r.out # "sample" /\ Outcome(i, r)
      BY <2>2, <2>4 DEF More
    <3> HIDE DEF r, b
    <3>5. QED
      BY <1>1, <3>1, <3>2, <3>3, <3>4, GpsdRead
  <2>5. QED
    BY <2>3, <2>4
<1>9. QED
  BY <1>5, <1>6, <1>7, <1>8

LEMMA ManagerStep ==
  ASSUME ManagerInv, [Next]_vars
  PROVE  ManagerInv' /\ NewFixOfConnection
<1>1. CASE OpenAll \/ Reload \/ CloseAll
  <2>1. ManagerInv' /\ pending' = pending
    BY <1>1, LifeStep
  <2>2. ~NewSample
    <3>1. PICK S : pending \in Seq(S)
      BY DEF ManagerInv, Waiting
    <3>2. QED
      BY <2>1, <3>1, LenProperties DEF NewSample
  <2>3. QED
    BY <2>1, <2>2 DEF NewFixOfConnection
<1>2. CASE BeginPoll \/ SkipClosed \/ HandleSample \/ EndPoll \/ Tick
  BY <1>2, PollStep DEF NewFixOfConnection
<1>3. CASE \E i \in Clocks : Read(i)
  BY <1>3, OtherReads, GpsdReads DEF Read
<1>4. CASE \E i \in Clocks : Outside(i)
  BY <1>4, DeviceStep DEF NewFixOfConnection
<1>5. CASE UNCHANGED vars
  <2>1. ManagerInv'
    BY <1>5 DEF vars, ManagerInv, Polled, Waiting, Connections, Clocks, Type
  <2>2. ~NewSample
    <3>1. PICK S : pending \in Seq(S)
      BY DEF ManagerInv, Waiting
    <3>2. QED
      BY <1>5, <3>1, LenProperties DEF NewSample, vars
  <2>3. QED
    BY <2>1, <2>2 DEF NewFixOfConnection
<1>6. QED
  BY <1>1, <1>2, <1>3, <1>4, <1>5 DEF Next, Loop

(* The poll is at a clock or past the last, what waits for the engine was  *)
(* read in this poll, at most one sample of each clock, and gpsd is asked  *)
(* again after 1, 2, 4, 8, 16 and from then on 30 seconds (poll_all,       *)
(* try_reconnect).                                                         *)
THEOREM ClocksTyped == Spec => []TypeOK
<1>1. ManagerInv => TypeOK
  <2> SUFFICES ASSUME ManagerInv PROVE TypeOK
    OBVIOUS
  <2>1. Len(setup) \in Nat /\ FirstNow \in Nat /\ LastNow(setup) \in Nat
    BY ClocksAreNumbers DEF ManagerInv
  <2>2. Len(pending) <= Len(setup)
    <3>1. PICK S : pending \in Seq(S)
      BY DEF ManagerInv, Waiting
    <3>2. QED
      BY <2>1, <3>1, LenProperties DEF ManagerInv, Waiting, Polled
  <2>3. \A i \in Clocks : active[i] /\ Type(i) = "gpsd" => drv[i].backoff \in Backoffs
    BY DEF ManagerInv, Connections, GpsdDriver
  <2>4. poll.rx <= now
    BY <2>1 DEF ManagerInv, Polled
  <2>5. QED
    BY <2>2, <2>3, <2>4 DEF ManagerInv, Polled, Waiting, TypeOK, Backoffs
<1>2. QED
  BY ManagerInit, ManagerStep, <1>1, PTL DEF Spec

(* Whatever gpsd sends and however often its connection breaks, the fix of *)
(* a connection that is gone is never given as a sample of the new one     *)
(* (connect, read_sample).                                                 *)
THEOREM FixesAreOfTheConnection == Spec => FixOfThisConnection
<1>1. ManagerInv /\ [Next]_vars => [NewSample /\ Type(Newest.clock) = "gpsd"
                                     => Newest.src.conn = dev[Newest.clock].conn]_vars
  BY ManagerStep DEF NewFixOfConnection
<1>2. QED
  BY ManagerInit, ManagerStep, <1>1, PTL DEF Spec, FixOfThisConnection

------------------------------------------------------------------------------
(* Lines and pulses are used once.                                         *)

LineTypes == (Serial \ {"trimble", "oncore"}) \cup {"nmea"}

\* The lines of a device not yet read carry rising numbers, all above those in u.
Ordered(q, u, n) ==
  /\ n \in Nat /\ u \subseteq 1 .. n /\ \E S : q \in Seq(S)
  /\ \A k \in DOMAIN q : q[k].id \in 1 .. n /\ \A x \in u : x < q[k].id
  /\ \A j, k \in DOMAIN q : j < k => q[j].id < q[k].id

\* The lines a driver keeps for its next sample.
Parts(type, c) ==
  IF type = "jjy" THEN {c[f] : f \in c.got} ELSE {}

JjyDriver(c, u) ==
  /\ c = [subtype |-> c.subtype, got |-> c.got, date |-> c.date, time |-> c.time, wild |-> c.wild]
  /\ c.got \subseteq {"date", "time"} /\ (c.subtype \notin Tristate => c.got = {})
  /\ Parts("jjy", c) \cap u = {}

LineDevice(d) == d = [q |-> d.q, closed |-> d.closed, n |-> d.n]

LineOk(i) ==
  Type(i) \in LineTypes =>
    /\ LineDevice(dev[i])
    /\ Ordered(dev[i].q, used[i] \cup (IF active[i] THEN Parts(Type(i), drv[i]) ELSE {}), dev[i].n)
    /\ active[i] /\ Type(i) = "jjy" => JjyDriver(drv[i], used[i])

\* The driver of a pulse source knows the last pulse it made a sample of.
PulseOk(i) ==
  Type(i) = "pps" =>
    /\ dev[i] = [seq |-> dev[i].seq, at |-> dev[i].at] /\ dev[i].seq \in Nat
    /\ active[i] => /\ drv[i] = [seq |-> drv[i].seq] /\ drv[i].seq \in 0 .. dev[i].seq
                    /\ used[i] \subseteq 1 .. drv[i].seq

EventInv == \A i \in Clocks : LineOk(i) /\ PulseOk(i)

\* What the numbers of the lines are for: a receiver writes one line at a time
\* and numbers it; nothing is left from before the device was opened.
LinesNumbered ==
  /\ \A type \in LineTypes, n \in Nat, t \in Nat :
       \A r \in Reports(type, n, t) : \E l : r = <<l>> /\ l.id = n
  /\ \A type \in LineTypes : Leftovers(type) \subseteq {<<>>}

Packets == {"trimble", "oncore"}

\* A set of lines or pulses that a new sample of a clock may be made of.
Unused(of, u, type) ==
  of \cap u = {} /\ Cardinality(of) <= IF type = "jjy" THEN 2 ELSE 1

SampledOnce ==
  NewSample =>
    /\ Newest.clock \in Clocks
    /\ Type(Newest.clock) \notin Packets
         => Unused(Newest.of, used[Newest.clock], Type(Newest.clock))

LEMMA FewLines ==
  ASSUME NEW x, NEW y
  PROVE  Cardinality({}) = 0 /\ Cardinality({x}) = 1 /\ Cardinality({x, y}) <= 2
<1>1. IsFiniteSet({}) /\ Cardinality({}) = 0
  BY FS_EmptySet
<1>2. IsFiniteSet({x}) /\ Cardinality({x}) = 1
  BY FS_Singleton
<1>3. Cardinality({x} \cup {y}) <= 2
  <2>1. Cardinality({x} \cup {y}) = IF y \in {x} THEN Cardinality({x}) ELSE Cardinality({x}) + 1
    BY <1>2, FS_AddElement
  <2>2. QED
    BY <1>2, <2>1
<1>4. {x, y} = {x} \cup {y}
  OBVIOUS
<1>5. QED
  BY <1>1, <1>2, <1>3, <1>4

LEMMA NoneUsed ==
  ASSUME NEW u, NEW type
  PROVE  Unused({}, u, type)
<1>1. Cardinality({}) = 0
  BY FewLines
<1>2. QED
  BY <1>1 DEF Unused

LEMMA OrderedLess ==
  ASSUME NEW q, NEW u, NEW n, Ordered(q, u, n), NEW v \in SUBSET u
  PROVE  Ordered(q, v, n)
BY DEF Ordered

\* A line that is read is one nothing was made of, and below all that follow.
LEMMA QueueRead ==
  ASSUME NEW q, NEW u, NEW n, Ordered(q, u, n), q # <<>>,
         NEW v, v \subseteq u \cup {Head(q).id}
  PROVE  Head(q).id \in 1 .. n /\ Head(q).id \notin u /\ Ordered(Tail(q), v, n)
<1>1. PICK S : q \in Seq(S)
  BY DEF Ordered
<1>2. /\ Len(q) \in Nat /\ Len(q) > 0 /\ DOMAIN q = 1 .. Len(q) /\ Head(q) = q[1]
      /\ Tail(q) \in Seq(S) /\ DOMAIN Tail(q) = 1 .. Len(q) - 1
      /\ \A k \in 1 .. Len(q) - 1 : Tail(q)[k] = q[k + 1]
  BY <1>1, HeadTailProperties, LenProperties, EmptySeq
<1>3. n \in Nat /\ u \subseteq 1 .. n
  BY DEF Ordered
<1>4. 1 \in DOMAIN q /\ q[1].id \in 1 .. n /\ \A x \in u : x < q[1].id
  BY <1>2 DEF Ordered
<1>5. q[1].id \notin u
  <2>1. ~(q[1].id < q[1].id)
    BY <1>4
  <2>2. QED
    BY <1>4, <2>1
<1>6. ASSUME NEW k \in DOMAIN Tail(q)
      PROVE  Tail(q)[k].id \in 1 .. n /\ \A x \in v : x < Tail(q)[k].id
  <2>1. k + 1 \in DOMAIN q /\ 1 < k + 1 /\ Tail(q)[k] = q[k + 1]
    BY <1>2
  <2>2. q[k + 1].id \in 1 .. n /\ (\A x \in u : x < q[k + 1].id) /\ q[1].id < q[k + 1].id
    BY <1>4, <2>1 DEF Ordered
  <2>3. QED
    BY <1>2, <2>1, <2>2
<1>7. ASSUME NEW j \in DOMAIN Tail(q), NEW k \in DOMAIN Tail(q), j < k
      PROVE  Tail(q)[j].id < Tail(q)[k].id
  <2>1. j + 1 \in DOMAIN q /\ k + 1 \in DOMAIN q /\ j + 1 < k + 1
        /\ Tail(q)[j] = q[j + 1] /\ Tail(q)[k] = q[k + 1]
    BY <1>2, <1>7
  <2>2. q[j + 1].id < q[k + 1].id
    BY <2>1 DEF Ordered
  <2>3. QED
    BY <2>1, <2>2
<1>8. v \subseteq 1 .. n
  BY <1>2, <1>3, <1>4
<1>9. QED
  BY <1>2, <1>3, <1>4, <1>5, <1>6, <1>7, <1>8 DEF Ordered

\* A line that is written has the next number.
LEMMA QueueWrite ==
  ASSUME NEW q, NEW u, NEW n, Ordered(q, u, n), NEW l, l.id = n + 1
  PROVE  Ordered(q \o <<l>>, u, n + 1)
<1> DEFINE p == q \o <<l>>
<1>1. PICK S : q \in Seq(S)
  BY DEF Ordered
<1>2. q \in Seq(S \cup {l}) /\ <<l>> \in Seq(S \cup {l}) /\ Len(<<l>>) = 1 /\ <<l>>[1] = l
  BY <1>1, SeqMonotonic
<1>3. /\ Len(q) \in Nat /\ DOMAIN q = 1 .. Len(q) /\ p \in Seq(S \cup {l})
      /\ DOMAIN p = 1 .. Len(q) + 1 /\ p[Len(q) + 1] = l
      /\ \A k \in DOMAIN q : p[k] = q[k]
  BY <1>2, ConcatProperties, LenProperties
<1>4. n \in Nat /\ u \subseteq 1 .. n
  BY DEF Ordered
<1> HIDE DEF p
<1>5. ASSUME NEW k \in DOMAIN p
      PROVE  p[k].id \in 1 .. n + 1 /\ \A x \in u : x < p[k].id
  <2>1. CASE k = Len(q) + 1
    BY <1>3, <1>4, <2>1
  <2>2. CASE k \in DOMAIN q
    <3>1. q[k].id \in 1 .. n /\ \A x \in u : x < q[k].id
      BY <2>2 DEF Ordered
    <3>2. QED
      BY <1>3, <1>4, <2>2, <3>1
  <2>3. QED
    BY <1>3, <2>1, <2>2
<1>6. ASSUME NEW j \in DOMAIN p, NEW k \in DOMAIN p, j < k
      PROVE  p[j].id < p[k].id
  <2>1. j \in DOMAIN q /\ p[j] = q[j] /\ q[j].id \in 1 .. n
    <3>1. j \in DOMAIN q
      BY <1>3, <1>6
    <3>2. QED
      BY <1>3, <3>1 DEF Ordered
  <2>2. CASE k = Len(q) + 1
    BY <1>3, <1>4, <2>1, <2>2
  <2>3. CASE k \in DOMAIN q
    <3>1. q[j].id < q[k].id
      BY <1>6, <2>1, <2>3 DEF Ordered
    <3>2. QED
      BY <1>3, <2>1, <2>3, <3>1
  <2>4. QED
    BY <1>3, <2>2, <2>3
<1>7. u \subseteq 1 .. n + 1
  BY <1>4
<1>8. QED
  BY <1>3, <1>4, <1>5, <1>6, <1>7 DEF Ordered, p

\* What a driver makes of a line.
LineStep(type, c, l, t) == IF type = "nmea" THEN NmeaStep(c, l) ELSE SerialStep(type, c, l, t)

\* The receivers with one line for a sample.
LEMMA OneLineStep ==
  ASSUME NEW type \in LineTypes, type \notin {"jjy", "modem"}, NEW c, NEW l, NEW t, NEW r,
         r = LineStep(type, c, l, t)
  PROVE  r.out = "sample" => r.of = {l.id}
<1> USE DEF LineStep
<1>1. ASSUME NEW b, NEW x, NEW y, r = More(b) \/ r = Fail(b) \/ r = Panics(b) \/ r = Sample(b, l, x, y)
      PROVE  r.out = "sample" => r.of = {l.id}
  BY <1>1 DEF More, Fail, Panics, Sample
<1>2. CASE type = "nmea"
  <2>1. r = NmeaStep(c, l)
    BY <1>2
  <2>2. CASE ~l.good \/ ~Usable(c, l)
    <3>1. r = [out |-> "more", drv |-> c]
      BY <2>1, <2>2 DEF NmeaStep
    <3>2. QED
      BY <3>1
  <2>3. CASE ~(~l.good \/ ~Usable(c, l))
    <3> DEFINE d == CacheDate(c, l)
               w == SentenceTime(c, l)
               z == [l EXCEPT !.date = d.from]
    <3>1. r = [out |-> "sample", drv |-> d, time |-> w, leap |-> "none", of |-> {l.id}, src |-> z]
      BY <2>1, <2>3 DEF NmeaStep
    <3> HIDE DEF d, w, z
    <3>2. QED
      BY <3>1
  <2>4. QED
    BY <2>2, <2>3
<1>3. CASE type = "arbiter"
  <2>1. r = ArbiterStep(c, l, t)
    BY <1>3 DEF SerialStep
  <2>2. \E b, x, y : r = More(b) \/ r = Fail(b) \/ r = Panics(b) \/ r = Sample(b, l, x, y)
    BY <2>1 DEF ArbiterStep
  <2>3. QED
    BY <1>1, <2>2
<1>4. CASE type = "zyfer"
  <2>1. r = ZyferStep(c, l, t)
    BY <1>4 DEF SerialStep
  <2>2. \E b, x, y : r = More(b) \/ r = Fail(b) \/ r = Panics(b) \/ r = Sample(b, l, x, y)
    BY <2>1 DEF ZyferStep
  <2>3. QED
    BY <1>1, <2>2
<1>5. CASE type = "truetime"
  <2>1. r = TrueTimeStep(c, l, t)
    BY <1>5 DEF SerialStep
  <2>2. \E b, x, y : r = More(b) \/ r = Fail(b) \/ r = Panics(b) \/ r = Sample(b, l, x, y)
    BY <2>1 DEF TrueTimeStep
  <2>3. QED
    BY <1>1, <2>2
<1>6. CASE type = "spectracom"
  <2>1. r = SpectracomStep(c, l, t)
    BY <1>6 DEF SerialStep
  <2>2. \E b, x, y : r = More(b) \/ r = Fail(b) \/ r = Panics(b) \/ r = Sample(b, l, x, y)
    BY <2>1 DEF SpectracomStep
  <2>3. QED
    BY <1>1, <2>2
<1>7. CASE type = "hpgps"
  <2>1. r = HpGpsStep(c, l, t)
    BY <1>7 DEF SerialStep
  <2>2. \E b, x, y : r = More(b) \/ r = Fail(b) \/ r = Panics(b) \/ r = Sample(b, l, x, y)
    BY <2>1 DEF HpGpsStep
  <2>3. QED
    BY <1>1, <2>2
<1>8. CASE type = "generic"
  <2>1. r = Fail(c)
    BY <1>8 DEF SerialStep, GenericStep
  <2>2. QED
    BY <2>1 DEF Fail
<1>9. QED
  BY <1>2, <1>3, <1>4, <1>5, <1>6, <1>7, <1>8 DEF LineTypes, Serial

\* A JJY driver makes its samples of lines it keeps and the one it reads, and
\* keeps none that a sample was made of.
JjyOutcome(c, u, l, r) ==
  /\ r.out = "sample" => /\ Unused(r.of, u, "jjy")
                         /\ r.of \subseteq Parts("jjy", c) \cup {l.id}
  /\ Parts("jjy", r.drv) \subseteq Parts("jjy", c) \cup {l.id}
  /\ JjyDriver(r.drv, IF r.out = "sample" THEN u \cup r.of ELSE u)

LEMMA JjyLine ==
  ASSUME NEW c, NEW u, JjyDriver(c, u), NEW l, l.id \notin u, NEW t, NEW r, r = JjyStep(c, l, t)
  PROVE  JjyOutcome(c, u, l, r)
<1> USE DEF JjyOutcome
<1>1. /\ c = [subtype |-> c.subtype, got |-> c.got, date |-> c.date, time |-> c.time, wild |-> c.wild]
      /\ c.got \subseteq {"date", "time"} /\ (c.subtype \notin Tristate => c.got = {})
      /\ \A x \in Parts("jjy", c) : x \notin u
  BY DEF JjyDriver
<1>2. CASE c.subtype \notin Tristate
  <2>1. r = JjyOneLine(c, l, t) /\ c.got = {}
    BY <1>1, <1>2 DEF JjyStep
  <2>2. CASE l.form = "full" /\ l.good
    <3>1. r = [out |-> "sample", drv |-> c, time |-> t, leap |-> "none", of |-> {l.id}, src |-> l]
      BY <2>1, <2>2 DEF JjyOneLine, Sample
    <3>2. r.out = "sample" /\ r.drv = c /\ r.of = {l.id}
      BY <3>1
    <3>3. Unused(r.of, u, "jjy")
      <4>1. Cardinality({l.id}) = 1
        BY FewLines
      <4>2. {l.id} \cap u = {}
        OBVIOUS
      <4>3. QED
        BY <3>2, <4>1, <4>2 DEF Unused
    <3>4. Parts("jjy", c) = {}
      BY <2>1 DEF Parts
    <3>5. JjyDriver(c, u \cup r.of)
      BY <1>1, <3>4 DEF JjyDriver
    <3>6. QED
      BY <3>2, <3>3, <3>5
  <2>3. CASE ~(l.form = "full" /\ l.good)
    <3>1. r = [out |-> "more", drv |-> c] \/ r = [out |-> "panic", drv |-> c]
      BY <2>1, <2>3 DEF JjyOneLine, More, Panics
    <3>2. r.out # "sample" /\ r.drv = c
      BY <3>1
    <3>3. QED
      BY <3>2
  <2>4. QED
    BY <2>2, <2>3
<1>3. CASE c.subtype \in Tristate
  <2> DEFINE date == DateHeard(c, l)
             time == TimeHeard(c, l)
             full == [time EXCEPT !.got = {}]
  <2>1. r = CASE l.form \in {"date", "wild"} -> More(date)
              [] l.form \notin {"date", "wild"} /\ time.got # {"date", "time"} -> More(time)
              [] OTHER -> IF time.wild THEN Panics(time)
                          ELSE [Sample(full, l, t, "none") EXCEPT !.of = {time.date, time.time}]
    BY <1>3, Zenon DEF JjyStep, JjyTristate
  <2>2. date = c \/ date = [subtype |-> c.subtype, got |-> c.got \cup {"date"}, date |-> l.id, time |-> c.time,
                             wild |-> l.form = "wild"]
    BY <1>1 DEF DateHeard
  <2>3. time = c \/ time = [subtype |-> c.subtype, got |-> c.got \cup {"time"}, date |-> c.date, time |-> l.id,
                             wild |-> c.wild]
    BY <1>1 DEF TimeHeard
  <2>4. ASSUME NEW w, NEW d, d = c \/ (\E f \in {"date", "time"} : d = [subtype |-> c.subtype, got |-> c.got \cup {f},
                                     date |-> IF f = "date" THEN l.id ELSE c.date,
                                     time |-> IF f = "time" THEN l.id ELSE c.time, wild |-> w])
        PROVE  Parts("jjy", d) \subseteq Parts("jjy", c) \cup {l.id} /\ JjyDriver(d, u)
    <3>1. CASE d = c
      BY <3>1
    <3>2. CASE d # c
      <4>1. PICK f \in {"date", "time"} : d = [subtype |-> c.subtype, got |-> c.got \cup {f},
                                               date |-> IF f = "date" THEN l.id ELSE c.date,
                                               time |-> IF f = "time" THEN l.id ELSE c.time, wild |-> w]
        BY <2>4, <3>2
      <4>2. /\ d.subtype = c.subtype /\ d.got = c.got \cup {f}
            /\ d.date = (IF f = "date" THEN l.id ELSE c.date)
            /\ d.time = (IF f = "time" THEN l.id ELSE c.time)
            /\ d = [subtype |-> d.subtype, got |-> d.got, date |-> d.date, time |-> d.time, wild |-> d.wild]
        BY <4>1
      <4>3. ASSUME NEW g \in d.got PROVE d[g] \in Parts("jjy", c) \cup {l.id}
        <5>1. g \in {"date", "time"} /\ (g = f \/ g \in c.got)
          BY <1>1, <4>2
        <5>2. g = f => d[g] = l.id
          BY <4>2
        <5>3. g # f => d[g] = c[g]
          BY <4>2, <5>1
        <5>4. QED
          BY <5>1, <5>2, <5>3 DEF Parts
      <4>4. Parts("jjy", d) \subseteq Parts("jjy", c) \cup {l.id}
        BY <4>3 DEF Parts
      <4>5. Parts("jjy", d) \cap u = {}
        BY <1>1, <4>4
      <4>6. QED
        BY <1>1, <1>3, <4>2, <4>4, <4>5 DEF JjyDriver
    <3>3. QED
      BY <3>1, <3>2
  <2>5. Parts("jjy", date) \subseteq Parts("jjy", c) \cup {l.id} /\ JjyDriver(date, u)
    <3> HIDE DEF date
    <3>1. QED
      BY <2>2, <2>4
  <2>6. Parts("jjy", time) \subseteq Parts("jjy", c) \cup {l.id} /\ JjyDriver(time, u)
    <3> HIDE DEF time
    <3>1. QED
      BY <2>3, <2>4
  <2> HIDE DEF date, time
  <2>7. ASSUME NEW d, r = More(d) \/ r = Panics(d), Parts("jjy", d) \subseteq Parts("jjy", c) \cup {l.id}, JjyDriver(d, u)
        PROVE  /\ r.out # "sample"
               /\ Parts("jjy", r.drv) \subseteq Parts("jjy", c) \cup {l.id} /\ JjyDriver(r.drv, u)
    BY <2>7 DEF More, Panics
  <2>8. CASE l.form \in {"date", "wild"}
    BY <2>1, <2>5, <2>7, <2>8
  <2>9. CASE l.form \notin {"date", "wild"} /\ (time.got # {"date", "time"} \/ time.wild)
    <3>1. r = More(time) \/ r = Panics(time)
      BY <2>1, <2>9
    <3>2. QED
      BY <2>6, <2>7, <3>1
  <2>10. CASE l.form \notin {"date", "wild"} /\ time.got = {"date", "time"} /\ ~time.wild
    <3> DEFINE of == {time.date, time.time}
    <3>1. time = [subtype |-> time.subtype, got |-> time.got, date |-> time.date, time |-> time.time, wild |-> time.wild]
      BY <2>6 DEF JjyDriver
    <3>2. full = [subtype |-> time.subtype, got |-> {}, date |-> time.date, time |-> time.time, wild |-> time.wild]
      BY <3>1
    <3>3. of \subseteq Parts("jjy", time)
      BY <2>10 DEF Parts
    <3>4. r = [Sample(full, l, t, "none") EXCEPT !.of = of]
      BY <2>1, <2>10
    <3> HIDE DEF full, of
    <3>5. r.out = "sample" /\ r.drv = full /\ r.of = of
      BY <3>4 DEF Sample
    <3>6. Unused(of, u, "jjy")
      <4>1. of \cap u = {}
        BY <2>6, <3>3 DEF JjyDriver
      <4>2. Cardinality(of) <= 2
        BY FewLines DEF of
      <4>3. QED
        BY <4>1, <4>2 DEF Unused
    <3>7. full.got = {} /\ Parts("jjy", full) = {}
      BY <3>2 DEF Parts
    <3>8. JjyDriver(full, u \cup of)
      BY <3>2, <3>7 DEF JjyDriver
    <3>9. QED
      BY <2>6, <3>3, <3>5, <3>6, <3>7, <3>8
  <2>11. QED
    BY <2>8, <2>9, <2>10
<1>4. QED
  BY <1>2, <1>3

\* A step that touches one clock keeps what is true of the others.
LEMMA EventKeeps ==
  ASSUME EventInv, NEW i \in Clocks, setup' = setup,
         \A j \in Clocks : j # i => /\ active'[j] = active[j] /\ drv'[j] = drv[j]
                                    /\ dev'[j] = dev[j] /\ used'[j] = used[j],
         LineOk(i)', PulseOk(i)'
  PROVE  EventInv'
<1>1. Clocks' = Clocks
  BY DEF Clocks
<1>2. ASSUME NEW j \in Clocks PROVE LineOk(j)' /\ PulseOk(j)'
  <2>1. CASE j = i
    BY <2>1
  <2>2. CASE j # i
    <3>1. LineOk(j) /\ PulseOk(j)
      BY DEF EventInv
    <3>2. LineOk(j)'
      BY <2>2, <3>1 DEF LineOk, Type
    <3>3. PulseOk(j)'
      BY <2>2, <3>1 DEF PulseOk, Type
    <3>4. QED
      BY <3>2, <3>3
  <2>3. QED
    BY <2>1, <2>2
<1>3. QED
  BY <1>1, <1>2 DEF EventInv

LEMMA EventInit ==
  ASSUME LinesNumbered, Init
  PROVE  EventInv
<1> SUFFICES ASSUME NEW i \in Clocks PROVE LineOk(i) /\ PulseOk(i)
  BY DEF EventInv
<1>1. dev[i] \in Devices(setup[i]) /\ used[i] = {} /\ active[i] = FALSE
  BY DEF Init
<1>2. ASSUME Type(i) \in LineTypes PROVE LineOk(i)
  <2>1. setup[i].type \in LineTypes /\ setup[i].type \notin {"gpsd", "shm", "pps"}
    BY <1>2 DEF LineTypes, Serial, Type
  <2>2. Devices(setup[i]) = {[q |-> k, closed |-> FALSE, n |-> 0] : k \in Leftovers(setup[i].type)}
    BY <2>1 DEF Devices
  <2>3. PICK k \in Leftovers(setup[i].type) : dev[i] = [q |-> k, closed |-> FALSE, n |-> 0]
    BY <1>1, <2>2
  <2>4. k = <<>>
    BY <2>1, <2>3 DEF LinesNumbered
  <2> DEFINE d == dev[i]
  <2>5. d = [q |-> d.q, closed |-> d.closed, n |-> d.n] /\ d.q = <<>> /\ d.n = 0
    BY <2>3, <2>4
  <2>6. Ordered(<<>>, {}, 0)
    BY EmptySeq DEF Ordered
  <2>7. LineDevice(d) /\ Ordered(d.q, {}, d.n)
    BY <2>5, <2>6 DEF LineDevice
  <2>8. QED
    BY <1>1, <2>7 DEF LineOk
<1>3. ASSUME Type(i) = "pps" PROVE PulseOk(i)
  <2>1. Devices(setup[i]) = {[seq |-> 0, at |-> 0]}
    BY <1>3 DEF Devices, Type
  <2>2. QED
    BY <1>1, <2>1 DEF PulseOk
<1>4. QED
  BY <1>2, <1>3 DEF LineOk, PulseOk

LEMMA EventLife ==
  ASSUME ManagerInv, EventInv, OpenAll \/ Reload \/ CloseAll
  PROVE  EventInv'
<1>1. /\ setup' = setup /\ Clocks' = Clocks /\ dev' = dev /\ used' = used
      /\ \A i \in Clocks : active'[i] => phase = "start" /\ drv'[i] = DriverNew(i)
  <2>1. CASE OpenAll
    <3>1. PICK opened \in SUBSET {i \in Clocks : Type(i) \in Known} :
            /\ active' = [i \in Clocks |-> i \in opened]
            /\ drv' = [i \in Clocks |-> IF i \in opened THEN DriverNew(i) ELSE None]
      BY <2>1 DEF OpenAll
    <3>2. \A i \in Clocks : active'[i] => drv'[i] = DriverNew(i)
      BY <3>1
    <3>3. QED
      BY <2>1, <3>2 DEF OpenAll, Clocks
  <2>2. CASE Reload \/ CloseAll
    <3>1. active' = [i \in Clocks |-> FALSE]
      BY <2>2 DEF Reload, CloseAll
    <3>2. QED
      BY <2>2, <3>1 DEF Reload, CloseAll, Clocks
  <2>3. QED
    BY <2>1, <2>2
<1> SUFFICES ASSUME NEW i \in Clocks PROVE LineOk(i)' /\ PulseOk(i)'
  BY <1>1 DEF EventInv
<1>2. LineOk(i) /\ PulseOk(i) /\ Type(i)' = Type(i)
  BY <1>1 DEF EventInv, Type
<1>3. active'[i] => used[i] = {}
  BY <1>1 DEF ManagerInv, Polled
<1>4. ASSUME Type(i) \in LineTypes PROVE LineOk(i)'
  <2>1. LineDevice(dev[i]) /\ Ordered(dev[i].q, used[i], dev[i].n)
    BY <1>2, <1>4, OrderedLess DEF LineOk
  <2>2. CASE Type(i) = "jjy" /\ active'[i]
    <3> DEFINE c == drv'[i]
    <3>1. c = [subtype |-> setup[i].subtype, got |-> {}, date |-> 0, time |-> 0, wild |-> FALSE]
      BY <1>1, <2>2 DEF DriverNew, SerialNew, Serial
    <3> HIDE DEF c
    <3>2. Parts("jjy", c) = {} /\ JjyDriver(c, used[i])
      BY <3>1 DEF Parts, JjyDriver
    <3>3. used[i] \cup Parts("jjy", c) = used[i]
      BY <3>2
    <3>4. QED
      BY <1>1, <1>2, <2>1, <2>2, <3>2, <3>3 DEF LineOk, c
  <2>3. CASE ~(Type(i) = "jjy" /\ active'[i])
    <3>1. used[i] \cup (IF active'[i] THEN Parts(Type(i), drv'[i]) ELSE {}) = used[i]
      BY <2>3 DEF Parts
    <3>2. QED
      BY <1>1, <1>2, <2>1, <2>3, <3>1 DEF LineOk
  <2>4. QED
    BY <2>2, <2>3
<1>5. ASSUME Type(i) = "pps" PROVE PulseOk(i)'
  <2>1. dev[i] = [seq |-> dev[i].seq, at |-> dev[i].at] /\ dev[i].seq \in Nat
    BY <1>2, <1>5 DEF PulseOk
  <2>2. CASE active'[i]
    <3>1. drv'[i] = [seq |-> 0]
      BY <1>1, <1>5, <2>2 DEF DriverNew, Serial
    <3>2. drv'[i].seq = 0
      BY <3>1
    <3>3. QED
      BY <1>1, <1>3, <2>1, <2>2, <3>1, <3>2 DEF PulseOk
  <2>3. CASE ~active'[i]
    BY <1>1, <2>1, <2>3 DEF PulseOk
  <2>4. QED
    BY <2>2, <2>3
<1>6. QED
  BY <1>2, <1>4, <1>5 DEF LineOk, PulseOk

LEMMA OneLine ==
  ASSUME LinesNumbered, NEW type \in LineTypes, NEW n \in Nat, NEW t \in Nat,
         NEW r \in Reports(type, n + 1, t)
  PROVE  \E l : r = <<l>> /\ l.id = n + 1
<1> DEFINE m == n + 1
<1>1. m \in Nat /\ r \in Reports(type, m, t)
  OBVIOUS
<1> HIDE DEF m
<1>2. \E l : r = <<l>> /\ l.id = m
  BY <1>1 DEF LinesNumbered
<1>3. QED
  BY <1>2 DEF m

\* Receivers write, pulses come.
LEMMA EventDevice ==
  ASSUME LinesNumbered, ManagerInv, EventInv, NEW i \in Clocks, Outside(i)
  PROVE  EventInv'
<1>1. /\ UNCHANGED <<setup, phase, active, drv, used>>
      /\ \A j \in Clocks : j # i => dev'[j] = dev[j]
      /\ i \in DOMAIN dev /\ now \in Nat
  <2>1. UNCHANGED <<setup, phase, active, drv, used>> /\ \E d : dev' = [dev EXCEPT ![i] = d]
    BY DEF Outside, WriteReport, Unplug, Pulse, WriteSegment, ServerSends, ServerCloses, ServerStarts
  <2>2. FirstNow \in Nat /\ LastNow(setup) \in Nat
    BY ClocksAreNumbers DEF ManagerInv
  <2>3. QED
    BY <2>1, <2>2 DEF ManagerInv, Polled
<1>2. LineOk(i) /\ PulseOk(i) /\ Type(i)' = Type(i)
  BY <1>1 DEF EventInv, Type
<1> DEFINE d == dev[i]
           e == dev'[i]
           u == used[i] \cup (IF active[i] THEN Parts(Type(i), drv[i]) ELSE {})
<1>3. ASSUME Type(i) \in LineTypes PROVE LineOk(i)'
  <2>1. LineDevice(d) /\ Ordered(d.q, u, d.n) /\ (active[i] /\ Type(i) = "jjy" => JjyDriver(drv[i], used[i]))
    BY <1>2, <1>3 DEF LineOk
  <2>2. WriteReport(i) \/ Unplug(i)
    BY <1>3 DEF Outside, Pulse, WriteSegment, ServerSends, ServerCloses, ServerStarts, LineTypes, Serial
  <2>3. d.n \in Nat /\ d = [q |-> d.q, closed |-> d.closed, n |-> d.n]
    BY <2>1 DEF Ordered, LineDevice
  <2>4. LineDevice(e) /\ Ordered(e.q, u, e.n)
    <3>1. CASE WriteReport(i)
      <4>1. PICK r \in Reports(Type(i), d.n + 1, now) :
              dev' = [dev EXCEPT ![i].q = @ \o r, ![i].n = @ + 1]
        BY <3>1 DEF WriteReport
      <4>2. PICK l : r = <<l>> /\ l.id = d.n + 1
        BY <1>1, <1>3, <2>3, <4>1, OneLine
      <4> DEFINE q == d.q \o <<l>>
                 m == d.n + 1
      <4>3. e = [d EXCEPT !.q = q, !.n = m]
        BY <1>1, <4>1, <4>2
      <4>4. Ordered(q, u, m)
        BY <2>1, <4>2, QueueWrite
      <4> HIDE DEF q, m
      <4>5. e = [q |-> q, closed |-> d.closed, n |-> m]
        <5> DEFINE f == [d EXCEPT !.q = q]
                   g == [f EXCEPT !.n = m]
        <5>1. e = g
          BY <4>3, Zenon
        <5> HIDE DEF d, e
        <5>2. f = [q |-> q, closed |-> d.closed, n |-> d.n]
          BY <2>3
        <5> HIDE DEF f
        <5>3. g = [q |-> q, closed |-> d.closed, n |-> m]
          BY <5>2
        <5>4. QED
          BY <5>1, <5>3
      <4> HIDE DEF e
      <4>6. QED
        BY <4>4, <4>5 DEF LineDevice
    <3>2. CASE Unplug(i)
      <4> DEFINE yes == TRUE
      <4>1. e = [d EXCEPT !.closed = yes]
        BY <1>1, <3>2 DEF Unplug
      <4> HIDE DEF yes, d, e
      <4>2. e = [q |-> d.q, closed |-> yes, n |-> d.n]
        BY <2>3, <4>1
      <4>3. LineDevice(e) /\ e.q = d.q /\ e.n = d.n
        BY <4>2 DEF LineDevice
      <4>4. QED
        BY <2>1, <4>3
    <3>3. QED
      BY <2>2, <3>1, <3>2
  <2> HIDE DEF d, e
  <2>5. dev'[i] = e
    BY DEF e
  <2>6. QED
    BY <1>1, <1>2, <2>1, <2>4, <2>5 DEF LineOk
<1>4. ASSUME Type(i) = "pps" PROVE PulseOk(i)'
  <2>1. /\ d = [seq |-> d.seq, at |-> d.at] /\ d.seq \in Nat
        /\ active[i] => /\ drv[i] = [seq |-> drv[i].seq] /\ drv[i].seq \in 0 .. d.seq
                        /\ used[i] \subseteq 1 .. drv[i].seq
    BY <1>2, <1>4 DEF PulseOk
  <2>2. Pulse(i)
    BY <1>4 DEF Outside, WriteReport, Unplug, WriteSegment, ServerSends, ServerCloses, ServerStarts, Serial
  <2>3. e = [seq |-> d.seq + 1, at |-> now]
    BY <1>1, <2>2 DEF Pulse
  <2>4. e = [seq |-> e.seq, at |-> e.at] /\ e.seq \in Nat /\ d.seq <= e.seq
    <3> HIDE DEF d, e
    <3>1. QED
      BY <2>1, <2>3
  <2>5. active[i] => drv[i].seq \in 0 .. e.seq
    <3> HIDE DEF d, e
    <3>1. QED
      BY <2>1, <2>4
  <2>6. QED
    BY <1>1, <2>1, <2>4, <2>5 DEF PulseOk
<1>5. LineOk(i)' /\ PulseOk(i)'
  BY <1>2, <1>3, <1>4 DEF LineOk, PulseOk
<1>6. QED
  BY <1>1, <1>5, EventKeeps


\* A line is read: its number was in no sample, and is kept or used or dropped.
LEMMA EventLine ==
  ASSUME ManagerInv, EventInv, NEW i \in Clocks, Type(i) \in LineTypes, ReadLine(i)
  PROVE  EventInv' /\ SampledOnce
<1> DEFINE c == drv[i]
           d == dev[i]
           l == Head(dev[i].q)
           w == used[i]
           P == Parts(Type(i), c)
           u == w \cup P
<1>1. PICK r : r = LineStep(Type(i), c, l, now) /\ Outcome(i, r)
  BY DEF ReadLine, LineStep
<1>2. active[i] /\ d.q # <<>> /\ ~Unread(i) /\ dev' = [dev EXCEPT ![i].q = Tail(@)] /\ i \in DOMAIN dev
  BY DEF ReadLine, Reading, ManagerInv, Polled
<1>3. LineDevice(d) /\ Ordered(d.q, u, d.n) /\ (Type(i) = "jjy" => JjyDriver(c, w))
  BY <1>2 DEF EventInv, LineOk
<1>4. /\ setup' = setup /\ active' = active /\ drv'[i] = r.drv
      /\ used'[i] = (IF r.out = "sample" THEN w \cup r.of ELSE w)
      /\ \A j \in Clocks : j # i => drv'[j] = drv[j] /\ used'[j] = used[j]
  BY <1>1, OutcomeOthers DEF ManagerInv
<1>5. \A j \in Clocks : j # i => dev'[j] = dev[j]
  BY <1>2
<1>6. l.id \in 1 .. d.n /\ l.id \notin u
  BY <1>2, <1>3, QueueRead
<1> DEFINE x == used'[i]
           y == Parts(Type(i), drv'[i])
<1>7. /\ r.out = "sample" => Unused(r.of, w, Type(i))
      /\ x \cup y \subseteq u \cup {l.id}
      /\ Type(i) = "jjy" => JjyDriver(drv'[i], x)
  <2>1. CASE Type(i) = "jjy"
    <3>1. r = JjyStep(c, l, now)
      BY <1>1, <2>1 DEF LineStep, SerialStep
    <3>2. JjyDriver(c, w) /\ l.id \notin w /\ P = Parts("jjy", c)
      BY <1>3, <1>6, <2>1
    <3> HIDE DEF c, l, w, P, u, y
    <3>3. JjyOutcome(c, w, l, r)
      BY <3>1, <3>2, JjyLine
    <3>4. QED
      BY <1>4, <2>1, <3>2, <3>3 DEF JjyOutcome, u, y
  <2>2. CASE Type(i) # "jjy"
    <3>1. Type(i) # "modem" /\ P = {} /\ y = {}
      BY <1>2, <2>2 DEF Unread, Parts
    <3> HIDE DEF c, l, w, P, u, y
    <3>2. r.out = "sample" => r.of = {l.id}
      BY <1>1, <2>2, <3>1, OneLineStep
    <3>3. Cardinality({l.id}) = 1
      BY FewLines
    <3>4. {l.id} \cap w = {}
      BY <1>6 DEF u
    <3>5. r.out = "sample" => Unused(r.of, w, Type(i))
      BY <2>2, <3>2, <3>3, <3>4 DEF Unused
    <3>6. x \cup y \subseteq u \cup {l.id}
      BY <1>4, <3>1, <3>2 DEF u
    <3>7. QED
      BY <2>2, <3>5, <3>6
  <2>3. QED
    BY <2>1, <2>2
<1>8. LineOk(i)'
  <2> DEFINE e == dev'[i]
             s == Tail(d.q)
  <2>1. e = [d EXCEPT !.q = s]
    BY <1>2
  <2>2. d = [q |-> d.q, closed |-> d.closed, n |-> d.n]
    BY <1>3 DEF LineDevice
  <2>3. Ordered(s, x \cup y, d.n)
    <3> HIDE DEF x, y, u
    <3>1. QED
      BY <1>2, <1>3, <1>7, QueueRead
  <2> HIDE DEF s, d
  <2>4. e = [q |-> s, closed |-> d.closed, n |-> d.n]
    BY <2>1, <2>2
  <2> HIDE DEF e
  <2>5. LineDevice(e) /\ e.q = s /\ e.n = d.n
    BY <2>4 DEF LineDevice
  <2>6. LineDevice(e) /\ Ordered(e.q, x \cup y, e.n)
    BY <2>3, <2>5
  <2>7. LineDevice(dev'[i]) /\ Ordered(dev'[i].q, used'[i] \cup Parts(Type(i), drv'[i]), dev'[i].n)
    BY <2>6 DEF e
  <2>8. QED
    BY <1>2, <1>4, <1>7, <2>7 DEF LineOk, Type
<1>9. PulseOk(i)'
  BY <1>4 DEF PulseOk, Type, LineTypes, Serial
<1>10. SampledOnce
  <2>1. NewSample => r.out = "sample" /\ Newest.clock = i /\ Newest.of = r.of
    BY <1>1, OutcomeNew DEF ManagerInv
  <2>2. QED
    BY <1>7, <2>1 DEF SampledOnce
<1>11. QED
  BY <1>4, <1>5, <1>8, <1>9, <1>10, EventKeeps

\* No sample, or one of no line at all: what the driver keeps is as it was.
LEMMA EventQuiet ==
  ASSUME ManagerInv, EventInv, NEW i \in Clocks, NEW r, Outcome(i, r), dev' = dev,
         Type(i) \in LineTypes \/ Type(i) = "pps", r = Fail(drv[i])
  PROVE  EventInv' /\ SampledOnce
<1>1. r.out = "none" /\ r.drv = drv[i]
  BY DEF Fail
<1>2. /\ setup' = setup /\ active' = active /\ drv'[i] = drv[i] /\ used'[i] = used[i]
      /\ \A j \in Clocks : j # i => drv'[j] = drv[j] /\ used'[j] = used[j]
  BY <1>1, OutcomeOthers DEF ManagerInv
<1>3. ~NewSample
  BY <1>1, OutcomeNew DEF ManagerInv
<1>4. LineOk(i)' /\ PulseOk(i)'
  <2>1. LineOk(i) /\ PulseOk(i)
    BY DEF EventInv
  <2>2. LineOk(i)'
    BY <1>2, <2>1 DEF LineOk, Type
  <2>3. PulseOk(i)'
    BY <1>2, <2>1 DEF PulseOk, Type
  <2>4. QED
    BY <2>2, <2>3
<1>5. QED
  BY <1>2, <1>3, <1>4, EventKeeps DEF SampledOnce

\* A pulse is read: its number is above that of the last one used, or it is none.
LEMMA EventPulse ==
  ASSUME ManagerInv, EventInv, NEW i \in Clocks, ReadPulse(i)
  PROVE  EventInv' /\ SampledOnce
<1> DEFINE c == drv[i]
           d == dev[i]
<1>1. Type(i) = "pps" /\ active[i] /\ Outcome(i, PpsStep(c, d)) /\ dev' = dev
  BY DEF ReadPulse, Reading
<1>2. /\ d.seq \in Nat /\ c = [seq |-> c.seq] /\ c.seq \in 0 .. d.seq
      /\ used[i] \subseteq 1 .. c.seq
  BY <1>1 DEF EventInv, PulseOk
<1>3. CASE d.seq # 0 /\ d.seq = c.seq
  <2>1. Outcome(i, Fail(drv[i]))
    BY <1>1, <1>3 DEF PpsStep
  <2>2. QED
    BY <1>1, <2>1, EventQuiet
<1>4. CASE ~(d.seq # 0 /\ d.seq = c.seq)
  <2> DEFINE r == PpsStep(c, d)
             of == {d.seq} \ {0}
             b == [seq |-> d.seq]
             at == PulseTime(d)
  <2>1. r = [[out |-> "sample", drv |-> b, time |-> at, leap |-> "none", of |-> {d.seq}, src |-> [id |-> d.seq]]
             EXCEPT !.of = of]
    BY <1>4 DEF PpsStep, Sample
  <2>2. r.out = "sample" /\ r.drv = b /\ r.of = of
    <3> HIDE DEF of, b, at, d
    <3>1. QED
      BY <2>1
  <2> HIDE DEF r
  <2>3. Outcome(i, r)
    BY <1>1 DEF r
  <2>4. /\ setup' = setup /\ active' = active /\ drv'[i] = b /\ used'[i] = used[i] \cup of
        /\ \A j \in Clocks : j # i => drv'[j] = drv[j] /\ used'[j] = used[j]
    <3> HIDE DEF of, b
    <3>1. QED
      BY <2>2, <2>3, OutcomeOthers DEF ManagerInv
  <2>5. of \cap used[i] = {}
    BY <1>2, <1>4
  <2>6. used[i] \cup of \subseteq 1 .. d.seq
    BY <1>2
  <2>7. Cardinality(of) <= 1
    <3>1. of = {} \/ of = {d.seq}
      OBVIOUS
    <3> HIDE DEF of, d
    <3>2. Cardinality({}) = 0 /\ Cardinality({d.seq}) = 1
      BY FewLines
    <3>3. QED
      BY <3>1, <3>2
  <2>8. Unused(of, used[i], "pps")
    <3> HIDE DEF of
    <3>1. QED
      BY <2>5, <2>7 DEF Unused
  <2>9. SampledOnce
    <3> HIDE DEF of
    <3>1. NewSample => Newest.clock = i /\ Newest.of = of
      BY <2>2, <2>3, OutcomeNew DEF ManagerInv
    <3>2. QED
      BY <1>1, <2>8, <3>1 DEF SampledOnce
  <2>10. PulseOk(i)'
    <3>1. d = [seq |-> d.seq, at |-> d.at]
      BY <1>1 DEF EventInv, PulseOk
    <3>2. drv'[i].seq = d.seq
      BY <2>4
    <3>3. QED
      BY <1>1, <1>2, <2>4, <2>6, <3>1, <3>2 DEF PulseOk
  <2>11. LineOk(i)'
    BY <1>1, <2>4 DEF LineOk, Type, LineTypes, Serial
  <2>12. QED
    BY <1>1, <2>4, <2>9, <2>10, <2>11, EventKeeps
<1>5. QED
  BY <1>3, <1>4

\* Clocks whose samples are of no line: gpsd and the shared memory.
LEMMA EventOther ==
  ASSUME ManagerInv, EventInv, NEW i \in Clocks, Type(i) \notin LineTypes \cup {"pps"},
         setup' = setup, active' = active,
         \A j \in Clocks : j # i => drv'[j] = drv[j] /\ dev'[j] = dev[j] /\ used'[j] = used[j]
  PROVE  EventInv'
<1>1. LineOk(i)' /\ PulseOk(i)'
  BY DEF LineOk, PulseOk, Type
<1>2. QED
  BY <1>1, EventKeeps

LEMMA EventRead ==
  ASSUME ManagerInv, EventInv, NEW i \in Clocks, Read(i)
  PROVE  EventInv' /\ SampledOnce
<1>1. DOMAIN dev = Clocks /\ DOMAIN drv = Clocks
  BY DEF ManagerInv, Polled
<1>2. CASE ReadLine(i)
  <2>1. CASE Type(i) \in LineTypes
    BY <1>2, <2>1, EventLine
  <2>2. CASE Type(i) \notin LineTypes
    <3>1. Type(i) \in Packets /\ Type(i) # "pps"
      BY <1>2, <2>2 DEF ReadLine, Reading, LineTypes, Packets, Serial
    <3>2. /\ \E r : Outcome(i, r)
          /\ dev' = [dev EXCEPT ![i].q = Tail(@)]
      BY <1>2 DEF ReadLine
    <3>3. PICK r : Outcome(i, r)
      BY <3>2
    <3>4. EventInv'
      BY <1>1, <2>2, <3>1, <3>2, <3>3, OutcomeOthers, EventOther DEF ManagerInv
    <3>5. SampledOnce
      BY <3>1, <3>3, OutcomeNew DEF ManagerInv, SampledOnce
    <3>6. QED
      BY <3>4, <3>5
  <2>3. QED
    BY <2>1, <2>2
<1>3. CASE ReadNothing(i)
  <2>1. Outcome(i, Fail(drv[i])) /\ dev' = dev
    BY <1>3 DEF ReadNothing
  <2>2. CASE Type(i) \in LineTypes
    BY <2>1, <2>2, EventQuiet
  <2>3. CASE Type(i) \notin LineTypes
    <3>1. Type(i) \in Packets /\ Type(i) # "pps"
      BY <1>3, <2>3 DEF ReadNothing, Reading, LineTypes, Packets, Serial
    <3>2. EventInv'
      BY <2>1, <2>3, <3>1, OutcomeOthers, EventOther DEF ManagerInv
    <3>3. SampledOnce
      BY <2>1, <3>1, OutcomeNew DEF ManagerInv, SampledOnce
    <3>4. QED
      BY <3>2, <3>3
  <2>4. QED
    BY <2>2, <2>3
<1>4. CASE ReadPulse(i)
  BY <1>4, EventPulse
<1>5. CASE CopySome(i)
  <2>1. /\ Type(i) = "shm" /\ UNCHANGED <<setup, active, dev, used, pending>>
        /\ \E d : drv' = [drv EXCEPT ![i] = d]
    BY <1>5 DEF CopySome, Reading
  <2>2. EventInv'
    BY <1>1, <2>1, EventOther DEF LineTypes, Serial
  <2>3. ~NewSample
    <3>1. PICK S : pending \in Seq(S)
      BY DEF ManagerInv, Waiting
    <3>2. QED
      BY <2>1, <3>1, LenProperties DEF NewSample
  <2>4. QED
    BY <2>2, <2>3 DEF SampledOnce
<1>6. CASE CopyRest(i)
  <2> DEFINE c == drv[i]
  <2>1. PICK s : Outcome(i, ShmStep(c, s))
    BY <1>6 DEF CopyRest
  <2>2. Type(i) = "shm" /\ dev' = dev
    BY <1>6 DEF CopyRest, Reading
  <2> DEFINE r == ShmStep(c, s)
             d == [c EXCEPT !.copy = <<>>, !.copying = FALSE]
             b == [d EXCEPT !.last = s[1]]
             n == [id |-> s[3], low |-> s[4]]
  <2>3. r.out = "sample" => r.of = {}
    <3>1. r = IF s[1] = c.last \/ s[2] = 0 THEN Fail(d) ELSE [Sample(b, n, s[3], "none") EXCEPT !.of = {}]
      BY Zenon DEF ShmStep
    <3> HIDE DEF c, r, d, b, n
    <3>2. CASE s[1] = c.last \/ s[2] = 0
      BY <3>1, <3>2 DEF Fail
    <3>3. CASE ~(s[1] = c.last \/ s[2] = 0)
      <4>1. r = [[out |-> "sample", drv |-> b, time |-> s[3], leap |-> "none", of |-> {n.id}, src |-> n]
                EXCEPT !.of = {}]
        BY <3>1, <3>3 DEF Sample
      <4>2. QED
        BY <4>1
    <3>4. QED
      BY <3>2, <3>3
  <2> HIDE DEF r
  <2>4. Outcome(i, r)
    BY <2>1 DEF r
  <2>5. EventInv'
    BY <2>2, <2>4, OutcomeOthers, EventOther DEF ManagerInv, LineTypes, Serial
  <2>6. NewSample => Newest.clock = i /\ Newest.of = {}
    BY <2>3, <2>4, OutcomeNew DEF ManagerInv
  <2>7. SampledOnce
    BY <2>2, <2>6, NoneUsed DEF SampledOnce
  <2>8. QED
    BY <2>5, <2>7
<1>7. CASE ReadMessage(i) \/ ReadTimeout(i) \/ ReadEnd(i) \/ Reconnect(i)
  <2>1. /\ Type(i) = "gpsd" /\ \E r : Outcome(i, r)
        /\ dev' = dev \/ \E d : dev' = [dev EXCEPT ![i] = d]
    BY <1>7 DEF ReadMessage, ReadTimeout, ReadEnd, Reconnect, Reading
  <2>2. PICK r : Outcome(i, r)
    BY <2>1
  <2>3. EventInv'
    BY <1>1, <2>1, <2>2, OutcomeOthers, EventOther DEF ManagerInv, LineTypes, Serial
  <2>4. NewSample => Newest.clock = i
    BY <2>2, OutcomeNew DEF ManagerInv
  <2>5. NewFixOfConnection
    BY <1>7, GpsdReads
  <2>6. SampledOnce
    BY <2>1, <2>4, <2>5, NoneUsed DEF SampledOnce, NewFixOfConnection
  <2>7. QED
    BY <2>3, <2>6
<1>8. QED
  BY <1>2, <1>3, <1>4, <1>5, <1>6, <1>7 DEF Read

LEMMA EventStep ==
  ASSUME LinesNumbered, ManagerInv, EventInv, [Next]_vars
  PROVE  EventInv' /\ SampledOnce
<1>1. CASE OpenAll \/ Reload \/ CloseAll
  <2>1. EventInv'
    BY <1>1, EventLife
  <2>2. ~NewSample
    <3>1. PICK S : pending \in Seq(S)
      BY DEF ManagerInv, Waiting
    <3>2. QED
      BY <1>1, <3>1, LifeStep, LenProperties DEF NewSample
  <2>3. QED
    BY <2>1, <2>2 DEF SampledOnce
<1>2. CASE (BeginPoll \/ SkipClosed \/ HandleSample \/ EndPoll \/ Tick) \/ UNCHANGED vars
  <2>1. UNCHANGED <<setup, active, drv, dev, used>> /\ ~NewSample
    <3>1. CASE BeginPoll \/ SkipClosed \/ HandleSample \/ EndPoll \/ Tick
      BY <3>1, PollStep
    <3>2. CASE UNCHANGED vars
      <4>1. PICK S : pending \in Seq(S)
        BY DEF ManagerInv, Waiting
      <4>2. QED
        BY <3>2, <4>1, LenProperties DEF NewSample, vars
    <3>3. QED
      BY <1>2, <3>1, <3>2
  <2>2. EventInv'
    BY <2>1 DEF EventInv, LineOk, PulseOk, Clocks, Type
  <2>3. QED
    BY <2>1, <2>2 DEF SampledOnce
<1>3. CASE \E i \in Clocks : Read(i)
  BY <1>3, EventRead
<1>4. CASE \E i \in Clocks : Outside(i)
  BY <1>4, EventDevice, DeviceStep DEF SampledOnce
<1>5. QED
  BY <1>1, <1>2, <1>3, <1>4 DEF Next, Loop

(* Whatever the receivers write, line by line, and however their lines and *)
(* the pulses interleave with the polls, no line and no pulse is made a    *)
(* sample twice, and a sample is made of one of them, or of two by a       *)
(* Tristate receiver (read_sample of the drivers, pps_seq).  The packets   *)
(* of Trimble and Oncore are left to the runs: of what they may be made    *)
(* depends on what their bytes say.                                        *)
THEOREM LinesUsedOnce == LinesNumbered => (Spec => [][SampledOnce]_vars)
<1> SUFFICES ASSUME LinesNumbered PROVE Spec => [][SampledOnce]_vars
  OBVIOUS
<1>1. Init => ManagerInv /\ EventInv
  BY ManagerInit, EventInit
<1>2. ManagerInv /\ EventInv /\ [Next]_vars => (ManagerInv /\ EventInv)'
  BY ManagerStep, EventStep
<1>3. ManagerInv /\ EventInv /\ [Next]_vars => [SampledOnce]_vars
  BY EventStep
<1>4. QED
  BY <1>1, <1>2, <1>3, PTL DEF Spec

(* With no packet clock this is the property the runs check: every sample  *)
(* is made of lines or pulses no earlier one was made of.                  *)
COROLLARY EventsUsedOnce ==
  LinesNumbered /\ (\A s \in Setups : \A k \in DOMAIN s : s[k].type \notin Packets)
    => (Spec => EventsOnce)
<1> SUFFICES ASSUME LinesNumbered, \A s \in Setups : \A k \in DOMAIN s : s[k].type \notin Packets
             PROVE  Spec => EventsOnce
  OBVIOUS
<1>1. Init => ManagerInv /\ EventInv
  BY ManagerInit, EventInit
<1>2. ManagerInv /\ EventInv /\ [Next]_vars => (ManagerInv /\ EventInv)'
  BY ManagerStep, EventStep
<1>3. ManagerInv /\ EventInv /\ [Next]_vars
        => [NewSample => /\ Newest.of \cap used[Newest.clock] = {}
                         /\ Cardinality(Newest.of) <= IF Type(Newest.clock) = "jjy" THEN 2 ELSE 1]_vars
  <2> SUFFICES ASSUME ManagerInv, EventInv, [Next]_vars, NewSample
               PROVE  /\ Newest.of \cap used[Newest.clock] = {}
                      /\ Cardinality(Newest.of) <= IF Type(Newest.clock) = "jjy" THEN 2 ELSE 1
    OBVIOUS
  <2>1. SampledOnce /\ Newest.clock \in Clocks
    BY EventStep DEF SampledOnce
  <2>2. Type(Newest.clock) \notin Packets
    BY <2>1 DEF ManagerInv, Polled, Clocks, Type
  <2>3. QED
    BY <2>1, <2>2 DEF SampledOnce, Unused
<1>4. QED
  BY <1>1, <1>2, <1>3, PTL DEF Spec, EventsOnce

------------------------------------------------------------------------------
(* NMEA: the dates of sentences.                                           *)

Years == 1970 .. 2100
MarchYears == 1969 .. 2100      \* of years that begin in March
EarlyYears == 1969 .. 2000
Epoch == 719468
CenturyLength == 36524          \* of a century at least
YearLength == 365

\* The days before a year that begins in March, and those before a day of it.
Eras(y) == LET era == y \div 400
               yoe == y - era * 400
           IN  era * 146097 + yoe * 365 + yoe \div 4 - yoe \div 100

DayInYear(m, d) == (153 * (IF m > 2 THEN m - 3 ELSE m + 9) + 2) \div 5 + d - 1

MarchYear(y, m) == IF m <= 2 THEN y - 1 ELSE y

LEMMA ErasAreNumbers ==
  ASSUME NEW a \in MarchYears
  PROVE  Eras(a) \in Int
BY DEF Eras, MarchYears

LEMMA ErasGrow ==
  ASSUME NEW a \in MarchYears, NEW b \in MarchYears, a < b
  PROVE  Eras(b) - Eras(a) >= YearLength
BY SMTT(60) DEF Eras, MarchYears, YearLength

LEMMA Century ==
  ASSUME NEW a \in EarlyYears
  PROVE  Eras(a + 100) - Eras(a) >= CenturyLength
BY SMTT(60) DEF Eras, EarlyYears, CenturyLength

LEMMA InYear ==
  ASSUME NEW m \in 1 .. 12, NEW d \in 1 .. 31
  PROVE  DayInYear(m, d) \in IF m > 2 THEN 0 .. 305 ELSE 306 .. 367
BY SMTT(60) DEF DayInYear

LEMMA Split ==
  ASSUME NEW y \in Years, NEW m \in 1 .. 12, NEW d \in 1 .. 31
  PROVE  DaysFromCivil(y, m, d) = Eras(MarchYear(y, m)) + DayInYear(m, d) - Epoch
BY SMTT(60) DEF DayInYear, Eras, DaysFromCivil, MarchYear, Years, Epoch

LEMMA MarchYearIs ==
  ASSUME NEW y \in Years, NEW m \in 1 .. 12
  PROVE  MarchYear(y, m) \in MarchYears
BY DEF Years, MarchYears, MarchYear

LEMMA Quotient ==
  ASSUME NEW t \in Nat, NEW T \in Nat \ {0}
  PROVE  /\ t \div T \in Nat /\ t % T \in 0 .. T - 1 /\ t = (t \div T) * T + (t % T)
BY SMTT(60)

LEMMA QuotientGrows ==
  ASSUME NEW s \in Nat, NEW t \in Nat, s <= t, NEW T \in Nat \ {0}
  PROVE  s \div T <= t \div T
<1> DEFINE p == s \div T
           q == t \div T
           x == s % T
           y == t % T
<1>1. /\ p \in Nat /\ x \in 0 .. T - 1 /\ s = p * T + x
  BY Quotient
<1>2. /\ q \in Nat /\ y \in 0 .. T - 1 /\ t = q * T + y
  BY Quotient
<1> HIDE DEF p, q, x, y
<1>3. SUFFICES ASSUME p > q PROVE FALSE
  BY <1>1, <1>2 DEF p, q
<1>4. PICK e \in Nat : p = q + 1 + e
  <2>1. p - q - 1 \in Nat /\ p = q + 1 + (p - q - 1)
    BY <1>1, <1>2, <1>3
  <2>2. QED
    BY <2>1
<1>5. p * T = q * T + T + e * T /\ e * T \in Nat /\ q * T \in Nat
  BY <1>1, <1>2, <1>4
<1>6. QED
  BY <1>1, <1>2, <1>5

LEMMA DaysAreNumbers ==
  ASSUME NEW y \in Years, NEW m \in 1 .. 12, NEW d \in 1 .. 31
  PROVE  DaysFromCivil(y, m, d) \in Int
<1>1. DaysFromCivil(y, m, d) = Eras(MarchYear(y, m)) + DayInYear(m, d) - Epoch
  BY Split
<1>2. MarchYear(y, m) \in MarchYears
  BY MarchYearIs
<1>3. Eras(MarchYear(y, m)) \in Int
  BY <1>2, ErasAreNumbers
<1>4. DayInYear(m, d) \in IF m > 2 THEN 0 .. 305 ELSE 306 .. 367
  BY InYear
<1>5. DayInYear(m, d) \in Int
  BY <1>4
<1>6. QED
  BY <1>1, <1>3, <1>5 DEF Epoch

LEMMA YearsApart ==
  ASSUME NEW a \in Years, NEW b \in Years, a < b, NEW m \in 1 .. 12, NEW d \in 1 .. 31
  PROVE  DaysFromCivil(b, m, d) - DaysFromCivil(a, m, d) >= YearLength
<1> DEFINE x == MarchYear(a, m)
           y == MarchYear(b, m)
           n == DayInYear(m, d)
<1>1. DaysFromCivil(a, m, d) = Eras(x) + n - Epoch
  BY Split
<1>2. DaysFromCivil(b, m, d) = Eras(y) + n - Epoch
  BY Split
<1>3. x \in MarchYears
  BY MarchYearIs
<1>4. y \in MarchYears
  BY MarchYearIs
<1>5. x < y
  BY DEF Years, MarchYear
<1>6. n \in IF m > 2 THEN 0 .. 305 ELSE 306 .. 367
  BY InYear
<1> HIDE DEF x, y, n
<1>7. n \in Int
  BY <1>6
<1>8. Eras(y) - Eras(x) >= YearLength
  BY <1>3, <1>4, <1>5, ErasGrow
<1>9. Eras(x) \in Int
  BY <1>3, ErasAreNumbers
<1>10. Eras(y) \in Int
  BY <1>4, ErasAreNumbers
<1>11. QED
  BY <1>1, <1>2, <1>7, <1>8, <1>9, <1>10 DEF Epoch, YearLength

LEMMA CenturiesApart ==
  ASSUME NEW a \in Years, NEW b \in Years, b = a + 100, NEW m \in 1 .. 12, NEW d \in 1 .. 31
  PROVE  DaysFromCivil(b, m, d) - DaysFromCivil(a, m, d) >= CenturyLength
<1> DEFINE x == MarchYear(a, m)
           y == MarchYear(b, m)
           n == DayInYear(m, d)
<1>1. DaysFromCivil(a, m, d) = Eras(x) + n - Epoch
  BY Split
<1>2. DaysFromCivil(b, m, d) = Eras(y) + n - Epoch
  BY Split
<1>3. x \in EarlyYears /\ x \in MarchYears /\ y \in MarchYears /\ y = x + 100
  BY DEF Years, EarlyYears, MarchYears, MarchYear
<1>4. n \in IF m > 2 THEN 0 .. 305 ELSE 306 .. 367
  BY InYear
<1> HIDE DEF x, y, n
<1>5. n \in Int
  BY <1>4
<1>6. Eras(x + 100) - Eras(x) >= CenturyLength
  BY <1>3, Century
<1>7. Eras(x) \in Int
  BY <1>3, ErasAreNumbers
<1>8. Eras(y) \in Int
  BY <1>3, ErasAreNumbers
<1>9. Eras(y) - Eras(x) >= CenturyLength
  BY <1>3, <1>6
<1>10. QED
  BY <1>1, <1>2, <1>5, <1>7, <1>8, <1>9 DEF Epoch, CenturyLength

\* No day of a year comes before one of an earlier year.
LEMMA YearsGrow ==
  ASSUME NEW a \in Years, NEW b \in Years, a < b,
         NEW m \in 1 .. 12, NEW d \in 1 .. 31, NEW n \in 1 .. 12, NEW e \in 1 .. 31
  PROVE  DaysFromCivil(a, m, d) < DaysFromCivil(b, n, e)
<1> DEFINE x == MarchYear(a, m)
           y == MarchYear(b, n)
           z == b - 1
           i == DayInYear(m, d)
           j == DayInYear(n, e)
<1>1. DaysFromCivil(a, m, d) = Eras(x) + i - Epoch
  BY Split
<1>2. DaysFromCivil(b, n, e) = Eras(y) + j - Epoch
  BY Split
<1>3. /\ x \in MarchYears /\ y \in MarchYears /\ z \in MarchYears
      /\ x <= y /\ (x = y => m > 2 /\ n <= 2)
      /\ (m <= 2 /\ n > 2 => x < z /\ z < y)
  BY DEF Years, MarchYears, MarchYear
<1>4. i \in IF m > 2 THEN 0 .. 305 ELSE 306 .. 367
  BY InYear
<1>5. j \in IF n > 2 THEN 0 .. 305 ELSE 306 .. 367
  BY InYear
<1> HIDE DEF x, y, z, i, j
<1>6. Eras(x) \in Int
  BY <1>3, ErasAreNumbers
<1>7. Eras(y) \in Int
  BY <1>3, ErasAreNumbers
<1>8. Eras(z) \in Int
  BY <1>3, ErasAreNumbers
<1>9. x < y => Eras(y) - Eras(x) >= YearLength
  BY <1>3, ErasGrow
<1>10. x < z => Eras(z) - Eras(x) >= YearLength
  BY <1>3, ErasGrow
<1>11. z < y => Eras(y) - Eras(z) >= YearLength
  BY <1>3, ErasGrow
<1>12. Eras(x) + i < Eras(y) + j
  <2>1. CASE x = y
    BY <1>3, <1>4, <1>5, <1>7, <2>1
  <2>2. CASE x # y /\ ~(m <= 2 /\ n > 2)
    <3>1. x < y
      BY <1>3, <2>2 DEF MarchYears
    <3>2. QED
      BY <1>4, <1>5, <1>6, <1>7, <1>9, <2>2, <3>1 DEF YearLength
  <2>3. CASE m <= 2 /\ n > 2
    BY <1>3, <1>4, <1>5, <1>6, <1>7, <1>8, <1>10, <1>11, <2>3 DEF YearLength
  <2>4. QED
    BY <2>1, <2>2, <2>3
<1>13. i \in Int /\ j \in Int
  BY <1>4, <1>5
<1>14. QED
  BY <1>1, <1>2, <1>6, <1>7, <1>12, <1>13 DEF Epoch

Day(k) == DaysFromCivil(Dates[k].y, Dates[k].m, Dates[k].d)

\* Dates are days that follow one another.
Consecutive == \A k \in DOMAIN Dates : Day(k) = Day(1) + k - 1

Sentence == [kind : Dated \cup TimeOnly, good : BOOLEAN, valid : BOOLEAN, date : Nat, id : Nat, at : Nat]

\* A sentence with a date that the driver believes shows the day it was written.
OfToday(l) ==
  l.good /\ l.kind \in Dated /\ (l.kind = "RMC" => l.valid)
    => l.date = DayOf(l.at) /\ l.date \in DOMAIN Dates

\* A cached date is that of the day at which the driver last read one, and the
\* cached year is no later.
NmeaDriver(c) ==
  /\ c = [date |-> c.date, year4 |-> c.year4, from |-> c.from] /\ c.from \in Nat
  /\ c.date # NoDate =>
       /\ FirstNow <= c.from /\ DayOf(c.from) \in DOMAIN Dates
       /\ c.date = Cached(DayOf(c.from))
       /\ c.year4 # 0 => c.year4 \in Years /\ c.year4 <= Dates[DayOf(c.from)].y
  /\ c.date = NoDate => c.year4 = 0

\* The time of a sentence, with the date of the one of time from, is right.
DatedBy(time, l, from) ==
  \/ time = l.at
  \/ l.kind \in TimeOnly /\ time = l.at - (DayOf(l.at) - DayOf(from)) * TicksPerDay

TooFar(time, rx) == ~(time - rx <= MaxOffset /\ -(time - rx) <= MaxOffset)

LEMMA DatesAreDates ==
  ASSUME NEW k \in DOMAIN Dates
  PROVE  /\ k \in Nat /\ k >= 1 /\ 1 \in DOMAIN Dates
         /\ Dates[k].y \in Years /\ Dates[k].m \in 1 .. 12 /\ Dates[k].d \in 1 .. 31
         /\ Day(k) \in Int
<1> DEFINE R == [d : 1 .. 31, m : 1 .. 12, y : Years]
<1>1. Dates \in Seq(R)
  BY NmeaAssumption DEF Years
<1>2. Dates[k] \in R
  <2> HIDE DEF R
  <2>1. Len(Dates) \in Nat /\ DOMAIN Dates = 1 .. Len(Dates)
    BY <1>1, LenProperties
  <2>2. k \in 1 .. Len(Dates)
    BY <2>1
  <2>3. QED
    BY <1>1, <2>2, ElementOfSeq
<1>3. k \in Nat /\ k >= 1 /\ 1 \in DOMAIN Dates
  <2> HIDE DEF R
  <2>1. Len(Dates) \in Nat /\ DOMAIN Dates = 1 .. Len(Dates)
    BY <1>1, LenProperties
  <2>2. QED
    BY <2>1
<1>4. Dates[k].y \in Years /\ Dates[k].m \in 1 .. 12 /\ Dates[k].d \in 1 .. 31
  BY <1>2
<1>5. DaysFromCivil(Dates[k].y, Dates[k].m, Dates[k].d) \in Int
  BY <1>4, DaysAreNumbers
<1>6. QED
  BY <1>3, <1>4, <1>5 DEF Day

LEMMA TimeOfDay ==
  ASSUME NEW t \in Nat
  PROVE  /\ DayOf(t) \in Nat /\ TodOf(t) \in 0 .. TicksPerDay - 1
         /\ t = (DayOf(t) - 1) * TicksPerDay + TodOf(t)
<1> DEFINE q == t \div TicksPerDay
           x == t % TicksPerDay
<1>1. TicksPerDay \in Nat \ {0}
  BY NmeaAssumption
<1>2. q \in Nat /\ x \in 0 .. TicksPerDay - 1 /\ t = q * TicksPerDay + x
  BY <1>1, Quotient
<1>3. DayOf(t) = q + 1 /\ TodOf(t) = x
  BY DEF DayOf, TodOf
<1> HIDE DEF q, x
<1>4. DayOf(t) - 1 = q
  BY <1>2, <1>3
<1>5. QED
  BY <1>2, <1>3, <1>4

LEMMA DaysGrow ==
  ASSUME NEW s \in Nat, NEW t \in Nat, s <= t
  PROVE  DayOf(s) <= DayOf(t)
<1> DEFINE p == s \div TicksPerDay
           q == t \div TicksPerDay
<1>1. TicksPerDay \in Nat \ {0}
  BY NmeaAssumption
<1>2. p <= q
  BY <1>1, QuotientGrows
<1>3. DayOf(s) = p + 1 /\ DayOf(t) = q + 1 /\ p \in Int /\ q \in Int
  BY <1>1 DEF DayOf
<1> HIDE DEF p, q
<1>4. QED
  BY <1>2, <1>3

LEMMA Scaled ==
  ASSUME NEW a \in Int, NEW b \in Int, NEW T \in Nat, a <= b
  PROVE  a * T <= b * T
<1>1. PICK e \in Nat : b = a + e
  <2>1. b - a \in Nat /\ b = a + (b - a)
    OBVIOUS
  <2>2. QED
    BY <2>1
<1>2. b * T = a * T + e * T /\ e * T \in Nat /\ a * T \in Int
  BY <1>1
<1>3. QED
  BY <1>2

\* A time w of year z, shown as v with the year y.
Shown(y, z, v, w) ==
  /\ v \in Int /\ w \in Int
  /\ y = z => v = w
  /\ y < z => v <= w - YearLength * TicksPerDay
  /\ y = z - 100 => v <= w - CenturyLength * TicksPerDay
  /\ y = z + 100 => v >= w + CenturyLength * TicksPerDay

\* A day of Dates shown with another year is off by the days between.
LEMMA YearShown ==
  ASSUME Consecutive, NEW k \in DOMAIN Dates, NEW tod \in 0 .. TicksPerDay - 1,
         NEW y \in Years, NEW v, v = At(y, Dates[k].m, Dates[k].d, tod),
         NEW w, w = (k - 1) * TicksPerDay + tod
  PROVE  Shown(y, Dates[k].y, v, w)
<1> DEFINE T == TicksPerDay
           m == Dates[k].m
           d == Dates[k].d
           z == Dates[k].y
           x == DaysFromCivil(y, m, d)
           n == DaysFromCivil(z, m, d)
           o == Day(1)
           g == YearLength
           h == CenturyLength
<1>1. k \in Nat /\ z \in Years /\ m \in 1 .. 12 /\ d \in 1 .. 31 /\ Day(k) \in Int /\ 1 \in DOMAIN Dates
  BY DatesAreDates
<1>2. o \in Int
  BY <1>1, DatesAreDates
<1>3. n = o + k - 1 /\ n \in Int
  BY <1>1 DEF Consecutive, Day
<1>4. v = (x - o) * T + tod
  BY DEF At, Day
<1>5. T \in Nat /\ tod \in Int /\ g \in Nat /\ h \in Nat
  BY NmeaAssumption DEF YearLength, CenturyLength
<1> HIDE DEF m, d, z
<1>6. x \in Int
  BY <1>1, DaysAreNumbers
<1>7. y < z => n - x >= g
  BY <1>1, YearsApart
<1>8. z < y => x - n >= g
  BY <1>1, YearsApart
<1>9. z = y + 100 => n - x >= h
  BY <1>1, CenturiesApart
<1>10. y = z + 100 => x - n >= h
  BY <1>1, CenturiesApart
<1>11. y \in Int /\ z \in Int
  BY <1>1 DEF Years
<1>12. y = z - 100 => z = y + 100
  BY <1>11
<1>13. y = z => x = n
  OBVIOUS
<1> DEFINE p == x - o
           q == n - o
<1>14. p \in Int /\ q \in Int
  BY <1>2, <1>3, <1>6
<1>15. w = q * T + tod
  <2>1. q = k - 1
    BY <1>1, <1>2, <1>3
  <2>2. QED
    BY <2>1
<1> HIDE DEF x, n, o, g, h, T
<1>16. n - x >= g => p <= q - g
  BY <1>2, <1>3, <1>5, <1>6
<1>17. n - x >= h => p <= q - h
  BY <1>2, <1>3, <1>5, <1>6
<1>18. x - n >= h => q + h <= p
  BY <1>2, <1>3, <1>5, <1>6
<1>19. v = p * T + tod
  BY <1>4
<1>20. x = n => p = q
  OBVIOUS
<1> HIDE DEF p, q
<1>21. q - g \in Int /\ q - h \in Int /\ q + h \in Int
  BY <1>5, <1>14
<1>22. p <= q - g => p * T <= (q - g) * T
  BY <1>5, <1>14, <1>21, Scaled
<1>23. p <= q - h => p * T <= (q - h) * T
  BY <1>5, <1>14, <1>21, Scaled
<1>24. q + h <= p => (q + h) * T <= p * T
  BY <1>5, <1>14, <1>21, Scaled
<1>25. /\ (q - g) * T = q * T - g * T /\ (q - h) * T = q * T - h * T /\ (q + h) * T = q * T + h * T
       /\ p * T \in Int /\ q * T \in Int /\ g * T \in Int /\ h * T \in Int
  BY <1>5, <1>14
<1>26. QED
  <2> DEFINE a == p * T
             b == q * T
             e == g * T
             f == h * T
  <2>1. /\ a \in Int /\ b \in Int /\ e \in Int /\ f \in Int /\ v = a + tod /\ w = b + tod
        /\ y = z => a = b
        /\ y < z => a <= b - e
        /\ y = z - 100 => a <= b - f
        /\ y = z + 100 => b + f <= a
    BY <1>7, <1>9, <1>10, <1>12, <1>13, <1>15, <1>16, <1>17, <1>18, <1>19, <1>20,
       <1>22, <1>23, <1>24, <1>25
  <2> HIDE DEF a, b, e, f
  <2>2. /\ v \in Int /\ w \in Int
        /\ y = z => v = w
        /\ y < z => v <= w - e
        /\ y = z - 100 => v <= w - f
        /\ y = z + 100 => v >= w + f
    BY <1>5, <2>1
  <2>3. Shown(y, z, v, w)
    BY <2>2 DEF e, f, g, h, T, Shown
  <2>4. QED
    BY <2>3 DEF z

\* The year that a driver reads of the last two digits of y.
TwoDigits(y) == FullYear(y % 100)

LEMMA YearRead ==
  ASSUME NEW y \in Years
  PROVE  TwoDigits(y) \in Years /\ TwoDigits(y) \in {y, y - 100, y + 100}
BY DEF TwoDigits, FullYear, Years

\* What the limits and the calendar are assumed to be: an offset taken is below
\* 364 days, and the clocks are read for less than a century.
DatesGiven ==
  /\ Consecutive /\ MaxOffset < (YearLength - 1) * TicksPerDay
  /\ \A s \in Setups : LastNow(s) - FirstNow + MaxOffset < (CenturyLength - 1) * TicksPerDay

\* A sentence that is taken is right, or so wrong that the engine drops its
\* sample: a year off, if the cached year is not that of the cached date, or a
\* century, if the year has two digits.
LEMMA SentenceDated ==
  ASSUME DatesGiven, NEW s \in Setups, NEW rx \in FirstNow .. LastNow(s),
         NEW c, NmeaDriver(c), c.from <= rx,
         NEW l \in Sentence, l.good, OfToday(l), l.at \in FirstNow .. LastNow(s), Usable(c, l),
         NEW v, v = SentenceTime(c, l), NEW from, from = CacheDate(c, l).from
  PROVE  DatedBy(v, l, from) \/ TooFar(v, rx)
<1> DEFINE T == TicksPerDay
           tod == TodOf(l.at)
           last == LastNow(s)
           e == (YearLength - 1) * T
           f == (CenturyLength - 1) * T
<1>1. /\ T \in Nat \ {0} /\ FirstNow \in Nat /\ last \in Nat /\ MaxOffset \in Nat
      /\ MaxOffset < e /\ last - FirstNow + MaxOffset < f /\ Consecutive
  BY NmeaAssumption, ManagerAssumption DEF DatesGiven
<1>2. YearLength * T = e + T /\ CenturyLength * T = f + T /\ e \in Nat /\ f \in Nat
  <2>1. YearLength - 1 \in Nat /\ CenturyLength - 1 \in Nat
    BY DEF YearLength, CenturyLength
  <2>2. YearLength \in Nat /\ CenturyLength \in Nat
    BY DEF YearLength, CenturyLength
  <2>3. QED
    BY <1>1, <2>1, <2>2
<1>3. l.at \in Nat /\ rx \in Nat /\ rx \in FirstNow .. last /\ l.at \in FirstNow .. last
  BY <1>1 DEF Sentence
<1>4. DayOf(l.at) \in Nat /\ TodOf(l.at) \in 0 .. TicksPerDay - 1
      /\ l.at = (DayOf(l.at) - 1) * TicksPerDay + TodOf(l.at)
  BY <1>3, TimeOfDay
<1>5. l.kind \in {"RMC", "ZDA", "GGA", "GLL"}
  BY DEF Sentence, Dated, TimeOnly
<1>6. CASE l.kind = "ZDA"
  <2> DEFINE k == DayOf(l.at)
             z == Dates[k].y
             w == (k - 1) * TicksPerDay + TodOf(l.at)
  <2>1. l.date = k /\ k \in DOMAIN Dates
    BY <1>6 DEF OfToday, Dated
  <2>2. v = At(z, Dates[k].m, Dates[k].d, tod)
    BY <1>6, <2>1 DEF SentenceTime
  <2>3. z \in Years
    BY <2>1, DatesAreDates
  <2>4. Shown(z, Dates[k].y, v, w)
    BY <1>1, <1>4, <2>1, <2>2, <2>3, YearShown
  <2>5. v = l.at
    BY <1>4, <2>4 DEF Shown
  <2>6. QED
    BY <2>5 DEF DatedBy
<1>7. CASE l.kind = "RMC"
  <2> DEFINE k == DayOf(l.at)
             z == Dates[k].y
             y == TwoDigits(z)
             w == (k - 1) * TicksPerDay + TodOf(l.at)
  <2>1. l.date = k /\ k \in DOMAIN Dates
    BY <1>7 DEF OfToday, Dated, Usable
  <2>2. v = At(y, Dates[k].m, Dates[k].d, tod)
    BY <1>7, <2>1 DEF SentenceTime, Cached, TwoDigits
  <2>3. z \in Years
    BY <2>1, DatesAreDates
  <2>4. y \in Years /\ y \in {z, z - 100, z + 100}
    <3> HIDE DEF z
    <3>1. QED
      BY <2>3, YearRead
  <2>5. Shown(y, Dates[k].y, v, w)
    <3> HIDE DEF y
    <3>1. QED
      BY <1>1, <1>4, <2>1, <2>2, <2>4, YearShown
  <2>6. w = l.at
    BY <1>4
  <2> HIDE DEF y, w, k
  <2>7. v \in Int /\ (y = z => v = w) /\ (y = z - 100 => v <= w - CenturyLength * T)
        /\ (y = z + 100 => v >= w + CenturyLength * T)
    BY <2>5 DEF Shown
  <2>8. CASE y = z
    BY <2>6, <2>7, <2>8 DEF DatedBy
  <2>9. CASE y # z
    <3> HIDE DEF e, f, T, last, z
    <3>1. v <= w - (f + T) \/ v >= w + (f + T)
      BY <1>2, <2>4, <2>7, <2>9
    <3>2. w \in FirstNow .. last
      BY <1>3, <2>6
    <3>3. ~(v - rx <= MaxOffset /\ -(v - rx) <= MaxOffset)
      BY <1>1, <1>2, <1>3, <2>7, <3>1, <3>2
    <3>4. QED
      BY <3>3 DEF TooFar
  <2>10. QED
    BY <2>8, <2>9
<1>8. CASE l.kind \in {"GGA", "GLL"}
  <2> DEFINE k == DayOf(c.from)
             z == Dates[k].y
             y == IF c.year4 # 0 THEN c.year4 ELSE TwoDigits(z)
             x == TodOf(c.from)
             w == (k - 1) * TicksPerDay + TodOf(l.at)
  <2>1. /\ c.from \in Nat /\ FirstNow <= c.from /\ k \in DOMAIN Dates /\ c.date = Cached(k)
        /\ c.year4 # 0 => c.year4 \in Years /\ c.year4 <= z
    BY <1>8 DEF NmeaDriver, Usable, TimeOnly
  <2>2. from = c.from /\ v = At(y, Dates[k].m, Dates[k].d, tod)
    BY <1>8, <2>1 DEF CacheDate, SentenceTime, Cached, TwoDigits
  <2>3. z \in Years
    BY <2>1, DatesAreDates
  <2>4. TwoDigits(z) \in Years /\ TwoDigits(z) \in {z, z - 100, z + 100}
    <3> HIDE DEF z
    <3>1. QED
      BY <2>3, YearRead
  <2>5. y \in Years /\ (y = z \/ y < z \/ y = z + 100)
    <3> HIDE DEF z
    <3>1. y \in Years
      BY <2>1, <2>4
    <3>2. y = z \/ y < z \/ y = z + 100
      BY <2>1, <2>3, <2>4 DEF Years
    <3>3. QED
      BY <3>1, <3>2
  <2>6. DayOf(c.from) \in Nat /\ TodOf(c.from) \in 0 .. TicksPerDay - 1
        /\ c.from = (DayOf(c.from) - 1) * TicksPerDay + TodOf(c.from)
    BY <2>1, TimeOfDay
  <2>7. Shown(y, Dates[k].y, v, w)
    <3> HIDE DEF y
    <3>1. QED
      BY <1>1, <1>4, <2>1, <2>2, <2>5, YearShown
  <2>8. w \in Int /\ w = c.from - x + tod /\ x \in 0 .. T - 1 /\ tod \in 0 .. T - 1
    <3> DEFINE b == (k - 1) * TicksPerDay
    <3>1. b \in Int
      BY <1>1, <2>6
    <3>2. c.from = b + x /\ w = b + tod
      BY <2>6
    <3>3. x \in 0 .. T - 1 /\ tod \in 0 .. T - 1
      BY <1>4, <2>6
    <3> HIDE DEF b, x, w, tod, T
    <3>4. QED
      BY <1>1, <2>1, <3>1, <3>2, <3>3
  <2>9. CASE y = z
    <3> DEFINE g == DayOf(l.at)
    <3>1. v = w
      BY <2>7, <2>9 DEF Shown
    <3>2. l.at = (g - 1) * T + tod /\ g \in Nat /\ k \in Nat /\ tod \in Int
      BY <1>4, <2>6
    <3>3. w = (k - 1) * T + tod
      OBVIOUS
    <3> HIDE DEF g, k, T, tod, w
    <3>4. v = l.at - (g - k) * T
      <4>1. (g - k) * T = (g - 1) * T - (k - 1) * T /\ (g - 1) * T \in Int /\ (k - 1) * T \in Int
        BY <1>1, <3>2
      <4> DEFINE a == (g - 1) * T
                 b == (k - 1) * T
                 h == (g - k) * T
      <4>2. h = a - b /\ a \in Int /\ b \in Int /\ l.at = a + tod /\ v = b + tod
        BY <3>1, <3>2, <3>3, <4>1
      <4> HIDE DEF a, b, h
      <4>3. v = l.at - h
        BY <3>2, <4>2
      <4>4. QED
        BY <4>3 DEF h
    <3>5. l.kind \in TimeOnly
      BY <1>8 DEF TimeOnly
    <3>6. QED
      BY <2>2, <3>4, <3>5 DEF DatedBy, g, k, T
  <2>10. CASE y # z
    <3> HIDE DEF x, y, w, k, tod
    <3>1. v \in Int /\ (y < z => v <= w - YearLength * T) /\ (y = z + 100 => v >= w + CenturyLength * T)
      BY <2>7 DEF Shown
    <3> HIDE DEF e, f, T, last, z
    <3>2. v <= w - (e + T) \/ v >= w + (f + T)
      BY <1>2, <2>5, <2>10, <3>1
    <3>3. ~(v - rx <= MaxOffset /\ -(v - rx) <= MaxOffset)
      BY <1>1, <1>2, <1>3, <2>1, <2>8, <3>1, <3>2
    <3>4. QED
      BY <3>3 DEF TooFar
  <2>11. QED
    BY <2>9, <2>10
<1>9. QED
  BY <1>5, <1>6, <1>7, <1>8

\* A date that is cached is no earlier than the one before.
LEMMA DateCached ==
  ASSUME Consecutive, NEW c, NmeaDriver(c), NEW l \in Sentence, l.good, OfToday(l), Usable(c, l),
         FirstNow <= l.at, c.from <= l.at, NEW e, e = CacheDate(c, l)
  PROVE  NmeaDriver(e) /\ e.from \in {c.from, l.at}
<1>1. l.kind \in {"RMC", "ZDA", "GGA", "GLL"} /\ l.at \in Nat
  BY DEF Sentence, Dated, TimeOnly
<1>2. CASE l.kind \in {"GGA", "GLL"}
  BY <1>2 DEF CacheDate
<1>3. CASE l.kind \in {"RMC", "ZDA"}
  <2> DEFINE k == DayOf(l.at)
             y == IF l.kind = "RMC" THEN c.year4 ELSE Dates[k].y
  <2>1. l.date = k /\ k \in DOMAIN Dates
    BY <1>3 DEF OfToday, Dated, Usable
  <2>2. e = [date |-> Cached(k), year4 |-> y, from |-> l.at]
    <3>1. CASE l.kind = "ZDA"
      BY <2>1, <3>1 DEF CacheDate
    <3>2. CASE l.kind = "RMC"
      <4> DEFINE f == Cached(k)
                 t == l.at
                 c1 == [c EXCEPT !.date = f]
      <4>1. e = [c1 EXCEPT !.from = t] /\ y = c.year4
        BY <2>1, <3>2 DEF CacheDate
      <4>2. c = [date |-> c.date, year4 |-> c.year4, from |-> c.from]
        BY DEF NmeaDriver
      <4> HIDE DEF f, t, y
      <4>3. c1 = [date |-> f, year4 |-> c.year4, from |-> c.from]
        BY <4>2
      <4> HIDE DEF c1
      <4>4. e = [date |-> f, year4 |-> c.year4, from |-> t]
        BY <4>1, <4>3
      <4>5. QED
        BY <4>1, <4>4 DEF f, t
    <3>3. QED
      BY <1>3, <3>1, <3>2
  <2>3. Dates[k].y \in Years
    BY <2>1, DatesAreDates
  <2>4. c.year4 # 0 =>
          /\ DayOf(c.from) \in DOMAIN Dates /\ c.year4 \in Years /\ c.year4 <= Dates[DayOf(c.from)].y
          /\ c.from \in Nat
    BY DEF NmeaDriver
  <2>5. y # 0 => y \in Years /\ y <= Dates[k].y
    <3>1. CASE l.kind = "ZDA"
      BY <2>3, <3>1 DEF Years
    <3>2. CASE l.kind = "RMC" /\ c.year4 = 0
      BY <3>2
    <3>3. CASE l.kind = "RMC" /\ c.year4 # 0
      <4> DEFINE j == DayOf(c.from)
      <4>1. /\ j \in DOMAIN Dates /\ c.year4 \in Years /\ c.year4 <= Dates[j].y /\ c.from \in Nat
            /\ y = c.year4
        BY <2>4, <3>3
      <4>2. j <= k
        BY <1>1, <4>1, DaysGrow
      <4> HIDE DEF j, k, y
      <4>3. /\ j \in Nat /\ Dates[j].y \in Years /\ Dates[j].m \in 1 .. 12 /\ Dates[j].d \in 1 .. 31
            /\ Day(j) \in Int /\ 1 \in DOMAIN Dates
        BY <4>1, DatesAreDates
      <4>4. /\ k \in Nat /\ Dates[k].y \in Years /\ Dates[k].m \in 1 .. 12 /\ Dates[k].d \in 1 .. 31
            /\ Day(k) \in Int
        BY <2>1, DatesAreDates
      <4>5. Day(1) \in Int
        BY <4>3, DatesAreDates
      <4>6. Day(j) = Day(1) + j - 1 /\ Day(k) = Day(1) + k - 1
        BY <2>1, <4>1 DEF Consecutive
      <4>7. ~(Dates[k].y < Dates[j].y)
        <5>1. ASSUME Dates[k].y < Dates[j].y PROVE Day(k) < Day(j)
          <6>1. DaysFromCivil(Dates[k].y, Dates[k].m, Dates[k].d) < DaysFromCivil(Dates[j].y, Dates[j].m, Dates[j].d)
            BY <4>3, <4>4, <5>1, YearsGrow
          <6>2. QED
            BY <6>1 DEF Day
        <5>2. ~(Day(k) < Day(j))
          BY <4>2, <4>3, <4>4, <4>5, <4>6
        <5>3. QED
          BY <5>1, <5>2
      <4>8. QED
        <5> DEFINE a == Dates[k].y
                   b == Dates[j].y
        <5>1. a \in Int /\ b \in Int /\ ~(a < b) /\ y \in Years /\ y <= b /\ y \in Int
          BY <4>1, <4>3, <4>4, <4>7 DEF Years
        <5> HIDE DEF a, b
        <5>2. y <= a
          BY <5>1
        <5>3. QED
          BY <5>1, <5>2 DEF a
    <3>4. QED
      BY <1>3, <3>1, <3>2, <3>3
  <2> HIDE DEF k, y
  <2>6. e.date = Cached(k) /\ e.year4 = y /\ e.from = l.at
        /\ e = [date |-> e.date, year4 |-> e.year4, from |-> e.from]
    BY <2>2
  <2>7. DayOf(e.from) = k
    BY <2>6 DEF k
  <2>8. QED
    <3>1. e.date # NoDate
      <4>1. Dates[k].d \in 1 .. 31
        BY <2>1, DatesAreDates
      <4>2. NoDate.d = 0 /\ Cached(k).d = Dates[k].d
        BY DEF NoDate, Cached
      <4>3. QED
        BY <2>6, <4>1, <4>2
    <3>2. /\ FirstNow <= e.from /\ DayOf(e.from) \in DOMAIN Dates /\ e.date = Cached(DayOf(e.from))
          /\ e.year4 # 0 => e.year4 \in Years /\ e.year4 <= Dates[DayOf(e.from)].y
      BY <2>1, <2>5, <2>6, <2>7
    <3>3. NmeaDriver(e)
      BY <1>1, <2>6, <3>1, <3>2 DEF NmeaDriver
    <3>4. QED
      BY <2>6, <3>3
<1>4. QED
  BY <1>1, <1>2, <1>3

\* Sentences in the order in which they were written, up to time t.
Queued(q, t) ==
  /\ q \in Seq(Sentence)
  /\ \A a \in DOMAIN q : OfToday(q[a]) /\ FirstNow <= q[a].at /\ q[a].at <= t
  /\ \A a, b \in DOMAIN q : a <= b => q[a].at <= q[b].at

\* The cached date is from before the sentences not yet read.
DriverBefore(c, q, t) ==
  NmeaDriver(c) /\ c.from <= t /\ \A a \in DOMAIN q : c.from <= q[a].at

\* A clock that the poll has not passed has its date from before the poll.
NmeaOk(i) ==
  Type(i) = "nmea" =>
    /\ LineDevice(dev[i]) /\ dev[i].n \in Nat /\ Queued(dev[i].q, now)
    /\ active[i] => /\ DriverBefore(drv[i], dev[i].q, now)
                    /\ poll.at \in 1 .. i => drv[i].from <= poll.rx

\* A sample that waits has the right time, or one the engine does not take.
SampleDated(s) ==
  Type(s.clock) = "nmea" => DatedBy(s.time, s.src, s.src.date) \/ TooFar(s.time, s.rx)

PendingDated == \A k \in DOMAIN pending : SampleDated(pending[k])

DatedInv ==
  /\ poll.at > 0 => FirstNow <= poll.rx
  /\ DOMAIN taken = Clocks
  /\ PendingDated
  /\ \A i \in Clocks : NmeaOk(i)
  /\ DatedRight

\* What a receiver may write at time t: sentences of that time.
Written(r, t) ==
  r \in Seq(Sentence) /\ \A a \in DOMAIN r : r[a].at = t /\ OfToday(r[a])

\* While the clocks are read, receivers show the day it is, void sentences and
\* damaged ones excepted; nothing is left from before the device was opened.
SentencesGiven ==
  /\ \A s \in Setups : \A n \in Nat, t \in FirstNow .. LastNow(s) :
       \A r \in Reports("nmea", n, t) : Written(r, t)
  /\ Leftovers("nmea") \subseteq {<<>>}

LEMMA QueuedRead ==
  ASSUME NEW q, NEW t \in Nat, Queued(q, t), q # <<>>
  PROVE  /\ Head(q) \in Sentence /\ OfToday(Head(q)) /\ FirstNow <= Head(q).at /\ Head(q).at <= t
         /\ Queued(Tail(q), t)
         /\ \A a \in DOMAIN Tail(q) : Head(q).at <= Tail(q)[a].at
         /\ \A x \in DOMAIN Tail(q) : \E a \in DOMAIN q : Tail(q)[x] = q[a]
         /\ \E a \in DOMAIN q : Head(q) = q[a]
<1>1. q \in Seq(Sentence)
  BY DEF Queued
<1>2. /\ Len(q) \in Nat /\ Len(q) > 0 /\ DOMAIN q = 1 .. Len(q) /\ Head(q) = q[1] /\ Head(q) \in Sentence
      /\ Tail(q) \in Seq(Sentence) /\ DOMAIN Tail(q) = 1 .. Len(q) - 1
      /\ \A k \in 1 .. Len(q) - 1 : Tail(q)[k] = q[k + 1]
  BY <1>1, HeadTailProperties, LenProperties, EmptySeq
<1>3. 1 \in DOMAIN q
  BY <1>2
<1>4. OfToday(q[1]) /\ FirstNow <= q[1].at /\ q[1].at <= t
  BY <1>3 DEF Queued
<1>5. \A a \in DOMAIN Tail(q) : a + 1 \in DOMAIN q /\ Tail(q)[a] = q[a + 1] /\ a \in Nat /\ 1 <= a + 1
  BY <1>2
<1>6. \A a \in DOMAIN Tail(q) : OfToday(q[a + 1]) /\ FirstNow <= q[a + 1].at /\ q[a + 1].at <= t
  BY <1>5 DEF Queued
<1>7. \A a \in DOMAIN Tail(q) : q[1].at <= q[a + 1].at
  BY <1>3, <1>5 DEF Queued
<1>8. ASSUME NEW a \in DOMAIN Tail(q), NEW b \in DOMAIN Tail(q), a <= b
      PROVE  q[a + 1].at <= q[b + 1].at
  <2>1. a + 1 <= b + 1 /\ a + 1 \in DOMAIN q /\ b + 1 \in DOMAIN q
    BY <1>5, <1>8
  <2>2. QED
    BY <2>1 DEF Queued
<1>9. Queued(Tail(q), t)
  BY <1>2, <1>5, <1>6, <1>8 DEF Queued
<1>10. QED
  BY <1>2, <1>3, <1>4, <1>5, <1>7, <1>9

LEMMA QueuedWrite ==
  ASSUME NEW q, NEW t \in Nat, FirstNow <= t, Queued(q, t), NEW r, Written(r, t)
  PROVE  /\ Queued(q \o r, t)
         /\ \A a \in DOMAIN (q \o r) : (\E b \in DOMAIN q : (q \o r)[a] = q[b]) \/ (q \o r)[a].at = t
<1> DEFINE p == q \o r
<1>1. q \in Seq(Sentence) /\ r \in Seq(Sentence)
  BY DEF Queued, Written
<1>2. /\ p \in Seq(Sentence) /\ Len(q) \in Nat /\ Len(r) \in Nat /\ DOMAIN q = 1 .. Len(q)
      /\ DOMAIN r = 1 .. Len(r) /\ DOMAIN p = 1 .. Len(q) + Len(r)
      /\ \A k \in 1 .. Len(q) + Len(r) : p[k] = IF k <= Len(q) THEN q[k] ELSE r[k - Len(q)]
  BY <1>1, ConcatProperties, LenProperties
<1> HIDE DEF p
<1>3. ASSUME NEW a \in DOMAIN p
      PROVE  (a \in DOMAIN q /\ p[a] = q[a]) \/ (a \notin DOMAIN q /\ p[a].at = t /\ OfToday(p[a]))
  <2>1. CASE a <= Len(q)
    BY <1>2, <2>1
  <2>2. CASE ~(a <= Len(q))
    <3>1. a - Len(q) \in DOMAIN r /\ p[a] = r[a - Len(q)] /\ a \notin DOMAIN q
      BY <1>2, <2>2
    <3>2. QED
      BY <3>1 DEF Written
  <2>3. QED
    BY <2>1, <2>2
<1>4. FirstNow \in Nat
  BY ManagerAssumption
<1>5. ASSUME NEW a \in DOMAIN p
      PROVE  OfToday(p[a]) /\ FirstNow <= p[a].at /\ p[a].at <= t
  <2>1. CASE a \in DOMAIN q /\ p[a] = q[a]
    BY <2>1 DEF Queued
  <2>2. CASE p[a].at = t /\ OfToday(p[a])
    BY <2>2, <1>4
  <2>3. QED
    BY <1>3, <2>1, <2>2
<1>6. ASSUME NEW a \in DOMAIN p, NEW b \in DOMAIN p, a <= b PROVE p[a].at <= p[b].at
  <2>1. CASE b \in DOMAIN q /\ p[b] = q[b]
    <3>1. a \in DOMAIN q
      BY <1>2, <1>6, <2>1
    <3>2. p[a] = q[a]
      BY <1>3, <3>1
    <3>3. QED
      BY <1>6, <2>1, <3>1, <3>2 DEF Queued
  <2>2. CASE p[b].at = t
    BY <1>5, <2>2
  <2>3. QED
    BY <1>3, <2>1, <2>2
<1>7. QED
  BY <1>2, <1>3, <1>5, <1>6 DEF Queued, p

LEMMA DatedInit ==
  ASSUME SentencesGiven, Init
  PROVE  DatedInv
<1>1. poll.at = 0 /\ pending = <<>> /\ DOMAIN taken = Clocks /\ (\A i \in Clocks : taken[i] = None /\ ~active[i])
      /\ ManagerInv
  BY ManagerInit DEF Init
<1>2. ASSUME NEW i \in Clocks, Type(i) = "nmea" PROVE LineDevice(dev[i]) /\ dev[i].n \in Nat /\ Queued(dev[i].q, now)
  <2>1. dev[i] \in Devices(setup[i]) /\ setup[i].type = "nmea"
    BY <1>2 DEF Init, Type
  <2>2. PICK k \in Leftovers("nmea") : dev[i] = [q |-> k, closed |-> FALSE, n |-> 0]
    BY <2>1 DEF Devices
  <2>3. dev[i].q = <<>> /\ dev[i].n = 0 /\ LineDevice(dev[i])
    BY <2>2 DEF SentencesGiven, LineDevice
  <2>4. Queued(<<>>, now)
    <3>1. <<>> \in Seq(Sentence) /\ DOMAIN <<>> = {}
      BY EmptySeq
    <3>2. QED
      BY <3>1 DEF Queued
  <2>5. QED
    BY <2>3, <2>4
<1>3. \A k \in DOMAIN pending : FALSE
  BY <1>1, EmptySeq
<1>4. QED
  BY <1>1, <1>2, <1>3 DEF DatedInv, PendingDated, NmeaOk, DatedRight

\* A driver that is opened has no date.
LEMMA NewBefore ==
  ASSUME NEW q, NEW t \in Nat, Queued(q, t), NEW c, c = NmeaNew
  PROVE  DriverBefore(c, q, t) /\ c.from = 0
<1>1. c = [date |-> NoDate, year4 |-> 0, from |-> 0]
  BY DEF NmeaNew
<1>2. c.date = NoDate /\ c.year4 = 0 /\ c.from = 0
  BY <1>1
<1>3. NmeaDriver(c)
  BY <1>1, <1>2 DEF NmeaDriver
<1>4. \A a \in DOMAIN q : q[a].at >= 0
  <2>1. \A a \in DOMAIN q : FirstNow <= q[a].at /\ q[a] \in Sentence
    BY ElementOfSeq, LenProperties DEF Queued
  <2>2. QED
    BY <2>1 DEF Sentence
<1>5. QED
  BY <1>2, <1>3, <1>4 DEF DriverBefore

LEMMA DatedLife ==
  ASSUME ManagerInv, DatedInv, OpenAll \/ Reload \/ CloseAll
  PROVE  DatedInv'
<1>1. now \in Nat /\ poll.at = 0
  <2>1. now \in Nat
    BY ClocksAreNumbers DEF ManagerInv, Polled
  <2>2. poll.at = 0
    BY DEF ManagerInv, Polled, OpenAll, Reload, CloseAll
  <2>3. QED
    BY <2>1, <2>2
<1>2. /\ setup' = setup /\ Clocks' = Clocks /\ now' = now /\ dev' = dev /\ poll' = poll /\ pending' = pending
      /\ \A i \in Clocks : active'[i] => drv'[i] = DriverNew(i)
      /\ taken' = taken \/ taken' = [i \in Clocks |-> None]
  BY DEF ManagerInv, Polled, OpenAll, Reload, CloseAll, Clocks
<1>3. ASSUME NEW i \in Clocks PROVE NmeaOk(i)'
  <2> SUFFICES ASSUME Type(i) = "nmea"
               PROVE  /\ LineDevice(dev[i]) /\ dev[i].n \in Nat /\ Queued(dev[i].q, now)
                      /\ active'[i] => DriverBefore(drv'[i], dev[i].q, now)
    BY <1>1, <1>2 DEF NmeaOk, Type
  <2>1. LineDevice(dev[i]) /\ dev[i].n \in Nat /\ Queued(dev[i].q, now)
    BY DEF DatedInv, NmeaOk
  <2>2. active'[i] => drv'[i] = NmeaNew
    <3>1. DriverNew(i) = NmeaNew
      BY DEF DriverNew, Serial
    <3>2. QED
      BY <1>2, <3>1
  <2>3. QED
    BY <1>1, <2>1, <2>2, NewBefore
<1>4. DatedRight'
  BY <1>2 DEF DatedInv, DatedRight, Type
<1>5. DOMAIN taken' = Clocks
  BY <1>2 DEF DatedInv
<1>6. PendingDated'
  BY <1>2 DEF DatedInv, PendingDated, SampleDated, Type
<1>7. QED
  BY <1>1, <1>2, <1>3, <1>4, <1>5, <1>6 DEF DatedInv

LEMMA DatedPoll ==
  ASSUME ManagerInv, DatedInv, BeginPoll \/ SkipClosed \/ HandleSample \/ EndPoll \/ Tick
  PROVE  DatedInv'
<1>1. UNCHANGED <<setup, active, drv, dev>> /\ Clocks' = Clocks
  BY PollStep DEF Clocks
<1>2. /\ Len(setup) \in Nat /\ Clocks = 1 .. Len(setup) /\ FirstNow \in Nat /\ now \in Nat
      /\ FirstNow <= now /\ poll = [at |-> poll.at, rx |-> poll.rx] /\ poll.at \in 0 .. Len(setup) + 1
      /\ poll.rx \in 0 .. now
  BY ClocksAreNumbers DEF ManagerInv, Polled
<1>3. ASSUME NEW i \in Clocks, Type(i) = "nmea"
      PROVE  /\ LineDevice(dev[i]) /\ dev[i].n \in Nat /\ Queued(dev[i].q, now)
             /\ active[i] => /\ DriverBefore(drv[i], dev[i].q, now) /\ drv[i].from \in Nat
                             /\ poll.at \in 1 .. i => drv[i].from <= poll.rx
  BY <1>3 DEF DatedInv, NmeaOk, DriverBefore, NmeaDriver
<1>4. CASE BeginPoll
  <2>1. poll' = [at |-> 1, rx |-> now] /\ now' = now /\ pending' = pending /\ taken' = taken
    BY <1>4 DEF BeginPoll
  <2>2. ASSUME NEW i \in Clocks PROVE NmeaOk(i)'
    BY <1>1, <1>3, <2>1 DEF NmeaOk, Type, DriverBefore
  <2>3. PendingDated'
    BY <1>1, <2>1 DEF DatedInv, PendingDated, SampleDated, Type
  <2>4. QED
    BY <1>1, <1>2, <2>1, <2>2, <2>3 DEF DatedInv, DatedRight, Type
<1>5. CASE SkipClosed \/ EndPoll
  <2>1. /\ now' = now /\ pending' = pending /\ taken' = taken
        /\ (poll' = [at |-> poll.at + 1, rx |-> poll.rx] /\ poll.at > 0) \/ poll' = [at |-> 0, rx |-> 0]
    <3>1. CASE SkipClosed
      <4>1. poll' = [poll EXCEPT !.at = poll.at + 1] /\ poll.at > 0
        BY <1>2, <3>1 DEF SkipClosed
      <4>2. QED
        BY <1>2, <3>1, <4>1 DEF SkipClosed
    <3>2. CASE EndPoll
      BY <3>2 DEF EndPoll
    <3>3. QED
      BY <1>5, <3>1, <3>2
  <2>2. poll'.at > 0 => poll.at > 0 /\ poll'.rx = poll.rx /\ poll'.at = poll.at + 1
    BY <1>2, <2>1
  <2>3. poll'.at \in Nat
    BY <1>2, <2>1
  <2>4. ASSUME NEW i \in Clocks, Type(i) = "nmea", active[i], poll'.at \in 1 .. i PROVE drv[i].from <= poll'.rx
    <3>1. poll.at \in 1 .. i /\ poll'.rx = poll.rx
      BY <1>2, <2>2, <2>4
    <3>2. QED
      BY <1>3, <2>4, <3>1
  <2>5. ASSUME NEW i \in Clocks PROVE NmeaOk(i)'
    BY <1>1, <1>3, <2>1, <2>4 DEF NmeaOk, Type, DriverBefore
  <2>6. PendingDated'
    BY <1>1, <2>1 DEF DatedInv, PendingDated, SampleDated, Type
  <2>7. QED
    BY <1>1, <2>1, <2>2, <2>5, <2>6 DEF DatedInv, DatedRight, Type
<1>6. CASE Tick
  <2>1. poll' = poll /\ now' = now + 1 /\ pending' = pending /\ taken' = taken
    BY <1>6 DEF Tick
  <2>2. ASSUME NEW q, Queued(q, now) PROVE Queued(q, now + 1)
    <3>1. \A a \in DOMAIN q : OfToday(q[a]) /\ FirstNow <= q[a].at /\ q[a].at <= now /\ q[a] \in Sentence
      BY <2>2, ElementOfSeq, LenProperties DEF Queued
    <3>2. \A a \in DOMAIN q : q[a].at <= now + 1
      BY <1>2, <3>1 DEF Sentence
    <3>3. QED
      BY <2>2, <3>2 DEF Queued
  <2>3. ASSUME NEW i \in Clocks PROVE NmeaOk(i)'
    <3>1. ASSUME Type(i) = "nmea", active[i] PROVE drv[i].from <= now + 1
      BY <1>2, <1>3, <3>1 DEF DriverBefore
    <3>2. ASSUME Type(i) = "nmea" PROVE Queued(dev[i].q, now + 1)
      BY <1>3, <2>2, <3>2
    <3>3. QED
      BY <1>1, <1>3, <2>1, <3>1, <3>2 DEF NmeaOk, Type, DriverBefore
  <2>4. PendingDated'
    BY <1>1, <2>1 DEF DatedInv, PendingDated, SampleDated, Type
  <2>5. QED
    BY <1>1, <2>1, <2>3, <2>4 DEF DatedInv, DatedRight, Type
<1>7. CASE HandleSample
  <2> DEFINE s == Head(pending)
  <2>1. /\ poll' = poll /\ now' = now /\ pending' = Tail(pending) /\ pending # <<>>
        /\ taken' = IF Acceptable(s) THEN [taken EXCEPT ![s.clock] = s] ELSE taken
    BY <1>7 DEF HandleSample
  <2>2. PICK S : pending \in Seq(S)
    BY DEF ManagerInv, Waiting
  <2>3. /\ Len(pending) \in Nat /\ Len(pending) > 0 /\ DOMAIN pending = 1 .. Len(pending) /\ s = pending[1]
        /\ DOMAIN Tail(pending) = 1 .. Len(pending) - 1
        /\ \A k \in 1 .. Len(pending) - 1 : Tail(pending)[k] = pending[k + 1]
    BY <2>1, <2>2, HeadTailProperties, LenProperties, EmptySeq
  <2>4. 1 \in DOMAIN pending /\ \A k \in DOMAIN pending' : k + 1 \in DOMAIN pending /\ pending'[k] = pending[k + 1]
    BY <2>1, <2>3
  <2>5. SampleDated(s)
    BY <2>3, <2>4 DEF DatedInv, PendingDated
  <2>6. PendingDated'
    BY <1>1, <2>4 DEF DatedInv, PendingDated, SampleDated, Type
  <2> HIDE DEF s
  <2>7. ASSUME NEW i \in Clocks, Type(i) = "nmea", taken'[i] # None
        PROVE  DatedBy(taken'[i].time, taken'[i].src, taken'[i].src.date)
    <3>1. CASE taken'[i] = taken[i]
      BY <2>7, <3>1 DEF DatedInv, DatedRight, DatedBy
    <3>2. CASE taken'[i] # taken[i]
      <4>1. Acceptable(s) /\ s.clock = i /\ taken'[i] = s
        BY <2>1, <3>2 DEF DatedInv
      <4>2. ~TooFar(s.time, s.rx)
        BY <4>1 DEF Acceptable, Offset, TooFar
      <4>3. QED
        BY <2>5, <2>7, <4>1, <4>2 DEF SampleDated
    <3>3. QED
      BY <3>1, <3>2
  <2>8. DatedRight'
    BY <1>1, <2>7 DEF DatedRight, DatedBy, Type
  <2>9. ASSUME NEW i \in Clocks PROVE NmeaOk(i)'
    BY <1>1, <1>3, <2>1 DEF NmeaOk, Type
  <2>10. DOMAIN taken' = Clocks
    BY <2>1 DEF DatedInv
  <2>11. QED
    BY <1>1, <2>1, <2>6, <2>8, <2>9, <2>10 DEF DatedInv
<1>8. QED
  BY <1>4, <1>5, <1>6, <1>7

\* A device that writes or is unplugged.
LEMMA DatedDevice ==
  ASSUME SentencesGiven, ManagerInv, DatedInv, NEW i \in Clocks, Outside(i)
  PROVE  DatedInv'
<1> DEFINE d == dev[i]
           e == dev'[i]
<1>1. /\ UNCHANGED <<now, phase, setup, active, drv, poll, pending, taken>> /\ Clocks' = Clocks
      /\ \E f : dev' = [dev EXCEPT ![i] = f]
  BY DEF Outside, WriteReport, Unplug, Pulse, WriteSegment, ServerSends, ServerCloses, ServerStarts, Clocks
<1>2. /\ now \in Nat /\ FirstNow <= now /\ setup \in Setups /\ now \in FirstNow .. LastNow(setup)
      /\ DOMAIN dev = Clocks
  BY ClocksAreNumbers DEF ManagerInv, Polled
<1>3. \A j \in Clocks : j # i => dev'[j] = dev[j]
  BY <1>1
<1>4. ASSUME Type(i) = "nmea"
      PROVE  /\ LineDevice(e) /\ e.n \in Nat /\ Queued(e.q, now)
             /\ active[i] => DriverBefore(drv[i], e.q, now)
  <2>1. LineDevice(d) /\ d.n \in Nat /\ Queued(d.q, now) /\ (active[i] => DriverBefore(drv[i], d.q, now))
    BY <1>4 DEF DatedInv, NmeaOk
  <2>2. WriteReport(i) \/ Unplug(i)
    BY <1>4 DEF Outside, Pulse, WriteSegment, ServerSends, ServerCloses, ServerStarts
  <2>3. CASE Unplug(i)
    <3>1. e = [d EXCEPT !.closed = TRUE]
      BY <1>2, <2>3 DEF Unplug
    <3>2. d = [q |-> d.q, closed |-> d.closed, n |-> d.n]
      BY <2>1 DEF LineDevice
    <3>3. e = [q |-> d.q, closed |-> TRUE, n |-> d.n]
      BY <3>1, <3>2
    <3> HIDE DEF e
    <3>4. e.q = d.q /\ e.n = d.n /\ LineDevice(e)
      BY <3>3 DEF LineDevice
    <3>5. QED
      BY <2>1, <3>4
  <2>4. CASE WriteReport(i)
    <3>1. PICK r \in Reports("nmea", d.n + 1, now) : dev' = [dev EXCEPT ![i].q = @ \o r, ![i].n = @ + 1]
      BY <1>4, <2>4 DEF WriteReport
    <3>2. Written(r, now)
      <4>1. d.n + 1 \in Nat
        BY <2>1
      <4>2. QED
        BY <1>2, <3>1, <4>1 DEF SentencesGiven
    <3> DEFINE p == d.q \o r
               n == d.n + 1
               d1 == [d EXCEPT !.q = p]
    <3>3. e = [d1 EXCEPT !.n = n]
      <4> DEFINE f == [dev EXCEPT ![i].q = p]
      <4>1. dev' = [f EXCEPT ![i].n = f[i].n + 1]
        BY <3>1
      <4>2. f[i] = d1 /\ i \in DOMAIN f
        BY <1>2
      <4>3. d1.n = d.n
        <5>1. d = [q |-> d.q, closed |-> d.closed, n |-> d.n]
          BY <2>1 DEF LineDevice
        <5> HIDE DEF p
        <5>2. QED
          BY <5>1
      <4> HIDE DEF f, d1
      <4>4. QED
        BY <4>1, <4>2, <4>3
    <3>4. Queued(p, now) /\ \A a \in DOMAIN p : (\E b \in DOMAIN d.q : p[a] = d.q[b]) \/ p[a].at = now
      BY <1>2, <2>1, <3>2, QueuedWrite
    <3>5. d = [q |-> d.q, closed |-> d.closed, n |-> d.n] /\ n \in Nat
      BY <2>1 DEF LineDevice
    <3> HIDE DEF p, n, e
    <3>6. d1 = [q |-> p, closed |-> d.closed, n |-> d.n]
      BY <3>5
    <3> HIDE DEF d1
    <3>7. e = [q |-> p, closed |-> d.closed, n |-> n]
      BY <3>3, <3>6
    <3>8. e.q = p /\ e.n = n /\ LineDevice(e)
      BY <3>7 DEF LineDevice
    <3>9. active[i] => DriverBefore(drv[i], p, now)
      BY <2>1, <3>4 DEF DriverBefore
    <3>10. QED
      BY <3>4, <3>5, <3>8, <3>9
  <2>5. QED
    BY <2>2, <2>3, <2>4
<1>5. ASSUME NEW j \in Clocks PROVE NmeaOk(j)'
  <2>1. NmeaOk(j)
    BY DEF DatedInv
  <2>2. CASE j # i
    BY <1>1, <1>3, <2>1, <2>2 DEF NmeaOk, Type
  <2>3. CASE j = i
    BY <1>1, <1>4, <2>1, <2>3 DEF NmeaOk, Type
  <2>4. QED
    BY <2>2, <2>3
<1>6. QED
  BY <1>1, <1>5 DEF DatedInv, PendingDated, SampleDated, DatedRight, Type

\* A step of the driver that is read, which keeps to the order of its sentences.
LEMMA DatedOutcome ==
  ASSUME ManagerInv, DatedInv, NEW i \in Clocks, poll.at = i, NEW r, Outcome(i, r),
         \A j \in Clocks : j # i => dev'[j] = dev[j],
         Type(i) = "nmea" =>
           /\ LineDevice(dev'[i]) /\ dev'[i].n \in Nat /\ Queued(dev'[i].q, now)
           /\ DriverBefore(r.drv, dev'[i].q, now) /\ (r.out # "sample" => r.drv.from <= poll.rx)
           /\ r.out = "sample" => DatedBy(r.time, r.src, r.src.date) \/ TooFar(r.time, poll.rx)
  PROVE  DatedInv'
<1>1. /\ setup' = setup /\ active' = active /\ now' = now /\ taken' = taken /\ Clocks' = Clocks
      /\ drv'[i] = r.drv /\ \A j \in Clocks : j # i => drv'[j] = drv[j]
  <2>1. now' = now /\ taken' = taken
    BY DEF Outcome
  <2>2. QED
    BY <2>1, OutcomeOthers DEF ManagerInv
<1>2. i \in Nat /\ poll = [at |-> i, rx |-> poll.rx] /\ i > 0
  BY ClocksAreNumbers DEF ManagerInv, Polled
<1>3. poll'.rx = poll.rx /\ (poll'.at = i \/ poll'.at = i + 1) /\ (r.out = "sample" => poll'.at = i + 1)
  <2>1. CASE r.out \in {"sample", "none"}
    <3>1. poll' = [poll EXCEPT !.at = poll.at + 1]
      BY <2>1 DEF Outcome
    <3>2. poll' = [at |-> i + 1, rx |-> poll.rx]
      BY <1>2, <3>1
    <3>3. QED
      BY <3>2
  <2>2. CASE r.out \notin {"sample", "none"}
    BY <1>2, <2>2 DEF Outcome
  <2>3. QED
    BY <2>1, <2>2
<1>4. ASSUME NEW j \in Clocks, j # i PROVE NmeaOk(j)'
  <2>1. NmeaOk(j) /\ j \in Nat
    BY ClocksAreNumbers DEF DatedInv, ManagerInv
  <2>2. poll'.at \in 1 .. j => poll.at \in 1 .. j
    BY <1>2, <1>3, <2>1
  <2>3. QED
    BY <1>1, <1>3, <1>4, <2>1, <2>2 DEF NmeaOk, Type
<1>5. NmeaOk(i)'
  <2>1. r.out = "sample" => ~(poll'.at \in 1 .. i)
    BY <1>2, <1>3
  <2>2. QED
    BY <1>1, <1>3, <2>1 DEF NmeaOk, Type
<1>6. PendingDated'
  <2>1. PICK S : pending \in Seq(S)
    BY DEF ManagerInv, Waiting
  <2>2. PICK R : pending' \in Seq(R)
    BY OutcomePending DEF ManagerInv
  <2>3. Len(pending) \in Nat /\ DOMAIN pending = 1 .. Len(pending) /\ DOMAIN pending' = 1 .. Len(pending')
    BY <2>1, <2>2, LenProperties
  <2>4. CASE r.out = "sample"
    <3>1. /\ Len(pending') = Len(pending) + 1 /\ pending'[Len(pending) + 1] = SampleOf(i, r)
          /\ \A k \in DOMAIN pending : pending'[k] = pending[k]
      BY <2>4, OutcomePending DEF ManagerInv
    <3>2. SampleDated(SampleOf(i, r))
      BY <2>4 DEF SampleDated, SampleOf
    <3>3. \A k \in DOMAIN pending' : k \in DOMAIN pending \/ k = Len(pending) + 1
      BY <2>3, <3>1
    <3>4. \A k \in DOMAIN pending' : SampleDated(pending'[k])
      BY <3>1, <3>2, <3>3 DEF DatedInv, PendingDated
    <3>5. QED
      BY <1>1, <3>4 DEF PendingDated, SampleDated, Type
  <2>5. CASE r.out # "sample"
    <3>1. pending' = pending
      BY <2>5, OutcomePending DEF ManagerInv
    <3>2. QED
      BY <1>1, <3>1 DEF DatedInv, PendingDated, SampleDated, Type
  <2>6. QED
    BY <2>4, <2>5
<1>7. DatedRight' /\ DOMAIN taken' = Clocks'
  BY <1>1 DEF DatedInv, DatedRight, Type
<1>8. poll'.at > 0 => FirstNow <= poll'.rx
  BY <1>2, <1>3 DEF DatedInv
<1>9. QED
  BY <1>1, <1>4, <1>5, <1>6, <1>7, <1>8 DEF DatedInv

\* What the driver makes of the next sentence in its queue.
LEMMA SentenceRead ==
  ASSUME DatesGiven, NEW s \in Setups, NEW rx \in FirstNow .. LastNow(s), NEW t \in FirstNow .. LastNow(s),
         NEW q, Queued(q, t), q # <<>>, NEW c, DriverBefore(c, q, t), c.from <= rx,
         NEW r, r = NmeaStep(c, Head(q))
  PROVE  /\ DriverBefore(r.drv, Tail(q), t) /\ (r.out # "sample" => r.drv.from <= rx)
         /\ r.out = "sample" => DatedBy(r.time, r.src, r.src.date) \/ TooFar(r.time, rx)
<1> DEFINE l == Head(q)
           p == Tail(q)
<1>1. t \in Nat /\ FirstNow \in Nat /\ LastNow(s) \in Nat
  BY ManagerAssumption
<1>2. /\ l \in Sentence /\ OfToday(l) /\ FirstNow <= l.at /\ l.at <= t
      /\ \A a \in DOMAIN p : l.at <= p[a].at
      /\ \A x \in DOMAIN p : \E a \in DOMAIN q : p[x] = q[a]
      /\ \E a \in DOMAIN q : l = q[a]
  BY <1>1, QueuedRead
<1>3. NmeaDriver(c) /\ c.from <= l.at /\ (\A a \in DOMAIN p : c.from <= p[a].at) /\ c.from <= t
  BY <1>2 DEF DriverBefore
<1>4. l.at \in FirstNow .. LastNow(s)
  BY <1>1, <1>2 DEF Sentence
<1> HIDE DEF l, p
<1>5. r = NmeaStep(c, l)
  BY DEF l
<1>6. CASE ~l.good \/ ~Usable(c, l)
  <2>1. r = [out |-> "more", drv |-> c]
    BY <1>5, <1>6 DEF NmeaStep
  <2>2. r.out # "sample" /\ r.drv = c
    BY <2>1
  <2>3. QED
    BY <1>3, <2>2 DEF DriverBefore, p
<1>7. CASE l.good /\ Usable(c, l)
  <2> DEFINE e == CacheDate(c, l)
             v == SentenceTime(c, l)
             from == e.from
             z == [l EXCEPT !.date = from]
  <2>1. r = [out |-> "sample", drv |-> e, time |-> v, leap |-> "none", of |-> {l.id}, src |-> z]
    BY <1>5, <1>7 DEF NmeaStep
  <2>2. DatedBy(v, l, from) \/ TooFar(v, rx)
    BY <1>2, <1>3, <1>4, <1>7, SentenceDated
  <2>3. NmeaDriver(e) /\ e.from \in {c.from, l.at}
    BY <1>2, <1>3, <1>7, DateCached DEF DatesGiven
  <2> HIDE DEF e, v
  <2>4. r.out = "sample" /\ r.drv = e /\ r.time = v /\ r.src = z
    <3> HIDE DEF z
    <3>1. QED
      BY <2>1
  <2>5. z.at = l.at /\ z.kind = l.kind /\ z.date = from
    <3> HIDE DEF from
    <3>1. QED
      BY <1>2 DEF Sentence
  <2>6. DatedBy(v, z, from) \/ TooFar(v, rx)
    <3> HIDE DEF from, z
    <3>1. QED
      BY <2>2, <2>5 DEF DatedBy
  <2>7. DriverBefore(e, p, t)
    BY <1>2, <1>3, <2>3 DEF DriverBefore
  <2>8. QED
    BY <2>4, <2>5, <2>6, <2>7 DEF p
<1>8. QED
  BY <1>6, <1>7

\* Reading: the next sentence, nothing, or a clock of another kind.
LEMMA DatedRead ==
  ASSUME DatesGiven, ManagerInv, DatedInv, NEW i \in Clocks, Read(i)
  PROVE  DatedInv'
<1>1. phase = "up" /\ poll.at = i /\ active[i] /\ i \in Nat /\ i > 0 /\ DOMAIN dev = Clocks
  BY ClocksAreNumbers
     DEF Read, ReadLine, ReadNothing, ReadPulse, CopySome, CopyRest, ReadMessage, ReadTimeout, ReadEnd, Reconnect,
         Reading, ManagerInv, Polled
<1>2. CASE Type(i) = "nmea"
  <2> DEFINE d == dev[i]
             c == drv[i]
             e == dev'[i]
  <2>1. /\ LineDevice(d) /\ d.n \in Nat /\ Queued(d.q, now)
        /\ DriverBefore(c, d.q, now) /\ c.from <= poll.rx /\ FirstNow <= poll.rx
    BY <1>1, <1>2 DEF DatedInv, NmeaOk
  <2>2. ReadLine(i) \/ ReadNothing(i)
    BY <1>2 DEF Read, ReadPulse, CopySome, CopyRest, ReadMessage, ReadTimeout, ReadEnd, Reconnect, Reading
  <2>3. CASE ReadNothing(i)
    <3> DEFINE r == Fail(c)
    <3>1. Outcome(i, r) /\ dev' = dev
      BY <2>3 DEF ReadNothing
    <3>2. r.drv = c /\ r.out # "sample"
      BY DEF Fail
    <3> HIDE DEF r
    <3>3. QED
      BY <1>1, <2>1, <3>1, <3>2, DatedOutcome
  <2>4. CASE ReadLine(i)
    <3> DEFINE r == NmeaStep(c, Head(d.q))
               p == Tail(d.q)
    <3>1. Outcome(i, r) /\ dev' = [dev EXCEPT ![i].q = Tail(@)] /\ d.q # <<>>
      BY <1>2, <2>4 DEF ReadLine
    <3>2. e = [d EXCEPT !.q = p] /\ \A j \in Clocks : j # i => dev'[j] = dev[j]
      BY <1>1, <3>1
    <3>3. /\ poll.rx \in FirstNow .. LastNow(setup) /\ now \in FirstNow .. LastNow(setup) /\ now \in Nat
          /\ setup \in Setups
      BY <2>1, ClocksAreNumbers DEF ManagerInv, Polled
    <3>4. /\ DriverBefore(r.drv, p, now) /\ (r.out # "sample" => r.drv.from <= poll.rx)
          /\ r.out = "sample" => DatedBy(r.time, r.src, r.src.date) \/ TooFar(r.time, poll.rx)
      <4> HIDE DEF c, d
      <4>1. QED
        BY <2>1, <3>1, <3>3, SentenceRead
    <3>5. Queued(p, now)
      BY <2>1, <3>1, <3>3, QueuedRead
    <3>6. d = [q |-> d.q, closed |-> d.closed, n |-> d.n]
      BY <2>1 DEF LineDevice
    <3> HIDE DEF p, e, r
    <3>7. e = [q |-> p, closed |-> d.closed, n |-> d.n]
      <4> HIDE DEF d
      <4>1. QED
        BY <3>2, <3>6
    <3>8. e.q = p /\ e.n = d.n /\ LineDevice(e)
      <4> HIDE DEF d
      <4>1. QED
        BY <3>7 DEF LineDevice
    <3>9. LineDevice(dev'[i]) /\ dev'[i].n \in Nat /\ Queued(dev'[i].q, now) /\ DriverBefore(r.drv, dev'[i].q, now)
      BY <2>1, <3>4, <3>5, <3>8 DEF e
    <3>10. QED
      BY <1>1, <3>1, <3>2, <3>4, <3>9, DatedOutcome DEF r
  <2>5. QED
    BY <2>2, <2>3, <2>4
<1>3. CASE Type(i) # "nmea"
  <2>1. CASE CopySome(i)
    <3>1. /\ UNCHANGED <<now, phase, setup, active, dev, poll, pending, taken>> /\ Clocks' = Clocks
          /\ \A j \in Clocks : j # i => drv'[j] = drv[j]
      <4>1. \E f : drv' = [drv EXCEPT ![i] = f]
        BY <2>1 DEF CopySome
      <4>2. UNCHANGED <<now, phase, setup, active, dev, poll, pending, taken>>
        BY <2>1 DEF CopySome
      <4>3. QED
        BY <4>1, <4>2 DEF Clocks
    <3>2. ASSUME NEW j \in Clocks PROVE NmeaOk(j)'
      <4>1. NmeaOk(j)
        BY DEF DatedInv
      <4>2. CASE j = i
        BY <1>3, <3>1, <4>2 DEF NmeaOk, Type
      <4>3. CASE j # i
        BY <3>1, <4>1, <4>3 DEF NmeaOk, Type
      <4>4. QED
        BY <4>2, <4>3
    <3>3. QED
      BY <3>1, <3>2 DEF DatedInv, PendingDated, SampleDated, DatedRight, Type
  <2>2. CASE ~CopySome(i)
    <3>1. /\ \E r : Outcome(i, r)
          /\ dev' = dev \/ \E d : dev' = [dev EXCEPT ![i] = d]
      BY <2>2 DEF Read, ReadLine, ReadNothing, ReadPulse, CopyRest, ReadMessage, ReadTimeout, ReadEnd, Reconnect
    <3>2. PICK r : Outcome(i, r)
      BY <3>1
    <3>3. \A j \in Clocks : j # i => dev'[j] = dev[j]
      BY <1>1, <3>1
    <3>4. QED
      BY <1>1, <1>3, <3>2, <3>3, DatedOutcome
  <2>3. QED
    BY <2>1, <2>2
<1>4. QED
  BY <1>2, <1>3

LEMMA DatedStep ==
  ASSUME SentencesGiven, DatesGiven, ManagerInv, DatedInv, [Next]_vars
  PROVE  DatedInv'
<1>1. CASE OpenAll \/ Reload \/ CloseAll
  BY <1>1, DatedLife
<1>2. CASE BeginPoll \/ SkipClosed \/ HandleSample \/ EndPoll \/ Tick
  BY <1>2, DatedPoll
<1>3. CASE \E i \in Clocks : Read(i)
  BY <1>3, DatedRead
<1>4. CASE \E i \in Clocks : Outside(i)
  BY <1>4, DatedDevice
<1>5. CASE UNCHANGED vars
  <2>1. ASSUME NEW j \in Clocks PROVE NmeaOk(j)'
    BY <1>5 DEF vars, DatedInv, NmeaOk, Type
  <2>2. QED
    BY <1>5, <2>1 DEF vars, DatedInv, PendingDated, SampleDated, DatedRight, Clocks, Type
<1>6. QED
  BY <1>1, <1>2, <1>3, <1>4, <1>5 DEF Next, Loop

(* Whatever a receiver writes and whenever it is read, through void and    *)
(* damaged sentences, the turn of a year and the two-digit year, the time  *)
(* the engine takes of an NMEA clock is right, or off by whole days where  *)
(* a sentence has no date: a wrong year is always too far off to be taken. *)
(* The receiver is assumed to know the day, and the clocks to be read for  *)
(* less than a century (read_sample, sentence_to_unix, the offset limit).  *)
THEOREM SentencesDatedRight ==
  SentencesGiven /\ DatesGiven => (Spec => []DatedRight)
<1> SUFFICES ASSUME SentencesGiven, DatesGiven PROVE Spec => []DatedRight
  OBVIOUS
<1>1. Init => ManagerInv /\ DatedInv
  BY ManagerInit, DatedInit
<1>2. ManagerInv /\ DatedInv /\ [Next]_vars => (ManagerInv /\ DatedInv)'
  BY ManagerStep, DatedStep
<1>3. DatedInv => DatedRight
  BY DEF DatedInv
<1>4. QED
  BY <1>1, <1>2, <1>3, PTL DEF Spec
==============================================================================

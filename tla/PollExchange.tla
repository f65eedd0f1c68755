----------------------------- MODULE PollExchange -----------------------------
(***************************************************************************)
(* The association core of DaemonEngine: the peer table, the poll and      *)
(* reachability timers, the requests waiting for an answer, and the        *)
(* handling of server answers (daemon_engine.rs, ntp_proto.rs,             *)
(* ntp_timer.rs, ntp_peer.rs).                                             *)
(*                                                                         *)
(* The engine is single-threaded.  tick() first pops every due timer and   *)
(* then handles the popped events one after the other; here the popping is *)
(* TickBegin and each turn of the loop a step of its own, and no other     *)
(* handler runs until "firing" is empty again.  The network may lose,      *)
(* duplicate, delay and reorder answers: any request ever sent to a server *)
(* may be answered at any later time, any number of times, in any way.     *)
(***************************************************************************)
EXTENDS Naturals, Sequences, FiniteSets

CONSTANTS Addr,         \* transport addresses
          Servers,      \* the addresses at which an NTP server answers
          SymSources,   \* the addresses from which mode-2 packets may come
          Flip(_),      \* the address netaddr_to_sockaddr makes of an address
          Configs,      \* the configurations apply_config may be given
          MaxPeers,     \* association ids that exist (65535 in the code)
          PendingCap,   \* requests kept waiting (1000 in the code)
          MaxExpo,      \* the largest poll exponent (31: then u32 overflows)
          PollSecs,     \* PollSecs[h] = 2^h: poll interval of exponent h
          ReachPeriod,  \* seconds between reachability ticks (64)
          ReachSize,    \* values of the reach register (256)
          EphemeralMin, \* minpoll of an ephemeral association (4)
          EphemeralMax, \* maxpoll of an ephemeral association (10)
          BurstPoll,    \* poll exponent during a burst (NTP_MINPOLL + 1)
          Start,        \* time at which the daemon starts
          MaxTime       \* bound: the model's clock stops here

Expo == 0..MaxExpo

Mode == {"Client", "SymActive", "SymPassive"}

\* What apply_config reads of a server, peer or pool line.
Line == [addr : Addr, hmode : {"Client", "SymActive"},
         minpoll : Expo, maxpoll : Expo, iburst : BOOLEAN]

ASSUME AddrAssumption == /\ Servers \subseteq Addr /\ SymSources \subseteq Addr
                         /\ \A a \in Addr : Flip(a) \in Addr

ASSUME TableAssumption == /\ MaxPeers \in Nat
                          /\ Configs \subseteq Seq(Line)
                          /\ \A c \in Configs : Len(c) <= MaxPeers

ASSUME PendingAssumption == PendingCap \in Nat \ {0}

ASSUME PollAssumption == /\ MaxExpo \in Nat
                         /\ PollSecs \in [Expo -> Nat \ {0}]
                         /\ {EphemeralMin, EphemeralMax, BurstPoll} \subseteq Expo

ASSUME ReachAssumption == ReachPeriod \in Nat \ {0} /\ ReachSize \in Nat \ {0}

\* By the wall clock both kinds of timers are due at the first tick.
ASSUME TimeAssumption == /\ Start \in Nat \ {0} /\ Start >= ReachPeriod
                         /\ MaxTime \in Nat /\ MaxTime >= Start

VARIABLES now,      \* the wall clock, in seconds
          peers,    \* the peer table, by index
          timers,   \* entries of the timer queue; ids grow in queue order
          nextId,   \* id of the next entry added to the queue
          firing,   \* entries popped by the tick in progress
          pending,  \* pending_requests, oldest first
          sent,     \* every request ever sent
          credited  \* samples taken: by which peer, for its request of which
                    \* time, from an answer of which address

vars == <<now, peers, timers, nextId, firing, pending, sent, credited>>
------------------------------------------------------------------------------
Request == [peer : Nat, t1 : Nat, dest : Addr, expect : {"Server", "SymPassive"}]

\* Mutant: schedule_poll (repeating) where schedule_poll_once is meant.
RepeatingPollTimer(id, p, due) == [id |-> id, peer |-> p, due |-> due, every |-> 1]

\* peer = 0 stands for the reachability timer, which belongs to no peer.
PollTimer(id, p, due) == [id |-> id, peer |-> p, due |-> due, every |-> 0]
ReachTimer(id, due) == [id |-> id, peer |-> 0, due |-> due, every |-> ReachPeriod]

NewPeer(a, mode, minp, maxp, ib) ==
  [addr |-> a, hmode |-> mode, minpoll |-> minp, maxpoll |-> maxp,
   iburst |-> ib, hpoll |-> minp, burst |-> 0, reach |-> 0,
   origin |-> 0, samples |-> 0]

\* The table and the timers apply_config makes: one poll due at once per
\* association, then the repeating reachability timer.
TableOf(c) == [i \in 1..Len(c) |->
                 NewPeer(c[i].addr, c[i].hmode, c[i].minpoll, c[i].maxpoll, c[i].iburst)]
TimersOf(c, id) == {PollTimer(id + i, i, 0) : i \in 1..Len(c)}
                      \cup {ReachTimer(id + Len(c) + 1, ReachPeriod)}

Init == /\ now = Start
        /\ firing = {} /\ pending = <<>> /\ sent = {} /\ credited = {}
        /\ \E c \in Configs : /\ peers = TableOf(c)
                              /\ timers = TimersOf(c, 0)
                              /\ nextId = Len(c) + 2
------------------------------------------------------------------------------
AdvanceTime == /\ firing = {}
               /\ now < MaxTime
               /\ now' = now + 1
               /\ UNCHANGED <<peers, timers, nextId, firing, pending, sent, credited>>

\* Mutant: a late tick misses what was due before it.
DueExactly == {e \in timers : e.due = now}

Due == {e \in timers : e.due <= now}

\* The next due time strictly after now of a repeating entry.
AdvancePast(e) == [e EXCEPT !.due = @ + ((now - @) \div e.every + 1) * e.every]

\* tick(): pop_due takes the due entries, one-shot entries for good.
TickBegin == /\ firing = {}
             /\ Due # {}
             /\ firing' = Due
             /\ timers' = (timers \ Due) \cup {AdvancePast(e) : e \in {d \in Due : d.every > 0}}
             /\ UNCHANGED <<now, peers, nextId, pending, sent, credited>>

\* The event the loop of tick() handles next: queue order.
IsNext(e) == e \in firing /\ \A f \in firing : e.id <= f.id

DropFirst(s) == IF Len(s) > PendingCap THEN Tail(s) ELSE s

\* TimerEvent::Poll: send a request, remember it, arm the next poll.
TickPoll(e) ==
  /\ IsNext(e) /\ e.peer # 0
  /\ firing' = firing \ {e}
  /\ IF e.peer \in DOMAIN peers
     THEN LET p == peers[e.peer]
              q == [peer |-> e.peer, t1 |-> now, dest |-> p.addr,
                    expect |-> IF p.hmode = "SymActive" THEN "SymPassive" ELSE "Server"]
          IN /\ pending' = DropFirst(Append(pending, q))
             /\ sent' = sent \cup {q}
             /\ timers' = timers \cup {PollTimer(nextId, e.peer, now + PollSecs[p.hpoll])}
             /\ nextId' = nextId + 1
     ELSE UNCHANGED <<pending, sent, timers, nextId>>
  /\ UNCHANGED <<now, peers, credited>>

ShiftIn(reach, bit) == (2 * reach + bit) % ReachSize

\* TimerEvent::Reachability: a failure is recorded for every association.
TickReach(e) ==
  /\ IsNext(e) /\ e.peer = 0
  /\ firing' = firing \ {e}
  /\ peers' = [i \in DOMAIN peers |-> [peers[i] EXCEPT !.reach = ShiftIn(@, 0)]]
  /\ UNCHANGED <<now, timers, nextId, pending, sent, credited>>
------------------------------------------------------------------------------
\* Mutant: an answer is recognised by its originate time alone.
MatchesTimeOnly(r, q) == r.t1 = q.t1 /\ r.expect = "Server"

\* find_pending_request: does the answer to q match the pending entry r?
\* The wire carries q's transmit time, the server's address and mode 4.
Matches(r, q) == r.t1 = q.t1 /\ r.dest = q.dest /\ r.expect = "Server"

IsFirstMatch(k, q) == /\ k \in DOMAIN pending
                      /\ Matches(pending[k], q)
                      /\ \A j \in 1..(k - 1) : ~Matches(pending[j], q)

\* Mutants: the answered request stays; the oldest one goes instead of it.
WithoutNone(s, k) == s
WithoutOldest(s, k) == Tail(s)

Without(s, k) == [j \in 1..(Len(s) - 1) |-> IF j < k THEN s[j] ELSE s[j + 1]]

\* Mutant: the poll exponent grows past its maximum.
FirstOf(a, b) == a

\* poll_update after the sample entered the filter; size is the class of
\* the filtered offset: below 0.128 s, below 1 s, or larger.
LesserOf(a, b) == IF a <= b THEN a ELSE b
GreaterOf(a, b) == IF a >= b THEN a ELSE b
Minus1(h) == IF h = 0 THEN 0 ELSE h - 1

\* The reach register read by poll_update already holds this sample.
Bursting(p, reach) == p.iburst /\ reach = 0 /\ p.burst = 0

BurstLeft(p, reach) == IF Bursting(p, reach) THEN 8 ELSE p.burst

NextPoll(p, reach, size) ==
  IF BurstLeft(p, reach) > 0 THEN BurstPoll
  ELSE CASE size = "small"    -> LesserOf(p.hpoll + 1, p.maxpoll)
         [] size = "moderate" -> IF p.hpoll < (p.minpoll + p.maxpoll) \div 2
                                 THEN LesserOf(p.hpoll + 1, p.maxpoll) ELSE p.hpoll
         [] size = "large"    -> GreaterOf(Minus1(p.hpoll), p.minpoll)

Accepted(p, t1, size) ==
  LET reach == ShiftIn(p.reach, 1)
      left  == BurstLeft(p, reach)
  IN [p EXCEPT !.reach = reach, !.origin = t1, !.samples = @ + 1,
               !.hpoll = NextPoll(p, reach, size), !.burst = Minus1(left)]

\* handle_server_response for an answer to q that matches entry k of a peer
\* that still exists and has not accepted this originate time already
\* (TEST1; such an answer changes nothing).
Matched(q, k) == /\ firing = {}
                 /\ q \in sent /\ q.dest \in Servers
                 /\ IsFirstMatch(k, q)
                 /\ pending[k].peer \in DOMAIN peers
                 /\ peers[pending[k].peer].origin # pending[k].t1

\* The sample is accepted.
AcceptAnswer(q, k, size) ==
  /\ Matched(q, k)
  /\ LET r == pending[k]
     IN /\ peers' = [peers EXCEPT ![r.peer] = Accepted(@, r.t1, size)]
        /\ credited' = credited \cup {[peer |-> r.peer, t1 |-> r.t1, from |-> q.dest]}
  /\ pending' = Without(pending, k)
  /\ UNCHANGED <<now, timers, nextId, firing, sent>>

\* A kiss-o'-death (stratum 0) or an unsynchronized server (stratum 16).
RefuseAnswer(q, k) ==
  /\ Matched(q, k)
  /\ peers' = [peers EXCEPT ![pending[k].peer].reach = ShiftIn(@, 0)]
  /\ pending' = Without(pending, k)
  /\ UNCHANGED <<now, timers, nextId, firing, sent, credited>>

\* An offset beyond 1e6 s: the request is consumed, the peer untouched.
CrazyAnswer(q, k) ==
  /\ Matched(q, k)
  /\ pending' = Without(pending, k)
  /\ UNCHANGED <<now, peers, timers, nextId, firing, sent, credited>>

\* A mode-2 packet: an ephemeral association is made for its source unless
\* one exists (or no association id is left).  A client answers nobody here.
HandleSymPassive(src) ==
  /\ firing = {}
  /\ ~\E i \in DOMAIN peers : peers[i].addr = Flip(src)
  /\ Len(peers) < MaxPeers
  /\ peers' = Append(peers, NewPeer(Flip(src), "SymPassive",
                                    EphemeralMin, EphemeralMax, FALSE))
  /\ timers' = timers \cup {PollTimer(nextId, Len(peers) + 1, 0)}
  /\ nextId' = nextId + 1
  /\ UNCHANGED <<now, firing, pending, sent, credited>>

\* An answer that matches no pending request is dropped.
IgnoreAnswer(q) == /\ firing = {}
                   /\ \A k \in DOMAIN pending : ~Matches(pending[k], q)
                   /\ UNCHANGED vars

HandleServerResponse ==
  \E q \in sent :
     \/ \E k \in DOMAIN pending :
           \/ \E size \in {"small", "moderate", "large"} : AcceptAnswer(q, k, size)
           \/ RefuseAnswer(q, k)
           \/ CrazyAnswer(q, k)
     \/ IgnoreAnswer(q)

Next == \/ AdvanceTime
        \/ TickBegin
        \/ \E e \in firing : TickPoll(e) \/ TickReach(e)
        \/ HandleServerResponse
        \/ \E src \in SymSources : HandleSymPassive(src)

Spec == Init /\ [][Next]_vars

\* The main loop of the daemon calls tick() every second and the loop in
\* tick() runs to its end; the network and time itself promise nothing.
FairSpec == /\ Spec
            /\ WF_vars(TickBegin)
            /\ WF_vars(\E e \in firing : TickPoll(e) \/ TickReach(e))
------------------------------------------------------------------------------
Peer == [addr : Addr, hmode : Mode, minpoll : Expo, maxpoll : Expo,
         iburst : BOOLEAN, hpoll : Expo, burst : 0..8, reach : 0..(ReachSize - 1),
         origin : Nat, samples : Nat]

Timer == [id : Nat, peer : Nat, due : Nat, every : Nat]

\* Type invariant: in particular the poll exponent never leaves the range
\* of the configured ones and the reach register keeps its width.
TypeOK == /\ now \in Start..MaxTime
          /\ peers \in Seq(Peer) /\ Len(peers) <= MaxPeers
          /\ timers \subseteq Timer /\ firing \subseteq Timer
          /\ nextId \in Nat
          /\ pending \in Seq(Request) /\ Len(pending) <= PendingCap
          /\ sent \subseteq Request
          /\ credited \subseteq [peer : Nat, t1 : Nat, from : Addr]

\* Poll timers neither multiply nor get lost: an association has exactly one
\* poll entry, in the queue or popped by the tick in progress
\* (schedule_poll, schedule_poll_once, pop_due, TimerEvent::Poll).
OneTimerPerPeer ==
  \A i \in DOMAIN peers :
     \E e \in timers \cup firing :
        /\ e.peer = i
        /\ \A f \in timers \cup firing : f.peer = i => f = e

\* A request yields at most one sample however often it is answered: the
\* clock filter of an association took as many samples as there are distinct
\* requests of it that were credited (pending_requests.remove, TEST1).
OneSamplePerRequest ==
  \A i \in DOMAIN peers :
     peers[i].samples = Cardinality({c \in credited : c.peer = i})

\* No cross-talk: an association takes samples only from answers of the
\* server it polls, to a request it sent itself (find_pending_request).
CreditedByOwnServer ==
  \A c \in credited :
     /\ c.peer \in DOMAIN peers
     /\ c.from = peers[c.peer].addr
     /\ \E q \in sent : q.peer = c.peer /\ q.t1 = c.t1 /\ q.dest = c.from

\* A poll that has come due is sent, however late the tick comes: the daemon
\* never stops polling an association (pop_due, TimerEvent::Poll).
DuePollIsSent ==
  \A i \in 1..MaxPeers :
     (\E e \in timers : e.peer = i /\ e.due <= now)
        ~> (\E q \in sent : q.peer = i /\ q.t1 = now)

\* The poll exchange implements the ledger of questions and answers.
Ledger == INSTANCE RequestLedger WITH
            Asker <- 1..MaxPeers, Instant <- Start..MaxTime,
            open <- {<<pending[k].peer, pending[k].t1>> : k \in DOMAIN pending},
            answered <- {<<c.peer, c.t1>> : c \in credited},
            filled <- [i \in 1..MaxPeers |-> IF i \in DOMAIN peers
                                             THEN peers[i].samples ELSE 0]

\* Every question is answered at most once and every sample is the answer to
\* a question still open.
RefinesLedger == Ledger!Spec
==============================================================================

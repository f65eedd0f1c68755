------------------------- MODULE PollExchange_proofs -------------------------
(***************************************************************************)
(* Proofs about PollExchange, for every value of its constants: the type   *)
(* invariant, one poll timer per association, no cross-talk, one sample    *)
(* per request, and the refinement of RequestLedger.                       *)
(***************************************************************************)
EXTENDS PollExchange, TLAPS, SequenceTheorems, FiniteSetTheorems

------------------------------------------------------------------------------
(* The inductive invariant. *)

\* Queue entries: ids are below nextId, exactly the reachability entries
\* repeat, every poll entry names a row of the table, and a popped poll
\* entry has left the queue.
TimersInv ==
  /\ \A e \in timers \cup firing : /\ e.id < nextId
                                   /\ e.every > 0 <=> e.peer = 0
                                   /\ e.peer <= Len(peers)
  /\ \A e \in firing : e.due <= now /\ (e.peer # 0 => e \notin timers)

\* Requests name a row and go to the address of that row; the next poll of
\* an association lies after all of its requests, so peer and transmit time
\* identify a request.
SentInv ==
  /\ \A q \in sent : q.peer \in DOMAIN peers /\ q.dest = peers[q.peer].addr
  /\ \A q \in sent : \A e \in timers \cup firing : e.peer = q.peer => q.t1 < e.due
  /\ \A q, r \in sent : q.peer = r.peer /\ q.t1 = r.t1 => q = r

\* A pending request was sent, is there once, and was not credited.
PendingInv ==
  /\ \A k \in DOMAIN pending : pending[k] \in sent
  /\ \A j, k \in DOMAIN pending : pending[j] = pending[k] => j = k
  /\ \A k \in DOMAIN pending : \A c \in credited :
        ~(c.peer = pending[k].peer /\ c.t1 = pending[k].t1)

\* credited is finite, and what it records determines the entry.
CreditInv ==
  /\ IsFiniteSet(credited)
  /\ \A c \in credited : /\ c.peer \in DOMAIN peers
                         /\ c.from = peers[c.peer].addr
                         /\ \E q \in sent : /\ q.peer = c.peer
                                            /\ q.t1 = c.t1
                                            /\ q.dest = c.from

IInv == /\ TypeOK /\ TimersInv /\ OneTimerPerPeer /\ SentInv
        /\ PendingInv /\ CreditInv /\ OneSamplePerRequest
------------------------------------------------------------------------------
(* Lemmas about the operators. *)

\* Removing one entry of a sequence keeps the type and every other entry.
LEMMA WithoutLemma ==
  ASSUME NEW S, NEW s \in Seq(S), NEW k \in 1..Len(s)
  PROVE  /\ Without(s, k) \in Seq(S)
         /\ Len(Without(s, k)) = Len(s) - 1
         /\ DOMAIN Without(s, k) = 1..(Len(s) - 1)
         /\ \A j \in 1..(Len(s) - 1) :
               Without(s, k)[j] = IF j < k THEN s[j] ELSE s[j + 1]
<1> DEFINE e(j) == IF j < k THEN s[j] ELSE s[j + 1]
<1>1. Len(s) \in Nat /\ Len(s) - 1 \in Nat
  BY LenProperties
<1>2. \A j \in 1..(Len(s) - 1) : e(j) \in S
  BY <1>1, ElementOfSeq
<1>3. Without(s, k) = [j \in 1..(Len(s) - 1) |-> e(j)]
  BY DEF Without
<1> HIDE DEF e
<1>4. [j \in 1..(Len(s) - 1) |-> e(j)] \in Seq(S)
  BY <1>1, <1>2, IsASeq
<1>5. QED
  BY <1>1, <1>3, <1>4, LenProperties DEF e

\* Shifting a bit into the reach register keeps its width.
LEMMA ShiftInType ==
  ASSUME NEW r \in Nat, NEW b \in 0..1
  PROVE  ShiftIn(r, b) \in 0..(ReachSize - 1)
BY ReachAssumption DEF ShiftIn

\* A repeating entry that was due is due again later, and nothing else of it
\* changes.
LEMMA AdvancePastType ==
  ASSUME NEW e \in Timer, e.every > 0, now \in Nat, e.due <= now
  PROVE  /\ AdvancePast(e) \in Timer
         /\ AdvancePast(e).id = e.id
         /\ AdvancePast(e).peer = e.peer
         /\ AdvancePast(e).every = e.every
         /\ AdvancePast(e).due >= e.due
<1> DEFINE missed == (now - e.due) \div e.every + 1
<1>1. e.every \in Nat \ {0} /\ e.due \in Nat /\ now - e.due \in Nat
  BY DEF Timer
<1>2. (now - e.due) \div e.every \in Nat
  BY <1>1
<1>3. missed \in Nat
  BY <1>2
<1>4. missed * e.every \in Nat
  BY <1>1, <1>3
<1> DEFINE d == e.due + missed * e.every
<1>5. d \in Nat /\ d >= e.due
  BY <1>1, <1>4
<1>6. AdvancePast(e) = [e EXCEPT !.due = d]
  BY DEF AdvancePast
<1> HIDE DEF d
<1>7. QED
  BY <1>5, <1>6 DEF Timer

\* One step up under a ceiling, and one step down over a floor, both stay
\* among the exponents.
LEMMA ClampedExpo ==
  ASSUME NEW h \in Expo, NEW m \in Expo
  PROVE  LesserOf(h + 1, m) \in Expo /\ GreaterOf(Minus1(h), m) \in Expo
<1>1. MaxExpo \in Nat
  BY PollAssumption
<1>2. QED
  BY <1>1 DEF Expo, LesserOf, GreaterOf, Minus1

\* poll_update keeps the exponent among those that exist.
LEMMA AcceptedType ==
  ASSUME NEW p \in Peer, NEW t1 \in Nat, NEW size \in {"small", "moderate", "large"}
  PROVE  /\ Accepted(p, t1, size) \in Peer
         /\ Accepted(p, t1, size).addr = p.addr
         /\ Accepted(p, t1, size).samples = p.samples + 1
<1> DEFINE reach == ShiftIn(p.reach, 1)
           left  == BurstLeft(p, reach)
<1>1. /\ p.reach \in Nat /\ p.hpoll \in Expo /\ p.minpoll \in Expo
      /\ p.maxpoll \in Expo /\ p.burst \in 0..8 /\ p.samples \in Nat
  BY DEF Peer
<1>2. reach \in 0..(ReachSize - 1)
  BY <1>1, ShiftInType
<1>3. left \in 0..8
  BY <1>1 DEF BurstLeft
<1>4. Minus1(left) \in 0..8
  BY <1>3 DEF Minus1
<1> HIDE DEF reach, left
<1>5. NextPoll(p, reach, size) \in Expo
  <2>1. CASE BurstLeft(p, reach) > 0
    BY <2>1, PollAssumption DEF NextPoll
  <2>2. CASE ~(BurstLeft(p, reach) > 0)
    <3>1. /\ LesserOf(p.hpoll + 1, p.maxpoll) \in Expo
          /\ GreaterOf(Minus1(p.hpoll), p.minpoll) \in Expo
      BY <1>1, ClampedExpo
    <3>2. CASE size = "small"
      BY <2>2, <3>1, <3>2 DEF NextPoll
    <3>3. CASE size = "moderate"
      BY <1>1, <2>2, <3>1, <3>3 DEF NextPoll
    <3>4. CASE size = "large"
      BY <2>2, <3>1, <3>4 DEF NextPoll
    <3>5. QED
      BY <3>2, <3>3, <3>4
  <2>3. QED
    BY <2>1, <2>2
<1> DEFINE h == NextPoll(p, reach, size)
           b == Minus1(left)
           n == p.samples + 1
<1>6. Accepted(p, t1, size) = [p EXCEPT !.reach = reach, !.origin = t1,
                                        !.samples = n, !.hpoll = h, !.burst = b]
  BY DEF Accepted, reach, left
<1>7. n \in Nat /\ h \in Expo /\ b \in 0..8
  BY <1>1, <1>4, <1>5
<1>8. n = p.samples + 1
  OBVIOUS
<1> HIDE DEF h, b, n
<1>9. QED
  BY <1>2, <1>6, <1>7, <1>8 DEF Peer

\* Updating one row of the table.
LEMMA TableUpdate ==
  ASSUME NEW i \in DOMAIN peers, NEW p \in Peer, peers \in Seq(Peer)
  PROVE  /\ [peers EXCEPT ![i] = p] \in Seq(Peer)
         /\ Len([peers EXCEPT ![i] = p]) = Len(peers)
         /\ DOMAIN [peers EXCEPT ![i] = p] = DOMAIN peers
         /\ \A j \in DOMAIN peers :
               [peers EXCEPT ![i] = p][j] = IF j = i THEN p ELSE peers[j]
BY ExceptSeq, LenProperties
------------------------------------------------------------------------------
(* The initial states. *)

LEMMA InitIInv == Init => IInv
<1> SUFFICES ASSUME Init PROVE IInv
  OBVIOUS
<1>1. PICK c \in Configs : /\ peers = TableOf(c)
                           /\ timers = TimersOf(c, 0)
                           /\ nextId = Len(c) + 2
  BY DEF Init
<1>2. c \in Seq(Line) /\ Len(c) \in Nat /\ Len(c) <= MaxPeers /\ DOMAIN c = 1..Len(c)
  BY TableAssumption, LenProperties
<1> DEFINE row(i) == NewPeer(c[i].addr, c[i].hmode, c[i].minpoll, c[i].maxpoll, c[i].iburst)
<1>3. \A i \in 1..Len(c) : row(i) \in Peer /\ row(i).samples = 0
  <2> SUFFICES ASSUME NEW i \in 1..Len(c) PROVE row(i) \in Peer /\ row(i).samples = 0
    OBVIOUS
  <2>1. c[i] \in Line
    BY <1>2, ElementOfSeq
  <2>2. QED
    BY <2>1, ReachAssumption DEF Line, Peer, NewPeer, Mode
<1>4. peers = [i \in 1..Len(c) |-> row(i)]
  BY <1>1 DEF TableOf
<1>5. \A i \in 1..Len(c) : peers[i] = row(i)
  BY <1>4
<1> HIDE DEF row
<1>6. peers \in Seq(Peer)
  BY <1>2, <1>3, <1>4, IsASeq
<1>7. Len(peers) = Len(c) /\ DOMAIN peers = 1..Len(c)
  BY <1>2, <1>4, <1>6, LenProperties
<1>8. /\ firing = {} /\ pending = <<>> /\ sent = {} /\ credited = {} /\ now = Start
  BY DEF Init
<1>9. timers \subseteq Timer
  BY <1>1, <1>2, ReachAssumption DEF TimersOf, PollTimer, ReachTimer, Timer
<1>10. \A e \in timers : \/ \E i \in 1..Len(c) : e = PollTimer(i, i, 0)
                         \/ e = ReachTimer(Len(c) + 1, ReachPeriod)
  BY <1>1, <1>2 DEF TimersOf
<1>11. TypeOK
  BY <1>1, <1>2, <1>6, <1>7, <1>8, <1>9, TimeAssumption, PendingAssumption, EmptySeq DEF TypeOK
<1>12. TimersInv
  BY <1>1, <1>2, <1>7, <1>8, <1>10, ReachAssumption DEF TimersInv, PollTimer, ReachTimer
<1>13. OneTimerPerPeer
  <2> SUFFICES ASSUME NEW i \in 1..Len(c)
               PROVE  \E e \in timers : e.peer = i /\ \A f \in timers : f.peer = i => f = e
    BY <1>7, <1>8 DEF OneTimerPerPeer
  <2>1. PollTimer(i, i, 0) \in timers
    BY <1>1, <1>2 DEF TimersOf
  <2>2. QED
    BY <1>2, <1>10, <2>1 DEF PollTimer, ReachTimer
<1>14. SentInv /\ PendingInv
  BY <1>8 DEF SentInv, PendingInv
<1>15. CreditInv
  BY <1>8, FS_EmptySet DEF CreditInv
<1>16. OneSamplePerRequest
  <2> SUFFICES ASSUME NEW i \in DOMAIN peers
               PROVE  peers[i].samples = Cardinality({d \in credited : d.peer = i})
    BY DEF OneSamplePerRequest
  <2>1. {d \in credited : d.peer = i} = {}
    BY <1>8
  <2>2. QED
    BY <1>3, <1>5, <1>7, <2>1, FS_EmptySet
<1>17. QED
  BY <1>11, <1>12, <1>13, <1>14, <1>15, <1>16 DEF IInv
------------------------------------------------------------------------------
(* The steps. *)

LEMMA StutterStep == IInv /\ UNCHANGED vars => IInv'
BY DEF IInv, vars, TypeOK, TimersInv, OneTimerPerPeer, SentInv, PendingInv, CreditInv,
       OneSamplePerRequest

LEMMA AdvanceTimeStep == IInv /\ AdvanceTime => IInv'
<1> SUFFICES ASSUME IInv, AdvanceTime PROVE IInv'
  OBVIOUS
<1> USE DEF IInv, AdvanceTime
<1>1. TypeOK'
  BY TimeAssumption DEF TypeOK
<1>2. TimersInv'
  BY DEF TimersInv
<1>3. OneTimerPerPeer' /\ SentInv' /\ PendingInv' /\ CreditInv' /\ OneSamplePerRequest'
  BY DEF OneTimerPerPeer, SentInv, PendingInv, CreditInv, OneSamplePerRequest
<1>4. QED
  BY <1>1, <1>2, <1>3

LEMMA TickBeginStep == IInv /\ TickBegin => IInv'
<1> SUFFICES ASSUME IInv, TickBegin PROVE IInv'
  OBVIOUS
<1> DEFINE again == {d \in Due : d.every > 0}
<1>1. /\ firing = {} /\ firing' = Due /\ UNCHANGED <<now, peers, nextId, pending, sent, credited>>
      /\ timers' = (timers \ Due) \cup {AdvancePast(e) : e \in again}
  BY DEF TickBegin
<1>2. Due \subseteq timers /\ \A e \in Due : e.due <= now
  BY DEF Due
<1>3. now \in Nat /\ timers \subseteq Timer
  BY TimeAssumption DEF IInv, TypeOK
<1>4. \A e \in again : /\ AdvancePast(e) \in Timer
                       /\ AdvancePast(e).id = e.id
                       /\ AdvancePast(e).peer = e.peer
                       /\ AdvancePast(e).every = e.every
                       /\ AdvancePast(e).due >= e.due
  BY <1>2, <1>3, AdvancePastType
<1>5. \A e \in again : e.peer = 0
  BY <1>2 DEF IInv, TimersInv
<1> HIDE DEF again
<1>6. \A f \in timers' : f \in timers \ Due \/ \E e \in again : f = AdvancePast(e)
  BY <1>1
<1>7. again \subseteq Due
  BY DEF again
<1>8. TypeOK'
  BY <1>1, <1>2, <1>3, <1>4, <1>6 DEF IInv, TypeOK
<1>9. TimersInv'
  BY <1>1, <1>2, <1>3, <1>4, <1>5, <1>6, <1>7 DEF IInv, TimersInv
<1>10. OneTimerPerPeer'
  <2> SUFFICES ASSUME NEW i \in DOMAIN peers
               PROVE  \E e \in timers' \cup Due : 
                         e.peer = i /\ \A f \in timers' \cup Due : f.peer = i => f = e
    BY <1>1 DEF OneTimerPerPeer
  <2>1. PICK e \in timers : e.peer = i /\ \A f \in timers : f.peer = i => f = e
    BY <1>1 DEF IInv, OneTimerPerPeer
  <2>2. i # 0
    BY LenProperties DEF IInv, TypeOK
  <2>3. e \in timers' \cup Due
    BY <1>1
  <2>4. \A f \in timers' : f.peer = i => f = e
    BY <1>4, <1>5, <1>6, <2>1, <2>2
  <2>5. QED
    BY <1>2, <2>1, <2>3, <2>4
<1>11. SentInv'
  <2>1. \A q \in sent : q.peer # 0
    BY LenProperties DEF IInv, TypeOK, SentInv
  <2>2. \A q \in sent : \A e \in timers' \cup Due : e.peer = q.peer => q.t1 < e.due
    BY <1>2, <1>4, <1>5, <1>6, <2>1 DEF IInv, SentInv
  <2>3. QED
    BY <1>1, <2>2 DEF IInv, SentInv
<1>12. PendingInv' /\ CreditInv' /\ OneSamplePerRequest'
  BY <1>1 DEF IInv, PendingInv, CreditInv, OneSamplePerRequest
<1>13. QED
  BY <1>8, <1>9, <1>10, <1>11, <1>12 DEF IInv

\* Keeping the queue of requests short keeps its entries apart.
LEMMA DropFirstLemma ==
  ASSUME NEW S, NEW s \in Seq(S), Len(s) <= PendingCap + 1
  PROVE  /\ DropFirst(s) \in Seq(S) /\ Len(DropFirst(s)) <= PendingCap
         /\ \A k \in DOMAIN DropFirst(s) :
               \/ DropFirst(s) = s
               \/ k + 1 \in DOMAIN s /\ DropFirst(s)[k] = s[k + 1] /\ DropFirst(s) = Tail(s)
<1>1. Len(s) \in Nat /\ DOMAIN s = 1..Len(s) /\ PendingCap \in Nat \ {0}
  BY LenProperties, PendingAssumption
<1>2. CASE Len(s) > PendingCap
  <2>1. s # <<>>
    BY <1>1, <1>2, EmptySeq
  <2>2. /\ Tail(s) \in Seq(S) /\ Len(Tail(s)) = Len(s) - 1
        /\ \A k \in 1..Len(Tail(s)) : Tail(s)[k] = s[k + 1]
    BY <2>1, HeadTailProperties
  <2>3. DOMAIN Tail(s) = 1..Len(Tail(s))
    BY <2>2, LenProperties
  <2>4. DropFirst(s) = Tail(s)
    BY <1>2 DEF DropFirst
  <2>5. Len(Tail(s)) <= PendingCap /\ \A k \in DOMAIN Tail(s) : k + 1 \in DOMAIN s
    BY <1>1, <2>2, <2>3
  <2>6. QED
    BY <2>2, <2>3, <2>4, <2>5
<1>3. CASE ~(Len(s) > PendingCap)
  BY <1>1, <1>3 DEF DropFirst
<1>4. QED
  BY <1>2, <1>3

LEMMA TickPollStep ==
  ASSUME IInv, NEW e \in firing, TickPoll(e)
  PROVE  IInv'
<1> DEFINE p == peers[e.peer]
           q == [peer |-> e.peer, t1 |-> now, dest |-> p.addr,
                 expect |-> IF p.hmode = "SymActive" THEN "SymPassive" ELSE "Server"]
           t == PollTimer(nextId, e.peer, now + PollSecs[p.hpoll])
           long == Append(pending, q)
<1>1. /\ e.peer \in Nat \ {0} /\ e.peer <= Len(peers) /\ now \in Nat /\ nextId \in Nat
      /\ DOMAIN peers = 1..Len(peers) /\ Len(peers) \in Nat /\ e.peer \in DOMAIN peers
  BY TimeAssumption, LenProperties DEF IInv, TypeOK, TimersInv, Timer, TickPoll
<1>2. /\ firing' = firing \ {e} /\ timers' = timers \cup {t} /\ nextId' = nextId + 1
      /\ pending' = DropFirst(long) /\ sent' = sent \cup {q}
      /\ UNCHANGED <<now, peers, credited>>
  BY <1>1 DEF TickPoll
<1>3. p \in Peer /\ PollSecs[p.hpoll] \in Nat \ {0}
  <2>1. p \in Peer
    BY <1>1, ElementOfSeq DEF IInv, TypeOK
  <2>2. QED
    BY <2>1, PollAssumption DEF Peer
<1>4. q \in Request /\ q.peer = e.peer /\ q.t1 = now /\ q.dest = p.addr
  BY <1>1, <1>3 DEF Request, Peer
<1>5. /\ t \in Timer /\ t.id = nextId /\ t.peer = e.peer /\ t.due > now /\ t.every = 0
  BY <1>1, <1>3 DEF Timer, PollTimer
<1>6. e.due <= now
  BY DEF IInv, TimersInv
<1>7. /\ long \in Seq(Request) /\ Len(long) = Len(pending) + 1
      /\ DOMAIN long = 1..(Len(pending) + 1) /\ Len(pending) \in Nat
      /\ DOMAIN pending = 1..Len(pending)
      /\ \A k \in 1..Len(pending) : long[k] = pending[k]
      /\ long[Len(pending) + 1] = q
  BY <1>4, AppendProperties, LenProperties DEF IInv, TypeOK
<1> HIDE DEF p, q, t, long
<1>8. /\ pending' \in Seq(Request) /\ Len(pending') <= PendingCap
      /\ \A k \in DOMAIN pending' :
            \/ pending' = long
            \/ k + 1 \in DOMAIN long /\ pending'[k] = long[k + 1] /\ pending' = Tail(long)
  <2>1. Len(long) <= PendingCap + 1
    BY <1>7, PendingAssumption DEF IInv, TypeOK
  <2>2. QED
    BY <1>2, <1>7, <2>1, DropFirstLemma
<1>9. \A r \in sent : r.peer = e.peer => r.t1 < now
  BY <1>1, <1>6 DEF IInv, SentInv, TypeOK, Timer, Request
<1>10. TypeOK'
  BY <1>1, <1>2, <1>4, <1>5, <1>8 DEF IInv, TypeOK
<1>11. TimersInv'
  BY <1>1, <1>2, <1>5 DEF IInv, TypeOK, TimersInv, Timer
<1>12. OneTimerPerPeer'
  <2> SUFFICES ASSUME NEW i \in DOMAIN peers
               PROVE  \E f \in timers' \cup firing' :
                        f.peer = i /\ \A g \in timers' \cup firing' : g.peer = i => g = f
    BY <1>2 DEF OneTimerPerPeer
  <2>1. PICK f \in timers \cup firing :
           f.peer = i /\ \A g \in timers \cup firing : g.peer = i => g = f
    BY DEF IInv, OneTimerPerPeer
  <2>2. e \notin timers
    BY <1>1 DEF IInv, TimersInv
  <2>3. CASE i = e.peer
    <3>1. f = e
      BY <2>1, <2>3
    <3>2. QED
      BY <1>2, <1>5, <2>1, <2>2, <2>3, <3>1
  <2>4. CASE i # e.peer
    BY <1>2, <1>5, <2>1, <2>4
  <2>5. QED
    BY <2>3, <2>4
<1>13. SentInv'
  <2>1. \A r \in sent' : r.peer \in DOMAIN peers' /\ r.dest = peers'[r.peer].addr
    BY <1>1, <1>2, <1>4 DEF IInv, SentInv, p
  <2>2. \A r \in sent' : \A f \in timers' \cup firing' : f.peer = r.peer => r.t1 < f.due
    <3> SUFFICES ASSUME NEW r \in sent', NEW f \in timers' \cup firing', f.peer = r.peer
                 PROVE  r.t1 < f.due
      OBVIOUS
    <3>1. CASE r \in sent /\ f \in timers \cup firing
      BY <3>1 DEF IInv, SentInv
    <3>2. CASE r \in sent /\ f = t
      <4>1. r.t1 \in Nat /\ t.due \in Nat
        BY <1>5, <3>2 DEF IInv, TypeOK, Request, Timer
      <4>2. r.t1 < now
        BY <1>5, <1>9, <3>2
      <4>3. QED
        BY <1>1, <1>5, <3>2, <4>1, <4>2
    <3>3. CASE r = q /\ f = t
      BY <1>4, <1>5, <3>3
    <3>4. CASE r = q /\ f \in timers \cup firing
      <4>1. e.peer \in DOMAIN peers /\ f.peer = e.peer
        BY <1>1, <1>4, <3>4
      <4>2. f = e
        BY <3>4, <4>1 DEF IInv, OneTimerPerPeer
      <4>3. e \notin timers'
        BY <1>1, <1>2, <1>5, <1>6 DEF IInv, TimersInv
      <4>4. QED
        BY <1>2, <4>2, <4>3
    <3>5. QED
      BY <1>2, <3>1, <3>2, <3>3, <3>4
  <2>3. \A r, w \in sent' : r.peer = w.peer /\ r.t1 = w.t1 => r = w
    <3>1. \A r \in sent : ~(r.peer = q.peer /\ r.t1 = q.t1)
      BY <1>1, <1>4, <1>9 DEF IInv, TypeOK, Request
    <3>2. QED
      BY <1>2, <3>1 DEF IInv, SentInv
  <2>4. QED
    BY <2>1, <2>2, <2>3 DEF SentInv
<1>14. PendingInv'
  <2>1. q \notin sent
    BY <1>1, <1>4, <1>9
  <2>2. \A k \in DOMAIN long : long[k] \in sent'
    BY <1>2, <1>7 DEF IInv, PendingInv
  <2>3. \A j, k \in DOMAIN long : long[j] = long[k] => j = k
    <3> SUFFICES ASSUME NEW j \in DOMAIN long, NEW k \in DOMAIN long, long[j] = long[k]
                 PROVE  j = k
      OBVIOUS
    <3>1. \A i \in 1..Len(pending) : long[i] \in sent
      BY <1>7 DEF IInv, PendingInv
    <3>2. CASE j = Len(pending) + 1 \/ k = Len(pending) + 1
      BY <1>7, <2>1, <3>1, <3>2
    <3>3. CASE j # Len(pending) + 1 /\ k # Len(pending) + 1
      BY <1>7, <3>3 DEF IInv, PendingInv
    <3>4. QED
      BY <3>2, <3>3
  <2>4. \A k \in DOMAIN long : \A c \in credited : ~(c.peer = long[k].peer /\ c.t1 = long[k].t1)
    <3>1. \A c \in credited : ~(c.peer = q.peer /\ c.t1 = q.t1)
      <4> SUFFICES ASSUME NEW c \in credited, c.peer = q.peer, c.t1 = q.t1 PROVE FALSE
        OBVIOUS
      <4>1. PICK r \in sent : r.peer = c.peer /\ r.t1 = c.t1
        BY DEF IInv, CreditInv
      <4>2. QED
        BY <1>1, <1>4, <1>9, <4>1
    <3>2. QED
      BY <1>7, <3>1 DEF IInv, PendingInv
  <2>5. CASE pending' = long
    BY <1>2, <2>2, <2>3, <2>4, <2>5 DEF PendingInv
  <2>6. CASE pending' # long
    <3>1. \A k \in DOMAIN pending' : k + 1 \in DOMAIN long /\ pending'[k] = long[k + 1]
      BY <1>8, <2>6
    <3>2. DOMAIN pending' \subseteq Nat
      BY <1>8, LenProperties
    <3>3. QED
      BY <1>2, <2>2, <2>3, <2>4, <3>1, <3>2 DEF PendingInv
  <2>7. QED
    BY <2>5, <2>6
<1>15. CreditInv' /\ OneSamplePerRequest'
  BY <1>2 DEF IInv, CreditInv, OneSamplePerRequest
<1>16. QED
  BY <1>10, <1>11, <1>12, <1>13, <1>14, <1>15 DEF IInv

\* What a step that only changes the rows of the table, and no address in
\* it, keeps.
LEMMA SameAddresses ==
  ASSUME IInv, UNCHANGED <<now, timers, nextId, firing, sent>>,
         peers' \in Seq(Peer), Len(peers') = Len(peers),
         \A i \in DOMAIN peers : peers'[i].addr = peers[i].addr
  PROVE  DOMAIN peers' = DOMAIN peers /\ TimersInv' /\ OneTimerPerPeer' /\ SentInv'
<1>1. DOMAIN peers' = DOMAIN peers
  BY LenProperties DEF IInv, TypeOK
<1>2. TimersInv'
  BY DEF IInv, TimersInv
<1>3. OneTimerPerPeer'
  BY <1>1 DEF IInv, OneTimerPerPeer
<1>4. SentInv'
  BY <1>1 DEF IInv, SentInv
<1>5. QED
  BY <1>1, <1>2, <1>3, <1>4

LEMMA TickReachStep ==
  ASSUME IInv, NEW e \in firing, TickReach(e)
  PROVE  IInv'
<1> DEFINE row(i) == [peers[i] EXCEPT !.reach = ShiftIn(@, 0)]
<1>1. /\ e.peer = 0 /\ firing' = firing \ {e}
      /\ peers' = [i \in DOMAIN peers |-> row(i)]
      /\ UNCHANGED <<now, timers, nextId, pending, sent, credited>>
  BY DEF TickReach
<1>2. peers \in Seq(Peer) /\ DOMAIN peers = 1..Len(peers) /\ Len(peers) \in Nat
  BY LenProperties DEF IInv, TypeOK
<1>3. \A i \in DOMAIN peers : /\ row(i) \in Peer
                              /\ row(i).addr = peers[i].addr
                              /\ row(i).samples = peers[i].samples
  <2> SUFFICES ASSUME NEW i \in DOMAIN peers
               PROVE  /\ row(i) \in Peer
                      /\ row(i).addr = peers[i].addr
                      /\ row(i).samples = peers[i].samples
    OBVIOUS
  <2>1. peers[i] \in Peer
    BY <1>2, ElementOfSeq
  <2>2. peers[i].reach \in Nat
    BY <2>1 DEF Peer
  <2>3. ShiftIn(peers[i].reach, 0) \in 0..(ReachSize - 1)
    BY <2>2, ShiftInType
  <2>4. QED
    BY <2>1, <2>3 DEF Peer
<1>4. \A i \in DOMAIN peers : peers'[i] = row(i)
  BY <1>1
<1> HIDE DEF row
<1>5. peers' \in Seq(Peer)
  BY <1>1, <1>2, <1>3, IsASeq
<1>6. DOMAIN peers' = DOMAIN peers /\ Len(peers') = Len(peers)
  BY <1>1, <1>2, <1>5, LenProperties
<1>7. TypeOK'
  BY <1>1, <1>5, <1>6 DEF IInv, TypeOK
<1>8. TimersInv'
  BY <1>1, <1>6 DEF IInv, TimersInv
<1>9. OneTimerPerPeer'
  <2> SUFFICES ASSUME NEW i \in DOMAIN peers
               PROVE  \E f \in timers \cup firing' :
                        f.peer = i /\ \A g \in timers \cup firing' : g.peer = i => g = f
    BY <1>1, <1>6 DEF OneTimerPerPeer
  <2>1. PICK f \in timers \cup firing :
           f.peer = i /\ \A g \in timers \cup firing : g.peer = i => g = f
    BY DEF IInv, OneTimerPerPeer
  <2>2. f # e
    BY <1>1, <1>2, <2>1
  <2>3. QED
    BY <1>1, <2>1, <2>2
<1>10. SentInv'
  BY <1>1, <1>3, <1>4, <1>6 DEF IInv, SentInv
<1>11. PendingInv'
  BY <1>1 DEF IInv, PendingInv
<1>12. CreditInv'
  BY <1>1, <1>3, <1>4, <1>6 DEF IInv, CreditInv
<1>13. OneSamplePerRequest'
  BY <1>1, <1>3, <1>4, <1>6 DEF IInv, OneSamplePerRequest
<1>14. QED
  BY <1>7, <1>8, <1>9, <1>10, <1>11, <1>12, <1>13 DEF IInv

\* Taking entry k out of the queue: the rest stays as it was, and entry k is
\* not in it any more.
LEMMA Consume ==
  ASSUME IInv, NEW k \in DOMAIN pending
  PROVE  /\ pending[k] \in Request /\ pending[k] \in sent
         /\ Without(pending, k) \in Seq(Request)
         /\ Len(Without(pending, k)) <= PendingCap
         /\ \A j \in DOMAIN Without(pending, k) :
              /\ Without(pending, k)[j] \in sent
              /\ Without(pending, k)[j] # pending[k]
              /\ \A c \in credited : ~(/\ c.peer = Without(pending, k)[j].peer
                                       /\ c.t1 = Without(pending, k)[j].t1)
         /\ \A i, j \in DOMAIN Without(pending, k) :
              Without(pending, k)[i] = Without(pending, k)[j] => i = j
<1> DEFINE w == Without(pending, k)
<1>1. /\ pending \in Seq(Request) /\ Len(pending) \in Nat /\ Len(pending) <= PendingCap
      /\ DOMAIN pending = 1..Len(pending) /\ PendingCap \in Nat
  BY LenProperties, PendingAssumption DEF IInv, TypeOK
<1>2. /\ w \in Seq(Request) /\ Len(w) = Len(pending) - 1
      /\ DOMAIN w = 1..(Len(pending) - 1)
      /\ \A j \in DOMAIN w : w[j] = IF j < k THEN pending[j] ELSE pending[j + 1]
  BY <1>1, WithoutLemma
<1> HIDE DEF w
<1> DEFINE old(j) == IF j < k THEN j ELSE j + 1
<1>3. \A j \in DOMAIN w : old(j) \in DOMAIN pending /\ old(j) # k /\ w[j] = pending[old(j)]
  BY <1>1, <1>2
<1>4. \A i, j \in DOMAIN w : old(i) = old(j) => i = j
  BY <1>1, <1>2
<1> HIDE DEF old
<1>5. \A j \in DOMAIN w : /\ w[j] \in sent /\ w[j] # pending[k]
                          /\ \A c \in credited : ~(c.peer = w[j].peer /\ c.t1 = w[j].t1)
  BY <1>3 DEF IInv, PendingInv
<1>6. \A i, j \in DOMAIN w : w[i] = w[j] => i = j
  BY <1>3, <1>4 DEF IInv, PendingInv
<1>7. pending[k] \in Request /\ pending[k] \in sent
  BY <1>1, ElementOfSeq DEF IInv, PendingInv
<1>8. Len(w) <= PendingCap
  BY <1>1, <1>2
<1>9. QED
  BY <1>2, <1>5, <1>6, <1>7, <1>8 DEF w

LEMMA RefuseAnswerStep ==
  ASSUME IInv, NEW q \in sent, NEW k \in DOMAIN pending, RefuseAnswer(q, k)
  PROVE  IInv'
<1> DEFINE i == pending[k].peer
           p == [peers[i] EXCEPT !.reach = ShiftIn(@, 0)]
<1>1. /\ i \in DOMAIN peers /\ peers' = [peers EXCEPT ![i] = p]
      /\ pending' = Without(pending, k)
      /\ UNCHANGED <<now, timers, nextId, firing, sent, credited>>
  BY DEF RefuseAnswer, Matched
<1>2. peers \in Seq(Peer) /\ DOMAIN peers = 1..Len(peers)
  BY LenProperties DEF IInv, TypeOK
<1>3. peers[i] \in Peer
  BY <1>1, <1>2, ElementOfSeq
<1>4. ShiftIn(peers[i].reach, 0) \in 0..(ReachSize - 1)
  BY <1>3, ShiftInType DEF Peer
<1>5. p \in Peer /\ p.addr = peers[i].addr /\ p.samples = peers[i].samples
  BY <1>3, <1>4 DEF Peer
<1> HIDE DEF p, i
<1>6. /\ peers' \in Seq(Peer) /\ Len(peers') = Len(peers) /\ DOMAIN peers' = DOMAIN peers
      /\ \A j \in DOMAIN peers : peers'[j] = IF j = i THEN p ELSE peers[j]
  BY <1>1, <1>2, <1>5, TableUpdate
<1>7. \A j \in DOMAIN peers : /\ peers'[j].addr = peers[j].addr
                              /\ peers'[j].samples = peers[j].samples
  BY <1>5, <1>6
<1>8. TimersInv' /\ OneTimerPerPeer' /\ SentInv'
  BY <1>1, <1>6, <1>7, SameAddresses
<1>9. TypeOK' /\ PendingInv'
  BY <1>1, <1>6, Consume DEF IInv, TypeOK, PendingInv
<1>10. CreditInv' /\ OneSamplePerRequest'
  BY <1>1, <1>6, <1>7 DEF IInv, CreditInv, OneSamplePerRequest
<1>11. QED
  BY <1>8, <1>9, <1>10 DEF IInv

LEMMA CrazyAnswerStep ==
  ASSUME IInv, NEW q \in sent, NEW k \in DOMAIN pending, CrazyAnswer(q, k)
  PROVE  IInv'
<1>1. /\ pending' = Without(pending, k)
      /\ UNCHANGED <<now, peers, timers, nextId, firing, sent, credited>>
  BY DEF CrazyAnswer
<1>2. TypeOK' /\ PendingInv'
  BY <1>1, Consume DEF IInv, TypeOK, PendingInv
<1>3. TimersInv' /\ OneTimerPerPeer' /\ SentInv' /\ CreditInv' /\ OneSamplePerRequest'
  BY <1>1 DEF IInv, TimersInv, OneTimerPerPeer, SentInv, CreditInv, OneSamplePerRequest
<1>4. QED
  BY <1>2, <1>3 DEF IInv

LEMMA AcceptAnswerStep ==
  ASSUME IInv, NEW q \in sent, NEW k \in DOMAIN pending,
         NEW size \in {"small", "moderate", "large"}, AcceptAnswer(q, k, size)
  PROVE  IInv'
<1> DEFINE r == pending[k]
           p == Accepted(peers[r.peer], r.t1, size)
           c == [peer |-> r.peer, t1 |-> r.t1, from |-> q.dest]
<1>1. /\ r.peer \in DOMAIN peers /\ peers' = [peers EXCEPT ![r.peer] = p]
      /\ credited' = credited \cup {c}
      /\ pending' = Without(pending, k) /\ r.dest = q.dest
      /\ UNCHANGED <<now, timers, nextId, firing, sent>>
  BY DEF AcceptAnswer, Matched, IsFirstMatch, Matches
<1>2. peers \in Seq(Peer) /\ DOMAIN peers = 1..Len(peers)
  BY LenProperties DEF IInv, TypeOK
<1>3. r \in Request /\ r \in sent
  BY Consume
<1>4. r.peer \in Nat /\ r.t1 \in Nat /\ r.dest \in Addr
  BY <1>3 DEF Request
<1>5. peers[r.peer] \in Peer
  BY <1>1, <1>2, ElementOfSeq
<1>6. /\ p \in Peer /\ p.addr = peers[r.peer].addr
      /\ p.samples = peers[r.peer].samples + 1
  BY <1>4, <1>5, AcceptedType
<1>7. c.peer = r.peer /\ c.t1 = r.t1 /\ c.from = r.dest
  BY <1>1
<1>8. c \in [peer : Nat, t1 : Nat, from : Addr]
  BY <1>1, <1>4
<1>9. c \notin credited
  BY <1>7 DEF IInv, PendingInv
<1> HIDE DEF p, c
<1>10. /\ peers' \in Seq(Peer) /\ Len(peers') = Len(peers) /\ DOMAIN peers' = DOMAIN peers
       /\ \A j \in DOMAIN peers : peers'[j] = IF j = r.peer THEN p ELSE peers[j]
  BY <1>1, <1>2, <1>6, TableUpdate
<1>11. \A j \in DOMAIN peers : peers'[j].addr = peers[j].addr
  BY <1>6, <1>10
<1>12. TimersInv' /\ OneTimerPerPeer' /\ SentInv'
  BY <1>1, <1>10, <1>11, SameAddresses
<1>13. TypeOK'
  BY <1>1, <1>8, <1>10, Consume DEF IInv, TypeOK
<1>14. PendingInv'
  <2> DEFINE w == Without(pending, k)
  <2>1. \A j \in DOMAIN w : /\ w[j] \in sent /\ w[j] # r
                            /\ \A d \in credited : ~(d.peer = w[j].peer /\ d.t1 = w[j].t1)
    BY Consume
  <2>2. \A i, j \in DOMAIN w : w[i] = w[j] => i = j
    BY Consume
  <2> HIDE DEF w
  <2>3. \A j \in DOMAIN w : ~(c.peer = w[j].peer /\ c.t1 = w[j].t1)
    BY <1>3, <1>7, <2>1 DEF IInv, SentInv
  <2>4. pending' = w
    BY <1>1 DEF w
  <2>5. QED
    BY <1>1, <2>1, <2>2, <2>3, <2>4 DEF PendingInv
<1>15. CreditInv'
  <2>1. IsFiniteSet(credited')
    BY <1>1, FS_AddElement DEF IInv, CreditInv
  <2>2. r.dest = peers[r.peer].addr
    BY <1>3 DEF IInv, SentInv
  <2>3. c.from = peers'[c.peer].addr /\ c.peer \in DOMAIN peers'
    BY <1>1, <1>7, <1>10, <1>11, <2>2
  <2>4. QED
    BY <1>1, <1>3, <1>7, <1>10, <1>11, <2>1, <2>3 DEF IInv, CreditInv
<1>16. OneSamplePerRequest'
  <2> SUFFICES ASSUME NEW i \in DOMAIN peers
               PROVE  peers'[i].samples = Cardinality({d \in credited' : d.peer = i})
    BY <1>10 DEF OneSamplePerRequest
  <2> DEFINE mine == {d \in credited : d.peer = i}
  <2>1. peers[i].samples = Cardinality(mine) /\ IsFiniteSet(mine)
    BY FS_Subset DEF IInv, OneSamplePerRequest, CreditInv
  <2>2. CASE i = r.peer
    <3>1. {d \in credited' : d.peer = i} = mine \cup {c}
      BY <1>1, <1>7, <2>2
    <3>2. c \notin mine
      BY <1>9
    <3> HIDE DEF mine
    <3>3. Cardinality(mine \cup {c}) = Cardinality(mine) + 1
      BY <2>1, <3>2, FS_AddElement
    <3>4. QED
      BY <1>6, <1>10, <2>1, <2>2, <3>1, <3>3
  <2>3. CASE i # r.peer
    <3>1. {d \in credited' : d.peer = i} = mine
      BY <1>1, <1>7, <2>3
    <3>2. QED
      BY <1>10, <2>1, <2>3, <3>1
  <2>4. QED
    BY <2>2, <2>3
<1>17. QED
  BY <1>12, <1>13, <1>14, <1>15, <1>16 DEF IInv

LEMMA HandleSymPassiveStep ==
  ASSUME IInv, NEW src \in SymSources, HandleSymPassive(src)
  PROVE  IInv'
<1> DEFINE n == Len(peers) + 1
           p == NewPeer(Flip(src), "SymPassive", EphemeralMin, EphemeralMax, FALSE)
           t == PollTimer(nextId, n, 0)
<1>1. /\ Len(peers) < MaxPeers /\ peers' = Append(peers, p)
      /\ timers' = timers \cup {t} /\ nextId' = nextId + 1
      /\ UNCHANGED <<now, firing, pending, sent, credited>> /\ firing = {}
  BY DEF HandleSymPassive
<1>2. /\ peers \in Seq(Peer) /\ DOMAIN peers = 1..Len(peers) /\ Len(peers) \in Nat
      /\ nextId \in Nat /\ MaxPeers \in Nat
  BY TableAssumption, LenProperties DEF IInv, TypeOK
<1>3. Flip(src) \in Addr
  BY AddrAssumption
<1>4. p \in Peer /\ p.samples = 0
  BY <1>3, PollAssumption, ReachAssumption DEF NewPeer, Peer, Mode
<1>5. t \in Timer /\ t.id = nextId /\ t.peer = n /\ t.due = 0 /\ t.every = 0
  BY <1>2 DEF PollTimer, Timer
<1> HIDE DEF p, t
<1>6. /\ peers' \in Seq(Peer) /\ Len(peers') = n /\ DOMAIN peers' = 1..n
      /\ \A i \in DOMAIN peers : peers'[i] = peers[i]
      /\ peers'[n] = p
  BY <1>1, <1>2, <1>4, AppendProperties, LenProperties
<1>7. DOMAIN peers \subseteq DOMAIN peers' /\ n \notin DOMAIN peers /\ n \in Nat \ {0}
  BY <1>2, <1>6
<1>8. \A e \in timers : e.peer # n
  BY <1>2 DEF IInv, TimersInv
<1>9. TypeOK'
  BY <1>1, <1>2, <1>5, <1>6 DEF IInv, TypeOK
<1>10. TimersInv'
  BY <1>1, <1>2, <1>5, <1>6, <1>7 DEF IInv, TypeOK, TimersInv, Timer
<1>11. OneTimerPerPeer'
  <2> SUFFICES ASSUME NEW i \in 1..n
               PROVE  \E f \in timers' : f.peer = i /\ \A g \in timers' : g.peer = i => g = f
    BY <1>1, <1>6 DEF OneTimerPerPeer
  <2>1. CASE i = n
    BY <1>1, <1>5, <1>8, <2>1
  <2>2. CASE i # n
    <3>1. i \in DOMAIN peers
      BY <1>2, <2>2
    <3>2. PICK f \in timers : f.peer = i /\ \A g \in timers : g.peer = i => g = f
      BY <1>1, <3>1 DEF IInv, OneTimerPerPeer
    <3>3. QED
      BY <1>1, <1>5, <2>2, <3>2
  <2>3. QED
    BY <2>1, <2>2
<1>12. SentInv'
  <2>1. \A q \in sent : q.peer # n
    BY <1>7 DEF IInv, SentInv
  <2>2. QED
    BY <1>1, <1>5, <1>6, <1>7, <2>1 DEF IInv, SentInv
<1>13. PendingInv'
  BY <1>1 DEF IInv, PendingInv
<1>14. CreditInv'
  BY <1>1, <1>6, <1>7 DEF IInv, CreditInv
<1>15. OneSamplePerRequest'
  <2> SUFFICES ASSUME NEW i \in DOMAIN peers'
               PROVE  peers'[i].samples = Cardinality({d \in credited : d.peer = i})
    BY <1>1 DEF OneSamplePerRequest
  <2>1. CASE i \in DOMAIN peers
    BY <1>6, <2>1 DEF IInv, OneSamplePerRequest
  <2>2. CASE i = n
    <3>1. {d \in credited : d.peer = i} = {}
      BY <1>7, <2>2 DEF IInv, CreditInv
    <3>2. QED
      BY <1>4, <1>6, <2>2, <3>1, FS_EmptySet
  <2>3. QED
    BY <1>2, <1>6, <2>1, <2>2
<1>16. QED
  BY <1>9, <1>10, <1>11, <1>12, <1>13, <1>14, <1>15 DEF IInv
------------------------------------------------------------------------------
(* The theorems. *)

LEMMA NextIInv == IInv /\ [Next]_vars => IInv'
<1> SUFFICES ASSUME IInv, [Next]_vars PROVE IInv'
  OBVIOUS
<1>1. CASE AdvanceTime
  BY <1>1, AdvanceTimeStep
<1>2. CASE TickBegin
  BY <1>2, TickBeginStep
<1>3. ASSUME NEW e \in firing, TickPoll(e) PROVE IInv'
  BY <1>3, TickPollStep
<1>4. ASSUME NEW e \in firing, TickReach(e) PROVE IInv'
  BY <1>4, TickReachStep
<1>5. ASSUME NEW q \in sent, NEW k \in DOMAIN pending,
             NEW size \in {"small", "moderate", "large"}, AcceptAnswer(q, k, size)
      PROVE  IInv'
  BY <1>5, AcceptAnswerStep
<1>6. ASSUME NEW q \in sent, NEW k \in DOMAIN pending, RefuseAnswer(q, k) PROVE IInv'
  BY <1>6, RefuseAnswerStep
<1>7. ASSUME NEW q \in sent, NEW k \in DOMAIN pending, CrazyAnswer(q, k) PROVE IInv'
  BY <1>7, CrazyAnswerStep
<1>8. ASSUME NEW q \in sent, IgnoreAnswer(q) PROVE IInv'
  BY <1>8, StutterStep DEF IgnoreAnswer
<1>9. ASSUME NEW src \in SymSources, HandleSymPassive(src) PROVE IInv'
  BY <1>9, HandleSymPassiveStep
<1>10. CASE UNCHANGED vars
  BY <1>10, StutterStep
<1>11. QED
  BY <1>1, <1>2, <1>3, <1>4, <1>5, <1>6, <1>7, <1>8, <1>9, <1>10
  DEF Next, HandleServerResponse

THEOREM Invariance == Spec => []IInv
<1>1. QED
  BY InitIInv, NextIInv, PTL DEF Spec

\* Every reachable state of the engine, for every configuration, cap and
\* interval, is well typed: exponents stay in range, tables and queues within
\* their caps.
THEOREM TypeCorrect == Spec => []TypeOK
BY Invariance, PTL DEF IInv

\* However polls, answers and mode-2 packets interleave, an association
\* keeps exactly one poll timer.
THEOREM OneTimer == Spec => []OneTimerPerPeer
BY Invariance, PTL DEF IInv

\* However often and however late requests are answered, the clock filter of
\* an association takes one sample per credited request.
THEOREM NoDoubleCredit == Spec => []OneSamplePerRequest
BY Invariance, PTL DEF IInv

\* An association is credited only with answers of its own server to its own
\* requests.
THEOREM NoCrossTalk == Spec => []CreditedByOwnServer
<1>1. IInv => CreditedByOwnServer
  BY DEF IInv, CreditInv, CreditedByOwnServer
<1>2. QED
  BY Invariance, <1>1, PTL
------------------------------------------------------------------------------
(* The refinement. *)

Open(s) == {<<s[k].peer, s[k].t1>> : k \in DOMAIN s}
Filled(ps) == [i \in 1..MaxPeers |-> IF i \in DOMAIN ps THEN ps[i].samples ELSE 0]

\* Taking entry k out of the queue closes just its question.
LEMMA OpenWithout ==
  ASSUME IInv, NEW k \in DOMAIN pending
  PROVE  Open(Without(pending, k)) = Open(pending) \ {<<pending[k].peer, pending[k].t1>>}
<1> DEFINE w == Without(pending, k)
           question(r) == <<r.peer, r.t1>>
<1>1. /\ pending \in Seq(Request) /\ Len(pending) \in Nat
      /\ DOMAIN pending = 1..Len(pending)
  BY LenProperties DEF IInv, TypeOK
<1>2. /\ DOMAIN w = 1..(Len(pending) - 1)
      /\ \A j \in DOMAIN w : w[j] = IF j < k THEN pending[j] ELSE pending[j + 1]
  BY <1>1, WithoutLemma
<1>3. \A j \in DOMAIN w : w[j] \in sent /\ w[j] # pending[k]
  BY Consume
<1>4. pending[k] \in sent
  BY Consume
<1> HIDE DEF w
<1>5. ASSUME NEW j \in DOMAIN w PROVE question(w[j]) \in Open(pending) \ {question(pending[k])}
  <2>1. question(w[j]) # question(pending[k])
    BY <1>3, <1>4 DEF IInv, SentInv
  <2>2. CASE j < k
    BY <1>1, <1>2, <2>1, <2>2 DEF Open
  <2>3. CASE ~(j < k)
    <3>1. j + 1 \in DOMAIN pending /\ w[j] = pending[j + 1]
      BY <1>1, <1>2, <2>3
    <3>2. QED
      BY <2>1, <3>1 DEF Open
  <2>4. QED
    BY <2>2, <2>3
<1>6. ASSUME NEW j \in DOMAIN pending, j # k PROVE question(pending[j]) \in Open(w)
  <2>1. CASE j < k
    BY <1>1, <1>2, <2>1 DEF Open
  <2>2. CASE ~(j < k)
    <3>1. j - 1 \in DOMAIN w /\ ~(j - 1 < k) /\ (j - 1) + 1 = j
      BY <1>1, <1>2, <1>6, <2>2
    <3>2. w[j - 1] = pending[j]
      BY <1>2, <3>1
    <3>3. QED
      BY <3>1, <3>2 DEF Open
  <2>3. QED
    BY <2>1, <2>2
<1>7. Open(w) \subseteq Open(pending) \ {question(pending[k])}
  BY <1>5 DEF Open
<1>8. Open(pending) \ {question(pending[k])} \subseteq Open(w)
  BY <1>6 DEF Open
<1>9. QED
  BY <1>7, <1>8 DEF w

LEMMA LedgerInit == Init => Ledger!Init
<1> SUFFICES ASSUME Init PROVE Ledger!Init
  OBVIOUS
<1>1. IInv
  BY InitIInv
<1>2. {<<pending[k].peer, pending[k].t1>> : k \in DOMAIN pending} = {}
  BY EmptySeq DEF Init
<1>3. {<<c.peer, c.t1>> : c \in credited} = {}
  BY DEF Init
<1>4. \A i \in DOMAIN peers : peers[i].samples = 0
  <2> SUFFICES ASSUME NEW i \in DOMAIN peers PROVE peers[i].samples = 0
    OBVIOUS
  <2>1. {c \in credited : c.peer = i} = {}
    BY DEF Init
  <2>2. QED
    BY <1>1, <2>1, FS_EmptySet DEF IInv, OneSamplePerRequest
<1>5. [i \in 1..MaxPeers |-> IF i \in DOMAIN peers THEN peers[i].samples ELSE 0]
         = [i \in 1..MaxPeers |-> 0]
  BY <1>4
<1>6. QED
  BY <1>2, <1>3, <1>5 DEF Ledger!Init

\* Sending a poll asks a question; one that falls out of the queue is given up.
LEMMA AskStep ==
  ASSUME IInv, NEW e \in firing, TickPoll(e)
  PROVE  Ledger!Ask
<1> DEFINE p == peers[e.peer]
           q == [peer |-> e.peer, t1 |-> now, dest |-> p.addr,
                 expect |-> IF p.hmode = "SymActive" THEN "SymPassive" ELSE "Server"]
           long == Append(pending, q)
           asked == <<e.peer, now>>
           answered == {<<c.peer, c.t1>> : c \in credited}
<1>1. /\ e.peer \in Nat \ {0} /\ e.peer <= Len(peers) /\ Len(peers) <= MaxPeers
      /\ now \in Start..MaxTime
      /\ DOMAIN peers = 1..Len(peers) /\ Len(peers) \in Nat /\ e.peer \in DOMAIN peers
  BY LenProperties DEF IInv, TypeOK, TimersInv, Timer, TickPoll
<1>2. pending' = DropFirst(long) /\ UNCHANGED <<peers, credited>>
  BY <1>1 DEF TickPoll
<1>3. p \in Peer
  BY <1>1, ElementOfSeq DEF IInv, TypeOK
<1>4. q \in Request /\ q.peer = e.peer /\ q.t1 = now
  BY <1>1, <1>3, TimeAssumption DEF Request, Peer
<1> HIDE DEF p, q
<1>5. /\ long \in Seq(Request) /\ Len(long) = Len(pending) + 1
      /\ DOMAIN long = 1..(Len(pending) + 1) /\ Len(pending) \in Nat
      /\ DOMAIN pending = 1..Len(pending) /\ Len(pending) <= PendingCap
      /\ \A k \in 1..Len(pending) : long[k] = pending[k]
      /\ long[Len(pending) + 1] = q
  BY <1>4, AppendProperties, LenProperties DEF IInv, TypeOK
<1> HIDE DEF long
<1>6. \A r \in sent : r.peer = e.peer => r.t1 < now
  <2>1. e.due <= now
    BY DEF IInv, TimersInv
  <2>2. QED
    BY <1>1, <2>1, TimeAssumption DEF IInv, SentInv, TypeOK, Timer, Request
<1>7. asked \notin Open(pending) /\ asked \notin answered
  <2>1. asked \notin Open(pending)
    <3> SUFFICES ASSUME NEW k \in DOMAIN pending, asked = <<pending[k].peer, pending[k].t1>>
                 PROVE  FALSE
      BY DEF Open
    <3>1. pending[k] \in sent /\ pending[k].t1 \in Nat
      BY Consume DEF Request
    <3>2. QED
      BY <1>1, <1>6, <3>1, TimeAssumption
  <2>2. asked \notin answered
    <3> SUFFICES ASSUME NEW c \in credited, asked = <<c.peer, c.t1>> PROVE FALSE
      OBVIOUS
    <3>1. PICK r \in sent : r.peer = c.peer /\ r.t1 = c.t1
      BY DEF IInv, CreditInv
    <3>2. r.t1 \in Nat
      BY DEF IInv, TypeOK, Request
    <3>3. QED
      BY <1>1, <1>6, <3>1, <3>2, TimeAssumption
  <2>3. QED
    BY <2>1, <2>2
<1>8. Open(pending') \subseteq Open(pending) \cup {asked} /\ asked \in Open(pending')
  <2>1. \A k \in DOMAIN long : <<long[k].peer, long[k].t1>> \in Open(pending) \cup {asked}
    BY <1>4, <1>5 DEF Open
  <2>2. CASE Len(long) > PendingCap
    <3>1. pending' = Tail(long) /\ long # <<>>
      BY <1>2, <1>5, <2>2, PendingAssumption, EmptySeq DEF DropFirst
    <3>2. /\ Len(Tail(long)) = Len(pending) /\ DOMAIN Tail(long) = 1..Len(pending)
          /\ \A k \in 1..Len(pending) : Tail(long)[k] = long[k + 1]
      BY <1>5, <3>1, HeadTailProperties, LenProperties
    <3>3. Len(pending) >= 1
      BY <1>5, <2>2, PendingAssumption
    <3>4. \A k \in DOMAIN pending' : pending'[k] = long[k + 1] /\ k + 1 \in DOMAIN long
      BY <1>5, <3>1, <3>2
    <3>5. Len(pending) \in DOMAIN pending' /\ pending'[Len(pending)] = q
      BY <1>5, <3>1, <3>2, <3>3
    <3>6. QED
      BY <1>4, <2>1, <3>4, <3>5 DEF Open
  <2>3. CASE ~(Len(long) > PendingCap)
    <3>1. pending' = long
      BY <1>2, <2>3 DEF DropFirst
    <3>2. Len(pending) + 1 \in DOMAIN long
      BY <1>5
    <3>3. QED
      BY <1>4, <1>5, <2>1, <3>1, <3>2 DEF Open
  <2>4. QED
    BY <2>2, <2>3
<1>9. asked \in (1..MaxPeers) \X (Start..MaxTime)
  BY <1>1, TableAssumption
<1> DEFINE given == Open(pending) \ Open(pending')
<1>10. Open(pending') = (Open(pending) \cup {asked}) \ given /\ given \in SUBSET Open(pending)
  BY <1>7, <1>8
<1> HIDE DEF given, asked
<1>11. \E g \in SUBSET Open(pending) : Open(pending') = (Open(pending) \cup {asked}) \ g
  BY <1>10
<1>12. QED
  BY <1>2, <1>7, <1>9, <1>11 DEF Ledger!Ask, Ledger!Question, Open

\* Accepting an answer answers its question: one sample more.
LEMMA AnswerStep ==
  ASSUME IInv, NEW q \in sent, NEW k \in DOMAIN pending,
         NEW size \in {"small", "moderate", "large"}, AcceptAnswer(q, k, size)
  PROVE  Ledger!Answer
<1> DEFINE r == pending[k]
           p == Accepted(peers[r.peer], r.t1, size)
           c == [peer |-> r.peer, t1 |-> r.t1, from |-> q.dest]
           question == <<r.peer, r.t1>>
<1>1. /\ r.peer \in DOMAIN peers /\ peers' = [peers EXCEPT ![r.peer] = p]
      /\ credited' = credited \cup {c}
      /\ pending' = Without(pending, k)
  BY DEF AcceptAnswer, Matched
<1>2. /\ peers \in Seq(Peer) /\ DOMAIN peers = 1..Len(peers)
      /\ Len(peers) <= MaxPeers /\ Len(peers) \in Nat /\ MaxPeers \in Nat
  BY LenProperties, TableAssumption DEF IInv, TypeOK
<1>3. r \in Request /\ peers[r.peer] \in Peer
  BY <1>1, <1>2, Consume, ElementOfSeq
<1>4. p \in Peer /\ p.samples = peers[r.peer].samples + 1
  BY <1>3, AcceptedType DEF Request
<1>5. c.peer = r.peer /\ c.t1 = r.t1
  OBVIOUS
<1> HIDE DEF p, c
<1>6. /\ DOMAIN peers' = DOMAIN peers
      /\ \A j \in DOMAIN peers : peers'[j] = IF j = r.peer THEN p ELSE peers[j]
  BY <1>1, <1>2, <1>4, TableUpdate
<1>7. question \in Open(pending) /\ question[1] = r.peer
  BY DEF Open
<1>8. Open(pending') = Open(pending) \ {question}
  BY <1>1, OpenWithout
<1>9. {<<d.peer, d.t1>> : d \in credited'} = {<<d.peer, d.t1>> : d \in credited} \cup {question}
  BY <1>1, <1>5
<1>10. Filled(peers') = [Filled(peers) EXCEPT ![r.peer] = @ + 1]
  <2>1. r.peer \in 1..MaxPeers
    BY <1>1, <1>2
  <2>2. \A i \in 1..MaxPeers :
           Filled(peers')[i] = [Filled(peers) EXCEPT ![r.peer] = @ + 1][i]
    BY <1>1, <1>4, <1>6, <2>1 DEF Filled
  <2>3. QED
    BY <2>2 DEF Filled
<1> HIDE DEF question
<1>11. QED
  BY <1>7, <1>8, <1>9, <1>10 DEF Ledger!Answer, Open, Filled

\* A refusal or an unusable answer gives its question up.
LEMMA ForgetStep ==
  ASSUME IInv, NEW q \in sent, NEW k \in DOMAIN pending,
         RefuseAnswer(q, k) \/ CrazyAnswer(q, k)
  PROVE  Ledger!Forget
<1> DEFINE question == <<pending[k].peer, pending[k].t1>>
<1>1. pending' = Without(pending, k) /\ UNCHANGED credited
  BY DEF RefuseAnswer, CrazyAnswer
<1>2. question \in Open(pending)
  BY DEF Open
<1>3. Open(pending') = Open(pending) \ {question}
  BY <1>1, OpenWithout
<1>4. Filled(peers') = Filled(peers)
  <2>1. CASE CrazyAnswer(q, k)
    BY <2>1 DEF CrazyAnswer
  <2>2. CASE RefuseAnswer(q, k)
    <3> DEFINE i == pending[k].peer
               p == [peers[i] EXCEPT !.reach = ShiftIn(@, 0)]
    <3>1. i \in DOMAIN peers /\ peers' = [peers EXCEPT ![i] = p]
      BY <2>2 DEF RefuseAnswer, Matched
    <3>2. peers \in Seq(Peer) /\ peers[i] \in Peer
      BY <3>1, ElementOfSeq, LenProperties DEF IInv, TypeOK
    <3>3. p.samples = peers[i].samples
      BY <3>2 DEF Peer
    <3> HIDE DEF p, i
    <3>4. DOMAIN peers' = DOMAIN peers /\ \A j \in DOMAIN peers : peers'[j].samples = peers[j].samples
      BY <3>1, <3>3
    <3>5. QED
      BY <3>4 DEF Filled
  <2>3. QED
    BY <2>1, <2>2
<1> HIDE DEF question
<1>5. QED
  BY <1>1, <1>2, <1>3, <1>4 DEF Ledger!Forget, Open, Filled

\* The other steps change no question and no sample.
LEMMA QuietStep ==
  ASSUME IInv, UNCHANGED <<pending, credited>>, Filled(peers') = Filled(peers)
  PROVE  UNCHANGED Ledger!vars
BY DEF Ledger!vars, Filled

LEMMA QuietReach ==
  ASSUME IInv, NEW e \in firing, TickReach(e)
  PROVE  UNCHANGED Ledger!vars
<1>1. \A i \in DOMAIN peers : peers[i] \in Peer
  BY ElementOfSeq, LenProperties DEF IInv, TypeOK
<1>2. \A i \in DOMAIN peers : [peers[i] EXCEPT !.reach = ShiftIn(@, 0)].samples = peers[i].samples
  BY <1>1 DEF Peer
<1>3. Filled(peers') = Filled(peers)
  BY <1>2 DEF Filled, TickReach
<1>4. QED
  BY <1>3, QuietStep DEF TickReach

LEMMA QuietSymPassive ==
  ASSUME IInv, NEW src \in SymSources, HandleSymPassive(src)
  PROVE  UNCHANGED Ledger!vars
<1> DEFINE p == NewPeer(Flip(src), "SymPassive", EphemeralMin, EphemeralMax, FALSE)
<1>1. peers' = Append(peers, p) /\ p.samples = 0
  BY DEF HandleSymPassive, NewPeer
<1> HIDE DEF p
<1>2. /\ DOMAIN peers = 1..Len(peers) /\ DOMAIN peers' = 1..(Len(peers) + 1)
      /\ Len(peers) \in Nat
      /\ \A i \in DOMAIN peers : peers'[i] = peers[i]
      /\ peers'[Len(peers) + 1] = p
  <2>1. peers \in Seq(Peer)
    BY DEF IInv, TypeOK
  <2>2. p \in Peer
    BY AddrAssumption, PollAssumption, ReachAssumption DEF p, NewPeer, Peer, Mode
  <2>3. QED
    BY <1>1, <2>1, <2>2, AppendProperties, LenProperties
<1>3. Filled(peers') = Filled(peers)
  BY <1>1, <1>2 DEF Filled
<1>4. QED
  BY <1>3, QuietStep DEF HandleSymPassive

LEMMA LedgerStep == IInv /\ [Next]_vars => [Ledger!Next]_(Ledger!vars)
<1> SUFFICES ASSUME IInv, [Next]_vars PROVE Ledger!Next \/ UNCHANGED Ledger!vars
  OBVIOUS
<1> USE DEF Ledger!Next
<1>1. CASE AdvanceTime \/ TickBegin \/ UNCHANGED vars \/ \E q \in sent : IgnoreAnswer(q)
  BY <1>1, QuietStep DEF AdvanceTime, TickBegin, vars, IgnoreAnswer
<1>2. ASSUME NEW e \in firing, TickPoll(e) PROVE Ledger!Next
  BY <1>2, AskStep
<1>3. ASSUME NEW e \in firing, TickReach(e) PROVE UNCHANGED Ledger!vars
  BY <1>3, QuietReach
<1>4. ASSUME NEW q \in sent, NEW k \in DOMAIN pending,
             NEW size \in {"small", "moderate", "large"}, AcceptAnswer(q, k, size)
      PROVE  Ledger!Next
  BY <1>4, AnswerStep
<1>5. ASSUME NEW q \in sent, NEW k \in DOMAIN pending, RefuseAnswer(q, k) \/ CrazyAnswer(q, k)
      PROVE  Ledger!Next
  BY <1>5, ForgetStep
<1>6. ASSUME NEW src \in SymSources, HandleSymPassive(src) PROVE UNCHANGED Ledger!vars
  BY <1>6, QuietSymPassive
<1>7. QED
  BY <1>1, <1>2, <1>3, <1>4, <1>5, <1>6 DEF Next, HandleServerResponse

\* The poll exchange, timers, queue cap and all, implements the ledger: every
\* poll is a question nobody asked before, every sample the only answer to an
\* open question.
THEOREM Refinement == Spec => RefinesLedger
<1>1. Spec => []IInv
  BY Invariance
<1>2. QED
  BY LedgerInit, LedgerStep, <1>1, PTL DEF Spec, RefinesLedger, Ledger!Spec
==============================================================================

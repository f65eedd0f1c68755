------------------------ MODULE ControlSession_proofs ------------------------
(***************************************************************************)
(* Proofs about ControlSession and the ServerDispatch it extends, for every *)
(* set of sources, restriction lists, key rings, packets and messages and   *)
(* every bound: association ids are fresh, the counters balance, writes are *)
(* authenticated, and a nonce opens the monitoring list once.               *)
(***************************************************************************)
EXTENDS ControlSession, TLAPS, FiniteSetTheorems, SequenceTheorems

------------------------------------------------------------------------------
(* The inductive invariant. *)

\* The rows of the association table and its counter keep their types.
TableInv == /\ peers \in Seq([associd : 1..MaxId, src : Sources,
                              hmode : {"Client", "SymPassive"}, configured : BOOLEAN,
                              reach : BOOLEAN, stratum : {1, MaxStrat},
                              flash : SUBSET {"TEST9"}])
            /\ nextId \in 0..MaxId

CountersInv == counters \in [Counters -> Nat] /\ idle \in Nat

\* What the draws and the cache know of each other: a cached nonce was drawn,
\* at the time it carries, and has opened nothing yet.
DrawnInv == /\ now \in Nat
            /\ drawn \in Seq(Nat)
            /\ \A k \in DOMAIN drawn : drawn[k] <= now

CacheInv == /\ IsFiniteSet(nonces)
            /\ \A n \in nonces : /\ n.id \in DOMAIN drawn
                                 /\ n = [id |-> n.id, created |-> drawn[n.id]]
                                 /\ \A o \in opened : o.id # n.id

OpenedInv == \A o \in opened : o.id \in DOMAIN drawn

NonceInv == DrawnInv /\ CacheInv /\ OpenedInv /\ NonceOnce

IInv == /\ TableInv /\ AssocIdFresh
        /\ CountersInv /\ CountersBalance
        /\ NonceInv /\ WritesAreAuthenticated
        /\ traffic \subseteq Datagrams \cup Messages
------------------------------------------------------------------------------
(* Lemmas about the operators. *)

\* Every nonempty set of naturals has a least element.
LEMMA LeastNat ==
  ASSUME NEW S \in SUBSET Nat, S # {}
  PROVE  \E k \in S : \A j \in S : k <= j
<1>1. PICK k \in S : \A j \in S : <<j, k>> \notin OpToRel(<, Nat)
  BY NatLessThanWellFounded, WFMin
<1>2. ASSUME NEW j \in S PROVE ~(j < k)
  <2>1. j < k => <<j, k>> \in OpToRel(<, Nat)
    BY DEF OpToRel
  <2>2. QED
    BY <1>1, <2>1
<1>3. QED
  BY <1>2

\* allocate_associd gives an id that is not in use, or none, and leaves its
\* counter on a valid id, wherever the counter stood.
LEMMA FreshId ==
  ASSUME NEW next \in 0..MaxId, NEW used
  PROVE  LET r == AllocateAssocId(next, used) IN
         /\ r.next \in 1..MaxId
         /\ r.id # 0 => r.id \in (1..MaxId) \ used
<1> DEFINE start == IF next = 0 THEN 1 ELSE next
           Cand(k) == ((start - 1 + k) % MaxId) + 1
           hits == {k \in 0..(MaxId - 1) : Cand(k) \notin used}
           first == CHOOSE k \in hits : \A j \in hits : k <= j
<1>1. start \in 1..MaxId /\ MaxId \in Nat \ {0}
  BY AssocIdAssumption
<1>2. ASSUME NEW k \in Nat PROVE Cand(k) \in 1..MaxId
  <2>1. start - 1 + k \in Nat
    BY <1>1
  <2>2. (start - 1 + k) % MaxId \in 0..(MaxId - 1)
    BY <1>1, <2>1
  <2>3. QED
    BY <1>1, <2>2
<1>3. AllocateAssocId(next, used) = IF hits = {} THEN [id |-> 0, next |-> start]
                                    ELSE [id |-> Cand(first), next |-> Cand(first + 1)]
  BY DEF AllocateAssocId
<1>4. CASE hits = {}
  BY <1>1, <1>3, <1>4
<1>5. CASE hits # {}
  <2>1. hits \in SUBSET Nat
    BY <1>1
  <2>2. \E k \in hits : \A j \in hits : k <= j
    BY <1>5, <2>1, LeastNat
  <2>3. first \in hits
    BY <2>2
  <2> HIDE DEF first, Cand
  <2>4. first \in 0..(MaxId - 1) /\ Cand(first) \notin used
    BY <2>3
  <2>5. first \in Nat /\ first + 1 \in Nat
    BY <1>1, <2>4
  <2>6. Cand(first) \in 1..MaxId /\ Cand(first + 1) \in 1..MaxId
    BY <1>2, <2>5
  <2> HIDE DEF hits, start
  <2>7. QED
    BY <1>3, <1>5, <2>4, <2>6
<1>6. QED
  BY <1>4, <1>5

\* What becomes of a packet: one counter of outcomes, kodsent only next to
\* the two refusals that may send one, and no counter for mode 0 alone.
LEMMA OutcomeBumps ==
  ASSUME NEW d \in Datagrams
  PROVE  LET b == Outcome(d).bump
             idles == d.mode = "Reserved" /\ ReachesMode(d)
         IN \/ /\ idles
               /\ b = {}
            \/ /\ ~idles
               /\ b \in {{"rejected"}, {"restricted"}, {"limited"}, {"declined"}, {"received"},
                         {"restricted", "kodsent"}, {"limited", "kodsent"}}
<1> DEFINE Modes == {"Reserved", "SymActive", "SymPassive", "Client", "Server", "Broadcast",
                     "Private"}
           action == RestrictAction(list, d.src, d.mode)
<1>1. d.mode \in Modes
  BY ServerAssumption
<1>2. action \in {"Ignore", "Discard", "SendKod", "Accept"}
  BY DEF RestrictAction
<1>3. ModeOutcome(d).bump \in {{"declined"}, {"received"}, {"rejected"}, {}}
      /\ (ModeOutcome(d).bump = {} <=> d.mode = "Reserved")
  BY <1>1 DEF ModeOutcome
<1>4. CASE d.short \/ d.looped
  BY <1>4 DEF Outcome, ReachesMode
<1>5. CASE ~d.short /\ ~d.looped /\ action # "Accept"
  BY <1>2, <1>5 DEF Outcome, ReachesMode
<1>6. CASE ~d.short /\ ~d.looped /\ action = "Accept"
  <2>1. CASE d.mode \in {"Client", "SymActive"} /\ IsRateLimited(mru, Flip[d.src])
    <3>1. Outcome(d).bump = {"limited"} \cup (IF "KOD" \in Evaluate(list, d.src)
                                            THEN {"kodsent"} ELSE {})
      BY <1>6, <2>1 DEF Outcome
    <3>2. QED
      BY <2>1, <3>1
  <2>2. CASE ~(d.mode \in {"Client", "SymActive"} /\ IsRateLimited(mru, Flip[d.src]))
    <3>1. Outcome(d) = ModeOutcome(d)
      BY <1>6, <2>2 DEF Outcome
    <3>2. QED
      BY <1>3, <1>6, <3>1 DEF ReachesMode
  <2>3. QED
    BY <2>1, <2>2
<1>7. QED
  BY <1>4, <1>5, <1>6

------------------------------------------------------------------------------
(* Association ids: every step keeps the table's type and its ids apart.   *)

LEMMA TableKept ==
  ASSUME TableInv, AssocIdFresh, UNCHANGED <<peers, nextId>>
  PROVE  TableInv' /\ AssocIdFresh'
BY DEF TableInv, AssocIdFresh

\* Ids that stay where they are stay apart.
LEMMA SameIds ==
  ASSUME AssocIdFresh, DOMAIN peers' = DOMAIN peers,
         \A j \in DOMAIN peers : peers'[j].associd = peers[j].associd
  PROVE  AssocIdFresh'
BY DEF AssocIdFresh

LEMMA TableInit == Init => TableInv /\ AssocIdFresh
<1> SUFFICES ASSUME Init PROVE TableInv /\ AssocIdFresh
  OBVIOUS
<1> DEFINE T == [associd : 1..MaxId, src : Sources, hmode : {"Client", "SymPassive"},
                 configured : BOOLEAN, reach : BOOLEAN, stratum : {1, MaxStrat},
                 flash : SUBSET {"TEST9"}]
           row(i) == [associd |-> i, src |-> Configured[i], hmode |-> "Client",
                      configured |-> TRUE, reach |-> FALSE, stratum |-> MaxStrat, flash |-> {}]
<1>1. Configured \in Seq(Sources) /\ Len(Configured) \in Nat /\ Len(Configured) <= MaxId
      /\ DOMAIN Configured = 1..Len(Configured) /\ MaxId \in Nat \ {0}
  BY ServerAssumption, AssocIdAssumption, LenProperties
<1>2. \A i \in 1..Len(Configured) : row(i) \in T
  BY <1>1, ElementOfSeq
<1>3. peers = [i \in 1..Len(Configured) |-> row(i)]
  BY <1>1 DEF Init
<1> HIDE DEF row
<1>4. peers \in Seq(T) /\ DOMAIN peers = 1..Len(Configured)
  BY <1>1, <1>2, <1>3, IsASeq
<1>5. (Len(Configured) % MaxId) + 1 \in 0..MaxId
  <2>1. Len(Configured) % MaxId \in 0..(MaxId - 1)
    BY <1>1
  <2>2. QED
    BY <1>1, <2>1
<1>6. TableInv
  BY <1>4, <1>5 DEF TableInv, Init
<1>7. \A i \in DOMAIN peers : peers[i].associd = i
  BY <1>3, <1>4 DEF row
<1>8. AssocIdFresh
  BY <1>1, <1>4, <1>7 DEF AssocIdFresh
<1>9. QED
  BY <1>6, <1>8

LEMMA TableStep ==
  ASSUME TableInv, AssocIdFresh, NEW d \in Datagrams, PeersAfter(d)
  PROVE  TableInv' /\ AssocIdFresh'
<1> DEFINE given == AllocateAssocId(nextId, UsedIds)
           T == [associd : 1..MaxId, src : Sources, hmode : {"Client", "SymPassive"},
                 configured : BOOLEAN, reach : BOOLEAN, stratum : {1, MaxStrat},
                 flash : SUBSET {"TEST9"}]
           new == [associd |-> given.id, src |-> Flip[d.src], hmode |-> "SymPassive",
                   configured |-> FALSE, reach |-> FALSE, stratum |-> MaxStrat, flash |-> {}]
<1>1. given.next \in 1..MaxId /\ (given.id # 0 => given.id \in (1..MaxId) \ UsedIds)
  BY FreshId DEF TableInv
<1>2. nextId' \in 0..MaxId
  BY <1>1 DEF PeersAfter, TableInv
<1>3. CASE peers' = peers
  BY <1>2, <1>3 DEF TableInv, AssocIdFresh
<1>4. CASE given.id # 0 /\ peers' = Append(peers, new)
  <2>1. Flip[d.src] \in Sources
    BY ServerAssumption
  <2> HIDE DEF given
  <2>2. new \in T
    BY <1>1, <1>4, <2>1
  <2>3. peers \in Seq(T)
    BY DEF TableInv
  <2>4. /\ peers' \in Seq(T) /\ Len(peers') = Len(peers) + 1
        /\ \A i \in 1..Len(peers) : peers'[i] = peers[i]
        /\ peers'[Len(peers) + 1] = new
        /\ Len(peers) \in Nat /\ DOMAIN peers = 1..Len(peers) /\ DOMAIN peers' = 1..(Len(peers) + 1)
    BY <1>4, <2>2, <2>3, AppendProperties, LenProperties
  <2>5. \A i \in DOMAIN peers : peers[i].associd # new.associd
    BY <1>1, <1>4 DEF UsedIds
  <2>6. new.associd \in 1..MaxId
    BY <2>2
  <2> HIDE DEF new
  <2>7. AssocIdFresh'
    <3>1. \A j \in DOMAIN peers' : \/ j \in DOMAIN peers /\ peers'[j] = peers[j]
                                   \/ j = Len(peers) + 1 /\ peers'[j] = new
      <4> TAKE j \in DOMAIN peers'
      <4>1. j \in 1..Len(peers) \/ j = Len(peers) + 1
        BY <2>4
      <4>2. j \in 1..Len(peers) => j \in DOMAIN peers /\ peers'[j] = peers[j]
        BY <2>4
      <4>3. j = Len(peers) + 1 => peers'[j] = new
        BY <2>4
      <4>4. QED
        BY <4>1, <4>2, <4>3
    <3>2. \A j \in DOMAIN peers' : peers'[j].associd \in 1..MaxId
      BY <2>6, <3>1 DEF AssocIdFresh
    <3>3. \A i, j \in DOMAIN peers' : peers'[i].associd = peers'[j].associd => i = j
      BY <2>5, <3>1 DEF AssocIdFresh
    <3>4. QED
      BY <3>2, <3>3 DEF AssocIdFresh
  <2>8. QED
    BY <1>2, <2>4, <2>7 DEF TableInv
<1>5. QED
  BY <1>3, <1>4 DEF PeersAfter

LEMMA TablePeer ==
  ASSUME TableInv, AssocIdFresh, NEW i \in DOMAIN peers, NEW up \in BOOLEAN, PeerChanges(i, up)
  PROVE  TableInv' /\ AssocIdFresh'
<1> DEFINE T == [associd : 1..MaxId, src : Sources, hmode : {"Client", "SymPassive"},
                 configured : BOOLEAN, reach : BOOLEAN, stratum : {1, MaxStrat},
                 flash : SUBSET {"TEST9"}]
           new == [peers[i] EXCEPT !.reach = up, !.stratum = IF up THEN 1 ELSE @]
<1>1. peers \in Seq(T) /\ DOMAIN peers = 1..Len(peers) /\ Len(peers) \in Nat
  BY LenProperties DEF TableInv
<1>2. new \in T /\ new.associd = peers[i].associd
  <2>1. peers[i] \in T
    BY <1>1, ElementOfSeq
  <2>2. (IF up THEN 1 ELSE peers[i].stratum) \in {1, MaxStrat}
    BY <2>1
  <2>3. QED
    BY <2>1, <2>2
<1>3. peers' = [peers EXCEPT ![i] = new]
  BY DEF PeerChanges
<1> HIDE DEF new
<1>4. peers' \in Seq(T) /\ DOMAIN peers' = DOMAIN peers
  BY <1>1, <1>2, <1>3, ExceptSeq
<1>5. \A j \in DOMAIN peers : peers'[j].associd = peers[j].associd
  BY <1>1, <1>2, <1>3
<1>6. AssocIdFresh'
  BY <1>4, <1>5, SameIds
<1>7. QED
  BY <1>4, <1>6 DEF TableInv, PeerChanges

LEMMA TableSelect ==
  ASSUME TableInv, AssocIdFresh, NEW t, Select(t)
  PROVE  TableInv' /\ AssocIdFresh'
<1> DEFINE T == [associd : 1..MaxId, src : Sources, hmode : {"Client", "SymPassive"},
                 configured : BOOLEAN, reach : BOOLEAN, stratum : {1, MaxStrat},
                 flash : SUBSET {"TEST9"}]
           e(i) == Marked(peers[i])
<1>1. peers \in Seq(T) /\ DOMAIN peers = 1..Len(peers) /\ Len(peers) \in Nat
  BY LenProperties DEF TableInv
<1>2. ASSUME NEW i \in 1..Len(peers)
      PROVE  e(i) \in T /\ e(i).associd = peers[i].associd
  <2>1. peers[i] \in T
    BY <1>1, ElementOfSeq
  <2>2. QED
    BY <2>1 DEF Marked
<1>3. peers' = [i \in 1..Len(peers) |-> e(i)] /\ nextId' = nextId
  BY <1>1 DEF Select
<1> HIDE DEF e
<1>4. peers' \in Seq(T) /\ DOMAIN peers' = DOMAIN peers
  BY <1>1, <1>2, <1>3, IsASeq
<1>5. \A j \in DOMAIN peers : peers'[j].associd = peers[j].associd
  BY <1>1, <1>2, <1>3
<1>6. AssocIdFresh'
  BY <1>4, <1>5, SameIds
<1>7. QED
  BY <1>3, <1>4, <1>6 DEF TableInv
------------------------------------------------------------------------------
(* Counters: each packet adds one to both sides. *)

LEMMA CountersKept ==
  ASSUME CountersInv, CountersBalance, UNCHANGED <<counters, idle>>
  PROVE  CountersInv' /\ CountersBalance'
BY DEF CountersInv, CountersBalance, Handled

LEMMA CountersStep ==
  ASSUME CountersInv, CountersBalance, NEW d \in Datagrams, HandlePacket(d)
  PROVE  CountersInv' /\ CountersBalance'
<1> DEFINE b == Outcome(d).bump
           idles == d.mode = "Reserved" /\ ReachesMode(d)
           extra == IF idles THEN 1 ELSE 0
           version == IF d.current THEN "thisver" ELSE "oldver"
           one(c, names) == IF c \in names THEN 1 ELSE 0
<1>1. /\ counters' = Bump(b \cup {version})
      /\ idle' = idle + extra
  BY DEF HandlePacket
<1>2. \A c \in Counters : counters'[c] = counters[c] + one(c, b \cup {version})
  BY <1>1 DEF Bump
<1>3. CountersInv'
  BY <1>1, <1>2 DEF CountersInv, Bump
<1>4. \/ idles /\ b = {}
      \/ ~idles /\ b \in {{"rejected"}, {"restricted"}, {"limited"}, {"declined"}, {"received"},
                          {"restricted", "kodsent"}, {"limited", "kodsent"}}
  BY OutcomeBumps
<1>5. version \in {"thisver", "oldver"}
  OBVIOUS
<1> HIDE DEF b, idles, version
<1>6. one("thisver", b \cup {version}) + one("oldver", b \cup {version}) = 1
  BY <1>4, <1>5
<1>7. /\ one("rejected", b \cup {version}) = one("rejected", b)
      /\ one("restricted", b \cup {version}) = one("restricted", b)
      /\ one("limited", b \cup {version}) = one("limited", b)
      /\ one("badlength", b \cup {version}) = 0
      /\ one("declined", b \cup {version}) = one("declined", b)
      /\ one("received", b \cup {version}) = one("received", b)
      /\ one("kodsent", b \cup {version}) = one("kodsent", b)
  BY <1>4, <1>5
<1>8. /\ one("rejected", b) + one("restricted", b) + one("limited", b) + one("declined", b)
           + one("received", b) + extra = 1
      /\ one("kodsent", b) <= one("restricted", b) + one("limited", b)
  BY <1>4
<1>0. extra \in 0..1
  OBVIOUS
<1>9. \A c \in Counters : /\ counters[c] \in Nat /\ one(c, b) \in 0..1
                         /\ one(c, b \cup {version}) \in 0..1
  BY DEF CountersInv
<1> HIDE DEF one, extra
<1>10. CountersBalance'
  <2>1. /\ counters'["thisver"] = counters["thisver"] + one("thisver", b \cup {version})
        /\ counters'["oldver"] = counters["oldver"] + one("oldver", b \cup {version})
        /\ counters'["rejected"] = counters["rejected"] + one("rejected", b)
        /\ counters'["restricted"] = counters["restricted"] + one("restricted", b)
        /\ counters'["limited"] = counters["limited"] + one("limited", b)
        /\ counters'["badlength"] = counters["badlength"]
        /\ counters'["declined"] = counters["declined"] + one("declined", b)
        /\ counters'["received"] = counters["received"] + one("received", b)
        /\ counters'["kodsent"] = counters["kodsent"] + one("kodsent", b)
    BY <1>2, <1>7, <1>9 DEF Counters
  <2>2. /\ counters["thisver"] \in Nat /\ counters["oldver"] \in Nat
        /\ counters["rejected"] \in Nat /\ counters["restricted"] \in Nat
        /\ counters["limited"] \in Nat /\ counters["badlength"] \in Nat
        /\ counters["declined"] \in Nat /\ counters["received"] \in Nat
        /\ counters["kodsent"] \in Nat /\ idle \in Nat
    BY <1>9 DEF Counters, CountersInv
  <2>3. /\ one("thisver", b \cup {version}) \in 0..1 /\ one("oldver", b \cup {version}) \in 0..1
        /\ one("rejected", b) \in 0..1 /\ one("restricted", b) \in 0..1
        /\ one("limited", b) \in 0..1 /\ one("declined", b) \in 0..1
        /\ one("received", b) \in 0..1 /\ one("kodsent", b) \in 0..1
    BY <1>9 DEF Counters
  <2>4. Handled' = Handled + 1
    BY <1>6, <2>1, <2>2, <2>3 DEF Handled
  <2>5. counters'["kodsent"] <= counters'["restricted"] + counters'["limited"]
    BY <1>8, <2>1, <2>2, <2>3 DEF CountersBalance
  <2>6. counters'["rejected"] + counters'["restricted"] + counters'["limited"]
          + counters'["badlength"] + counters'["declined"] + counters'["received"] + idle'
        = (counters["rejected"] + counters["restricted"] + counters["limited"]
            + counters["badlength"] + counters["declined"] + counters["received"] + idle)
          + (one("rejected", b) + one("restricted", b) + one("limited", b) + one("declined", b)
              + one("received", b) + extra)
    <3>1. idle' = idle + extra
      BY <1>1
    <3>2. counters'["rejected"] + counters'["restricted"] + counters'["limited"]
            = (counters["rejected"] + counters["restricted"] + counters["limited"])
               + (one("rejected", b) + one("restricted", b) + one("limited", b))
      BY <2>1, <2>2, <2>3
    <3>3. counters'["badlength"] + counters'["declined"] + counters'["received"]
            = (counters["badlength"] + counters["declined"] + counters["received"])
              + (one("declined", b) + one("received", b))
      BY <2>1, <2>2, <2>3
    <3>4. /\ counters'["badlength"] \in Int /\ counters'["declined"] \in Int
          /\ counters'["received"] \in Int /\ counters'["rejected"] \in Int
          /\ counters'["restricted"] \in Int /\ counters'["limited"] \in Int
      BY <2>1, <2>2, <2>3
    <3>5. QED
      BY <1>0, <2>2, <2>3, <3>1, <3>2, <3>3, <3>4
  <2>7. Handled \in Nat
    BY <2>2 DEF Handled
  <2>8. counters'["rejected"] + counters'["restricted"] + counters'["limited"]
          + counters'["badlength"] + counters'["declined"] + counters'["received"] + idle'
        = Handled'
    BY <1>8, <2>4, <2>6, <2>7 DEF CountersBalance
  <2>9. QED
    BY <2>5, <2>8 DEF CountersBalance
<1>11. QED
  BY <1>3, <1>10

------------------------------------------------------------------------------
(* Nonces: drawn, cached, used, evicted.                                    *)

LEMMA NonceInit == CInit => NonceInv
<1> SUFFICES ASSUME CInit PROVE NonceInv
  OBVIOUS
<1>1. now = 0 /\ nonces = {} /\ opened = {} /\ drawn = <<>>
  BY DEF CInit, Init
<1>2. drawn \in Seq(Nat) /\ DOMAIN drawn = {}
  BY <1>1
<1>3. QED
  BY <1>1, <1>2, FS_EmptySet DEF NonceInv, DrawnInv, CacheInv, OpenedInv, NonceOnce

LEMMA NoncesKept ==
  ASSUME NonceInv, UNCHANGED <<now, drawn, nonces, opened>>
  PROVE  NonceInv'
BY DEF NonceInv, DrawnInv, CacheInv, OpenedInv, NonceOnce, Later

\* Time passes: what was expired stays so.
LEMMA NoncesAge ==
  ASSUME NonceInv, now' = now + 1, UNCHANGED <<drawn, nonces, opened>>
  PROVE  NonceInv'
<1> USE DEF NonceInv, DrawnInv
<1>1. now \in Nat /\ \A k \in DOMAIN drawn : drawn[k] \in Nat
  BY ElementOfSeq, LenProperties
<1>2. NonceLife \in Nat
  BY MonAssumption
<1>3. \A n \in DOMAIN drawn : now - drawn[n] >= NonceLife => now' - drawn'[n] >= NonceLife
  BY <1>1, <1>2
<1>4. NonceOnce'
  BY <1>3 DEF NonceOnce, Later
<1>5. DrawnInv'
  BY <1>1
<1>6. (CacheInv /\ OpenedInv)'
  BY DEF CacheInv, OpenedInv
<1>7. QED
  BY <1>4, <1>5, <1>6

\* READ_MRU: a nonce that opens it was cached and young, had opened nothing,
\* and leaves the cache; one that is purged instead has expired.
LEMMA NoncesUsed ==
  ASSUME NonceInv, NEW m, ReadMruRequest(m), UNCHANGED <<now, drawn>>
  PROVE  NonceInv'
<1> DEFINE kept == Purged(nonces, now)
           valid == \E n \in kept : n.id = m.nonce
           use == [id |-> m.nonce, at |-> now,
                   times |-> Cardinality({o \in opened : o.id = m.nonce}) + 1]
<1>1. now \in Nat /\ NonceLife \in Nat /\ \A k \in DOMAIN drawn : drawn[k] \in Nat
  BY MonAssumption, ElementOfSeq, LenProperties DEF NonceInv, DrawnInv
<1>2. CASE m.nonce = 0
  BY <1>2, NoncesKept DEF ReadMruRequest
<1>3. CASE m.nonce # 0
  <2>1. /\ nonces' = {n \in kept : n.id # m.nonce}
        /\ opened' = opened \cup IF valid THEN {use} ELSE {}
    BY <1>3 DEF ReadMruRequest, VerifyNonce
  <2>2. kept \subseteq nonces /\ \A n \in nonces \ kept : now - drawn[n.id] >= NonceLife
    BY <1>1 DEF Purged, NonceInv, CacheInv
  <2>3. \A n \in kept : now - drawn[n.id] < NonceLife
    BY <1>1 DEF Purged, NonceInv, CacheInv
  <2>4. valid => /\ m.nonce \in DOMAIN drawn /\ now - drawn[m.nonce] < NonceLife
                 /\ use.times = 1
    <3> SUFFICES ASSUME valid
                 PROVE  /\ m.nonce \in DOMAIN drawn /\ now - drawn[m.nonce] < NonceLife
                        /\ use.times = 1
      OBVIOUS
    <3>1. PICK n \in kept : n.id = m.nonce
      OBVIOUS
    <3>2. {o \in opened : o.id = m.nonce} = {}
      BY <2>2, <3>1 DEF NonceInv, CacheInv
    <3>3. use.times = 1
      BY <3>2, FS_EmptySet
    <3>4. QED
      BY <2>2, <2>3, <3>1, <3>3 DEF NonceInv, CacheInv
  <2> HIDE DEF kept, valid
  <2>5. DrawnInv'
    BY DEF NonceInv, DrawnInv
  <2>6. OpenedInv'
    BY <2>1, <2>4 DEF NonceInv, OpenedInv
  <2>7. \A o \in opened' \ opened : valid /\ o = use
    BY <2>1
  <2>8. CacheInv'
    <3>1. IsFiniteSet(nonces')
      BY <2>1, <2>2, FS_Subset DEF NonceInv, CacheInv
    <3>2. \A n \in nonces' : n \in nonces /\ n.id # m.nonce
      BY <2>1, <2>2
    <3>3. \A n \in nonces' : \A o \in opened' : o.id # n.id
      <4>1. ASSUME NEW n \in nonces', NEW o \in opened' PROVE o.id # n.id
        <5>1. CASE o \in opened
          BY <3>2, <5>1 DEF NonceInv, CacheInv
        <5>2. CASE o = use
          BY <3>2, <5>2
        <5>3. QED
          BY <2>7, <5>1, <5>2
      <4>2. QED
        BY <4>1
    <3>4. QED
      BY <3>1, <3>2, <3>3 DEF NonceInv, CacheInv
  <2>9. \A o \in opened' : o.times = 1 /\ o.at - drawn'[o.id] < NonceLife
    BY <2>4, <2>7 DEF NonceInv, NonceOnce
  <2>10. ASSUME NEW n \in DOMAIN drawn
         PROVE  \/ now - drawn[n] >= NonceLife
                \/ Cardinality(Later(n)) >= NonceMax
                \/ \E o \in opened' : o.id = n
                \/ \E c \in nonces' : c.id = n
    <3>1. CASE \E c \in nonces : c.id = n
      <4>1. PICK c \in nonces : c.id = n
        BY <3>1
      <4>2. CASE c \notin kept
        BY <2>2, <4>1, <4>2
      <4>3. CASE c \in kept /\ n # m.nonce
        BY <2>1, <4>1, <4>3
      <4>4. CASE c \in kept /\ n = m.nonce
        <5>1. valid
          BY <4>1, <4>4 DEF valid
        <5>2. use \in opened' /\ use.id = n
          BY <2>1, <4>4, <5>1
        <5>3. QED
          BY <5>2
      <4>5. QED
        BY <4>2, <4>3, <4>4
    <3>2. CASE \E o \in opened : o.id = n
      BY <2>1, <3>2
    <3>3. QED
      BY <3>1, <3>2 DEF NonceInv, NonceOnce
  <2>11. NonceOnce'
    BY <2>9, <2>10 DEF NonceOnce, Later
  <2>12. QED
    BY <2>5, <2>6, <2>8, <2>11 DEF NonceInv
<1>4. QED
  BY <1>2, <1>3

\* REQ_NONCE: a nonce leaves a full cache only for NonceMax others that were
\* drawn no earlier.
LEMMA NoncesDrawn ==
  ASSUME NonceInv, drawn' = Append(drawn, now),
         nonces' \in WithNonce(nonces, Len(drawn'), now), UNCHANGED <<now, opened>>
  PROVE  NonceInv'
<1> DEFINE new == [id |-> Len(drawn'), created |-> now]
           all == Purged(nonces, now) \cup {new}
           later(n) == {k \in DOMAIN drawn' \ {n} : drawn'[k] >= drawn'[n]}
<1>1. now \in Nat /\ NonceLife \in Nat /\ NonceMax \in Nat /\ drawn \in Seq(Nat)
  BY MonAssumption DEF NonceInv, DrawnInv
<1>2. /\ drawn' \in Seq(Nat) /\ Len(drawn) \in Nat /\ Len(drawn') = Len(drawn) + 1
      /\ DOMAIN drawn = 1..Len(drawn) /\ DOMAIN drawn' = 1..(Len(drawn) + 1)
      /\ \A k \in DOMAIN drawn : drawn'[k] = drawn[k]
      /\ drawn'[Len(drawn')] = now
  BY <1>1, AppendProperties, LenProperties
<1>3. /\ nonces' \subseteq all
      /\ Cardinality(nonces') = IF Cardinality(all) > NonceMax THEN NonceMax ELSE Cardinality(all)
      /\ \A k \in nonces', gone \in all \ nonces' : gone.created <= k.created
  BY DEF WithNonce
<1>4. \A k \in DOMAIN drawn' : drawn'[k] \in Nat /\ drawn'[k] <= now
  BY <1>1, <1>2, ElementOfSeq DEF NonceInv, DrawnInv
<1>5. IsFiniteSet(all)
  <2>1. IsFiniteSet(Purged(nonces, now))
    BY FS_Subset DEF NonceInv, CacheInv, Purged
  <2>2. QED
    BY <2>1, FS_AddElement
<1>6. IsFiniteSet(nonces') /\ (Cardinality(nonces') = Cardinality(all) => nonces' = all)
  BY <1>3, <1>5, FS_Subset
<1>7. \A n \in all : /\ n.id \in DOMAIN drawn'
                     /\ n = [id |-> n.id, created |-> drawn'[n.id]]
                     /\ \A o \in opened : o.id # n.id
  <2>1. \A n \in Purged(nonces, now) : n \in nonces
    BY DEF Purged
  <2>2. \A o \in opened : o.id # Len(drawn')
    BY <1>2 DEF NonceInv, OpenedInv
  <2>3. ASSUME NEW n \in nonces
        PROVE  /\ n.id \in DOMAIN drawn'
               /\ n = [id |-> n.id, created |-> drawn'[n.id]]
               /\ \A o \in opened : o.id # n.id
    BY <1>2 DEF NonceInv, CacheInv
  <2>4. /\ new.id \in DOMAIN drawn'
        /\ new = [id |-> new.id, created |-> drawn'[new.id]]
        /\ \A o \in opened : o.id # new.id
    BY <1>2, <2>2
  <2>5. QED
    BY <2>1, <2>3, <2>4
<1> HIDE DEF new, all
<1>8. DrawnInv'
  BY <1>1, <1>2, <1>4 DEF DrawnInv
<1>9. CacheInv'
  BY <1>3, <1>6, <1>7 DEF CacheInv
<1>10. OpenedInv'
  BY <1>2 DEF NonceInv, OpenedInv
<1>11. ASSUME NEW c \in all \ nonces'
       PROVE  Cardinality(later(c.id)) >= NonceMax
  <2>1. Cardinality(nonces') = NonceMax
    BY <1>3, <1>6
  <2> DEFINE f == [k \in nonces' |-> k.id]
  <2>2. \A k \in nonces' : k.id \in later(c.id)
    <3> TAKE k \in nonces'
    <3>1. k \in all /\ c.created <= k.created /\ k # c
      BY <1>3
    <3>2. k.id # c.id /\ drawn'[k.id] >= drawn'[c.id]
      BY <1>4, <1>7, <3>1
    <3>3. QED
      BY <1>7, <3>1, <3>2
  <2>3. f \in Injection(nonces', later(c.id))
    <3>1. f \in [nonces' -> later(c.id)]
      BY <2>2
    <3>2. \A j, k \in nonces' : j.id = k.id => j = k
      BY <1>3, <1>7
    <3>3. QED
      BY <3>1, <3>2 DEF Injection, IsInjective
  <2>4. IsFiniteSet(DOMAIN drawn')
    <3>1. Len(drawn) + 1 \in Int /\ 1 \in Int
      BY <1>2
    <3>2. QED
      BY <1>2, <3>1, FS_Interval
  <2>5. IsFiniteSet(later(c.id))
    BY <2>4, FS_Subset
  <2> HIDE DEF f, later
  <2>6. QED
    BY <2>1, <2>3, <2>5, FS_Injection
<1>12. ASSUME NEW n \in DOMAIN drawn, Cardinality(Later(n)) >= NonceMax
       PROVE  Cardinality(later(n)) >= NonceMax
  <2>1. Later(n) \subseteq later(n)
    BY <1>2 DEF Later
  <2>2. IsFiniteSet(DOMAIN drawn')
    <3>1. Len(drawn) + 1 \in Int /\ 1 \in Int
      BY <1>2
    <3>2. QED
      BY <1>2, <3>1, FS_Interval
  <2>3. IsFiniteSet(later(n))
    BY <2>2, FS_Subset
  <2>4. Cardinality(Later(n)) <= Cardinality(later(n)) /\ Cardinality(later(n)) \in Nat
        /\ Cardinality(Later(n)) \in Nat
    BY <2>1, <2>3, FS_Subset, FS_CardinalityType
  <2> HIDE DEF later
  <2>5. QED
    BY <1>1, <1>12, <2>4
<1>13. ASSUME NEW n \in DOMAIN drawn'
       PROVE  \/ now - drawn'[n] >= NonceLife
              \/ Cardinality(later(n)) >= NonceMax
              \/ \E o \in opened : o.id = n
              \/ \E c \in nonces' : c.id = n
  <2>1. CASE \E c \in all : c.id = n
    BY <1>11, <2>1
  <2>2. CASE n = Len(drawn')
    <3>1. new \in all /\ new.id = n
      BY <2>2 DEF all, new
    <3>2. QED
      BY <2>1, <3>1
  <2>3. CASE n \in DOMAIN drawn
    <3>1. CASE \E c \in nonces : c.id = n
      <4>1. PICK c \in nonces : c.id = n
        BY <3>1
      <4>2. CASE c.created > now - NonceLife
        BY <2>1, <4>1, <4>2 DEF all, Purged
      <4>3. CASE ~(c.created > now - NonceLife)
        <5>1. c.created = drawn[n] /\ drawn[n] \in Nat /\ drawn'[n] = drawn[n]
          BY <1>2, <1>4, <2>3, <4>1 DEF NonceInv, CacheInv
        <5>2. QED
          BY <1>1, <4>3, <5>1
      <4>4. QED
        BY <4>2, <4>3
    <3>2. QED
      BY <1>2, <1>12, <2>3, <3>1 DEF NonceInv, NonceOnce
  <2>4. n \in DOMAIN drawn \/ n = Len(drawn')
    BY <1>2
  <2>5. QED
    BY <2>2, <2>3, <2>4
<1>14. \A o \in opened : o.times = 1 /\ o.at - drawn'[o.id] < NonceLife
  BY <1>2 DEF NonceInv, NonceOnce, OpenedInv
<1>15. NonceOnce'
  BY <1>13, <1>14 DEF NonceOnce, Later
<1>16. QED
  BY <1>8, <1>9, <1>10, <1>15 DEF NonceInv
------------------------------------------------------------------------------
(* One lemma per step of the engine. *)

LEMMA TimeStep == ASSUME IInv, NEW d \in Datagrams, Time(d) PROVE IInv'
<1>1. TableInv' /\ AssocIdFresh'
  BY TableStep DEF IInv, Time, HandlePacket
<1>2. CountersInv' /\ CountersBalance'
  BY CountersStep DEF IInv, Time
<1>3. NonceInv'
  BY NoncesKept DEF IInv, Time, HandlePacket
<1>4. QED
  BY <1>1, <1>2, <1>3 DEF IInv, Time, WritesAreAuthenticated

\* Only the holder of the control key gets as far as WRITEVAR.
LEMMA WriterStep ==
  ASSUME WritesAreAuthenticated, NEW m, Write(m) PROVE WritesAreAuthenticated'
<1>1. CASE m.op = "WRITEVAR"
  <2>1. AuthValid(m)
    BY <1>1 DEF Write, Admitted, RequiresAuth
  <2>2. Author(m) = "keyholder"
    BY <1>1, <2>1 DEF AuthValid, Author
  <2>3. QED
    BY <2>2 DEF Write, WritesAreAuthenticated
<1>2. CASE m.op = "WRITECLOCK"
  BY <1>2 DEF Write, Author, WritesAreAuthenticated
<1>3. QED
  BY <1>1, <1>2 DEF Write

LEMMA ControlStep == ASSUME IInv, NEW m, HandleControl(m) PROVE IInv'
<1>1. TableInv' /\ AssocIdFresh'
  BY TableKept DEF IInv, HandleControl, Same
<1>2. CountersInv' /\ CountersBalance'
  BY CountersKept DEF IInv, HandleControl, Same
<1>3. NonceInv' /\ WritesAreAuthenticated'
  <2>1. CASE Refused(m)
    BY <2>1, NoncesKept DEF IInv, HandleControl, Same, Refused, WritesAreAuthenticated
  <2>2. CASE Write(m)
    <3>1. NonceInv'
      BY <2>2, NoncesKept DEF IInv, HandleControl, Same, Write
    <3>2. QED
      BY <2>2, <3>1, WriterStep DEF IInv
  <2>3. CASE Read(m)
    BY <2>3, NoncesKept DEF IInv, HandleControl, Same, Read, WritesAreAuthenticated
  <2>4. CASE Mru(m)
    BY <2>4, NoncesUsed DEF IInv, HandleControl, Same, Mru, WritesAreAuthenticated
  <2>5. CASE Nonce(m)
    BY <2>5, NoncesDrawn DEF IInv, HandleControl, Same, Nonce, WritesAreAuthenticated
  <2>6. QED
    BY <2>1, <2>2, <2>3, <2>4, <2>5 DEF HandleControl
<1>4. QED
  BY <1>1, <1>2, <1>3 DEF IInv, HandleControl, Same

LEMMA PeerStep ==
  ASSUME IInv, NEW i \in DOMAIN peers, NEW up \in BOOLEAN, Peer(i, up) PROVE IInv'
<1>1. TableInv' /\ AssocIdFresh'
  BY TablePeer DEF IInv, Peer
<1>2. CountersInv' /\ CountersBalance'
  BY CountersKept DEF IInv, Peer, PeerChanges
<1>3. NonceInv'
  BY NoncesKept DEF IInv, Peer, PeerChanges
<1>4. QED
  BY <1>1, <1>2, <1>3 DEF IInv, Peer, WritesAreAuthenticated

LEMMA TickStep == ASSUME IInv, Tick PROVE IInv'
<1>1. TableInv' /\ AssocIdFresh'
  BY TableSelect DEF IInv, Tick
<1>2. CountersInv' /\ CountersBalance'
  BY CountersKept DEF IInv, Tick, Select
<1>3. NonceInv'
  BY NoncesAge DEF IInv, Tick, Select
<1>4. QED
  BY <1>1, <1>2, <1>3 DEF IInv, Tick, WritesAreAuthenticated

LEMMA Invariance == Spec => []IInv
<1>1. CInit => IInv
  <2> SUFFICES ASSUME CInit PROVE IInv
    OBVIOUS
  <2>1. TableInv /\ AssocIdFresh
    BY TableInit DEF CInit
  <2>2. CountersInv /\ CountersBalance
    <3>1. counters = [c \in Counters |-> 0] /\ idle = 0
      BY DEF CInit, Init
    <3>2. /\ counters["thisver"] = 0 /\ counters["oldver"] = 0 /\ counters["rejected"] = 0
          /\ counters["restricted"] = 0 /\ counters["limited"] = 0 /\ counters["badlength"] = 0
          /\ counters["declined"] = 0 /\ counters["received"] = 0 /\ counters["kodsent"] = 0
      BY <3>1 DEF Counters
    <3>3. CountersInv
      BY <3>1 DEF CountersInv
    <3>4. QED
      BY <3>1, <3>2, <3>3 DEF CountersBalance, Handled
  <2>3. traffic \subseteq Datagrams \cup Messages
    BY ControlAssumption DEF CInit
  <2>4. QED
    BY <2>1, <2>2, <2>3, NonceInit DEF IInv, CInit, WritesAreAuthenticated
<1>2. IInv /\ [Next]_vars => IInv'
  <2> SUFFICES ASSUME IInv, [Next]_vars PROVE IInv'
    OBVIOUS
  <2>1. CASE Next
    BY <2>1, TimeStep, ControlStep, PeerStep, TickStep DEF Next
  <2>2. CASE UNCHANGED vars
    <3>1. UNCHANGED <<peers, nextId, counters, idle, now, drawn, nonces, opened, traffic, writer>>
      BY <2>2 DEF vars, srvars
    <3>2. QED
      BY <3>1, TableKept, CountersKept, NoncesKept DEF IInv, WritesAreAuthenticated
  <2>3. QED
    BY <2>1, <2>2
<1>3. QED
  BY <1>1, <1>2, PTL DEF Spec
------------------------------------------------------------------------------
(* The theorems. *)

\* However many packets of mode 2 arrive, whatever ids the configuration took
\* and wherever the counter wrapped, every association has an id of its own
\* between 1 and MaxId (allocate_associd).
THEOREM IdsFresh == Spec => []AssocIdFresh
<1>1. IInv => AssocIdFresh
  BY DEF IInv
<1>2. QED
  BY <1>1, Invariance, PTL

\* Every packet adds one to the counters of versions and one to those of
\* outcomes, packets of mode 0 excepted, and a kiss is sent only for a packet
\* that was restricted or limited (handle_packet's early returns).
THEOREM CountersBalanced == Spec => []CountersBalance
<1>1. IInv => CountersBalance
  BY DEF IInv
<1>2. QED
  BY <1>1, Invariance, PTL

\* No sequence of messages lets anybody but the selection, the holder of the
\* control key and WRITECLOCK change system variables or the log file, with
\* whatever keys and restrictions (handle_control).
THEOREM OnlyAuthorsWrite == Spec => []WritesAreAuthenticated
<1>1. IInv => WritesAreAuthenticated
  BY DEF IInv
<1>2. QED
  BY <1>1, Invariance, PTL

\* For every size and life of the cache a nonce opens READ_MRU once and while
\* young, and is lost before that only to NonceMax later ones (NonceCache).
THEOREM NoncesOpenOnce == Spec => []NonceOnce
<1>1. IInv => NonceOnce
  BY DEF IInv, NonceInv
<1>2. QED
  BY <1>1, Invariance, PTL
==============================================================================

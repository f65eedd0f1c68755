----------------------------- MODULE ClockSelect -----------------------------
(***************************************************************************)
(* Which servers the daemon believes (ntp_proto.rs: clock_intersection,    *)
(* clock_cluster, clock_combine, SystemState::update_from_peers).          *)
(*                                                                         *)
(* Answers and silence change the table of associations one at a time;     *)
(* housekeeping runs the selection over the table as it then is, and what  *)
(* it found stays in force until the next run.  Offsets and distances are  *)
(* integers: only their order and their sums matter here.  A distance is   *)
(* the half-width of a confidence interval, synch in the code (root delay  *)
(* and dispersion, age and jitter, at least MINDIST).  The prefer flag is  *)
(* left out: nothing in the daemon sets it.                                *)
(***************************************************************************)
EXTENDS Integers, Sequences, FiniteSets, FiniteSetsExt, Functions

CONSTANTS N,          \* associations in the table
          Offsets,    \* the offsets a server may show
          Dists,      \* its possible distances
          MaxDist,    \* distance of a server that never answered: its
                      \* reference time is 0, decades ago
          MinClock,   \* survivors kept by clustering (NTP_MINCLOCK = 3)
          JitterNum,  \* square of MAXCLOCK_JITTER (9), as a
          JitterDen,  \*   fraction JitterNum / JitterDen
          MaxChanges  \* bound: changes of the table between two selections

Peers == 1..N

ASSUME SelectAssumption == /\ N \in Nat \ {0}
                           /\ Offsets \subseteq Int /\ 0 \in Offsets
                           /\ Dists \subseteq Nat \ {0} /\ MaxDist \in Nat \ {0}
                           /\ {MinClock, JitterNum, JitterDen} \subseteq Nat \ {0}
                           /\ MaxChanges \in Nat

VARIABLES peers,    \* the table: filtered offset, distance, reachability, flash
          system,   \* the system variables the selection sets
          agreed,   \* history: the interval found by the last selection and
                    \* how many servers had to agree on it
          changes   \* history: changes of the table since then

selectVars == <<peers, system, agreed, changes>>

Nobody == [peer |-> 0, survivors |-> {}, sum |-> 0, weight |-> 1]

SelectInit ==
  /\ peers = [i \in Peers |-> [offset |-> 0, dist |-> MaxDist,
                               reach |-> FALSE, flash |-> {}]]
  /\ system = Nobody
  /\ agreed = [lo |-> 0, hi |-> 0, votes |-> 0]
  /\ changes = 0

\* accept_sample: the clock filter yields a new offset and distance.
NewEstimate(i, o, d) ==
  /\ peers' = [peers EXCEPT ![i].offset = o, ![i].dist = d, ![i].reach = TRUE]
  /\ changes < MaxChanges /\ changes' = changes + 1
  /\ UNCHANGED <<system, agreed>>

\* The last success is shifted out of the reach register.
FallSilent(i) == /\ peers[i].reach
                 /\ peers' = [peers EXCEPT ![i].reach = FALSE]
                 /\ changes < MaxChanges /\ changes' = changes + 1
                 /\ UNCHANGED <<system, agreed>>
------------------------------------------------------------------------------
Lower(p) == p.offset - p.dist
Upper(p) == p.offset + p.dist

\* The three endpoints of each server: 1 enters its interval, 0 is its
\* midpoint, -1 leaves its interval.
EndpointSet(t) == UNION {{<<Lower(t[i]), 1, i>>, <<t[i].offset, 0, i>>,
                          <<Upper(t[i]), -1, i>>} : i \in Peers}

\* Mutant: at equal values leaves come first: touching intervals disagree.
LeaveFirst(a, b) == \/ a[1] < b[1]
                    \/ a[1] = b[1] /\ a[2] < b[2]
                    \/ a[1] = b[1] /\ a[2] = b[2] /\ a[3] < b[3]

\* By value; at equal values enters come first and leaves last.
Before(a, b) == \/ a[1] < b[1]
                \/ a[1] = b[1] /\ a[2] > b[2]
                \/ a[1] = b[1] /\ a[2] = b[2] /\ a[3] < b[3]

Endpoints(t) ==
  LET eps  == EndpointSet(t)
      rank == [e \in eps |-> Cardinality({f \in eps : Before(f, e)}) + 1]
  IN [k \in 1..(3 * N) |-> CHOOSE e \in eps : rank[e] = k]

\* One endpoint of the scan for an interval that m servers agree on.
ScanStep(s, e, m) ==
  LET n == s.count + e[2]
  IN CASE s.found -> s
       [] ~s.found /\ s.inside ->
            LET mids == IF e[2] = 0 THEN s.mids + 1 ELSE s.mids
            IN CASE n >= m -> [s EXCEPT !.count = n, !.mids = mids]
                 [] n < m /\ mids >= m -> [s EXCEPT !.found = TRUE, !.hi = e[1]]
                 [] OTHER -> [s EXCEPT !.count = n, !.inside = FALSE, !.mids = 0]
       [] ~s.found /\ ~s.inside /\ n >= m ->
            [s EXCEPT !.count = n, !.inside = TRUE, !.lo = e[1],
                      !.mids = IF e[2] = 0 THEN 1 ELSE 0]
       [] OTHER -> [s EXCEPT !.count = n]

Scan(eps, m) ==
  LET at[k \in 0..Len(eps)] ==
        IF k = 0 THEN [count |-> 0, inside |-> FALSE, mids |-> 0,
                       found |-> FALSE, lo |-> 0, hi |-> 0]
        ELSE ScanStep(at[k - 1], eps[k], m)
  IN at[Len(eps)]

\* The largest number of servers for which the scan finds an interval; one
\* server always agrees with itself, so the scan cannot fail.
Intersection(t) ==
  LET eps == Endpoints(t)
      m   == CHOOSE k \in Peers : /\ Scan(eps, k).found
                                  /\ \A j \in (k + 1)..N : ~Scan(eps, j).found
      s   == Scan(eps, m)
  IN [lo |-> s.lo, hi |-> s.hi, votes |-> m]

Overlaps(p, k) == Upper(p) >= k.lo /\ Lower(p) <= k.hi

\* Mutants: marks once set are never taken off; falsetickers are not marked.
StickyFlash(p, k) == p.flash \cup (IF p.reach THEN {} ELSE {"TEST9"})
                        \cup (IF Overlaps(p, k) THEN {} ELSE {"TEST5"})
OnlyUnreachable(p, k) == IF p.reach THEN {} ELSE {"TEST9"}

\* TEST9 marks the unreachable, TEST5 the falsetickers.
Flash(p, k) == (IF p.reach THEN {} ELSE {"TEST9"})
                  \cup (IF Overlaps(p, k) THEN {} ELSE {"TEST5"})

Marked(t, k) == [i \in Peers |-> [t[i] EXCEPT !.flash = Flash(t[i], k)]]
------------------------------------------------------------------------------
\* Squared jitter of a candidate among all candidates, times their number
\* less one: what comparisons of jitters compare.
Square(x) == x * x
JitterOf(t, cand, i) ==
  SumFunctionOnSet([j \in cand |-> Square(t[i].offset - t[j].offset)], cand)

\* The single pass over the outliers, and its repetition.
PruneOnce(t, cand, kept) ==
  LET total    == SumFunctionOnSet([i \in kept |-> JitterOf(t, cand, i)], kept)
      outliers == {i \in kept : JitterOf(t, cand, i) * Cardinality(kept) * JitterDen
                                   > JitterNum * total}
  IN IF Cardinality(kept) > MinClock /\ outliers # kept
     THEN kept \ outliers ELSE kept

\* Mutant: the best of those kept.
Best(t, cand, kept) ==
  CHOOSE i \in kept : \A j \in kept \ {i} :
     \/ JitterOf(t, cand, i) < JitterOf(t, cand, j)
     \/ JitterOf(t, cand, i) = JitterOf(t, cand, j) /\ i < j

\* The worst of those kept; the last one in the table among equals.
Worst(t, cand, kept) ==
  CHOOSE i \in kept : \A j \in kept \ {i} :
     \/ JitterOf(t, cand, j) < JitterOf(t, cand, i)
     \/ JitterOf(t, cand, j) = JitterOf(t, cand, i) /\ j < i

DropWorst(t, cand, kept) ==
  IF Cardinality(kept) > MinClock THEN kept \ {Worst(t, cand, kept)} ELSE kept

\* The two pruning loops, each of which ends within N rounds.
Pruned(t, cand) ==
  LET kept[k \in 0..N] == IF k = 0 THEN cand ELSE PruneOnce(t, cand, kept[k - 1])
  IN kept[N]
Resized(t, cand, pruned) ==
  LET kept[k \in 0..N] == IF k = 0 THEN pruned ELSE DropWorst(t, cand, kept[k - 1])
  IN kept[N]

\* clock_cluster: only candidates without any flash bit.
Candidates(t) == {i \in Peers : t[i].flash = {}}
Cluster(t) == LET cand == Candidates(t)
              IN IF Cardinality(cand) <= 1 THEN cand ELSE Resized(t, cand, Pruned(t, cand))

\* clock_combine: the mean offset weighted by 1 / distance, as a fraction.
ProductOfDists(t, s) == FoldFunctionOnSet(LAMBDA x, y : x * y, 1, [i \in s |-> t[i].dist], s)
Combined(t, s) ==
  [sum    |-> SumFunctionOnSet([i \in s |-> t[i].offset * ProductOfDists(t, s \ {i})], s),
   weight |-> SumFunctionOnSet([i \in s |-> ProductOfDists(t, s \ {i})], s)]

\* update_from_peers: the first survivor of the table is the system peer.
SystemFor(t) ==
  LET s == Cluster(t)
      c == Combined(t, s)
  IN IF s = {} THEN Nobody
     ELSE [peer |-> Min(s), survivors |-> s, sum |-> c.sum, weight |-> c.weight]

Select == LET k == Intersection(peers)
              t == Marked(peers, k)
          IN /\ peers' = t
             /\ system' = SystemFor(t)
             /\ agreed' = k
             /\ changes' = 0

SelectNext == \/ \E i \in Peers, o \in Offsets, d \in Dists : NewEstimate(i, o, d)
              \/ \E i \in Peers : FallSilent(i)
              \/ Select

SelectSpec == SelectInit /\ [][SelectNext]_selectVars
------------------------------------------------------------------------------
\* The selection has run and nothing has changed since.
Selected == changes = 0 /\ agreed.votes > 0

\* Type invariant: in particular the number of survivors is capped.
SelectTypeOK ==
  /\ peers \in [Peers -> [offset : Int, dist : Nat \ {0}, reach : BOOLEAN,
                          flash : SUBSET {"TEST5", "TEST9"}]]
  /\ system.peer \in 0..N /\ system.survivors \subseteq Peers
  /\ Cardinality(system.survivors) <= MinClock
  /\ system.sum \in Int /\ system.weight \in Nat \ {0}
  /\ agreed.lo \in Int /\ agreed.hi \in Int /\ agreed.votes \in 0..N
  /\ changes \in 0..MaxChanges

\* The intervals on which m servers agree, without endpoints or counters:
\* maximal among those all of whose points m confidence intervals cover, and
\* containing m midpoints.  Points are halves, so that no gap is missed.
Covering(h) == Cardinality({i \in Peers : /\ 2 * Lower(peers[i]) <= h
                                          /\ h <= 2 * Upper(peers[i])})
Midpoints(lo, hi) == Cardinality({i \in Peers : peers[i].offset \in lo..hi})
Agreements(m) ==
  {a \in {Lower(peers[i]) : i \in Peers} \X {Upper(peers[i]) : i \in Peers} :
     /\ a[1] <= a[2]
     /\ \A h \in (2 * a[1])..(2 * a[2]) : Covering(h) >= m
     /\ Covering(2 * a[1] - 1) < m /\ Covering(2 * a[2] + 1) < m
     /\ Midpoints(a[1], a[2]) >= m}

\* The scan over sorted endpoints finds what it is for: the first interval
\* on which as many servers agree as can be made to (clock_intersection).
FindsReference ==
  Selected => LET best == Max({m \in Peers : Agreements(m) # {}})
                  low  == Min({a[1] : a \in Agreements(best)})
              IN /\ agreed.votes = best
                 /\ agreed.lo = low /\ <<low, agreed.hi>> \in Agreements(best)

\* After a selection the daemon is synchronized exactly when some reachable
\* server overlaps the agreed interval, and then only to such servers: marks
\* of earlier selections do not linger (flash bits, update_from_peers).
SyncsWithTheBelieved ==
  Selected =>
    LET believed == {i \in Peers : peers[i].reach /\ Overlaps(peers[i], agreed)}
    IN /\ system.survivors \subseteq believed
       /\ (system.survivors = {}) <=> (believed = {})
       /\ (system.peer = 0) <=> (believed = {})
       /\ system.peer # 0 => system.peer \in system.survivors

\* Clustering never drops a server that agrees better with the candidates
\* than one it keeps (pruning and final resize in clock_cluster).
DroppedAreWorst ==
  Selected =>
    LET cand == Candidates(peers)
    IN \A i \in system.survivors, j \in cand \ system.survivors :
          JitterOf(peers, cand, i) <= JitterOf(peers, cand, j)

\* The combined offset is never further from the agreed interval than the
\* harmonic mean of the survivors' distances: no survivor is a falseticker,
\* and the worse one's distance, the less it weighs (clock_combine).
CombinedNearAgreement ==
  Selected /\ system.peer # 0 =>
    LET reach == Cardinality(system.survivors) * ProductOfDists(peers, system.survivors)
    IN /\ system.sum <= agreed.hi * system.weight + reach
       /\ system.sum >= agreed.lo * system.weight - reach
==============================================================================

------------------------------- MODULE MonList -------------------------------
(***************************************************************************)
(* The monitoring list and the nonces that guard it (ntp_monitor.rs), as   *)
(* functions of their state.  The list is a sequence of entries, one per   *)
(* address, in the order the code's vector has; a nonce is a number never  *)
(* drawn before, with the time it was drawn at.                            *)
(***************************************************************************)
EXTENDS Integers, Sequences, FiniteSets

CONSTANTS NonceLife,    \* seconds a nonce is good for (30)
          NonceMax,     \* nonces kept (64)
          RateCount,    \* packets a source may send unwatched (10)
          PerSecond     \* and then at most so many a second (5)

ASSUME MonAssumption == /\ {NonceLife, NonceMax} \subseteq Nat \ {0}
                        /\ RateCount \in Nat \ {0} /\ PerSecond \in Nat

Purged(nonces, now) == {n \in nonces : n.created > now - NonceLife}

\* generate_nonce: the caches that may result.  Of several oldest nonces any
\* may go, the map they are in has no order.
WithNonce(nonces, id, now) ==
  LET all == Purged(nonces, now) \cup {[id |-> id, created |-> now]} IN
  {kept \in SUBSET all :
     /\ Cardinality(kept) = IF Cardinality(all) > NonceMax THEN NonceMax ELSE Cardinality(all)
     /\ \A k \in kept, gone \in all \ kept : gone.created <= k.created}

\* Mutant: a nonce stays when it has been used.
VerifyKeeps(nonces, id, now) ==
  [valid |-> \E n \in Purged(nonces, now) : n.id = id, cache |-> Purged(nonces, now)]

\* verify_nonce: a nonce is good once.
VerifyNonce(nonces, id, now) ==
  [valid |-> \E n \in Purged(nonces, now) : n.id = id,
   cache |-> {n \in Purged(nonces, now) : n.id # id}]
------------------------------------------------------------------------------
\* The index of an address, 0 if it has no entry.
EntryOf(mru, a) == IF \E i \in DOMAIN mru : mru[i].addr = a
                   THEN CHOOSE i \in DOMAIN mru : mru[i].addr = a ELSE 0

\* A stable sort, the most recent first: the permutation that keeps the order
\* of what arrived at the same time.
Before(mru, i, j) == mru[i].last > mru[j].last \/ (mru[i].last = mru[j].last /\ i < j)
ByRecency(mru) ==
  [k \in DOMAIN mru |-> mru[CHOOSE i \in DOMAIN mru :
                              Cardinality({j \in DOMAIN mru : Before(mru, j, i)}) = k - 1]]

FirstOf(s, n) == SubSeq(s, 1, IF n < Len(s) THEN n ELSE Len(s))

\* Mutant: the list is cut without being sorted.
CutUnsorted(mru, limit) == FirstOf(mru, limit)

PruneOverLimit(mru, limit) ==
  IF Len(mru) > limit THEN FirstOf(ByRecency(mru), limit) ELSE mru

\* record: an address seen before is updated in its place.
Record(mru, limit, a, now) ==
  IF EntryOf(mru, a) # 0
  THEN [mru EXCEPT ![EntryOf(mru, a)] = [@ EXCEPT !.last = now, !.count = @ + 1]]
  ELSE PruneOverLimit(Append(mru, [addr |-> a, first |-> now, last |-> now, count |-> 1]), limit)

PruneAged(mru, maxAge, now) == SelectSeq(mru, LAMBDA e : e.last >= now - maxAge)

\* is_rate_limited: more packets than RateCount, closer than 1/PerSecond
\* seconds on average.
IsRateLimited(mru, a) ==
  \E i \in DOMAIN mru : /\ i = EntryOf(mru, a)
                        /\ mru[i].count > RateCount
                        /\ (mru[i].last - mru[i].first) * PerSecond < mru[i].count - 1

ReadMru(mru, limit) == FirstOf(ByRecency(mru), limit)
==============================================================================

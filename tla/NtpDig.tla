------------------------------- MODULE NtpDig -------------------------------
(***************************************************************************)
(* NtpDigClient (ntpdig_proto.rs), which ntpdig and ntpsweep use: some     *)
(* exchanges with a time server, of which the one with the lowest delay is *)
(* the result.  Time is counted in small units; twice the offset is kept,  *)
(* so that it is whole.                                                    *)
(***************************************************************************)
EXTENDS Integers, Sequences

CONSTANTS Samples,      \* exchanges asked for (-s)
          Error,        \* how far the local clock is ahead
          Latencies     \* units a packet may travel

ASSUME DigAssumption == Samples \in Nat /\ Error \in Int /\ Latencies \subseteq Nat

VARIABLES digTime,      \* true time
          dig           \* the client

digVars == <<digTime, dig>>

None == [none |-> TRUE]
DigInit == digTime = 0 /\ dig = [st |-> "start", best |-> None, taken |-> <<>>]

Rounds == IF Samples = 0 THEN 1 ELSE Samples

Local(t) == t + Error

\* The two quantities of the on-wire protocol.
Measured(t1, t2, t3, t4) == [twice |-> (t2 - t1) + (t3 - t4), delay |-> (t4 - t1) - (t3 - t2)]

\* Mutant: the last sample is the best.
LastSample(best, m) == m
\* query: a later sample must be better.
Better(best, m) == IF best = None \/ m.delay < best.delay THEN m ELSE best

\* query_once: a reply after `up', `held' and `down' units.
DigSample ==
  /\ dig.st = "start" /\ Len(dig.taken) < Rounds
  /\ \E up \in Latencies, held \in {0, 1}, down \in Latencies :
       LET t2 == digTime + up
           t3 == t2 + held
           m == Measured(Local(digTime), t2, t3, Local(t3 + down))
       IN  /\ digTime' = t3 + down
           /\ dig' = [dig EXCEPT !.taken = Append(@, m), !.best = Better(@, m)]

\* No address, no reply in time, a reply that is short, of another version or
\* mode, or a kiss: whatever was measured before is given up with it.
DigFails == /\ dig.st = "start" /\ Len(dig.taken) < Rounds
            /\ dig' = [dig EXCEPT !.st = "error"] /\ UNCHANGED digTime

DigEnds == /\ dig.st = "start" /\ Len(dig.taken) = Rounds
           /\ dig' = [dig EXCEPT !.st = "done"] /\ UNCHANGED digTime

DigNext == DigSample \/ DigFails \/ DigEnds
DigSpec == DigInit /\ [][DigNext]_digVars

Away(x) == IF x < 0 THEN -x ELSE x

(* The offset shown is off by no more than half the delay shown, and no    *)
(* sample promised a smaller error (query, query_once), as long as nobody  *)
(* sets the clock meanwhile.                                               *)
BestIsNearest ==
  dig.st = "done" => /\ Away(dig.best.twice + 2 * Error) <= dig.best.delay
                     /\ \A k \in DOMAIN dig.taken : dig.best.delay <= dig.taken[k].delay
=============================================================================

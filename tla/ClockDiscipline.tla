--------------------------- MODULE ClockDiscipline ---------------------------
(***************************************************************************)
(* The clock filter of one server, the housekeeping that applies it, and   *)
(* the clock it moves (ntp_proto.rs: ClockFilter, accept_sample;           *)
(* ntp_loopfilter.rs: local_clock, step_clock; daemon_engine.rs:           *)
(* run_selection; main.rs: execute_actions and reload).                    *)
(*                                                                         *)
(* The daemon's timers and timestamps are read from the very clock it      *)
(* moves.  "err" is what the server's clock is ahead of the local one; an  *)
(* exchange during which the local clock is moved measures neither the old *)
(* nor the new error.  With one server the selection is the server itself  *)
(* whenever its reach register is not 0.  Frequency is left out: slewing   *)
(* may cover any part of the offset it is told to.                         *)
(***************************************************************************)
EXTENDS Integers, Sequences

CONSTANTS Errors,      \* errors the local clock may start with
          MaxErr,      \* bound: the error stays within -MaxErr..MaxErr
          Delays,      \* possible network delays
          FilterSize,  \* samples in the clock filter (NTP_SHIFT = 8)
          ReachSize,   \* values of the reach register (256)
          Period,      \* seconds between housekeeping ticks (64)
          StepLimit,   \* offsets beyond it are stepped (0.128 s)
          PanicLimit,  \* offsets beyond it make the daemon exit (1000 s)
          MaxTime      \* bound: seconds the model runs for

ASSUME DisciplineAssumption ==
  /\ MaxErr \in Nat /\ Errors \subseteq -MaxErr..MaxErr
  /\ Delays \subseteq Nat
  /\ {FilterSize, Period} \subseteq Nat \ {0}
  /\ ReachSize \in Nat /\ \E width \in 0..ReachSize : ReachSize = 2^width
  /\ StepLimit \in Nat /\ PanicLimit \in Nat /\ MaxTime \in Nat

VARIABLES elapsed,   \* true seconds since the daemon was started
          err,       \* the server's clock minus the local clock
          due,       \* local time at which housekeeping is due
          flight,    \* the request on its way, if any: error when it left
          inbox,     \* its answer, stamped by the kernel, not yet received
          filter,    \* samples, newest first; offsets are in half units
          reach,     \* the reach register
          set,       \* clock_set of the loop filter
          opts,      \* options in force: always slew (-x), no panic (-g)
          halted,    \* the process has exited
          silence    \* history: reachability ticks since the last answer

vars == <<elapsed, err, due, flight, inbox, filter, reach, set, opts, halted, silence>>

\* The local clock; the epoch lies far enough back for timers to be due.
Local == Period + MaxErr + elapsed - err

Abs(x) == IF x >= 0 THEN x ELSE -x
Least(a, b) == IF a <= b THEN a ELSE b

Init == /\ elapsed = 0
        /\ err \in Errors
        /\ due = Period
        /\ flight = {} /\ inbox = {} /\ filter = <<>> /\ reach = 0
        /\ set = FALSE
        /\ opts \in [slew : BOOLEAN, gate : BOOLEAN]
        /\ halted = FALSE
        /\ silence = ReachSize

Second == /\ ~halted /\ elapsed < MaxTime
          /\ elapsed' = elapsed + 1
          /\ UNCHANGED <<err, due, flight, inbox, filter, reach, set, opts, halted, silence>>

\* A request leaves; fresh says the clock has not been moved since.
Ask == /\ ~halted /\ flight = {} /\ inbox = {}
       /\ flight' = {[err |-> err, fresh |-> TRUE]}
       /\ UNCHANGED <<elapsed, err, due, inbox, filter, reach, set, opts, halted, silence>>

Lose == /\ ~halted /\ flight # {}
        /\ flight' = {}
        /\ UNCHANGED <<elapsed, err, due, inbox, filter, reach, set, opts, halted, silence>>

\* Mutant: only one direction of the exchange is counted.
OneWayOffset(q) == q.err

\* compute_offsets, with timestamps of before and after a move of the clock;
\* a negative delay counts as none.
TwiceOffset(q) == q.err + err
DelayOf(q, net) == IF net + q.err - err < 0 THEN 0 ELSE net + q.err - err

FilterOf(s) == SubSeq(s, 1, Least(Len(s), FilterSize))

\* The answer arrives and gets its receive timestamp (SO_TIMESTAMPNS); the
\* loop takes it from the socket in a later turn.
Arrive(net) ==
  /\ ~halted
  /\ \E q \in flight : inbox' = {[off |-> TwiceOffset(q), delay |-> DelayOf(q, net),
                                  fresh |-> q.fresh]}
  /\ flight' = {}
  /\ UNCHANGED <<elapsed, err, due, filter, reach, set, opts, halted, silence>>

\* handle_server_response, accept_sample: one more sample, one more success.
Answer ==
  /\ ~halted
  /\ \E s \in inbox : filter' = FilterOf(<<s>> \o filter)
  /\ inbox' = {}
  /\ reach' = (2 * reach + 1) % ReachSize
  /\ silence' = 0
  /\ UNCHANGED <<elapsed, err, due, flight, set, opts, halted>>
------------------------------------------------------------------------------
\* ClockFilter::filter: the sample of least delay, the newest among equals.
Chosen == filter[CHOOSE k \in DOMAIN filter :
                   /\ \A j \in DOMAIN filter : filter[k].delay <= filter[j].delay
                   /\ \A j \in 1..(k - 1) : filter[k].delay < filter[j].delay]

\* Mutant: a server counts as reachable as long as it has samples.
HasSamples == filter # <<>>

Reachable == reach # 0

TooLarge == ~opts.gate /\ Abs(Chosen.off) > 2 * PanicLimit
Stepped  == ~set \/ (~opts.slew /\ Abs(Chosen.off) > 2 * StepLimit)

\* Mutant: the exemption of the first update, the wrong way round.
PanicsUnset == ~set /\ TooLarge

\* The first update of all may step by any amount.
Panics == set /\ TooLarge

\* The tick that finds housekeeping and reachability due: selection first,
\* then the reach register takes a failure; both timers move past now.
HousekeepingDue ==
  /\ ~halted /\ due <= Local
  /\ due' = due + ((Local - due) \div Period + 1) * Period
  /\ reach' = (2 * reach) % ReachSize
  /\ silence' = Least(silence + 1, ReachSize)
  /\ UNCHANGED <<elapsed, opts>>

\* The clock moves: what was measured or asked before is no longer fresh.
MovedTo(e) ==
  /\ e \in -MaxErr..MaxErr
  /\ err' = e
  /\ filter' = [k \in DOMAIN filter |-> [filter[k] EXCEPT !.fresh = FALSE]]
  /\ flight' = {[q EXCEPT !.fresh = FALSE] : q \in flight}
  /\ inbox' = {[s EXCEPT !.fresh = FALSE] : s \in inbox}
  /\ set' = TRUE /\ UNCHANGED halted

\* run_selection without a survivor.
Unsynchronized == /\ HousekeepingDue /\ ~Reachable
                  /\ UNCHANGED <<err, flight, inbox, filter, set, halted>>

\* local_clock panics; execute_actions exits the process.
Panic == /\ HousekeepingDue /\ Reachable /\ Panics
         /\ halted' = TRUE
         /\ UNCHANGED <<err, flight, inbox, filter, set>>

StepClock == /\ HousekeepingDue /\ Reachable /\ ~Panics /\ Stepped
             /\ MovedTo(err - Chosen.off \div 2)

\* The kernel has covered some part of the offset when the next tick comes.
Between(x) == IF x >= 0 THEN 0..x ELSE x..0
SlewClock == /\ HousekeepingDue /\ Reachable /\ ~Panics /\ ~Stepped
             /\ \E part \in Between(Chosen.off \div 2) : MovedTo(err - part)

\* SIGHUP: a new engine, with the options at their defaults.
Reload == /\ ~halted
          /\ due' = Period
          /\ flight' = {} /\ inbox' = {} /\ filter' = <<>> /\ reach' = 0
          /\ set' = FALSE
          /\ opts' = [slew |-> FALSE, gate |-> FALSE]
          /\ silence' = ReachSize
          /\ UNCHANGED <<elapsed, err, halted>>

Next == \/ Second \/ Ask \/ Lose \/ Reload
        \/ Answer \/ \E net \in Delays : Arrive(net)
        \/ Unsynchronized \/ Panic \/ StepClock \/ SlewClock

Spec == Init /\ [][Next]_vars
------------------------------------------------------------------------------
Sample == [off : Int, delay : Nat, fresh : BOOLEAN]

\* Type invariant: in particular the filter holds no more than its places.
TypeOK == /\ elapsed \in 0..MaxTime /\ err \in -MaxErr..MaxErr /\ due \in Nat
          /\ flight \subseteq [err : -MaxErr..MaxErr, fresh : BOOLEAN]
          /\ inbox \subseteq Sample
          /\ filter \in Seq(Sample) /\ Len(filter) <= FilterSize
          /\ reach \in 0..(ReachSize - 1)
          /\ set \in BOOLEAN /\ halted \in BOOLEAN
          /\ opts \in [slew : BOOLEAN, gate : BOOLEAN]
          /\ silence \in 0..ReachSize

\* A step by a sample taken since the clock last moved leaves no error: the
\* offset is measured, signed and applied the right way round
\* (compute_offsets, ClockFilter::filter, step_clock, SystemClock::step).
FreshStepIsExact == [][StepClock /\ Chosen.fresh => err' = 0]_vars

\* The clock is moved only while an answer lies within the reach register:
\* a server that fell silent loses its say after eight reachability ticks,
\* however many samples of it the filter still holds.
MovedOnRecentAnswer ==
  [][err' # err => 2^(silence + 1) <= ReachSize]_vars

\* Once set, the clock is never moved further than the panic limit at once
\* unless -g was given, and never stepped at all under -x (local_clock).
BoundedMoves ==
  [][set /\ err' # err =>
        /\ ~opts.gate => Abs(err' - err) <= PanicLimit
        /\ opts.slew => ~StepClock]_vars

\* What step_clock says of steps: the clock is not overcorrected by samples
\* of before, that is, no step takes it further from the true time.
NoOvercorrection == [][StepClock => Abs(err') <= Abs(err)]_vars
==============================================================================

---------------------------- MODULE RequestLedger ----------------------------
(***************************************************************************)
(* What the poll exchange of the daemon promises, without timers, packets  *)
(* or tables: an association asks a question at an instant it has not used *)
(* before; a question may be answered at most once, and it may also be     *)
(* forgotten.  The clock filter of an association holds one sample for     *)
(* each question answered, and never a sample nobody asked for.            *)
(***************************************************************************)
EXTENDS Naturals

CONSTANTS Asker,    \* the associations that may ask
          Instant   \* the instants at which a question may be asked

VARIABLES open,      \* <<a, t>>: a asked at t and may still be answered
          answered,  \* <<a, t>>: the question was answered
          filled     \* filled[a]: samples in the clock filter of a

vars == <<open, answered, filled>>

Question == Asker \X Instant

Init == /\ open = {}
        /\ answered = {}
        /\ filled = [a \in Asker |-> 0]

\* One question is asked; older ones may be given up at the same time.
Ask == \E q \in Question \ (open \cup answered), given \in SUBSET open :
          /\ open' = (open \cup {q}) \ given
          /\ UNCHANGED <<answered, filled>>

\* An open question is given up (a refusal or an unusable answer).
Forget == \E q \in open : /\ open' = open \ {q}
                          /\ UNCHANGED <<answered, filled>>

\* An open question is answered: exactly one sample enters the filter.
Answer == \E q \in open : /\ open' = open \ {q}
                          /\ answered' = answered \cup {q}
                          /\ filled' = [filled EXCEPT ![q[1]] = @ + 1]

Next == Ask \/ Forget \/ Answer

Spec == Init /\ [][Next]_vars
==============================================================================

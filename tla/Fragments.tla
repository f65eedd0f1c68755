----------------------------- MODULE Fragments ------------------------------
(***************************************************************************)
(* FragmentCollector (control_client.rs): the pieces of an answer to a     *)
(* control query, in any order and perhaps twice, put together again.  A   *)
(* piece has an offset and units of text; of the units it matters which    *)
(* they are.                                                               *)
(***************************************************************************)
EXTENDS Integers, Sequences, SequencesExt, Functions

CONSTANTS MaxOffset,    \* where an answer ends at the latest (65535)
          Zero          \* a byte no piece brought
ASSUME MaxOffsetAssumption == MaxOffset \in Nat

Unknown == -1

\* new: pieces by offset, the end once the last piece is known, and the
\* status and association all pieces must have.
NoPieces == [at |-> <<>>, end |-> Unknown, status |-> Unknown, associd |-> Unknown]

EndOf(offset, units) == offset + Len(units)

\* Where they overlap, two pieces say the same.
Agree(o1, u1, o2, u2) ==
  \A i \in DOMAIN u1 : (o1 + i - o2) \in DOMAIN u2 => u1[i] = u2[o1 + i - o2]

Consistent(c, f) == c.status \in {Unknown, f.status} /\ c.associd \in {Unknown, f.associd}

(* add_fragment: the reasons not to take a piece, all of which end the     *)
(* query.                                                                  *)
Fits(c, f) ==
  LET end == EndOf(f.offset, f.units) IN
  /\ Consistent(c, f)
  /\ end <= MaxOffset
  /\ \A o \in DOMAIN c.at : Agree(o, c.at[o], f.offset, f.units)
  /\ c.end # Unknown => end <= c.end
  /\ f.offset \in DOMAIN c.at => Len(f.units) >= Len(c.at[f.offset])
  /\ ~f.more => /\ c.end \in {Unknown, end}
                /\ \A o \in DOMAIN c.at : EndOf(o, c.at[o]) <= end

Added(c, f) ==
  [at |-> [o \in {f.offset} \cup DOMAIN c.at |-> IF o = f.offset THEN f.units ELSE c.at[o]],
   end |-> IF f.more THEN c.end ELSE EndOf(f.offset, f.units),
   status |-> f.status, associd |-> f.associd]

CoveredAt(c, i) == {o \in DOMAIN c.at : o < i /\ i <= EndOf(o, c.at[o])}

\* Mutant: the last piece is enough.
EndIsKnown(c) == c.end # Unknown
\* is_complete: the pieces leave no hole before the end.
Complete(c) == c.end # Unknown /\ \A i \in 1 .. c.end : CoveredAt(c, i) # {}

\* assemble: bytes no piece brings stay zero.
Assembled(c) ==
  [i \in 1 .. c.end |->
     IF CoveredAt(c, i) = {} THEN Zero
     ELSE LET o == CHOOSE o \in CoveredAt(c, i) : \A p \in CoveredAt(c, i) : p <= o
          IN c.at[o][i - o]]
=============================================================================

------------------------------ MODULE AssocIds ------------------------------
(***************************************************************************)
(* Association ids (daemon_engine.rs: allocate_associd_with): used by the  *)
(* configuration, which names the associations at start-up, and by the     *)
(* server, which adds ephemeral ones later.                                *)
(***************************************************************************)
EXTENDS Integers

CONSTANT MaxId   \* largest association id (u16::MAX)

ASSUME AssocIdAssumption == MaxId \in Nat \ {0}

\* Mutant: the id in turn is taken, used or not.
AllocateInTurn(next, used) ==
  [id |-> (IF next = 0 THEN 1 ELSE next), next |-> (IF next = MaxId THEN 1 ELSE next + 1)]

\* allocate_associd: the first unused id from next on, wrapping from MaxId to
\* 1 and never 0; id 0 stands for None.
AllocateAssocId(next, used) ==
  LET start == IF next = 0 THEN 1 ELSE next
      Cand(k) == ((start - 1 + k) % MaxId) + 1
      hits == {k \in 0..(MaxId - 1) : Cand(k) \notin used}
  IN IF hits = {} THEN [id |-> 0, next |-> start]
     ELSE LET k == CHOOSE k \in hits : \A j \in hits : k <= j
          IN [id |-> Cand(k), next |-> Cand(k + 1)]
==============================================================================

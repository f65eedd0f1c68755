---------------------------- MODULE MCQueryTools ----------------------------
(* Instances of ControlQuery and NtpDig for TLC: either a control tool or  *)
(* ntpdig runs.                                                            *)
EXTENDS ControlQuery, NtpDig

CONSTANTS A, B, C

SysPeerSet == {[h \in {A, B, C} |-> CASE h = A -> B [] h = B -> C [] h = C -> B],
               [h \in {A, B, C} |-> CASE h = A -> B [] h = B -> A [] h = C -> NoHost]}

\* The second version has the status word and the cut of the first.
StatusWord(v) == IF v = 3 THEN 1 ELSE 0
PieceSize(v) == IF v = 3 THEN 1 ELSE 2
Unit(op, id, v, i) == [op |-> op, id |-> id, v |-> v, i |-> i]
Entry(id, usable) == [id |-> id, usable |-> usable]
TextSet(op, id, v) ==
  CASE op = "READSTAT" -> IF v = 1 THEN <<Entry(1, TRUE), Entry(2, TRUE)>> ELSE <<Entry(2, FALSE), Entry(1, TRUE)>>
    [] op = "READVAR" /\ id = 2 /\ v # 1 -> NoText
    [] op = "REQ_NONCE" -> <<Unit(op, id, v, 1)>>
    [] op = "READ_MRU" /\ v = 2 -> <<>>
    [] OTHER -> [i \in 1 .. (IF v = 3 THEN 2 ELSE 3) |-> Unit(op, id, IF i = 1 THEN 1 ELSE v, i)]

BothInit == Init /\ DigInit
BothNext == \/ Next /\ UNCHANGED digVars
            \/ tool = "dig" /\ DigNext /\ UNCHANGED vars
BothSpec == BothInit /\ [][BothNext]_<<vars, digVars>> /\ WF_vars(Client)
=============================================================================

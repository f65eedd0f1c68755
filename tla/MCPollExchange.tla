---------------------------- MODULE MCPollExchange ----------------------------
(* Instances of PollExchange for TLC: powers of two scaled down so that      *)
(* polls back off from every second to every fourth within a few seconds.    *)
EXTENDS PollExchange

CONSTANTS s1, s2, e1, e2   \* two servers; a symmetric peer and its mirror

AddrSet == {s1, s2, e1, e2}

\* Reversing the bytes of an address twice gives it back.
FlipAddr(a) == CASE a = e1 -> e2 [] a = e2 -> e1 [] OTHER -> a

Poll == [h \in 0..2 |-> 2^h]

Assoc(a, mode, ib) == [addr |-> a, hmode |-> mode, minpoll |-> 0, maxpoll |-> 2,
                       iburst |-> ib]

\* Two servers, one with iburst; a server and a symmetric peer; the same
\* server configured twice.
TwoLines == {<<Assoc(s1, "Client", FALSE), Assoc(s2, "Client", TRUE)>>,
             <<Assoc(s1, "Client", FALSE), Assoc(s2, "SymActive", FALSE)>>,
             <<Assoc(s1, "Client", FALSE), Assoc(s1, "Client", FALSE)>>}

TwoAddrs == {s1, s2}
SymAddrs == {e1}
==============================================================================

---------------------------- MODULE MCControlSession ----------------------------
(* An instance of ControlSession for TLC: four sources under overlapping     *)
(* restrictions, three association ids, two keys.                            *)
EXTENDS ControlSession

CONSTANTS a1, a2, a3, b1   \* three IPv4 addresses, one IPv6 address

AddrSet == {a1, a2, a3, b1}
Families == [a \in AddrSet |-> IF a = b1 THEN "v6" ELSE "v4"]

\* The reversed address of a2 is a3's; the others read the same both ways.
Flipped == [a \in AddrSet |-> CASE a = a2 -> a3 [] a = a3 -> a2 [] OTHER -> a]

One == <<a1>>

\* Everything allowed; a default to refuse with exceptions that overlap.
ListSet == {[entries |-> {}, default |-> [f \in {"v4", "v6"} |-> {}]],
            [entries |-> {[match |-> {a1, a2}, flags |-> {}], [match |-> {a2}, flags |-> {"NOQUERY"}],
                          [match |-> {a3}, flags |-> {"KOD"}]},
             default |-> [f \in {"v4", "v6"} |-> {"IGNORE"}]]}

Packet(a, m) == [src |-> a, mode |-> m, current |-> TRUE, short |-> FALSE, looped |-> FALSE]
Joining == {Packet(a, "SymPassive") : a \in AddrSet} \cup {Packet(a1, "Client")}
Mixed == {Packet(a1, m) : m \in {"Client", "SymActive", "Reserved", "Broadcast", "Private", "Server"}}
         \cup {Packet(a3, "Client"), Packet(b1, "Client"), [Packet(a1, "Client") EXCEPT !.short = TRUE],
              [Packet(a2, "Server") EXCEPT !.looped = TRUE], [Packet(a2, "Private") EXCEPT !.current = FALSE]}

Rings == {[keys |-> {1, 2}, control |-> 1, log |-> TRUE], [keys |-> {2}, control |-> 1, log |-> FALSE],
          [keys |-> {1}, control |-> 0, log |-> FALSE]}

Set(name, v, good) == [name |-> name, value |-> v, good |-> good]
Message(a, op) == [src |-> a, op |-> op, whole |-> TRUE, associd |-> 0, vars |-> <<>>,
                   keyid |-> 0, mac |-> 0, nonce |-> 0]
Writes == {<<>>, <<Set("stratum", 16, TRUE), Set("other", 0, TRUE), Set("syslog", 0, TRUE)>>,
           <<Set("refid", "written", TRUE), Set("refid", "bad", FALSE)>>}
KeyPairs == {<<0, 0>>, <<1, 1>>, <<2, 2>>, <<1, 2>>}
Writing ==
  {[Message(a1, "WRITEVAR") EXCEPT !.vars = w, !.keyid = k[1], !.mac = k[2]] : w \in Writes, k \in KeyPairs}
  \cup {[Message(a1, "WRITECLOCK") EXCEPT !.vars = w] :
          w \in {<<Set("stratum", 1, TRUE), Set("frequency", 0, TRUE)>>, <<Set("other", 0, TRUE)>>}}
  \cup {[Message(a1, "CONFIGURE") EXCEPT !.keyid = 1, !.mac = 1], Packet(a1, "Client")}
Reading ==
  {[Message(a1, "READ_ORDLIST_A") EXCEPT !.keyid = k, !.mac = k] : k \in {0, 1}}
  \cup {[Message(a1, "READVAR") EXCEPT !.associd = i] : i \in {0, 1, 2}}
  \cup {Message(a, "READSTAT") : a \in {a1, a2}}
  \cup {Message(a1, "READCLOCK"), [Message(a1, "READSTAT") EXCEPT !.whole = FALSE],
        Packet(a2, "SymPassive")}
Monitoring == {[Message(a1, "READ_MRU") EXCEPT !.nonce = n] : n \in 0..MaxNonce}
  \cup {Message(a1, "REQ_NONCE"), Packet(a1, "Client")}

TrafficSet == {Joining, Mixed, Writing, Reading, Monitoring}
PacketSet == {p \in UNION TrafficSet : "mode" \in DOMAIN p}
MessageSet == {m \in UNION TrafficSet : "op" \in DOMAIN m}
==============================================================================

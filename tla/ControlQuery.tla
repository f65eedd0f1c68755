---------------------------- MODULE ControlQuery ----------------------------
(***************************************************************************)
(* ControlClient (control_client.rs) and what ntpq, ntpmon, ntpsnmpd and   *)
(* ntptrace do with it: a tool asks one question after another, each over  *)
(* a socket of its own, again if nothing comes, and puts the pieces of the *)
(* answer together.  What a daemon has to say changes meanwhile; datagrams *)
(* are lost, overtaken and doubled, and those of the last question may     *)
(* still come if its port is given again.                                  *)
(***************************************************************************)
EXTENDS Fragments

CONSTANTS Retries,        \* attempts after the first (1 in all tools)
          MaxSeq,         \* largest sequence number (65535)
          MaxDepth,       \* hosts ntptrace follows
          Hosts, NoHost,
          SysPeers,       \* functions from hosts to the one they follow
          Versions,       \* what a daemon has to say, at first 1
          Text(_, _, _),  \* units of the answer to an operation, for an
                          \* association, in a version; NoText if unknown
          NoText,
          StatusOf(_),    \* status word of a version
          CutOf(_)        \* units a piece of that version has

ASSUME QueryAssumption == /\ Retries \in Nat /\ MaxDepth \in Nat
                          /\ MaxSeq \in Nat \ {0, 1} /\ 1 \in Versions
                          /\ \A v \in Versions : StatusOf(v) \in Nat /\ CutOf(v) \in Nat \ {0}

VARIABLES tool,      \* the command
          upstream,  \* whom each host follows
          version,   \* what the daemons say now
          host,      \* the host asked
          first,     \* the host ntptrace began with
          depth,     \* hosts followed
          nextSeq,   \* next sequence number of the client
          todo,      \* questions left
          query,     \* the question asked
          answered,  \* history: versions it was answered in
          net,       \* datagrams on their way to the client
          row        \* the last answer got

vars == <<tool, upstream, version, host, first, depth, nextSeq, todo, query, answered, net, row>>

Question(op, id) == [op |-> op, id |-> id, summary |-> FALSE]
\* read_system_vars asks twice; the first answer is for its status word.
SystemQuestions == <<[Question("READVAR", 0) EXCEPT !.summary = TRUE], Question("READVAR", 0)>>

Program(t) == CASE t = "rv" -> SystemQuestions
                [] t = "peers" -> <<Question("READSTAT", 0)>>
                [] t = "mrulist" -> <<Question("REQ_NONCE", 0)>>
                [] t = "monitor" -> SystemQuestions \o <<Question("READSTAT", 0)>>
                [] t = "trace" -> SystemQuestions
                [] t = "dig" -> <<>>
Tools == {"rv", "peers", "mrulist", "monitor", "trace", "dig"}

Idle == [st |-> "idle"]

Init == /\ tool \in Tools /\ upstream \in SysPeers /\ (tool # "trace" => upstream = CHOOSE u \in SysPeers : TRUE)
        /\ version = 1
        /\ host \in Hosts /\ first = host /\ depth = 0
        /\ nextSeq = 1 /\ todo = Program(tool) /\ query = Idle
        /\ answered = {} /\ net = {} /\ row = Idle

\* next_sequence: zero is left out.
Following(n) == IF n = MaxSeq THEN 1 ELSE n + 1

\* Only the read of the list has a body, and is sent by query_with_body.
WithBody == query.q.op = "READ_MRU"

-----------------------------------------------------------------------------
(* One question.                                                           *)

\* resolve, bind, connect.
Ask ==
  /\ query = Idle /\ todo # <<>>
  /\ query' = [st |-> "send", q |-> Head(todo), seq |-> nextSeq, attempt |-> 0, got |-> NoPieces]
  /\ todo' = Tail(todo) /\ nextSeq' = Following(nextSeq) /\ answered' = {}
  /\ net' = {[d EXCEPT !.late = TRUE] : d \in {x \in net : ~x.late}} /\ row' = Idle
  /\ UNCHANGED <<tool, upstream, version, host, first, depth>>

Pieces(text, cut, seq, q) ==
  {[late |-> FALSE, twice |-> FALSE, seq |-> seq, op |-> q.op, associd |-> q.id, error |-> FALSE,
    offset |-> cut * k, units |-> SubSeq(text, cut * k + 1, IF cut * (k + 1) < Len(text) THEN cut * (k + 1) ELSE Len(text)),
    more |-> cut * (k + 1) < Len(text), status |-> StatusOf(version)] :
     k \in 0 .. (IF text = <<>> THEN 0 ELSE (Len(text) - 1) \div cut)}

Refusal(seq, q) ==
  [late |-> FALSE, twice |-> FALSE, seq |-> seq, op |-> q.op, associd |-> q.id, error |-> TRUE,
   offset |-> 0, units |-> <<>>, more |-> FALSE, status |-> 0]

\* The request is sent; it is lost, or the daemon answers it.
SendQuery ==
  /\ query # Idle /\ query.st = "send"
  /\ query' = [query EXCEPT !.st = "wait", !.got = NoPieces]
  /\ LET text == Text(query.q.op, query.q.id, version) IN
     \/ UNCHANGED <<net, answered>>
     \/ /\ text # NoText /\ answered' = answered \cup {version}
        /\ net' = net \cup Pieces(text, CutOf(version), query.seq, query.q)
     \/ /\ text = NoText /\ UNCHANGED answered
        /\ net' = net \cup {Refusal(query.seq, query.q)}
  /\ UNCHANGED <<tool, upstream, version, host, first, depth, nextSeq, todo, row>>

\* What a socket with that port is given.
Taken(d) == \/ net' = net \ {d}
            \/ ~d.twice /\ ~d.late /\ net' = (net \ {d}) \cup {[d EXCEPT !.twice = TRUE]}

\* query looks at more than query_with_body does.
IsAnswer(d) == d.seq = query.seq /\ (WithBody \/ (d.op = query.q.op /\ d.associd = query.q.id))

Finished(ok, units, status) ==
  /\ query' = [query EXCEPT !.st = "over"]
  /\ row' = [q |-> query.q, ok |-> ok, units |-> units, status |-> status, from |-> answered]
Failed == Finished(FALSE, <<>>, Unknown)

Receive(d) ==
  /\ query # Idle /\ query.st = "wait" /\ Taken(d)
  /\ IF ~IsAnswer(d) THEN UNCHANGED <<query, row>>
     ELSE IF d.error \/ ~Fits(query.got, d) THEN Failed
     ELSE LET c == Added(query.got, d) IN
          IF Complete(c) THEN Finished(TRUE, Assembled(c), d.status)
          ELSE query' = [query EXCEPT !.got = c] /\ UNCHANGED row
  /\ UNCHANGED <<tool, upstream, version, host, first, depth, nextSeq, todo, answered>>

\* Mutant: a retry is not counted.
SameAttempt(n) == n
NextAttempt(n) == n + 1

(* Nothing comes for some seconds.  query begins again only if it has      *)
(* nothing yet; query_with_body throw away what it has.                   *)
Timeout ==
  /\ query # Idle /\ query.st = "wait"
  /\ IF query.attempt < Retries /\ (WithBody \/ DOMAIN query.got.at = {})
     THEN query' = [query EXCEPT !.st = "send", !.attempt = NextAttempt(@)] /\ UNCHANGED row
     ELSE Failed
  /\ UNCHANGED <<tool, upstream, version, host, first, depth, nextSeq, todo, answered, net>>

\* No address, or the port is closed.
NoNetwork ==
  /\ query # Idle /\ query.st \in {"send", "wait"} /\ Failed
  /\ UNCHANGED <<tool, upstream, version, host, first, depth, nextSeq, todo, answered, net>>

-----------------------------------------------------------------------------
(* What a tool asks next.                                                  *)

PeerQuestions(units) ==
  LET used == SelectSeq(units, LAMBDA u : u.usable) IN [k \in DOMAIN used |-> Question("READVAR", used[k].id)]

\* trace_host goes on to the peer, but not back to where it is or began.
Follows(h) == h \notin {NoHost, host, first} /\ depth < MaxDepth

Stops == todo' = <<>> /\ UNCHANGED <<host, depth, nextSeq, net>>
GoesOn == UNCHANGED <<todo, host, depth, nextSeq, net>>

Conclude ==
  /\ query # Idle /\ query.st = "over" /\ query' = Idle
  /\ LET r == row IN
         \/ r.q.op = "READVAR" /\ r.q.summary /\ GoesOn
         \/ /\ r.q = Question("READVAR", 0) /\ tool # "trace"
            /\ IF r.ok THEN GoesOn ELSE Stops
         \/ /\ r.q = Question("READVAR", 0) /\ tool = "trace"
            /\ IF r.ok /\ upstream[host] # NoHost
               THEN todo' = <<Question("READVAR", 1)>> /\ UNCHANGED <<host, depth, nextSeq, net>>
               ELSE Stops
         \/ /\ r.q.op = "READVAR" /\ r.q.id # 0 /\ tool = "trace"
            /\ IF r.ok /\ Follows(upstream[host])
               THEN /\ host' = upstream[host] /\ depth' = depth + 1
                    /\ todo' = SystemQuestions /\ nextSeq' = 1 /\ net' = {}
               ELSE Stops
         \/ r.q.op = "READVAR" /\ r.q.id # 0 /\ tool # "trace" /\ GoesOn
         \/ /\ r.q.op = "READSTAT"
            /\ IF r.ok THEN todo' = PeerQuestions(r.units) /\ UNCHANGED <<host, depth, nextSeq, net>> ELSE Stops
         \/ /\ r.q.op = "REQ_NONCE"
            /\ IF r.ok THEN todo' = <<Question("READ_MRU", 0)>> /\ UNCHANGED <<host, depth, nextSeq, net>> ELSE Stops
         \/ r.q.op = "READ_MRU" /\ Stops
  /\ UNCHANGED <<tool, upstream, version, first, answered, row>>

\* Something changes in the daemons, once.
Change == /\ query # Idle /\ version = 1 /\ version' \in Versions \ {1}
          /\ UNCHANGED <<tool, upstream, host, first, depth, nextSeq, todo, query, answered, net, row>>

Client == Ask \/ SendQuery \/ Timeout \/ NoNetwork \/ Conclude \/ (\E d \in net : Receive(d))
Next == Client \/ Change

\* A tool runs on; the wait for a datagram ends by itself.
Spec == Init /\ [][Next]_vars /\ WF_vars(Client)

-----------------------------------------------------------------------------
(* Properties.                                                             *)

(* An answer put together is as long as one that was given to this very    *)
(* question, and has at each place what an answer to it with the status    *)
(* word shown had there; if all were alike it is the answer, whatever was  *)
(* lost, overtaken, doubled or late (add_fragment, is_complete, assemble,  *)
(* query, query_with_body).                                                *)
AnswerWhole ==
  row # Idle /\ row.ok =>
    LET r == row
        given == {Text(r.q.op, r.q.id, v) : v \in {x \in r.from : StatusOf(x) = r.status}}
    IN  /\ \E t \in given : Len(t) = Len(r.units)
        /\ \A i \in DOMAIN r.units : \E t \in given : i \in DOMAIN t /\ t[i] = r.units[i]

(* A tool comes to its end, however the daemons follow one another and     *)
(* whatever the network does (query, trace_host).                          *)
ToolEnds == <>(query = Idle /\ todo = <<>>)
=============================================================================

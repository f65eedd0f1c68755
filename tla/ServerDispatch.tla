---------------------------- MODULE ServerDispatch ----------------------------
(***************************************************************************)
(* The engine as a server of time (daemon_engine.rs: handle, handle_packet *)
(* except its mode 6, allocate_associd, run_selection's effect on the      *)
(* system variables; ntp_proto.rs: build_response, build_kod_packet,       *)
(* SystemState).                                                           *)
(*                                                                         *)
(* Requests and answers of the daemon's own polls are PollExchange, and    *)
(* which server selection follows is ClockSelect: here an answer makes its *)
(* association reachable, and a selection writes the system variables.     *)
(***************************************************************************)
EXTENDS AccessControl, MonList, AssocIds

CONSTANTS Flip,       \* the address ntp_monitor::netaddr_to_sockaddr makes
          MaxStrat,   \* stratum of the unsynchronised (NTP_MAXSTRAT = 16)
          Configured, \* addresses of the configured servers, a sequence
          Lists,      \* restriction lists configured
          Datagrams,  \* time packets
          MaxEvents   \* bound: packets handled

ASSUME ServerAssumption ==
  /\ Flip \in [Sources -> Sources]
  /\ {MaxStrat, MaxEvents} \subseteq Nat \ {0}
  /\ Configured \in Seq(Sources) /\ Len(Configured) <= MaxId
  /\ Lists \subseteq RestrictList
  /\ Datagrams \subseteq [src : Sources, mode : {"Reserved", "SymActive", "SymPassive",
                          "Client", "Server", "Broadcast", "Private"},
                          current : BOOLEAN, short : BOOLEAN, looped : BOOLEAN]

VARIABLES list,      \* the restriction list
          peers,     \* the association table, in its order
          nextId,    \* next_associd
          sysPeer,   \* association id of the system peer, 0 if none
          sys,       \* the system variables
          counters,  \* ServerCounters
          mru,       \* the monitoring list
          nonces,    \* the nonce cache
          now,       \* seconds
          sent,      \* what the last event made the daemon send
          idle       \* history: packets of mode 0 that reached their mode

srvars == <<list, peers, nextId, sysPeer, sys, counters, mru, nonces, now, sent, idle>>

Counters == {"thisver", "oldver", "rejected", "restricted", "kodsent", "limited",
             "badlength", "declined", "received"}

UsedIds == {peers[i].associd : i \in DOMAIN peers}

Unsynchronized == [stratum |-> MaxStrat, refid |-> "none", offset |-> "zero", freq |-> "loop",
                   leap |-> "alarm", count |-> 0]

Init == /\ list \in Lists
        /\ peers = [i \in DOMAIN Configured |->
                      [associd |-> i, src |-> Configured[i], hmode |-> "Client",
                       configured |-> TRUE, reach |-> FALSE, stratum |-> MaxStrat, flash |-> {}]]
        /\ nextId = (Len(Configured) % MaxId) + 1
        /\ sysPeer = 0
        /\ sys = Unsynchronized
        /\ counters = [c \in Counters |-> 0]
        /\ mru = <<>> /\ nonces = {}
        /\ now = 0
        /\ sent = {}
        /\ idle = 0
------------------------------------------------------------------------------
Bump(names) == [c \in Counters |-> counters[c] + IF c \in names THEN 1 ELSE 0]

\* build_response and build_kod_packet, addressed to the packet's source.
TimeReply(d) == {[to |-> d.src, kind |-> "time", stratum |-> sys.stratum, leap |-> sys.leap,
                  refid |-> sys.refid]}
KissReply(d, code) == {[to |-> d.src, kind |-> "kiss", stratum |-> 0, leap |-> "alarm",
                        refid |-> code]}

Synchronized == sys.stratum < MaxStrat

\* What a packet that gets as far as its mode does: the counters it adds to
\* and the reply.  A broadcast is logged, whether its source has an
\* association and its offset is near or not.
ModeOutcome(d) ==
  CASE d.mode \in {"Client", "SymActive"} ->
         IF Synchronized THEN [bump |-> {"received"}, reply |-> TimeReply(d)]
         ELSE [bump |-> {"declined"}, reply |-> {}]
    [] d.mode = "SymPassive" ->
         [bump |-> {"received"}, reply |-> IF Synchronized THEN TimeReply(d) ELSE {}]
    [] d.mode \in {"Server", "Broadcast"} -> [bump |-> {"received"}, reply |-> {}]
    [] d.mode = "Private" -> [bump |-> {"rejected"}, reply |-> {}]
    [] d.mode = "Reserved" -> [bump |-> {}, reply |-> {}]

\* Mutant: a packet refused for its source is not counted.
OutcomeUncounted(d) ==
  IF d.short \/ d.looped THEN [bump |-> {"rejected"}, reply |-> {}]
  ELSE IF RestrictAction(list, d.src, d.mode) # "Accept" THEN [bump |-> {}, reply |-> {}]
  ELSE ModeOutcome(d)

\* handle_packet up to its mode, in its order: the header, the loop, the
\* restrictions, the rate.  A packet without a whole header is refused by its
\* decoding, so that the later test of its length never fails.
Outcome(d) ==
  LET action == RestrictAction(list, d.src, d.mode) IN
  IF d.short \/ d.looped THEN [bump |-> {"rejected"}, reply |-> {}]
  ELSE IF action \in {"Ignore", "Discard"} THEN [bump |-> {"restricted"}, reply |-> {}]
  ELSE IF action = "SendKod"
       THEN [bump |-> {"restricted", "kodsent"}, reply |-> KissReply(d, "DENY")]
  ELSE IF d.mode \in {"Client", "SymActive"} /\ IsRateLimited(mru, Flip[d.src])
       THEN [bump |-> {"limited"} \cup IF "KOD" \in Evaluate(list, d.src) THEN {"kodsent"} ELSE {},
             reply |-> IF "KOD" \in Evaluate(list, d.src) THEN KissReply(d, "RATE") ELSE {}]
  ELSE ModeOutcome(d)

ReachesMode(d) == ~d.short /\ ~d.looped /\ RestrictAction(list, d.src, d.mode) = "Accept"

Known(a) == \E i \in DOMAIN peers : peers[i].src = a

\* A packet of mode 2 from a source without association makes one, if an id
\* is left for it.
Ephemeral(d) == d.mode = "SymPassive" /\ ReachesMode(d) /\ ~Known(Flip[d.src])

PeersAfter(d) ==
  LET given == AllocateAssocId(nextId, UsedIds) IN
  /\ nextId' = IF Ephemeral(d) THEN given.next ELSE nextId
  /\ peers' = IF Ephemeral(d) /\ given.id # 0
              THEN Append(peers, [associd |-> given.id, src |-> Flip[d.src],
                                  hmode |-> "SymPassive", configured |-> FALSE,
                                  reach |-> FALSE, stratum |-> MaxStrat, flash |-> {}])
              ELSE peers

Handled == counters["thisver"] + counters["oldver"]

\* A time packet.  Its version is counted before it is looked at.
HandlePacket(d) ==
  /\ Handled < MaxEvents
  /\ LET o == Outcome(d) IN
     /\ counters' = Bump(o.bump \cup {IF d.current THEN "thisver" ELSE "oldver"})
     /\ sent' = o.reply
  /\ PeersAfter(d)
  /\ idle' = idle + IF d.mode = "Reserved" /\ ReachesMode(d) THEN 1 ELSE 0
  /\ UNCHANGED <<list, sysPeer, sys, mru, nonces, now>>
------------------------------------------------------------------------------
\* An exchange of PollExchange succeeds, or the reach register runs empty.
PeerChanges(i, up) ==
  /\ peers[i].reach # up
  /\ peers' = [peers EXCEPT ![i].reach = up, ![i].stratum = IF up THEN 1 ELSE @]
  /\ sent' = {}
  /\ UNCHANGED <<list, nextId, sysPeer, sys, counters, mru, nonces, now, idle>>

\* update_from_peers marks what is not reachable; with a survivor the system
\* variables are the system peer's, the offset goes through the loop filter,
\* without one they say unsynchronised.  With no association at all the
\* selection returns at once.
Marked(p) == [p EXCEPT !.flash = IF p.reach THEN {} ELSE {"TEST9"}]

Select(now1) ==
  /\ now' = now1
  /\ peers' = [i \in DOMAIN peers |-> Marked(peers[i])]
  /\ IF peers = <<>> THEN UNCHANGED <<sys, sysPeer>>
     ELSE IF \E i \in DOMAIN peers : peers[i].reach
     THEN \E i \in DOMAIN peers :
            /\ peers[i].reach
            /\ sysPeer' = peers[i].associd
            /\ sys' = [stratum |-> peers[i].stratum + 1, refid |-> "peer", offset |-> "measured",
                       freq |-> "loop", leap |-> "none",
                       count |-> Cardinality({j \in DOMAIN peers : peers[j].reach})]
     ELSE sysPeer' = 0 /\ sys' = [Unsynchronized EXCEPT !.freq = sys.freq]
  /\ sent' = {}
  /\ UNCHANGED <<list, nextId, counters, mru, nonces, idle>>
------------------------------------------------------------------------------
\* Time packets are counted twice and no more: once by version, once by what
\* became of them, whatever the order of the refusals in handle_packet; only
\* packets of mode 0, which do nothing, are in no counter of outcomes.
CountersBalance ==
  /\ counters["rejected"] + counters["restricted"] + counters["limited"]
       + counters["badlength"] + counters["declined"] + counters["received"] + idle = Handled
  /\ counters["kodsent"] <= counters["restricted"] + counters["limited"]

\* Association ids are never 0 and never given twice, also after the counter
\* has wrapped (allocate_associd).
AssocIdFresh == /\ \A i \in DOMAIN peers : peers[i].associd \in 1..MaxId
                /\ \A i, j \in DOMAIN peers : peers[i].associd = peers[j].associd => i = j
==============================================================================

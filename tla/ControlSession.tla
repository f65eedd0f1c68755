---------------------------- MODULE ControlSession ----------------------------
(***************************************************************************)
(* The control protocol of the engine (daemon_engine.rs: handle_control;   *)
(* ntp_control.rs; ntp_auth.rs: the key store), on top of ServerDispatch:  *)
(* one engine, one "handle" for time packets and control messages.         *)
(*                                                                         *)
(* A control message is a record: the association it names, the variables  *)
(* it assigns, whose key its MAC was made with, the nonces it carries.     *)
(* Texts are left out, except that a value either parses or does not.      *)
(***************************************************************************)
EXTENDS ServerDispatch

CONSTANTS KeyIds,     \* key identifiers; 0 is none
          Keyrings,   \* possible key stores: keys known, the control key
          Messages,   \* control messages
          Traffics,   \* bound: the packets and messages of one behaviour
          MaxNonce,   \* bound: nonces drawn
          MaxTime,    \* bound: seconds
          MruRows     \* rows a READ_MRU may return (100)

Opcodes == {"READSTAT", "READVAR", "WRITEVAR", "READCLOCK", "WRITECLOCK", "CONFIGURE",
            "READ_MRU", "READ_ORDLIST_A", "REQ_NONCE"}
VarNames == {"stratum", "refid", "offset", "frequency", "syslog", "other"}

ASSUME ControlAssumption ==
  /\ 0 \notin KeyIds
  /\ Keyrings \subseteq [keys : SUBSET KeyIds, control : KeyIds \cup {0}, log : BOOLEAN]
  /\ Traffics \subseteq SUBSET (Datagrams \cup Messages)
  /\ {MaxNonce, MaxTime, MruRows} \subseteq Nat

VARIABLES traffic,   \* the packets and messages that arrive
          ring,      \* AuthKeyStore and the log file of the configuration
          logfile,   \* what the log file holds
          drawn,     \* nonces drawn so far, as the times they were drawn at
          opened,    \* history: READ_MRU requests that nonces have opened
          writer     \* history: who wrote the system variables last

vars == <<srvars, traffic, ring, logfile, drawn, opened, writer>>

CInit == /\ Init
         /\ traffic \in Traffics
         /\ ring \in Keyrings
         /\ logfile = "old lines"
         /\ drawn = <<>>
         /\ opened = {}
         /\ writer = "nobody"
------------------------------------------------------------------------------
\* Mutant: writing variables is not in the list.
RequiresAuthShort(op) == op \in {"CONFIGURE", "READ_ORDLIST_A"}

\* The commands handle_control refuses without authentication.
RequiresAuth(op) == op \in {"WRITEVAR", "CONFIGURE", "READ_ORDLIST_A"}

\* The configured control key, known, named by the message, and the one its
\* MAC was made with (verify_mac).
AuthValid(m) == /\ ring.control # 0
                /\ m.keyid = ring.control
                /\ ring.control \in ring.keys
                /\ m.mac = m.keyid

\* build_error_response; ControlExchange::build_response, at most one
\* fragment and never with a MAC.
Refuse(m, code) == {[to |-> m.src, kind |-> "error", op |-> m.op, error |-> code]}
Reply(m, data) == {[to |-> m.src, kind |-> "control", op |-> m.op, data |-> data]}

\* The status word of the engine's replies.
ControlStatus == [leap |-> sys.leap, synced |-> Synchronized]

Selection(p) == IF sysPeer = p.associd THEN "SystemPeer"
                ELSE IF p.reach /\ p.stratum < MaxStrat THEN "Candidate" ELSE "Rejected"

\* The event code of a peer is the worst of its flash bits, else it tells
\* whether the peer is reachable.
EventCode(p) ==
  IF p.flash # {}
  THEN IF "TEST1" \in p.flash THEN "Unspec"
       ELSE IF "TEST10" \in p.flash THEN "BadAuth"
       ELSE IF "TEST9" \in p.flash THEN "Unreachable"
       ELSE IF "TEST3" \in p.flash THEN "SyncChg" ELSE "Unspec"
  ELSE IF ~p.reach THEN "Unreachable" ELSE IF p.stratum < MaxStrat THEN "Reachable" ELSE "Unspec"

PeerStatus(p) == [configured |-> p.configured, reach |-> p.reach,
                  broadcast |-> p.hmode = "Broadcast",
                  selection |-> Selection(p), event |-> EventCode(p)]

\* The variables READVAR lists; of get_system_variable and get_peer_variable
\* those that change in this model.
SystemVariables == [stratum |-> sys.stratum, refid |-> sys.refid, offset |-> sys.offset,
                    leap |-> sys.leap, peer |-> sys.count]
PeerVariables(p) == [srcaddr |-> p.src, stratum |-> p.stratum, reach |-> p.reach,
                     flash |-> p.flash, hmode |-> p.hmode]

WithId(id) == {i \in DOMAIN peers : peers[i].associd = id}
------------------------------------------------------------------------------
\* Assignments, in order; a value that does not parse leaves its variable as
\* it is.
Assigned(vs, name) == {i \in DOMAIN vs : vs[i].name = name /\ vs[i].good}
LastOf(vs, name, was) ==
  IF Assigned(vs, name) = {} THEN was
  ELSE vs[CHOOSE i \in Assigned(vs, name) : \A j \in Assigned(vs, name) : j <= i].value

Written(vs, names) ==
  [v \in DOMAIN sys |->
     CASE v = "freq" /\ "frequency" \in names -> LastOf(vs, "frequency", sys.freq)
       [] v \in names -> LastOf(vs, v, sys[v])
       [] OTHER -> sys[v]]

\* WRITEVAR echoes what it was sent, applied or not.  A syslog line replaces
\* the log file.
WriteVar(m) ==
  IF m.vars = <<>> THEN sent' = Refuse(m, "BadValue") /\ UNCHANGED <<sys, logfile>>
  ELSE /\ sys' = Written(m.vars, {"stratum", "refid", "offset", "frequency"})
       /\ logfile' = IF ring.log /\ \E i \in DOMAIN m.vars : m.vars[i].name = "syslog"
                     THEN "syslog" ELSE logfile
       /\ sent' = Reply(m, m.vars)

ClockVars == {"stratum", "refid", "offset"}
Applied(vs) == SelectSeq(vs, LAMBDA v : v.name \in ClockVars /\ v.good)

\* WRITECLOCK takes three variables and answers with those it took.
WriteClock(m) ==
  /\ sys' = Written(m.vars, ClockVars)
  /\ sent' = IF Applied(m.vars) = <<>> THEN Refuse(m, "BadValue") ELSE Reply(m, Applied(m.vars))
  /\ UNCHANGED logfile

\* READ_MRU uses up every nonce of the message; one must be good.
ReadMruRequest(m) ==
  LET v == VerifyNonce(nonces, m.nonce, now) IN
  IF m.nonce = 0 THEN sent' = Refuse(m, "NoData") /\ UNCHANGED <<nonces, opened>>
  ELSE /\ nonces' = v.cache
       /\ opened' = opened \cup IF v.valid THEN {[id |-> m.nonce, at |-> now,
                                  times |-> Cardinality({o \in opened : o.id = m.nonce}) + 1]}
                                ELSE {}
       /\ sent' = IF v.valid THEN Reply(m, ReadMru(mru, MruRows)) ELSE Refuse(m, "NoData")

ReadData(m) ==
  IF m.op = "READSTAT"
  THEN Reply(m, [i \in DOMAIN peers |-> <<peers[i].associd, PeerStatus(peers[i])>>])
  ELSE IF m.associd = 0 THEN Reply(m, <<SystemVariables, ControlStatus>>)
  ELSE IF WithId(m.associd) = {} THEN Refuse(m, "NotFound")
  ELSE Reply(m, {<<PeerVariables(peers[i]), PeerStatus(peers[i])>> : i \in WithId(m.associd)})
------------------------------------------------------------------------------
Same == UNCHANGED <<list, peers, nextId, sysPeer, counters, mru, now, idle, traffic, ring>>

\* Messages the restrictions keep out, those that do not parse, commands that
\* are not known: nothing but perhaps an error goes out.
Refused(m) ==
  /\ \/ RestrictAction(list, m.src, "Control") # "Accept" /\ sent' = {}
     \/ /\ RestrictAction(list, m.src, "Control") = "Accept" /\ ~m.whole /\ sent' = {}
     \/ /\ RestrictAction(list, m.src, "Control") = "Accept" /\ m.whole
        /\ \/ RequiresAuth(m.op) /\ ~AuthValid(m) /\ sent' = Refuse(m, "Auth")
           \/ /\ m.op \in {"READCLOCK", "CONFIGURE"}
              /\ RequiresAuth(m.op) => AuthValid(m)
              /\ sent' = Refuse(m, "BadOp")
  /\ UNCHANGED <<sys, logfile, nonces, drawn, opened, writer>>

Admitted(m) == /\ RestrictAction(list, m.src, "Control") = "Accept" /\ m.whole
               /\ RequiresAuth(m.op) => AuthValid(m)

\* Who stands behind a change: the holder of the control key, or anybody.
Author(m) == IF m.op = "WRITECLOCK" THEN "clock"
             ELSE IF m.mac = ring.control /\ m.mac \in ring.keys THEN "keyholder" ELSE "stranger"

Write(m) == /\ Admitted(m)
            /\ \/ m.op = "WRITEVAR" /\ WriteVar(m)
               \/ m.op = "WRITECLOCK" /\ WriteClock(m)
            /\ writer' = IF <<sys', logfile'>> # <<sys, logfile>> THEN Author(m) ELSE writer
            /\ UNCHANGED <<nonces, drawn, opened>>

Read(m) == /\ Admitted(m)
           /\ m.op \in {"READSTAT", "READVAR", "READ_ORDLIST_A"}
           /\ sent' = ReadData(m)
           /\ UNCHANGED <<sys, logfile, nonces, drawn, opened, writer>>

Mru(m) == /\ Admitted(m) /\ m.op = "READ_MRU"
          /\ ReadMruRequest(m)
          /\ UNCHANGED <<sys, logfile, drawn, writer>>

Nonce(m) == /\ Admitted(m) /\ m.op = "REQ_NONCE"
            /\ Len(drawn) < MaxNonce /\ drawn' = Append(drawn, now)
            /\ nonces' \in WithNonce(nonces, Len(drawn'), now)
            /\ sent' = Reply(m, Len(drawn'))
            /\ UNCHANGED <<sys, logfile, opened, writer>>

HandleControl(m) == Same /\ (Refused(m) \/ Write(m) \/ Read(m) \/ Mru(m) \/ Nonce(m))

Tick == /\ now < MaxTime
        /\ Select(now + 1)
        /\ writer' = IF sys' # sys THEN "selection" ELSE writer
        /\ UNCHANGED <<traffic, ring, logfile, drawn, opened>>

Time(d) == HandlePacket(d) /\ UNCHANGED <<traffic, ring, logfile, drawn, opened, writer>>

Peer(i, up) == PeerChanges(i, up) /\ UNCHANGED <<traffic, ring, logfile, drawn, opened, writer>>

Next == \/ \E d \in traffic \cap Datagrams : Time(d)
        \/ \E m \in traffic \cap Messages : HandleControl(m)
        \/ \E i \in DOMAIN peers, up \in BOOLEAN : Peer(i, up)
        \/ Tick

Spec == CInit /\ [][Next]_vars
------------------------------------------------------------------------------
TypeOK == /\ \A i \in DOMAIN peers : peers[i].reach \in BOOLEAN
          /\ nextId \in 0..MaxId
          /\ sysPeer = 0 \/ sysPeer \in UsedIds
          /\ sys.stratum \in 0..255
          /\ \A n \in nonces : n.id \in DOMAIN drawn /\ n.created = drawn[n.id]
          /\ Cardinality(nonces) <= NonceMax

\* Whatever the restrictions, keys and refusals on the way, nobody but the
\* selection, the holder of the control key and WRITECLOCK changes what the
\* daemon serves or its log file (handle_control's list of commands that need
\* authentication, the handlers, and AuthKeyStore together).
WritesAreAuthenticated == writer # "stranger"

\* A nonce opens READ_MRU once and while it is young, and one that is young
\* and not yet used is refused only when NonceMax later ones have been drawn
\* (NonceCache).
Later(n) == {k \in DOMAIN drawn \ {n} : drawn[k] >= drawn[n]}

NonceOnce ==
  /\ \A o \in opened : o.times = 1 /\ o.at - drawn[o.id] < NonceLife
  /\ \A n \in DOMAIN drawn :
       \/ now - drawn[n] >= NonceLife
       \/ Cardinality(Later(n)) >= NonceMax
       \/ \E o \in opened : o.id = n
       \/ \E c \in nonces : c.id = n
==============================================================================

----------------------------- MODULE ConfigTree -----------------------------
(***************************************************************************)
(* What one directive of ntp.conf means (ntp_config.rs: build_option).     *)
(* Words are model values of their class: how a text is a number, an       *)
(* address or a refclock address is given by the constants, what is done   *)
(* with it is here.                                                        *)
(***************************************************************************)
EXTENDS Integers, Sequences, FiniteSets, SequencesExt

CONSTANTS Words,       \* the words of the files
          Directives,  \* RECOGNIZED_DIRECTIVES
          NumberOf,    \* the number a numeral stands for
          RefclockOf,  \* <<type, unit>> of the words 127.127.type.unit
          Lower        \* a word in lower case

ASSUME TreeAssumption ==
  /\ Directives \subseteq Words
  /\ DOMAIN NumberOf \subseteq Words /\ \A w \in DOMAIN NumberOf : NumberOf[w] \in Nat
  /\ DOMAIN RefclockOf \subseteq Words /\ \A w \in DOMAIN RefclockOf : RefclockOf[w] \in Nat \X Nat
  /\ Lower \in [Words -> Words]

None == "none"      \* Option::None of a word
NoNumber == -1      \* Option::None of a number

Error(why) == [kind |-> "error", why |-> why]

Num(w) == IF w \in DOMAIN NumberOf THEN NumberOf[w] ELSE NoNumber
Upto(max, w) == IF Num(w) <= max THEN Num(w) ELSE NoNumber
Byte(w) == Upto(255, w)
Port(w) == Upto(65535, w)
OrZero(n) == IF n = NoNumber THEN 0 ELSE n

\* The loops over "key value" pairs from the word "from" on: a key takes the
\* next word whatever it is, other words are passed over.
KeysAt(args, from, names) ==
  LET at[i \in (from - 1)..Len(args)] == i >= from /\ args[i] \in names /\ ~at[i - 1]
  IN {i \in from..Len(args) : at[i]}

LastAt(S) == CHOOSE i \in S : \A j \in S : j <= i

\* The value the last "key" is given; a key that ends the line has none.
GivenTo(args, from, names, key) ==
  LET at == {i \in KeysAt(args, from, names) : args[i] = key /\ i < Len(args)}
  IN IF at = {} THEN None ELSE args[LastAt(at) + 1]

\* The words that stand where a key could: neither keys nor their values.
LooseAt(args, from, names) ==
  {i \in from..Len(args) : i \notin KeysAt(args, from, names) /\ i - 1 \notin KeysAt(args, from, names)}

LowerAll(args) == [i \in DOMAIN args |-> Lower[args[i]]]
------------------------------------------------------------------------------
\* server, peer, pool; the address of a reference clock makes any of them one.
Association(d, args) ==
  IF args = <<>> THEN Error("no address")
  ELSE IF args[1] \in DOMAIN RefclockOf
       THEN [kind |-> "refclock", clock |-> RefclockOf[args[1]], options |-> LowerAll(Tail(args))]
       ELSE [kind |-> d, addr |-> args[1], options |-> LowerAll(Tail(args))]

Restriction(args) ==
  IF args = <<>> THEN Error("no arguments")
  ELSE [kind |-> "restrict", addr |-> args[1], flags |-> Tail(args)]

\* Directives whose meaning is their first word.
NamingDirectives == {"driftfile", "statsdir", "leapfile", "enable", "disable", "includefile",
                     "keys", "logfile", "ntpsigndsocket"}
Naming(d, args) == IF args = <<>> THEN Error("no word") ELSE [kind |-> d, word |-> args[1]]

\* ... whose first word must be a number,
CountingDirectives == {"trustedkey", "controlkey", "leapsmearinterval", "broadcastdelay",
                       "calldelay", "revoke"}
Counting(d, args) ==
  IF args = <<>> \/ Num(Head(args)) = NoNumber THEN Error("no number")
  ELSE [kind |-> d, number |-> Num(args[1])]

\* ... or is yes or, whatever else it says, no.
AskingDirectives == {"mruterlist", "mssntp"}
Asking(d, args) ==
  IF args = <<>> THEN Error("no answer") ELSE [kind |-> d, on |-> args[1] \in {"yes", "true", "1"}]

\* nts is strict: an unknown word, a key without its value or a bad port is
\* an error.
NtsKeys == {"key", "cert", "port"}
Nts(args) ==
  LET at == KeysAt(args, 1, NtsKeys)
  IN IF LooseAt(args, 1, NtsKeys) # {} \/ Len(args) \in at
        \/ \E i \in at : args[i] = "port" /\ Port(args[i + 1]) = NoNumber
     THEN Error("nts")
     ELSE [kind |-> "nts", key |-> GivenTo(args, 1, NtsKeys, "key"), cert |-> GivenTo(args, 1, NtsKeys, "cert")]

FudgeKeys == {"time1", "time2", "stratum", "refid"}
Fudge(args) ==
  IF Len(args) < 2 \/ \E i \in 1..2 : i \in DOMAIN args /\ Byte(args[i]) = NoNumber THEN Error("fudge")
  ELSE [kind |-> "fudge", clock |-> <<Byte(args[1]), Byte(args[2])>>,
        time1 |-> OrZero(Num(GivenTo(args, 3, FudgeKeys, "time1"))),
        time2 |-> OrZero(Num(GivenTo(args, 3, FudgeKeys, "time2"))),
        stratum |-> OrZero(Byte(GivenTo(args, 3, FudgeKeys, "stratum"))),
        refid |-> GivenTo(args, 3, FudgeKeys, "refid")]

TinkerKeys == {"step", "panic", "dispersion", "stepout", "minpoll", "maxpoll"}
Tinker(args) ==
  [kind |-> "tinker", set |-> [k \in TinkerKeys |-> Num(GivenTo(args, 1, TinkerKeys, k))]]

TosKeys == {"minsane", "minclock", "maxdist"}
Tos(args) == [kind |-> "tos", set |-> [k \in TosKeys |-> Num(GivenTo(args, 1, TosKeys, k))]]

MruKeys == {"maxdepth", "maxage"}
Mru(args) == [kind |-> "mru", set |-> [k \in MruKeys |-> Num(GivenTo(args, 1, MruKeys, k))]]

DiscardKeys == {"average", "minimum", "monitor"}
Discard(args) ==
  [kind |-> "discard", set |-> [k \in DiscardKeys |-> Num(GivenTo(args, 1, DiscardKeys, k))]]

InterfaceActions == {"listen", "drop", "ignore", "none"}
Interface(args) ==
  IF args = <<>> THEN Error("no interface")
  ELSE [kind |-> "interface", name |-> Tail(args),
        action |-> IF Lower[args[1]] \in InterfaceActions THEN Lower[args[1]] ELSE "none"]

Statistics(args) ==
  IF args = <<>> THEN Error("no kind") ELSE [kind |-> "statistics", kinds |-> args]

\* enable and disable: the last of them counts.
FilegenKeys == {"file", "type"}
Filegen(args) ==
  LET switches == {i \in LooseAt(args, 2, FilegenKeys) : args[i] \in {"enable", "disable"}}
  IN IF args = <<>> THEN Error("no name")
     ELSE [kind |-> "filegen", name |-> args[1],
           file |-> GivenTo(args, 2, FilegenKeys, "file"), type |-> GivenTo(args, 2, FilegenKeys, "type"),
           enabled |-> switches = {} \/ args[LastAt(switches)] = "enable"]

\* pps: the last of assert and clear counts.
Pps(args) ==
  LET edges == {i \in LooseAt(args, 1, {"unit"}) : args[i] \in {"assert", "clear"}}
  IN [kind |-> "pps", unit |-> OrZero(Byte(GivenTo(args, 1, {"unit"}, "unit"))),
      assert |-> edges = {} \/ args[LastAt(edges)] = "assert",
      prefer |-> \E i \in LooseAt(args, 1, {"unit"}) : args[i] = "prefer"]

Provider(args) ==
  IF args = <<>> THEN Error("no host")
  ELSE [kind |-> "provider", host |-> args[1], port |-> Port(GivenTo(args, 2, {"port", "cert"}, "port")),
        cert |-> GivenTo(args, 2, {"port", "cert"}, "cert")]

\* setvar: outside of quotes "=" is no token, so name and value are two words
\* either way (a quoted name=value is left out).
Setvar(args) ==
  IF args = <<>> THEN Error("no name") ELSE [kind |-> "setvar", name |-> args[1], value |-> Tail(args)]

\* ConfigOption: what a directive can become.
OptionKinds == {"server", "peer", "pool", "refclock", "restrict", "nts", "fudge", "tinker", "tos", "mru",
                "discard", "interface", "statistics", "filegen", "pps", "provider", "setvar", "other"}
               \cup NamingDirectives \cup CountingDirectives \cup AskingDirectives

IsRecognized(d) == d \in Directives

\* build_option
BuildOption(d, args) ==
  IF ~IsRecognized(d) THEN Error("unknown directive")
  ELSE CASE d \in {"server", "peer", "pool"} -> Association(d, args)
         [] d = "restrict" -> Restriction(args)
         [] d \in NamingDirectives -> Naming(d, args)
         [] d \in CountingDirectives -> Counting(d, args)
         [] d \in AskingDirectives -> Asking(d, args)
         [] d = "nts" -> Nts(args)
         [] d = "fudge" -> Fudge(args)
         [] d = "tinker" -> Tinker(args)
         [] d = "tos" -> Tos(args)
         [] d = "mru" -> Mru(args)
         [] d = "discard" -> Discard(args)
         [] d = "interface" -> Interface(args)
         [] d = "statistics" -> Statistics(args)
         [] d = "filegen" -> Filegen(args)
         [] d = "pps" -> Pps(args)
         [] d = "provider" -> Provider(args)
         [] d = "setvar" -> Setvar(args)
         [] OTHER -> [kind |-> "other", directive |-> d, args |-> args]
------------------------------------------------------------------------------
\* find_all: the places of the lines of a kind, up to the n-th.
FindAll(options, kind, n) == {i \in 1..n : options[i].kind = kind}

\* The accessors of single settings take the first line, apply_config the last.
FindFirst(options, kind) ==
  LET at == FindAll(options, kind, Len(options))
  IN IF at = {} THEN <<>> ELSE <<options[CHOOSE i \in at : \A j \in at : i <= j]>>

\* parse_config at the end of the file: the files of the first nts line, if
\* it names both,
NtsFiles(o) == IF o.key = None \/ o.cert = None THEN <<>> ELSE <<o.key, o.cert>>
NtsSummary(options) ==
  LET line == FindFirst(options, "nts") IN IF line = <<>> THEN <<>> ELSE NtsFiles(line[1])

\* Mutant: the first line that gives the field counts.
FirstGiven(options, kind, k, n) ==
  LET at == {i \in FindAll(options, kind, n) : options[i].set[k] # NoNumber}
  IN IF at = {} THEN NoNumber ELSE options[CHOOSE i \in at : \A j \in at : i <= j].set[k]

\* of tos and mru the last line that gives a field,
LastGiven(options, kind, k, n) ==
  LET at == {i \in FindAll(options, kind, n) : options[i].set[k] # NoNumber}
  IN IF at = {} THEN NoNumber ELSE options[LastAt(at)].set[k]

\* of fudge the last line for a clock.
FudgeSummary(options, n) ==
  LET at == FindAll(options, "fudge", n)
  IN [c \in {options[i].clock : i \in at} |-> options[LastAt({i \in at : options[i].clock = c})]]

Summary(options) ==
  LET n == Len(options)
  IN [nts |-> NtsSummary(options), fudge |-> FudgeSummary(options, n),
      tos |-> [k \in TosKeys |-> LastGiven(options, "tos", k, n)],
      mru |-> [k \in MruKeys |-> LastGiven(options, "mru", k, n)]]
==============================================================================

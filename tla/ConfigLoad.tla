----------------------------- MODULE ConfigLoad -----------------------------
(***************************************************************************)
(* From the text of ntp.conf to an engine (ntp_config.rs: ConfigScanner,   *)
(* parse_config, read_args; daemon_engine.rs: DaemonEngine::new,           *)
(* apply_config).  A file is a sequence of lexemes: words, quotes, "#" and *)
(* newlines.  Scanner and parser run interleaved, as in the code: what a   *)
(* comment does depends on who asked for the next token.                   *)
(***************************************************************************)
EXTENDS ConfigTree, AssocIds, Functions

CONSTANTS Files,     \* the files tried
          Keywords,  \* words the scanner takes for keywords
          Pieces,    \* the tokens a word is cut into
          Literals,  \* words that are IP addresses
          FileWords  \* values a filegen type may have

Newline == "\n"
Hash == "#"
Quote == "\""
QuotedText == "quoted"   \* what stands between two quotes
Marks == {Newline, Hash, Quote}

ASSUME LoadAssumption ==
  /\ Files \subseteq Seq(Words \cup Marks) /\ Words \cap Marks = {} /\ QuotedText \in Words
  /\ Keywords \cup Literals \cup FileWords \subseteq Words
  /\ Pieces \in [Words -> Seq(Words)]

VARIABLES file, pos,      \* the text and the scanner's place in it
          mode,           \* who reads: "start" of a line, "args", "apply", "ready"
          directive,      \* the directive being read
          args,           \* its arguments so far
          options,        \* ConfigTree: options
          errors,         \* ConfigTree: the number of errors
          summary,        \* ConfigTree: what parse_config sums up
          next,           \* the option apply_config is at
          engine,         \* the engine's configuration
          heads           \* history: places where a directive was read

scanvars == <<file, pos, directive, args, heads>>
vars == <<scanvars, mode, options, errors, summary, next, engine>>

NoClock == <<>>

\* DaemonEngine::new before its configuration; 0 stands for a default.
Fresh == [peers |-> <<>>, timers |-> {}, nextId |-> 1, clocks |-> <<>>,
          entries |-> <<>>, default |-> [f \in {"v4", "v6"} |-> {}],
          paths |-> [d \in {"driftfile", "statsdir", "leapfile", "logfile"} |-> None],
          trusted |-> {}, control |-> NoNumber, tinker |-> [k \in TinkerKeys |-> NoNumber],
          loop |-> [k \in {"step", "panic"} |-> NoNumber], minsane |-> 1,
          mru |-> [k \in MruKeys |-> NoNumber], filegen |-> <<>>, nts |-> <<>>, fudge |-> <<>>,
          sysvars |-> <<>>, dscp |-> NoNumber, monitor |-> TRUE, stats |-> TRUE, auth |-> FALSE]

Init == /\ file \in Files
        /\ pos = 1 /\ mode = "start" /\ directive = None /\ args = <<>>
        /\ options = <<>> /\ errors = 0 /\ summary = Summary(<<>>)
        /\ next = 1 /\ engine = Fresh /\ heads = {}
------------------------------------------------------------------------------
(* The scanner *)

AtEnd == pos > Len(file)
Here(lexeme) == ~AtEnd /\ file[pos] = lexeme
Reading == mode \in {"start", "args"}

\* The place after the next such lexeme, or the end of the file.
After(lexeme, from) ==
  LET at == {i \in from..Len(file) : file[i] = lexeme}
  IN IF at = {} THEN Len(file) + 1 ELSE (CHOOSE i \in at : \A j \in at : i <= j) + 1

\* Mutant: the newline that ends a comment is left for the parser.
PastCommentOnly(at) == After(Newline, at) - 1

\* A comment takes the newline that ends it along.
PastComment(at) == After(Newline, at)

SkipComment == /\ Reading /\ Here(Hash)
               /\ pos' = PastComment(pos)
               /\ UNCHANGED <<file, directive, args, heads, mode, options, errors, summary, next, engine>>

\* The tokens of a word, and which of them are keywords: an address that
\* begins with a digit is cut in two.
TokensOf(word) == Pieces[word]
IsKeyword(token) == token \in Keywords

\* parse_config: a keyword begins a directive, wherever on the line it is;
\* other tokens are passed over.
BeginDirective ==
  /\ mode = "start" /\ ~AtEnd /\ file[pos] \notin Marks
  /\ LET toks == TokensOf(file[pos])
         at == {i \in DOMAIN toks : IsKeyword(toks[i])}
         first == CHOOSE i \in at : \A j \in at : i <= j
     IN IF at = {} THEN UNCHANGED <<directive, args, mode, heads>>
        ELSE /\ directive' = Lower[toks[first]]
             /\ args' = SubSeq(toks, first + 1, Len(toks))
             /\ mode' = "args"
             /\ heads' = heads \cup {pos}
  /\ pos' = pos + 1
  /\ UNCHANGED <<file, options, errors, summary, next, engine>>

BlankNewline == /\ mode = "start" /\ Here(Newline)
                /\ pos' = pos + 1
                /\ UNCHANGED <<file, directive, args, heads, mode, options, errors, summary, next, engine>>

\* read_args
TakeArgument ==
  /\ mode = "args" /\ ~AtEnd /\ file[pos] \notin Marks
  /\ args' = args \o TokensOf(file[pos])
  /\ pos' = pos + 1
  /\ UNCHANGED <<file, directive, heads, mode, options, errors, summary, next, engine>>

\* A quoted string runs over newlines to the next quote, or to the end; it is
\* one argument, never a directive.
QuotedWord ==
  /\ Reading /\ Here(Quote)
  /\ pos' = After(Quote, pos + 1)
  /\ args' = IF mode = "args" THEN Append(args, QuotedText) ELSE args
  /\ UNCHANGED <<file, directive, heads, mode, options, errors, summary, next, engine>>

\* The end of the line or file ends the directive: an option or an error.
EndDirective ==
  /\ mode = "args" /\ (AtEnd \/ Here(Newline))
  /\ LET option == BuildOption(directive, args)
     IN IF option.kind = "error" THEN errors' = errors + 1 /\ UNCHANGED options
        ELSE options' = Append(options, option) /\ UNCHANGED errors
  /\ pos' = IF AtEnd THEN pos ELSE pos + 1
  /\ mode' = "start" /\ args' = <<>> /\ directive' = None
  /\ UNCHANGED <<file, heads, summary, next, engine>>

EndOfFile == /\ mode = "start" /\ AtEnd
             /\ mode' = "apply"
             /\ summary' = Summary(options)
             /\ UNCHANGED <<scanvars, options, errors, next, engine>>
------------------------------------------------------------------------------
(* apply_config: one option after the other *)

Applying(kinds) == mode = "apply" /\ next <= Len(options) /\ options[next].kind \in kinds

Apply(e) == /\ engine' = e
            /\ next' = next + 1
            /\ UNCHANGED <<scanvars, mode, options, errors, summary>>

\* parse_assoc_options: a key that ends the line is an unknown word.
PollKeys == {"minpoll", "maxpoll"}
PollOptions(words) ==
  [min |-> Byte(GivenTo(words, 1, PollKeys, "minpoll")), max |-> Byte(GivenTo(words, 1, PollKeys, "maxpoll")),
   iburst |-> \E i \in LooseAt(words, 1, PollKeys) : words[i] = "iburst"]

\* Only a literal address can be polled.
IsLiteral(addr) == addr \in Literals

WithPeer(e, mode_, src, clock, poll) ==
  LET given == AllocateAssocId(e.nextId, {e.peers[i].associd : i \in DOMAIN e.peers})
  IN IF given.id = 0 THEN [e EXCEPT !.nextId = given.next]
     ELSE [e EXCEPT !.nextId = given.next,
                    !.peers = Append(@, [associd |-> given.id, hmode |-> mode_, src |-> src,
                                         clock |-> clock, poll |-> poll])]

\* Mutant: the index counts the associations polled, clocks not.
PolledIndex(e) == Cardinality({i \in DOMAIN e.peers : e.peers[i].clock = NoClock})

\* The timer of an association names its place in the table.
PeerIndex(e) == Len(e.peers)

\* server, peer, pool: only a literal address becomes an association; it is
\* polled at once.
ApplyAssociation ==
  /\ Applying({"server", "peer", "pool"})
  /\ LET o == options[next]
         joined == WithPeer(engine, IF o.kind = "peer" THEN "SymActive" ELSE "Client",
                            o.addr, NoClock, PollOptions(o.options))
     IN Apply(IF ~IsLiteral(o.addr) THEN engine
              ELSE IF Len(joined.peers) = Len(engine.peers) THEN joined
              ELSE [joined EXCEPT !.timers = @ \cup {[event |-> "poll", index |-> PeerIndex(engine)]}])

\* RefclockManager::add
AddClock(clocks, clock, id) ==
  IF \E i \in DOMAIN clocks : clocks[i].clock = clock THEN clocks
  ELSE Append(clocks, [clock |-> clock, associd |-> id])

\* A reference clock is an association without a poll timer.
ApplyRefclock ==
  /\ Applying({"refclock"})
  /\ LET o == options[next]
         joined == WithPeer(engine, "Client", None, o.clock, [min |-> 4, max |-> 10, iburst |-> FALSE])
     IN Apply(IF Len(joined.peers) = Len(engine.peers) THEN joined
              ELSE [joined EXCEPT !.clocks = AddClock(@, o.clock, Last(joined.peers).associd)])

\* restrict: "default" is the IPv4 default; an address stands for itself only,
\* the words of a mask are no flags; a name is passed over.
FlagNames == {"ignore", "nomodify", "nopeer", "noquery", "notrap", "notrust", "limited", "kod", "server"}
FlagsOf(words) == (Range(words) \cap FlagNames) \cup (IF "noserve" \in Range(words) THEN {"ignore"} ELSE {})

ApplyRestrict ==
  /\ Applying({"restrict"})
  /\ LET o == options[next]
         flags == FlagsOf(o.flags)
     IN Apply(CASE o.addr \in {"-4", "default"} -> [engine EXCEPT !.default["v4"] = flags]
                [] o.addr = "-6" -> [engine EXCEPT !.default["v6"] = flags]
                [] o.addr \notin {"-4", "-6", "default"} /\ IsLiteral(o.addr) ->
                     [engine EXCEPT !.entries = Append(@, [addr |-> o.addr, flags |-> flags])]
                [] OTHER -> engine)

ApplyNaming ==
  /\ Applying({"driftfile", "statsdir", "leapfile", "logfile"})
  /\ Apply([engine EXCEPT !.paths[options[next].kind] = options[next].word])

ApplyKeys ==
  /\ Applying({"trustedkey", "controlkey"})
  /\ LET o == options[next]
     IN Apply(IF o.kind = "trustedkey" THEN [engine EXCEPT !.trusted = @ \cup {o.number}]
              ELSE [engine EXCEPT !.control = o.number])

\* The fields given replace those there were.
Over(old, given) == [k \in DOMAIN old |-> IF given[k] # NoNumber THEN given[k] ELSE old[k]]

ApplyTinker ==
  /\ Applying({"tinker"})
  /\ LET set == options[next].set
     IN Apply([engine EXCEPT !.tinker = Over(@, set), !.loop = Over(@, set)])

\* minclock and maxdist are not applied.
ApplyTos ==
  /\ Applying({"tos"})
  /\ LET v == options[next].set["minsane"]
     IN Apply(IF v = NoNumber THEN engine ELSE [engine EXCEPT !.minsane = v])

ApplyMru == /\ Applying({"mru"})
            /\ Apply([engine EXCEPT !.mru = Over(@, options[next].set)])

ApplyStatistics ==
  /\ Applying({"statistics"})
  /\ LET kinds == options[next].kinds
     IN Apply([engine EXCEPT !.filegen = @ \o [i \in DOMAIN kinds |->
                 [name |-> kinds[i], file |-> kinds[i], type |-> "day", enabled |-> TRUE]]])

\* filegen: a type it does not know is "day".
ApplyFilegen ==
  /\ Applying({"filegen"})
  /\ LET o == options[next]
     IN Apply([engine EXCEPT !.filegen = Append(@,
                 [name |-> o.name, file |-> IF o.file = None THEN o.name ELSE o.file,
                  type |-> IF o.type \in FileWords THEN o.type ELSE "day", enabled |-> o.enabled])])

\* HashMap::insert
Insert(map, key, value) == [k \in DOMAIN map \cup {key} |-> IF k = key THEN value ELSE map[k]]

\* Other lines of nts and fudge replace those before them.
ApplyNts ==
  /\ Applying({"nts"})
  /\ Apply(IF NtsFiles(options[next]) = <<>> THEN engine
           ELSE [engine EXCEPT !.nts = NtsFiles(options[next])])

ApplyFudge == /\ Applying({"fudge"})
              /\ Apply([engine EXCEPT !.fudge = Insert(@, options[next].clock, options[next])])

ApplySetvar == /\ Applying({"setvar"})
               /\ Apply([engine EXCEPT !.sysvars = Insert(@, options[next].name, options[next].value)])

\* enable and disable know three flags and read only the first word; disabling
\* the monitor empties its list's limit, which an mru line sets again.
ApplySwitch ==
  /\ Applying({"enable", "disable"})
  /\ LET on == options[next].kind = "enable"
         depth == engine.mru["maxdepth"]
     IN Apply(CASE options[next].word = "stats" -> [engine EXCEPT !.stats = on]
                [] options[next].word = "auth" -> [engine EXCEPT !.auth = on]
                [] options[next].word = "monitor" ->
                     [engine EXCEPT !.monitor = on,
                        !.mru["maxdepth"] = IF ~on THEN 0 ELSE IF depth = 0 THEN 1024 ELSE depth]
                [] OTHER -> engine)

\* What is left to "Other": of it only dscp is applied.
ApplyOther ==
  /\ Applying({"other"})
  /\ LET o == options[next]
         v == IF o.args = <<>> THEN NoNumber ELSE Byte(o.args[1])
     IN Apply(IF o.directive = "dscp" /\ v # NoNumber THEN [engine EXCEPT !.dscp = v] ELSE engine)

\* Options the engine leaves to others or to nobody.
AppliedKinds == {"server", "peer", "pool", "refclock", "restrict", "driftfile", "statsdir", "leapfile", "logfile",
                 "trustedkey", "controlkey", "tinker", "tos", "mru", "statistics", "filegen", "nts",
                 "fudge", "setvar", "enable", "disable", "other"}
PassOver == /\ Applying(OptionKinds \ AppliedKinds)
            /\ Apply(engine)

\* The timers every engine has.
Finish ==
  /\ mode = "apply" /\ next > Len(options)
  /\ mode' = "ready"
  /\ engine' = [engine EXCEPT !.timers = @ \cup
                  {[event |-> t, index |-> -1] : t \in {"housekeeping", "reachability", "statswrite"}}]
  /\ UNCHANGED <<scanvars, options, errors, summary, next>>

Scan == SkipComment \/ BeginDirective \/ BlankNewline \/ TakeArgument \/ QuotedWord
        \/ EndDirective \/ EndOfFile
ApplyOption == ApplyAssociation \/ ApplyRefclock \/ ApplyRestrict \/ ApplyNaming \/ ApplyKeys
               \/ ApplyTinker \/ ApplyTos \/ ApplyMru \/ ApplyStatistics \/ ApplyFilegen \/ ApplyNts
               \/ ApplyFudge \/ ApplySetvar \/ ApplySwitch \/ ApplyOther \/ PassOver

Next == Scan \/ ApplyOption \/ Finish

Spec == Init /\ [][Next]_vars
------------------------------------------------------------------------------
(* Properties *)

TypeOK ==
  /\ pos \in 1..(Len(file) + 1)
  /\ mode \in {"start", "args", "apply", "ready"}
  /\ directive \in Words \cup {None}
  /\ args \in Seq(Words)
  /\ errors \in Nat /\ next \in 1..(Len(options) + 1)
  /\ heads \subseteq DOMAIN file

\* The lines of the file, by the places of their first lexemes.
LineStarts == {1} \cup {i + 1 : i \in {j \in DOMAIN file : file[j] = Newline}}
LineOf(p) == LET s == {i \in LineStarts : i <= p} IN LastAt(s)
HasKeyword(p) == file[p] \notin Marks /\ Range(Pieces[file[p]]) \cap Keywords # {}
CommentAt(start) == {i \in DOMAIN file : file[i] = Hash /\ LineOf(i) = start}
FirstKeyword(start) ==
  {i \in DOMAIN file : LineOf(i) = start /\ HasKeyword(i)
     /\ \A j \in DOMAIN file : LineOf(j) = start /\ j < i => ~HasKeyword(j) /\ file[j] # Hash}

\* A line is lost to one before that carries a directive if that line and all
\* between have a comment.
Lost == {n \in LineStarts : /\ n <= Len(file)
                            /\ \E b \in LineStarts :
                                 /\ b < n /\ FirstKeyword(b) # {}
                                 /\ \A l \in LineStarts : b <= l /\ l < n => CommentAt(l) # {}}

\* Every line gives the directive its first keyword names, and no other word
\* gives one, but for the lines a comment behind a directive costs.  (A quote
\* that spans lines is told apart: it hides them from this reading.)
DirectivesAreTheLines ==
  mode = "apply" /\ Quote \notin Range(file) =>
    heads = UNION {FirstKeyword(n) : n \in LineStarts \ Lost}

\* Whatever the order of servers and clocks, each server has its one poll
\* timer at its own place in the table, and each clock one instance, which
\* knows the association of the first line that names it.
AssociationsServed ==
  /\ {t.index : t \in {u \in engine.timers : u.event = "poll"}}
       = {i - 1 : i \in {j \in DOMAIN engine.peers : engine.peers[j].clock = NoClock}}
  /\ \A i \in DOMAIN engine.peers : engine.peers[i].clock # NoClock =>
       Cardinality({c \in DOMAIN engine.clocks : engine.clocks[c].clock = engine.peers[i].clock}) = 1
  /\ \A c \in DOMAIN engine.clocks :
       \E i \in DOMAIN engine.peers :
         /\ engine.peers[i].associd = engine.clocks[c].associd
         /\ engine.peers[i].clock = engine.clocks[c].clock
         /\ \A j \in 1..(i - 1) : engine.peers[j].clock # engine.peers[i].clock

\* The files of the last nts line, of the first n, that names both.
LastNtsFiles(o, n) ==
  LET at == {i \in FindAll(o, "nts", n) : NtsFiles(o[i]) # <<>>}
  IN IF at = {} THEN <<>> ELSE NtsFiles(o[LastAt(at)])

\* The file is read twice: parse_config sums up what apply_config applies.
\* Of tos, mru and fudge both have the same value where both have one. Of nts
\* the engine has the files of the last line that names both, the summary
\* those of the first line, so that they are the same unless a line after
\* the first names both.
TwoReadingsAgree ==
  mode = "ready" =>
    /\ summary.tos["minsane"] # NoNumber => engine.minsane = summary.tos["minsane"]
    /\ summary.mru["maxage"] # NoNumber => engine.mru["maxage"] = summary.mru["maxage"]
    /\ summary.fudge = engine.fudge
    /\ engine.nts = LastNtsFiles(options, Len(options))
    /\ (\A i, j \in FindAll(options, "nts", Len(options)) : i < j => NtsFiles(options[j]) = <<>>)
         => summary.nts = engine.nts
==============================================================================

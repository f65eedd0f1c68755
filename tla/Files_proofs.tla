----------------------------- MODULE Files_proofs -----------------------------
(***************************************************************************)
(* Proofs about what the daemon reads from files and writes to them: the   *)
(* configuration (ConfigLoad), the keys (KeyStore), the leap seconds       *)
(* (LeapTable) and the statistics (StatsFiles).                            *)
(*                                                                         *)
(* The configuration, for every vocabulary and every set of texts:         *)
(*  - LoadTypes says where the scanner stands and which options it has     *)
(*    built; only an address of a reference clock makes a clock;           *)
(*  - LoadInv adds that the engine after n options holds what a summary of *)
(*    these n options says, so that both ways to read the file agree;      *)
(*  - ServedInv adds that associations and poll timers stand at the same   *)
(*    places and that each clock configured is in the manager;             *)
(*  - ReadInv adds which directives have been read at a position of the    *)
(*    text, line by line, where no line is lost or quoted.                 *)
(*                                                                         *)
(* The keys, for all files and all that may be written into them: what a   *)
(* run of lines adds to a store (Reads), what a run of files does          *)
(* (FilesRead), and that the store after a reload is what the files say.   *)
(*                                                                         *)
(* The leap seconds, for every set of files that may be published and every*)
(* place at which the tool may have stopped: the table is what was loaded  *)
(* of a part of one file, and sorting neither loses nor adds an entry.     *)
(*                                                                         *)
(* The statistics, for every bound and every calendar: a line is in a file *)
(* whose number is at most one more than the rotations since it was        *)
(* written (one more because the open handle may still be on the file that *)
(* a rotation by size has moved to number 1), or as many rotations have    *)
(* passed as there are backups.  A step rotates, writes and rotates again, *)
(* so the invariant is stated of the files and the handle as a record and  *)
(* each of the three keeps it.                                             *)
(***************************************************************************)
EXTENDS ConfigLoad, KeyStore, LeapTable, StatsFiles, TLAPS, SequenceTheorems, FiniteSetTheorems

------------------------------------------------------------------------------
(* Sequences, least and greatest places, iteration                         *)

\* A sequence, of whatever it holds.
IsSeq(s) == s \in Seq({s[i] : i \in DOMAIN s})

LEMMA SeqHas ==
  ASSUME NEW s, IsSeq(s)
  PROVE  Len(s) \in Nat /\ DOMAIN s = 1..Len(s)
BY LenProperties DEF IsSeq

LEMMA EmptyIsSeq ==
  IsSeq(<<>>) /\ Len(<<>>) = 0
BY EmptySeq DEF IsSeq

LEMMA SeqIsSeq ==
  ASSUME NEW S, NEW s \in Seq(S)
  PROVE  IsSeq(s)
<1> DEFINE T == {s[i] : i \in DOMAIN s}
<1>1. Len(s) \in Nat /\ s \in [1..Len(s) -> S] /\ DOMAIN s = 1..Len(s)
  BY LenProperties
<1>2. \A i \in DOMAIN s : s[i] \in T
  OBVIOUS
<1> HIDE DEF T
<1>3. s \in [1..Len(s) -> T]
  BY <1>1, <1>2
<1>4. s \in Seq(T)
  BY <1>1, <1>3, SeqDef
<1>5. QED
  BY <1>4 DEF IsSeq, T

LEMMA AppendIs ==
  ASSUME NEW s, IsSeq(s), NEW x
  PROVE  LET r == Append(s, x)
         IN /\ IsSeq(r) /\ Len(r) = Len(s) + 1 /\ DOMAIN r = 1..(Len(s) + 1)
            /\ \A i \in 1..Len(s) : r[i] = s[i]
            /\ r[Len(s) + 1] = x
<1> DEFINE S == {s[i] : i \in DOMAIN s} \cup {x}
           r == Append(s, x)
<1>1. s \in Seq(S) /\ x \in S
  BY SeqMonotonic DEF IsSeq
<1> HIDE DEF S
<1>2. /\ r \in Seq(S) /\ Len(r) = Len(s) + 1
      /\ \A i \in 1..Len(s) : r[i] = s[i]
      /\ r[Len(s) + 1] = x
  BY <1>1, AppendProperties
<1> HIDE DEF r
<1>3. IsSeq(r) /\ DOMAIN r = 1..Len(r)
  BY <1>2, SeqIsSeq, LenProperties
<1>4. QED
  BY <1>2, <1>3 DEF r

\* A set of numbers has a least one, a bounded one a greatest.
LEMMA LeastIn ==
  ASSUME NEW S \in SUBSET Nat, S # {}
  PROVE  \E k \in S : \A j \in S : k <= j
<1>1. PICK k \in S : \A j \in S : <<j, k>> \notin OpToRel(<, Nat)
  BY NatLessThanWellFounded, WFMin
<1>2. ASSUME NEW j \in S PROVE ~(j < k)
  BY <1>1 DEF OpToRel
<1>3. QED
  BY <1>2

LEMMA GreatestIn ==
  ASSUME NEW n \in Nat, NEW S \in SUBSET (0..n), S # {}
  PROVE  \E k \in S : \A j \in S : j <= k
<1> DEFINE D == {n - k : k \in S}
<1>1. D \in SUBSET Nat /\ D # {}
  <2>1. \A k \in S : n - k \in Nat
    OBVIOUS
  <2>2. QED
    BY <2>1
<1> HIDE DEF D
<1>2. PICK d \in D : \A e \in D : d <= e
  BY <1>1, LeastIn
<1>3. PICK k \in S : d = n - k
  BY <1>2 DEF D
<1>4. ASSUME NEW j \in S PROVE j <= k
  <2>1. n - j \in D
    BY DEF D
  <2>2. n - k <= n - j /\ k \in Int /\ j \in Int
    BY <1>2, <1>3, <2>1
  <2>3. QED
    BY <2>2
<1>5. QED
  BY <1>4

\* LastAt is the greatest.
LEMMA LastAtIs ==
  ASSUME NEW n \in Nat, NEW S \in SUBSET (0..n), S # {}
  PROVE  LastAt(S) \in S /\ \A j \in S : j <= LastAt(S)
BY GreatestIn DEF LastAt

LEMMA LastAtOf ==
  ASSUME NEW S \in SUBSET Int, NEW k \in S, \A j \in S : j <= k
  PROVE  LastAt(S) = k
<1> DEFINE x == CHOOSE i \in S : \A j \in S : j <= i
<1>1. x \in S /\ \A j \in S : j <= x
  OBVIOUS
<1>2. x = LastAt(S)
  BY DEF LastAt
<1> HIDE DEF x
<1>3. x <= k /\ k <= x /\ x \in Int /\ k \in Int
  BY <1>1
<1>4. x = k
  BY <1>3
<1>5. QED
  BY <1>2, <1>4

\* Induction from 0 to n, with a set for what holds.
LEMMA Climb ==
  ASSUME NEW n \in Nat, NEW S, 0 \in S, \A k \in 1..n : k - 1 \in S => k \in S
  PROVE  \A k \in 0..n : k \in S
<1> DEFINE bad == {k \in 0..n : k \notin S}
<1>1. ASSUME bad # {} PROVE FALSE
  <2>1. PICK k \in bad : \A j \in bad : k <= j
    <3>1. bad \in SUBSET Nat
      OBVIOUS
    <3> HIDE DEF bad
    <3>2. QED
      BY <1>1, <3>1, LeastIn
  <2>2. k \in 1..n /\ k - 1 \in 0..n /\ ~(k <= k - 1)
    BY <2>1
  <2>3. QED
    BY <2>1, <2>2
<1>2. QED
  BY <1>1

\* A step repeated n times: such a function exists.
IsIteration(g, b, F, n) == g = [k \in 0..n |-> IF k = 0 THEN b ELSE F[<<k, g[k - 1]>>]]

\* A step repeated n times: the recursive definition has a function that satisfies it.
LEMMA Iteration ==
  ASSUME NEW S, NEW b \in S, NEW n \in Nat, NEW F \in [(1..n) \X S -> S]
  PROVE  \E g \in [0..n -> S] : IsIteration(g, b, F, n)
<1> DEFINE Fits(g, m) == g[0] = b /\ \A k \in 1..m : g[k] = F[<<k, g[k - 1]>>]
           Good(m) == \E g \in [0..n -> S] : Fits(g, m)
           bad == {m \in 0..n : ~Good(m)}
<1> HIDE DEF Good
<1>1. ASSUME bad # {} PROVE FALSE
  <2>1. PICK m \in bad : \A k \in bad : m <= k
    <3> HIDE DEF bad
    <3>1. bad \in SUBSET Nat
      BY DEF bad
    <3>2. QED
      BY <1>1, <3>1, LeastIn
  <2>2. m # 0
    <3> DEFINE g == [k \in 0..n |-> b]
    <3>1. g \in [0..n -> S] /\ g[0] = b
      OBVIOUS
    <3>2. Fits(g, 0)
      BY <3>1
    <3> HIDE DEF g, Fits
    <3>3. Good(0)
      BY <3>1, <3>2 DEF Good
    <3>4. QED
      BY <2>1, <3>3
  <2>3. m \in 1..n /\ m - 1 \in 0..n /\ m - 1 \notin bad
    BY <2>1, <2>2
  <2>4. PICK g \in [0..n -> S] : Fits(g, m - 1)
    <3>1. Good(m - 1)
      BY <2>3
    <3>2. QED
      BY <3>1 DEF Good
  <2> DEFINE v == F[<<m, g[m - 1]>>]
             h == [g EXCEPT ![m] = v]
  <2>5. <<m, g[m - 1]>> \in (1..n) \X S
    BY <2>3
  <2>6. v \in S
    BY <2>5
  <2>7. h \in [0..n -> S] /\ h[m] = v /\ \A k \in 0..n : k # m => h[k] = g[k]
    <3> HIDE DEF v
    <3> QED BY <2>3, <2>6
  <2>8. h[0] = b
    BY <2>3, <2>4, <2>7
  <2> HIDE DEF h
  <2>9. ASSUME NEW k \in 1..m PROVE h[k] = F[<<k, h[k - 1]>>]
    <3>1. k - 1 \in 0..n /\ k - 1 # m /\ k \in 0..n
      BY <2>3
    <3>2. h[k - 1] = g[k - 1]
      BY <2>7, <3>1
    <3>3. CASE k = m
      BY <2>7, <3>2, <3>3
    <3>4. CASE k # m
      <4>1. h[k] = g[k] /\ k \in 1..(m - 1)
        BY <2>3, <2>7, <3>1, <3>4
      <4>2. QED
        BY <2>4, <3>2, <4>1
    <3>5. QED
      BY <3>3, <3>4
  <2>10. Good(m)
    BY <2>7, <2>8, <2>9 DEF Good
  <2>11. QED
    BY <2>1, <2>10
<1>2. Good(n)
  BY <1>1
<1>3. PICK g \in [0..n -> S] : Fits(g, n)
  BY <1>2 DEF Good
<1>4. \A k \in 0..n : g[k] = IF k = 0 THEN b ELSE F[<<k, g[k - 1]>>]
  BY <1>3
<1>5. QED
  BY <1>4 DEF IsIteration

------------------------------------------------------------------------------
(* Reading the file                                                        *)

\* The text is a sequence of words and marks.
LEMMA FileIs ==
  ASSUME file \in Files
  PROVE  file \in Seq(Words \cup Marks) /\ Len(file) \in Nat /\ DOMAIN file = 1..Len(file)
BY LoadAssumption, LenProperties

\* After stops behind the first such lexeme, or at the end.
LEMMA AfterIs ==
  ASSUME file \in Files, NEW lexeme, NEW from \in Nat \ {0}, from <= Len(file) + 1
  PROVE  LET r == After(lexeme, from)
         IN /\ r \in from..(Len(file) + 1)
            /\ \/ r = Len(file) + 1 /\ \A i \in from..Len(file) : file[i] # lexeme
               \/ /\ r - 1 \in from..Len(file) /\ file[r - 1] = lexeme
                  /\ \A i \in from..(r - 2) : file[i] # lexeme
<1> DEFINE at == {i \in from..Len(file) : file[i] = lexeme}
           k == CHOOSE i \in at : \A j \in at : i <= j
           r == After(lexeme, from)
<1>0. Len(file) \in Nat
  BY FileIs
<1>1. CASE at = {}
  <2>1. r = Len(file) + 1
    BY <1>1 DEF After
  <2>2. \A i \in from..Len(file) : file[i] # lexeme
    BY <1>1
  <2>3. QED
    BY <2>1, <2>2, <1>0
<1>2. CASE at # {}
  <2>1. r = k + 1
    BY <1>2 DEF After
  <2>2. at \in SUBSET Nat
    BY <1>0
  <2>3. k \in at /\ \A j \in at : k <= j
    <3> HIDE DEF at
    <3>1. \E i \in at : \A j \in at : i <= j
      BY <1>2, <2>2, LeastIn
    <3>2. QED
      BY <3>1
  <2> HIDE DEF k
  <2>4. k \in from..Len(file) /\ file[k] = lexeme
    BY <2>3
  <2>5. ASSUME NEW i \in from..(k - 1) PROVE file[i] # lexeme
    <3>1. i \in from..Len(file) /\ ~(k <= i)
      BY <2>4, <1>0
    <3>2. QED
      BY <2>3, <3>1
  <2>6. r - 1 = k /\ r - 2 = k - 1 /\ r \in from..(Len(file) + 1)
    BY <2>1, <2>4, <1>0
  <2>7. QED
    BY <2>4, <2>5, <2>6
<1>3. QED
  BY <1>1, <1>2

------------------------------------------------------------------------------
(* Types                                                                   *)

\* Of the options only this matters later: a reference clock has a type and
\* a unit, which is how it is told from an association that is polled.
OptionOK(o) == o.kind = "refclock" => o.clock \in Nat \X Nat
OptionsOK == IsSeq(options) /\ \A i \in DOMAIN options : OptionOK(options[i])

\* What was read is not applied before all of it is read.
Phases ==
  /\ mode \in {"start", "args"} => next = 1 /\ engine = Fresh
  /\ mode \in {"apply", "ready"} => summary = Summary(options)
  /\ mode = "ready" => next = Len(options) + 1

LoadTypes == file \in Files /\ TypeOK /\ OptionsOK /\ Phases

LEMMA ErrorKind ==
  ASSUME NEW why
  PROVE  Error(why).kind = "error"
BY DEF Error

\* Only the address of a reference clock makes one.
LEMMA OptionsHaveClocks ==
  ASSUME NEW d, NEW a \in Seq(Words), NEW o, o = BuildOption(d, a)
  PROVE  OptionOK(o)
<1>1. CASE ~IsRecognized(d)
  <2>1. o = Error("unknown directive")
    BY <1>1, Zenon DEF BuildOption
  <2>2. o.kind = "error"
    BY <2>1, ErrorKind, Zenon
  <2>3. QED
    BY <2>2 DEF OptionOK
<1>2. CASE IsRecognized(d) /\ d \in {"server", "peer", "pool"}
  <2>1. o = Association(d, a)
    <3>1. /\ d # "restrict" /\ d # "nts" /\ d # "fudge" /\ d # "tinker" /\ d # "tos" /\ d # "mru"
          /\ d # "discard" /\ d # "interface" /\ d # "statistics" /\ d # "filegen" /\ d # "pps"
          /\ d # "provider" /\ d # "setvar"
          /\ d \notin NamingDirectives /\ d \notin CountingDirectives /\ d \notin AskingDirectives
      BY <1>2 DEF NamingDirectives, CountingDirectives, AskingDirectives
    <3>2. QED
      BY <1>2, <3>1, Zenon DEF BuildOption
  <2>2. CASE a = <<>> \/ a[1] \notin DOMAIN RefclockOf
    <3>1. o = Error("no address") \/ o = [kind |-> d, addr |-> a[1], options |-> LowerAll(Tail(a))]
      BY <2>1, <2>2, Zenon DEF Association
    <3>3. o.kind # "refclock"
      <4>1. CASE o = Error("no address")
        <5>1. o.kind = "error"
          BY <4>1, ErrorKind, Zenon
        <5>2. QED
          BY <5>1
      <4>2. CASE o = [kind |-> d, addr |-> a[1], options |-> LowerAll(Tail(a))]
        BY <1>2, <4>2
      <4>3. QED
        BY <3>1, <4>1, <4>2
    <3>2. QED
      BY <3>3 DEF OptionOK
  <2>3. CASE a # <<>> /\ a[1] \in DOMAIN RefclockOf
    <3>1. o.clock = RefclockOf[a[1]]
      BY <2>1, <2>3 DEF Association
    <3>2. QED
      BY <3>1, <2>3, TreeAssumption DEF OptionOK
  <2>4. QED
    BY <2>2, <2>3
<1>3. CASE IsRecognized(d) /\ d \notin {"server", "peer", "pool"}
  <2>1. o.kind # "refclock"
    <3>1. Restriction(a).kind # "refclock" /\ Nts(a).kind # "refclock" /\ Fudge(a).kind # "refclock"
          /\ Tinker(a).kind # "refclock" /\ Tos(a).kind # "refclock" /\ Mru(a).kind # "refclock"
          /\ Discard(a).kind # "refclock"
      BY DEF Restriction, Nts, Fudge, Tinker, Tos, Mru, Discard, Error
    <3>2. Interface(a).kind # "refclock" /\ Statistics(a).kind # "refclock" /\ Filegen(a).kind # "refclock"
          /\ Pps(a).kind # "refclock" /\ Provider(a).kind # "refclock" /\ Setvar(a).kind # "refclock"
      BY DEF Interface, Statistics, Filegen, Pps, Provider, Setvar, Error
    <3>3. d \in NamingDirectives => Naming(d, a).kind # "refclock"
      BY DEF Naming, NamingDirectives, Error
    <3>4. d \in CountingDirectives => Counting(d, a).kind # "refclock"
      BY DEF Counting, CountingDirectives, Error
    <3>5. d \in AskingDirectives => Asking(d, a).kind # "refclock"
      BY DEF Asking, AskingDirectives, Error
    <3>6. [kind |-> "other", directive |-> d, args |-> a].kind # "refclock"
      OBVIOUS
    <3>7. QED
      BY <1>3, <3>1, <3>2, <3>3, <3>4, <3>5, <3>6 DEF BuildOption
  <2>2. QED
    BY <2>1 DEF OptionOK
<1>4. QED
  BY <1>1, <1>2, <1>3

LEMMA LoadInit ==
  Init => LoadTypes
<1> SUFFICES ASSUME Init PROVE LoadTypes
  OBVIOUS
<1>1. file \in Files /\ Len(file) \in Nat
  BY FileIs DEF Init
<1>2. IsSeq(options) /\ DOMAIN options = {} /\ Len(options) = 0
  BY EmptyIsSeq, SeqHas DEF Init
<1>3. TypeOK
  BY <1>1, <1>2 DEF Init, TypeOK
<1>4. QED
  BY <1>1, <1>2, <1>3 DEF Init, LoadTypes, OptionsOK, Phases

\* The text is read to its end before anything is applied, and each step of
\* it leaves what the directives, options and engine may be.
LEMMA ScanTypes ==
  ASSUME LoadTypes, Scan
  PROVE  LoadTypes'
<1> USE DEF LoadTypes
<1>1. /\ file \in Seq(Words \cup Marks) /\ Len(file) \in Nat /\ DOMAIN file = 1..Len(file)
      /\ pos \in Nat \ {0} /\ pos <= Len(file) + 1
  BY FileIs DEF TypeOK
<1>2. ASSUME ~AtEnd
      PROVE  pos \in DOMAIN file /\ pos \in 1..Len(file) /\ file[pos] \in Words \cup Marks /\ pos + 1 \in 1..(Len(file) + 1)
  BY <1>1, <1>2, ElementOfSeq DEF AtEnd
<1>3. CASE SkipComment
  <2>1. PastComment(pos) \in 1..(Len(file) + 1)
    BY <1>1, AfterIs DEF PastComment
  <2>2. TypeOK' /\ OptionsOK' /\ Phases'
    BY <1>3, <2>1 DEF SkipComment, TypeOK, OptionsOK, Phases
  <2>3. QED
    BY <1>3, <2>2 DEF SkipComment
<1>4. CASE BeginDirective
  <2> DEFINE toks == TokensOf(file[pos])
             at == {i \in DOMAIN toks : IsKeyword(toks[i])}
             first == CHOOSE i \in at : \A j \in at : i <= j
  <2>1. file[pos] \in Words /\ pos \in DOMAIN file /\ pos + 1 \in 1..(Len(file) + 1)
    BY <1>2, <1>4 DEF BeginDirective
  <2>2. toks \in Seq(Words)
    BY <2>1, LoadAssumption DEF TokensOf
  <2>3. CASE at = {}
    <3>1. UNCHANGED <<file, directive, args, mode, heads, options, errors, summary, next, engine>> /\ pos' = pos + 1
      BY <1>4, <2>3 DEF BeginDirective
    <3>2. QED
      BY <2>1, <3>1 DEF TypeOK, OptionsOK, Phases
  <2>4. CASE at # {}
    <3>1. /\ directive' = Lower[toks[first]] /\ args' = SubSeq(toks, first + 1, Len(toks))
          /\ mode' = "args" /\ heads' = heads \cup {pos} /\ pos' = pos + 1
      BY <1>4, <2>4 DEF BeginDirective
    <3>2. UNCHANGED <<file, options, errors, summary, next, engine>> /\ mode = "start"
      BY <1>4 DEF BeginDirective
    <3>3. first \in 1..Len(toks) /\ Len(toks) \in Nat
      <4> HIDE DEF toks
      <4>1. Len(toks) \in Nat /\ DOMAIN toks = 1..Len(toks)
        BY <2>2, LenProperties
      <4>2. at \in SUBSET Nat /\ at \subseteq 1..Len(toks)
        BY <4>1
      <4> HIDE DEF at
      <4>3. first \in at
        BY <2>4, <4>2, LeastIn
      <4>4. QED
        BY <4>1, <4>2, <4>3
    <3> HIDE DEF toks, first
    <3>4. \A i \in (first + 1)..Len(toks) : toks[i] \in Words
      BY <2>2, <3>3, ElementOfSeq
    <3>5. SubSeq(toks, first + 1, Len(toks)) \in Seq(Words)
      BY <3>3, <3>4, SubSeqProperties
    <3>6. Lower[toks[first]] \in Words
      BY <2>2, <3>3, ElementOfSeq, TreeAssumption
    <3>7. QED
      BY <2>1, <3>1, <3>2, <3>5, <3>6 DEF TypeOK, OptionsOK, Phases
  <2>5. QED
    BY <2>3, <2>4
<1>5. CASE BlankNewline
  <2>1. pos + 1 \in 1..(Len(file) + 1)
    BY <1>2, <1>5 DEF BlankNewline, Here
  <2>2. QED
    BY <1>5, <2>1 DEF BlankNewline, TypeOK, OptionsOK, Phases
<1>6. CASE TakeArgument
  <2>1. file[pos] \in Words /\ pos + 1 \in 1..(Len(file) + 1)
    BY <1>2, <1>6 DEF TakeArgument
  <2>2. args \o TokensOf(file[pos]) \in Seq(Words)
    BY <2>1, LoadAssumption, ConcatProperties DEF TokensOf, TypeOK
  <2>3. QED
    BY <1>6, <2>1, <2>2 DEF TakeArgument, TypeOK, OptionsOK, Phases
<1>7. CASE QuotedWord
  <2>1. pos + 1 \in 1..(Len(file) + 1)
    BY <1>2, <1>7 DEF QuotedWord, Here
  <2>2. After(Quote, pos + 1) \in 1..(Len(file) + 1)
    BY <1>1, <2>1, AfterIs
  <2>3. Append(args, QuotedText) \in Seq(Words)
    BY LoadAssumption, AppendProperties DEF TypeOK
  <2>4. args' \in Seq(Words)
    BY <1>7, <2>3 DEF QuotedWord, TypeOK
  <2>5. QED
    BY <1>7, <2>2, <2>4 DEF QuotedWord, TypeOK, OptionsOK, Phases
<1>8. CASE EndDirective
  <2> DEFINE option == BuildOption(directive, args)
  <2>1. pos' \in 1..(Len(file) + 1)
    BY <1>1, <1>2, <1>8 DEF EndDirective, Here
  <2>2. next = 1 /\ engine = Fresh /\ UNCHANGED <<file, heads, summary, next, engine>>
        /\ mode' = "start" /\ args' = <<>> /\ directive' = None
    BY <1>8 DEF EndDirective, Phases
  <2>3. options' = options \/ options' = Append(options, option)
    BY <1>8 DEF EndDirective
  <2>4. errors' = errors \/ errors' = errors + 1
    BY <1>8 DEF EndDirective
  <2>5. OptionOK(option)
    BY OptionsHaveClocks DEF TypeOK
  <2> HIDE DEF option
  <2>6. IsSeq(options) /\ Len(options) \in Nat /\ DOMAIN options = 1..Len(options)
    BY SeqHas DEF OptionsOK
  <2>7. OptionsOK' /\ Len(options') \in Nat
    <3>1. CASE options' = options
      BY <3>1, <2>6 DEF OptionsOK
    <3>2. CASE options' = Append(options, option)
      <4> DEFINE r == Append(options, option)
      <4>1. /\ IsSeq(r) /\ Len(r) = Len(options) + 1 /\ DOMAIN r = 1..(Len(options) + 1)
            /\ \A i \in 1..Len(options) : r[i] = options[i]
            /\ r[Len(options) + 1] = option
        BY <2>6, AppendIs
      <4> HIDE DEF r
      <4>2. \A i \in DOMAIN r : OptionOK(r[i])
        <5> SUFFICES ASSUME NEW i \in DOMAIN r PROVE OptionOK(r[i])
          OBVIOUS
        <5>1. i \in 1..Len(options) \/ i = Len(options) + 1
          BY <4>1, <2>6
        <5>2. QED
          BY <5>1, <4>1, <2>5, <2>6 DEF OptionsOK
      <4>3. options' = r
        BY <3>2 DEF r
      <4>4. QED
        BY <4>1, <4>2, <4>3, <2>6 DEF OptionsOK
    <3>3. QED
      BY <2>3, <3>1, <3>2
  <2>8. TypeOK'
    BY <2>1, <2>2, <2>4, <2>7, EmptySeq DEF TypeOK
  <2>9. QED
    BY <2>2, <2>7, <2>8 DEF Phases
<1>9. CASE EndOfFile
  BY <1>9 DEF EndOfFile, scanvars, TypeOK, OptionsOK, Phases
<1>10. QED
  BY <1>3, <1>4, <1>5, <1>6, <1>7, <1>8, <1>9 DEF Scan

\* Applying goes through the options, one at a time, and changes the engine.
LEMMA AppliesOne ==
  ASSUME LoadTypes, ApplyOption
  PROVE  /\ mode = "apply" /\ next \in 1..Len(options) /\ next' = next + 1
         /\ UNCHANGED <<scanvars, mode, options, errors, summary>>
<1>1. Len(options) \in Nat /\ next \in 1..(Len(options) + 1)
  BY SeqHas DEF LoadTypes, OptionsOK, TypeOK
<1>2. mode = "apply" /\ next <= Len(options)
  BY DEF ApplyOption, ApplyAssociation, ApplyRefclock, ApplyRestrict, ApplyNaming, ApplyKeys, ApplyTinker,
     ApplyTos, ApplyMru, ApplyStatistics, ApplyFilegen, ApplyNts, ApplyFudge, ApplySetvar, ApplySwitch,
     ApplyOther, PassOver, Applying
<1>3. \E e : Apply(e)
  BY DEF ApplyOption, ApplyAssociation, ApplyRefclock, ApplyRestrict, ApplyNaming, ApplyKeys, ApplyTinker,
     ApplyTos, ApplyMru, ApplyStatistics, ApplyFilegen, ApplyNts, ApplyFudge, ApplySetvar, ApplySwitch,
     ApplyOther, PassOver
<1>4. next' = next + 1 /\ UNCHANGED <<scanvars, mode, options, errors, summary>>
  BY <1>3 DEF Apply
<1>5. QED
  BY <1>1, <1>2, <1>4

LEMMA ApplyTypes ==
  ASSUME LoadTypes, ApplyOption \/ Finish
  PROVE  LoadTypes'
<1>1. Len(options) \in Nat
  BY SeqHas DEF LoadTypes, OptionsOK
<1>2. CASE ApplyOption
  <2>1. /\ mode = "apply" /\ next \in 1..Len(options) /\ next' = next + 1
        /\ UNCHANGED <<scanvars, mode, options, errors, summary>>
    BY <1>2, AppliesOne
  <2>2. QED
    BY <1>1, <2>1 DEF scanvars, LoadTypes, TypeOK, OptionsOK, Phases
<1>3. CASE Finish
  <2>1. /\ mode = "apply" /\ mode' = "ready" /\ next > Len(options)
        /\ UNCHANGED <<file, pos, directive, args, heads, options, errors, summary, next>>
    BY <1>3 DEF Finish, scanvars
  <2>2. QED
    BY <1>1, <2>1 DEF LoadTypes, TypeOK, OptionsOK, Phases
<1>4. QED
  BY <1>2, <1>3

LEMMA LoadStep ==
  LoadTypes /\ [Next]_vars => LoadTypes'
<1>1. ASSUME LoadTypes, UNCHANGED vars PROVE LoadTypes'
  BY <1>1 DEF vars, scanvars, LoadTypes, TypeOK, OptionsOK, Phases
<1>2. QED
  BY <1>1, ScanTypes, ApplyTypes DEF Next

\* Every step of the scanner, of the parser and of apply_config leaves the
\* variables in their types, and the options a sequence whose clocks have a
\* type and a unit.
THEOREM LoadTypeCorrect ==
  Spec => []TypeOK
<1>1. LoadTypes => TypeOK
  BY DEF LoadTypes
<1>2. QED
  BY LoadInit, LoadStep, <1>1, PTL DEF Spec

------------------------------------------------------------------------------
(* What apply_config has applied                                           *)

Fields == {"peers", "timers", "nextId", "clocks", "entries", "default", "paths", "trusted", "control",
           "tinker", "loop", "minsane", "mru", "filegen", "nts", "fudge", "sysvars", "dscp", "monitor",
           "stats", "auth"}

IsEngine(e) == DOMAIN e = Fields /\ DOMAIN e.mru = MruKeys

\* The engine holds what the first n options say.
Applied(e, o, n) ==
  /\ LastGiven(o, "tos", "minsane", n) # NoNumber => e.minsane = LastGiven(o, "tos", "minsane", n)
  /\ LastGiven(o, "mru", "maxage", n) # NoNumber => e.mru["maxage"] = LastGiven(o, "mru", "maxage", n)
  /\ e.fudge = FudgeSummary(o, n)
  /\ e.nts = LastNtsFiles(o, n)

LEMMA FreshIsEngine ==
  IsEngine(Fresh)
<1>1. DOMAIN Fresh = Fields
  BY DEF Fresh, Fields
<1>2. Fresh.mru = [k \in MruKeys |-> NoNumber]
  BY DEF Fresh
<1>3. QED
  BY <1>1, <1>2 DEF IsEngine

LEMMA FindAllStep ==
  ASSUME NEW o, NEW kind, NEW n \in Nat
  PROVE  FindAll(o, kind, n + 1)
           = IF o[n + 1].kind = kind THEN FindAll(o, kind, n) \cup {n + 1} ELSE FindAll(o, kind, n)
BY DEF FindAll

\* A further line gives the field or leaves it.
LEMMA LastGivenStep ==
  ASSUME NEW o, NEW kind, NEW k, NEW n \in Nat
  PROVE  LastGiven(o, kind, k, n + 1)
           = IF o[n + 1].kind = kind /\ o[n + 1].set[k] # NoNumber THEN o[n + 1].set[k]
             ELSE LastGiven(o, kind, k, n)
<1> DEFINE at(m) == {i \in FindAll(o, kind, m) : o[i].set[k] # NoNumber}
<1>1. LastGiven(o, kind, k, n) = IF at(n) = {} THEN NoNumber ELSE o[LastAt(at(n))].set[k]
  BY DEF LastGiven
<1>2. LastGiven(o, kind, k, n + 1) = IF at(n + 1) = {} THEN NoNumber ELSE o[LastAt(at(n + 1))].set[k]
  BY DEF LastGiven
<1>3. CASE o[n + 1].kind = kind /\ o[n + 1].set[k] # NoNumber
  <2>1. n + 1 \in at(n + 1) /\ at(n + 1) \subseteq 1..(n + 1)
    BY <1>3 DEF FindAll
  <2>2. at(n + 1) \in SUBSET Int /\ \A j \in at(n + 1) : j <= n + 1
    BY <2>1
  <2>3. LastAt(at(n + 1)) = n + 1
    <3> HIDE DEF at
    <3>1. QED
      BY <2>1, <2>2, LastAtOf
  <2>4. QED
    BY <1>2, <1>3, <2>1, <2>3
<1>4. CASE ~(o[n + 1].kind = kind /\ o[n + 1].set[k] # NoNumber)
  <2>a. FindAll(o, kind, n + 1)
          = IF o[n + 1].kind = kind THEN FindAll(o, kind, n) \cup {n + 1} ELSE FindAll(o, kind, n)
    BY ONLY n \in Nat, FindAllStep, Zenon
  <2>0. \/ FindAll(o, kind, n + 1) = FindAll(o, kind, n)
        \/ /\ FindAll(o, kind, n + 1) = FindAll(o, kind, n) \cup {n + 1}
           /\ ~(o[n + 1].set[k] # NoNumber)
    BY ONLY <1>4, <2>a, Zenon
  <2>1. at(n + 1) = at(n)
    BY ONLY <2>0, Zenon
  <2>2. QED
    BY <1>1, <1>2, <1>4, <2>1
<1>5. QED
  BY <1>3, <1>4

\* A further nts line that names both files counts from now on.
LEMMA LastNtsStep ==
  ASSUME NEW o, NEW n \in Nat
  PROVE  LastNtsFiles(o, n + 1)
           = IF o[n + 1].kind = "nts" /\ NtsFiles(o[n + 1]) # <<>> THEN NtsFiles(o[n + 1])
             ELSE LastNtsFiles(o, n)
<1> DEFINE at(m) == {i \in FindAll(o, "nts", m) : NtsFiles(o[i]) # <<>>}
<1>1. LastNtsFiles(o, n) = IF at(n) = {} THEN <<>> ELSE NtsFiles(o[LastAt(at(n))])
  BY DEF LastNtsFiles
<1>2. LastNtsFiles(o, n + 1) = IF at(n + 1) = {} THEN <<>> ELSE NtsFiles(o[LastAt(at(n + 1))])
  BY DEF LastNtsFiles
<1>3. CASE o[n + 1].kind = "nts" /\ NtsFiles(o[n + 1]) # <<>>
  <2>1. n + 1 \in at(n + 1) /\ at(n + 1) \subseteq 1..(n + 1)
    BY <1>3 DEF FindAll
  <2>2. at(n + 1) \in SUBSET Int /\ \A j \in at(n + 1) : j <= n + 1
    BY <2>1
  <2>3. LastAt(at(n + 1)) = n + 1
    <3> HIDE DEF at
    <3>1. QED
      BY <2>1, <2>2, LastAtOf
  <2>4. QED
    BY <1>2, <1>3, <2>1, <2>3
<1>4. CASE ~(o[n + 1].kind = "nts" /\ NtsFiles(o[n + 1]) # <<>>)
  <2>a. FindAll(o, "nts", n + 1)
          = IF o[n + 1].kind = "nts" THEN FindAll(o, "nts", n) \cup {n + 1} ELSE FindAll(o, "nts", n)
    BY ONLY n \in Nat, FindAllStep, Zenon
  <2>0. \/ FindAll(o, "nts", n + 1) = FindAll(o, "nts", n)
        \/ /\ FindAll(o, "nts", n + 1) = FindAll(o, "nts", n) \cup {n + 1}
           /\ ~(NtsFiles(o[n + 1]) # <<>>)
    BY ONLY <1>4, <2>a, Zenon
  <2>1. at(n + 1) = at(n)
    BY ONLY <2>0, Zenon
  <2>2. QED
    BY <1>1, <1>2, <1>4, <2>1
<1>5. QED
  BY <1>3, <1>4

\* A further fudge line stands for its clock from now on.
LEMMA FudgeStep ==
  ASSUME NEW o, NEW n \in Nat
  PROVE  /\ o[n + 1].kind = "fudge" => FudgeSummary(o, n + 1) = Insert(FudgeSummary(o, n), o[n + 1].clock, o[n + 1])
         /\ o[n + 1].kind # "fudge" => FudgeSummary(o, n + 1) = FudgeSummary(o, n)
<1> DEFINE at(m) == FindAll(o, "fudge", m)
           for(m, c) == {i \in at(m) : o[i].clock = c}
           S(m) == {o[i].clock : i \in at(m)}
           x == o[n + 1].clock
           f == FudgeSummary(o, n)
           g == FudgeSummary(o, n + 1)
<1>1. f = [c \in S(n) |-> o[LastAt(for(n, c))]]
  BY DEF FudgeSummary
<1>2. g = [c \in S(n + 1) |-> o[LastAt(for(n + 1, c))]]
  BY DEF FudgeSummary
<1>3. CASE o[n + 1].kind # "fudge"
  <2>1. at(n + 1) = at(n)
    BY <1>3, FindAllStep
  <2>2. QED
    BY <1>1, <1>2, <1>3, <2>1
<1>4. CASE o[n + 1].kind = "fudge"
  <2>1. at(n + 1) = at(n) \cup {n + 1} /\ at(n) \subseteq 1..n
    BY <1>4, FindAllStep DEF FindAll
  <2>2. S(n + 1) = S(n) \cup {x}
    BY <2>1
  <2>3. LastAt(for(n + 1, x)) = n + 1
    <3>1. n + 1 \in for(n + 1, x) /\ for(n + 1, x) \subseteq 1..(n + 1)
      BY <2>1
    <3>2. for(n + 1, x) \in SUBSET Int /\ \A j \in for(n + 1, x) : j <= n + 1
      BY <3>1
    <3> HIDE DEF for
    <3>3. QED
      BY <3>1, <3>2, LastAtOf
  <2>4. ASSUME NEW c, c # x PROVE for(n + 1, c) = for(n, c)
    BY <2>1, <2>4
  <2> DEFINE h == Insert(f, x, o[n + 1])
  <2>5. h = [c \in S(n) \cup {x} |-> IF c = x THEN o[n + 1] ELSE f[c]]
    <3> HIDE DEF f, x
    <3>1. DOMAIN f = S(n)
      BY <1>1
    <3> HIDE DEF S
    <3>2. QED
      BY <3>1 DEF Insert
  <2> HIDE DEF h, f, x
  <2>6. h[x] = o[n + 1]
    BY <2>5
  <2>7. ASSUME NEW c \in S(n), c # x PROVE h[c] = f[c]
    <3> HIDE DEF S
    <3>1. QED
      BY <2>5, <2>7
  <2>8. ASSUME NEW c \in S(n) \cup {x} PROVE g[c] = h[c]
    <3>1. g[c] = o[LastAt(for(n + 1, c))]
      <4> HIDE DEF S, for, g
      <4>1. QED
        BY <1>2, <2>2
    <3>2. CASE c = x
      BY <2>3, <2>6, <3>1, <3>2
    <3>3. CASE c # x
      <4>1. c \in S(n) /\ for(n + 1, c) = for(n, c)
        BY <2>4, <3>3
      <4> HIDE DEF S, for, g, f
      <4>2. f[c] = o[LastAt(for(n, c))]
        BY <1>1, <4>1
      <4>3. QED
        BY <2>7, <3>1, <3>3, <4>1, <4>2
    <3>4. QED
      BY <3>2, <3>3
  <2>9. g = h
    <3> HIDE DEF S, g, for
    <3>1. g = [c \in S(n) \cup {x} |-> g[c]]
      BY <1>2, <2>2
    <3>2. QED
      BY <3>1, <2>5, <2>8
  <2>10. QED
    BY <1>4, <2>9 DEF h, f, x
<1>5. QED
  BY <1>3, <1>4

\* What applying the option x may do to the settings both readings give.
Settles(e, f, x) ==
  /\ IF x.kind = "tos" /\ x.set["minsane"] # NoNumber THEN f.minsane = x.set["minsane"] ELSE f.minsane = e.minsane
  /\ IF x.kind = "mru" /\ x.set["maxage"] # NoNumber THEN f.mru["maxage"] = x.set["maxage"]
     ELSE f.mru["maxage"] = e.mru["maxage"]
  /\ IF x.kind = "fudge" THEN f.fudge = Insert(e.fudge, x.clock, x) ELSE f.fudge = e.fudge
  /\ IF x.kind = "nts" /\ NtsFiles(x) # <<>> THEN f.nts = NtsFiles(x) ELSE f.nts = e.nts

AssociationKinds == {"server", "peer", "pool", "refclock"}
SameTables(e, f) == f.peers = e.peers /\ f.timers = e.timers /\ f.clocks = e.clocks

KeepsSettings(e, f) == f.minsane = e.minsane /\ f.mru = e.mru /\ f.fudge = e.fudge /\ f.nts = e.nts
Keeps(e, f) == KeepsSettings(e, f) /\ SameTables(e, f)

LEMMA AppliedStep ==
  ASSUME NEW e, NEW f, NEW o, NEW n \in Nat, Applied(e, o, n), Settles(e, f, o[n + 1])
  PROVE  Applied(f, o, n + 1)
<1>1. LastGiven(o, "tos", "minsane", n + 1) # NoNumber => f.minsane = LastGiven(o, "tos", "minsane", n + 1)
  <2>1. LastGiven(o, "tos", "minsane", n + 1)
           = IF o[n + 1].kind = "tos" /\ o[n + 1].set["minsane"] # NoNumber THEN o[n + 1].set["minsane"]
             ELSE LastGiven(o, "tos", "minsane", n)
    BY LastGivenStep
  <2>2. QED
    BY <2>1 DEF Applied, Settles
<1>2. LastGiven(o, "mru", "maxage", n + 1) # NoNumber => f.mru["maxage"] = LastGiven(o, "mru", "maxage", n + 1)
  <2>1. LastGiven(o, "mru", "maxage", n + 1)
           = IF o[n + 1].kind = "mru" /\ o[n + 1].set["maxage"] # NoNumber THEN o[n + 1].set["maxage"]
             ELSE LastGiven(o, "mru", "maxage", n)
    BY LastGivenStep
  <2>2. QED
    BY <2>1 DEF Applied, Settles
<1>3. f.fudge = FudgeSummary(o, n + 1)
  BY FudgeStep DEF Applied, Settles
<1>4. f.nts = LastNtsFiles(o, n + 1)
  <2>1. LastNtsFiles(o, n + 1)
           = IF o[n + 1].kind = "nts" /\ NtsFiles(o[n + 1]) # <<>> THEN NtsFiles(o[n + 1])
             ELSE LastNtsFiles(o, n)
    BY LastNtsStep
  <2>2. QED
    BY <2>1 DEF Applied, Settles
<1>5. QED
  BY <1>1, <1>2, <1>3, <1>4 DEF Applied

\* A new association changes the table of them and the id in turn.
LEMMA PeerKeeps ==
  ASSUME IsEngine(engine), NEW hmode, NEW src, NEW clock, NEW poll
  PROVE  LET e == WithPeer(engine, hmode, src, clock, poll)
         IN IsEngine(e) /\ KeepsSettings(engine, e)
<1> DEFINE given == AllocateAssocId(engine.nextId, {engine.peers[i].associd : i \in DOMAIN engine.peers})
           more == Append(engine.peers, [associd |-> given.id, hmode |-> hmode, src |-> src,
                                         clock |-> clock, poll |-> poll])
           e == WithPeer(engine, hmode, src, clock, poll)
           a == [engine EXCEPT !.nextId = given.next]
           b == [a EXCEPT !.peers = more]
<1>1. e = a \/ e = b
  BY DEF WithPeer
<1> HIDE DEF given, more
<1>2. IsEngine(a) /\ KeepsSettings(engine, a) /\ IsEngine(b) /\ KeepsSettings(engine, b)
  BY DEF IsEngine, Fields, KeepsSettings
<1> HIDE DEF e, a, b
<1>3. QED
  BY <1>1, <1>2 DEF e

\* Every option's handler: the engine stays one, and the settings become
\* what the option says of them.
LEMMA ApplySettles ==
  ASSUME IsEngine(engine), ApplyOption
  PROVE  /\ IsEngine(engine') /\ Settles(engine, engine', options[next])
         /\ options[next].kind \notin AssociationKinds => SameTables(engine, engine')
<1> DEFINE x == options[next]
<1>1. ASSUME IsEngine(engine') /\ Keeps(engine, engine'), x.kind \notin {"tos", "mru", "fudge", "nts"}
      PROVE  IsEngine(engine') /\ Settles(engine, engine', x) /\ SameTables(engine, engine')
  BY <1>1 DEF Settles, Keeps, KeepsSettings
<1>2. IsEngine(engine) /\ Keeps(engine, engine)
  BY DEF Keeps, KeepsSettings, SameTables
<1>3. CASE ApplyAssociation
  <2> DEFINE joined == WithPeer(engine, IF x.kind = "peer" THEN "SymActive" ELSE "Client",
                                x.addr, NoClock, PollOptions(x.options))
             timed == [joined EXCEPT !.timers = @ \cup {[event |-> "poll", index |-> PeerIndex(engine)]}]
  <2>1. x.kind \in {"server", "peer", "pool"}
    BY <1>3 DEF ApplyAssociation, Applying
  <2>2. engine' \in {engine, joined, timed}
    BY <1>3 DEF ApplyAssociation, Apply
  <2>3. IsEngine(joined) /\ KeepsSettings(engine, joined)
    BY PeerKeeps
  <2> HIDE DEF joined
  <2>4. IsEngine(timed) /\ KeepsSettings(engine, timed)
    BY <2>3 DEF IsEngine, Fields, KeepsSettings
  <2> HIDE DEF timed
  <2>5. IsEngine(engine') /\ KeepsSettings(engine, engine')
    BY <1>2, <2>2, <2>3, <2>4 DEF Keeps
  <2>6. QED
    BY <2>1, <2>5 DEF Settles, KeepsSettings, AssociationKinds
<1>4. CASE ApplyRefclock
  <2> DEFINE joined == WithPeer(engine, "Client", None, x.clock, [min |-> 4, max |-> 10, iburst |-> FALSE])
             held == [joined EXCEPT !.clocks = AddClock(@, x.clock, Last(joined.peers).associd)]
  <2>1. x.kind = "refclock"
    BY <1>4 DEF ApplyRefclock, Applying
  <2>2. engine' \in {joined, held}
    BY <1>4 DEF ApplyRefclock, Apply
  <2>3. IsEngine(joined) /\ KeepsSettings(engine, joined)
    BY PeerKeeps
  <2> HIDE DEF joined
  <2>4. IsEngine(held) /\ KeepsSettings(engine, held)
    BY <2>3 DEF IsEngine, Fields, KeepsSettings
  <2> HIDE DEF held
  <2>5. IsEngine(engine') /\ KeepsSettings(engine, engine')
    BY <2>2, <2>3, <2>4
  <2>6. QED
    BY <2>1, <2>5 DEF Settles, KeepsSettings, AssociationKinds
<1>5. CASE ApplyRestrict
  <2> DEFINE flags == FlagsOf(x.flags)
             a == [engine EXCEPT !.default["v4"] = flags]
             b == [engine EXCEPT !.default["v6"] = flags]
             c == [engine EXCEPT !.entries = Append(@, [addr |-> x.addr, flags |-> flags])]
  <2>1. x.kind = "restrict"
    BY <1>5 DEF ApplyRestrict, Applying
  <2>2. engine' \in {engine, a, b, c}
    BY <1>5 DEF ApplyRestrict, Apply
  <2>3. IsEngine(a) /\ Keeps(engine, a) /\ IsEngine(b) /\ Keeps(engine, b) /\ IsEngine(c) /\ Keeps(engine, c)
    BY DEF IsEngine, Fields, Keeps, KeepsSettings, SameTables
  <2> HIDE DEF a, b, c
  <2>4. IsEngine(engine') /\ Keeps(engine, engine')
    BY <1>2, <2>2, <2>3
  <2>5. QED
    BY <1>1, <2>1, <2>4
<1>6. CASE ApplyNaming
  <2>1. x.kind \in {"driftfile", "statsdir", "leapfile", "logfile"}
    BY <1>6 DEF ApplyNaming, Applying
  <2>2. engine' = [engine EXCEPT !.paths[x.kind] = x.word]
    BY <1>6 DEF ApplyNaming, Apply
  <2>3. IsEngine(engine') /\ Keeps(engine, engine')
    BY <2>2 DEF IsEngine, Fields, Keeps, KeepsSettings, SameTables
  <2>4. QED
    BY <1>1, <2>1, <2>3
<1>7. CASE ApplyKeys
  <2> DEFINE a == [engine EXCEPT !.trusted = @ \cup {x.number}]
             b == [engine EXCEPT !.control = x.number]
  <2>1. x.kind \in {"trustedkey", "controlkey"}
    BY <1>7 DEF ApplyKeys, Applying
  <2>2. engine' \in {a, b}
    BY <1>7 DEF ApplyKeys, Apply
  <2>3. IsEngine(a) /\ Keeps(engine, a) /\ IsEngine(b) /\ Keeps(engine, b)
    BY DEF IsEngine, Fields, Keeps, KeepsSettings, SameTables
  <2> HIDE DEF a, b
  <2>4. IsEngine(engine') /\ Keeps(engine, engine')
    BY <2>2, <2>3
  <2>5. QED
    BY <1>1, <2>1, <2>4
<1>8. CASE ApplyTinker
  <2> DEFINE t == Over(engine.tinker, x.set)
             l == Over(engine.loop, x.set)
  <2>1. x.kind = "tinker"
    BY <1>8 DEF ApplyTinker, Applying
  <2>2. engine' = [engine EXCEPT !.tinker = t, !.loop = l]
    BY <1>8 DEF ApplyTinker, Apply
  <2> HIDE DEF t, l
  <2>3. IsEngine(engine') /\ Keeps(engine, engine')
    BY <2>2 DEF IsEngine, Fields, Keeps, KeepsSettings, SameTables
  <2>4. QED
    BY <1>1, <2>1, <2>3
<1>9. CASE ApplyTos
  <2> DEFINE v == x.set["minsane"]
  <2>1. x.kind = "tos"
    BY <1>9 DEF ApplyTos, Applying
  <2>2. engine' = IF v = NoNumber THEN engine ELSE [engine EXCEPT !.minsane = v]
    BY <1>9 DEF ApplyTos, Apply
  <2>3. IsEngine(engine') /\ engine'.minsane = (IF v = NoNumber THEN engine.minsane ELSE v)
        /\ engine'.mru = engine.mru /\ engine'.fudge = engine.fudge /\ engine'.nts = engine.nts /\ SameTables(engine, engine')
    BY <2>2 DEF IsEngine, Fields, SameTables
  <2>4. QED
    BY <2>1, <2>3 DEF Settles
<1>10. CASE ApplyMru
  <2> DEFINE m == Over(engine.mru, x.set)
  <2>1. x.kind = "mru"
    BY <1>10 DEF ApplyMru, Applying
  <2>2. engine' = [engine EXCEPT !.mru = m]
    BY <1>10 DEF ApplyMru, Apply
  <2>3. DOMAIN m = MruKeys /\ m["maxage"] = IF x.set["maxage"] # NoNumber THEN x.set["maxage"] ELSE engine.mru["maxage"]
    BY DEF Over, IsEngine, MruKeys
  <2> HIDE DEF m
  <2>4. IsEngine(engine') /\ engine'.minsane = engine.minsane
        /\ engine'.mru = m /\ engine'.fudge = engine.fudge /\ engine'.nts = engine.nts /\ SameTables(engine, engine')
    BY <2>2, <2>3 DEF IsEngine, Fields, SameTables
  <2>5. QED
    BY <2>1, <2>3, <2>4 DEF Settles
<1>11. CASE ApplyStatistics
  <2> DEFINE s == [i \in DOMAIN x.kinds |-> [name |-> x.kinds[i], file |-> x.kinds[i], type |-> "day", enabled |-> TRUE]]
  <2>1. x.kind = "statistics"
    BY <1>11 DEF ApplyStatistics, Applying
  <2>2. engine' = [engine EXCEPT !.filegen = @ \o s]
    BY <1>11 DEF ApplyStatistics, Apply
  <2> HIDE DEF s
  <2>3. IsEngine(engine') /\ Keeps(engine, engine')
    BY <2>2 DEF IsEngine, Fields, Keeps, KeepsSettings, SameTables
  <2>4. QED
    BY <1>1, <2>1, <2>3
<1>12. CASE ApplyFilegen
  <2> DEFINE g == [name |-> x.name, file |-> IF x.file = None THEN x.name ELSE x.file,
                   type |-> IF x.type \in FileWords THEN x.type ELSE "day", enabled |-> x.enabled]
  <2>1. x.kind = "filegen"
    BY <1>12 DEF ApplyFilegen, Applying
  <2>2. engine' = [engine EXCEPT !.filegen = Append(@, g)]
    BY <1>12 DEF ApplyFilegen, Apply
  <2> HIDE DEF g
  <2>3. IsEngine(engine') /\ Keeps(engine, engine')
    BY <2>2 DEF IsEngine, Fields, Keeps, KeepsSettings, SameTables
  <2>4. QED
    BY <1>1, <2>1, <2>3
<1>13. CASE ApplyNts
  <2> DEFINE v == NtsFiles(x)
  <2>1. x.kind = "nts"
    BY <1>13 DEF ApplyNts, Applying
  <2>2. engine' = IF v = <<>> THEN engine ELSE [engine EXCEPT !.nts = v]
    BY <1>13 DEF ApplyNts, Apply
  <2> HIDE DEF v
  <2>3. IsEngine(engine') /\ engine'.nts = (IF v = <<>> THEN engine.nts ELSE v)
        /\ engine'.mru = engine.mru /\ engine'.fudge = engine.fudge /\ engine'.minsane = engine.minsane /\ SameTables(engine, engine')
    BY <2>2 DEF IsEngine, Fields, SameTables
  <2>4. QED
    BY <2>1, <2>3 DEF Settles, v
<1>14. CASE ApplyFudge
  <2> DEFINE h == Insert(engine.fudge, x.clock, x)
  <2>1. x.kind = "fudge"
    BY <1>14 DEF ApplyFudge, Applying
  <2>2. engine' = [engine EXCEPT !.fudge = h]
    BY <1>14 DEF ApplyFudge, Apply
  <2> HIDE DEF h
  <2>3. IsEngine(engine') /\ engine'.nts = engine.nts
        /\ engine'.mru = engine.mru /\ engine'.fudge = h /\ engine'.minsane = engine.minsane /\ SameTables(engine, engine')
    BY <2>2 DEF IsEngine, Fields, SameTables
  <2>4. QED
    BY <2>1, <2>3 DEF Settles, h
<1>15. CASE ApplySetvar
  <2> DEFINE v == Insert(engine.sysvars, x.name, x.value)
  <2>1. x.kind = "setvar"
    BY <1>15 DEF ApplySetvar, Applying
  <2>2. engine' = [engine EXCEPT !.sysvars = v]
    BY <1>15 DEF ApplySetvar, Apply
  <2> HIDE DEF v
  <2>3. IsEngine(engine') /\ Keeps(engine, engine')
    BY <2>2 DEF IsEngine, Fields, Keeps, KeepsSettings, SameTables
  <2>4. QED
    BY <1>1, <2>1, <2>3
<1>16. CASE ApplySwitch
  <2> DEFINE on == x.kind = "enable"
             depth == engine.mru["maxdepth"]
             limit == IF ~on THEN 0 ELSE IF depth = 0 THEN 1024 ELSE depth
             a == [engine EXCEPT !.stats = on]
             b == [engine EXCEPT !.auth = on]
             c == [engine EXCEPT !.monitor = on, !.mru["maxdepth"] = limit]
  <2>1. x.kind \in {"enable", "disable"}
    BY <1>16 DEF ApplySwitch, Applying
  <2>2. engine' \in {engine, a, b, c}
    BY <1>16 DEF ApplySwitch, Apply
  <2> HIDE DEF on, limit
  <2>3. IsEngine(a) /\ Keeps(engine, a) /\ IsEngine(b) /\ Keeps(engine, b)
    BY DEF IsEngine, Fields, Keeps, KeepsSettings, SameTables
  <2>4. IsEngine(c) /\ c.minsane = engine.minsane /\ c.fudge = engine.fudge /\ c.nts = engine.nts
        /\ c.mru["maxage"] = engine.mru["maxage"] /\ SameTables(engine, c)
    <3> DEFINE m == [engine.mru EXCEPT !["maxdepth"] = limit]
    <3>1. DOMAIN m = MruKeys /\ m["maxage"] = engine.mru["maxage"]
      BY DEF IsEngine, MruKeys
    <3>2. c = [engine EXCEPT !.monitor = on, !.mru = m]
      BY DEF IsEngine, Fields, SameTables
    <3> HIDE DEF m, c
    <3>3. QED
      BY <3>1, <3>2 DEF IsEngine, Fields, SameTables
  <2> HIDE DEF a, b, c
  <2>5. CASE engine' = c
    BY <2>1, <2>4, <2>5 DEF Settles
  <2>6. CASE engine' # c
    <3>1. IsEngine(engine') /\ Keeps(engine, engine')
      BY <1>2, <2>2, <2>3, <2>6
    <3>2. QED
      BY <1>1, <2>1, <3>1
  <2>7. QED
    BY <2>5, <2>6
<1>17. CASE ApplyOther
  <2> DEFINE v == IF x.args = <<>> THEN NoNumber ELSE Byte(x.args[1])
             a == [engine EXCEPT !.dscp = v]
  <2>1. x.kind = "other"
    BY <1>17 DEF ApplyOther, Applying
  <2>2. engine' \in {engine, a}
    BY <1>17 DEF ApplyOther, Apply
  <2> HIDE DEF v
  <2>3. IsEngine(a) /\ Keeps(engine, a)
    BY DEF IsEngine, Fields, Keeps, KeepsSettings, SameTables
  <2> HIDE DEF a
  <2>4. IsEngine(engine') /\ Keeps(engine, engine')
    BY <1>2, <2>2, <2>3
  <2>5. QED
    BY <1>1, <2>1, <2>4
<1>18. CASE PassOver
  <2>1. x.kind \notin {"tos", "mru", "fudge", "nts"}
    BY <1>18 DEF PassOver, Applying, AppliedKinds
  <2>2. engine' = engine
    BY <1>18 DEF PassOver, Apply
  <2>3. QED
    BY <1>1, <1>2, <2>1, <2>2
<1>19. QED
  BY <1>3, <1>4, <1>5, <1>6, <1>7, <1>8, <1>9, <1>10, <1>11, <1>12, <1>13, <1>14, <1>15, <1>16, <1>17, <1>18
     DEF ApplyOption

\* No option has been applied to the engine that starts.
LEMMA NothingApplied ==
  ASSUME NEW o
  PROVE  Applied(Fresh, o, 0)
<1>1. \A kind : FindAll(o, kind, 0) = {}
  BY DEF FindAll
<1>2. LastGiven(o, "tos", "minsane", 0) = NoNumber /\ LastGiven(o, "mru", "maxage", 0) = NoNumber
  BY <1>1 DEF LastGiven
<1>3. FudgeSummary(o, 0) = <<>>
  <2> DEFINE S == {o[i].clock : i \in FindAll(o, "fudge", 0)}
             f == FudgeSummary(o, 0)
  <2>1. S = {}
    BY <1>1
  <2>2. f = [c \in S |-> o[LastAt({i \in FindAll(o, "fudge", 0) : o[i].clock = c})]]
    BY DEF FudgeSummary
  <2> HIDE DEF S, f
  <2>3. DOMAIN f = {} /\ f = [c \in DOMAIN f |-> f[c]]
    BY <2>1, <2>2
  <2>4. \A c \in {} : f[c] \in {}
    OBVIOUS
  <2>5. f \in [1..0 -> {}]
    BY <2>3
  <2>6. f \in Seq({}) /\ Len(f) = 0
    BY <2>5, <2>3, SeqDef, LenProperties
  <2>7. f = <<>>
    BY <2>6, EmptySeq
  <2>8. QED
    BY <2>7 DEF f
<1>4. Fresh.fudge = <<>> /\ Fresh.nts = <<>>
  BY DEF Fresh
<1>5. LastNtsFiles(o, 0) = <<>>
  BY <1>1 DEF LastNtsFiles
<1>6. QED
  BY <1>2, <1>3, <1>4, <1>5 DEF Applied

\* The engine is what the options up to the one in turn make of it.
LoadInv == LoadTypes /\ IsEngine(engine) /\ Applied(engine, options, next - 1)

LEMMA SettledInit ==
  Init => LoadInv
<1> SUFFICES ASSUME Init PROVE LoadInv
  OBVIOUS
<1>1. LoadTypes
  BY LoadInit
<1>2. engine = Fresh /\ next - 1 = 0
  BY DEF Init
<1>3. QED
  BY <1>1, <1>2, FreshIsEngine, NothingApplied DEF LoadInv

LEMMA SettledStep ==
  LoadInv /\ [Next]_vars => LoadInv'
<1> SUFFICES ASSUME LoadInv, [Next]_vars PROVE LoadInv'
  OBVIOUS
<1>1. LoadTypes /\ LoadTypes'
  BY LoadStep DEF LoadInv
<1>2. CASE UNCHANGED vars
  BY <1>1, <1>2 DEF vars, LoadInv
<1>3. CASE Scan
  <2>1. mode \in {"start", "args"} /\ UNCHANGED <<next, engine>>
    BY <1>3 DEF Scan, SkipComment, BeginDirective, BlankNewline, TakeArgument, QuotedWord, EndDirective,
       EndOfFile, Reading
  <2>2. engine' = Fresh /\ next' - 1 = 0
    BY <1>1, <2>1 DEF LoadTypes, Phases
  <2>3. QED
    BY <1>1, <2>2, FreshIsEngine, NothingApplied DEF LoadInv
<1>4. CASE ApplyOption
  <2>1. next \in 1..Len(options) /\ next' = next + 1 /\ options' = options /\ Len(options) \in Nat
    BY <1>1, <1>4, AppliesOne, SeqHas DEF LoadTypes, OptionsOK
  <2>2. IsEngine(engine') /\ Settles(engine, engine', options[next])
    BY <1>4, ApplySettles DEF LoadInv
  <2>3. next - 1 \in Nat /\ (next - 1) + 1 = next /\ next' - 1 = next
    BY <2>1
  <2>4. Applied(engine, options, next - 1)
    BY DEF LoadInv
  <2>5. Applied(engine', options, next)
    <3> DEFINE n == next - 1
    <3>1. n \in Nat /\ n + 1 = next /\ Applied(engine, options, n)
      BY <2>3, <2>4
    <3> HIDE DEF n
    <3>2. Settles(engine, engine', options[n + 1])
      BY <2>2, <3>1
    <3>3. Applied(engine', options, n + 1)
      BY <3>1, <3>2, AppliedStep
    <3>4. QED
      BY <3>1, <3>3
  <2>6. QED
    BY <1>1, <2>1, <2>2, <2>3, <2>5 DEF LoadInv
<1>5. CASE Finish
  <2> DEFINE t == engine.timers \cup {[event |-> e, index |-> -1] : e \in {"housekeeping", "reachability", "statswrite"}}
  <2>1. engine' = [engine EXCEPT !.timers = t] /\ next' = next /\ options' = options
    BY <1>5 DEF Finish
  <2> HIDE DEF t
  <2>2. IsEngine(engine') /\ KeepsSettings(engine, engine')
    BY <2>1 DEF IsEngine, Fields, KeepsSettings, LoadInv
  <2>3. Applied(engine', options, next - 1)
    BY <2>2 DEF Applied, KeepsSettings, LoadInv
  <2>4. QED
    BY <1>1, <2>1, <2>2, <2>3 DEF LoadInv
<1>6. QED
  BY <1>2, <1>3, <1>4, <1>5 DEF Next

LEMMA LoadInvariant ==
  Spec => []LoadInv
BY SettledInit, SettledStep, PTL DEF Spec

\* Whatever the file says and in whatever order, where parse_config's summary
\* and apply_config's walk over the options both give a setting, they give
\* the same: the last tos and mru line that has it, the last fudge line of
\* each clock. Of nts the engine has the files of the last line that names
\* both, which are those of the summary unless a line after the first does.
THEOREM OneReadingOfTheFile ==
  Spec => []TwoReadingsAgree
<1>1. LoadInv => TwoReadingsAgree
  <2> SUFFICES ASSUME LoadInv, mode = "ready"
               PROVE  /\ summary.tos["minsane"] # NoNumber => engine.minsane = summary.tos["minsane"]
                      /\ summary.mru["maxage"] # NoNumber => engine.mru["maxage"] = summary.mru["maxage"]
                      /\ summary.fudge = engine.fudge
                      /\ engine.nts = LastNtsFiles(options, Len(options))
                      /\ (\A i, j \in FindAll(options, "nts", Len(options)) :
                             i < j => NtsFiles(options[j]) = <<>>)
                           => summary.nts = engine.nts
    BY DEF TwoReadingsAgree
  <2>1. summary = Summary(options) /\ next - 1 = Len(options) /\ Len(options) \in Nat
    BY SeqHas DEF LoadInv, LoadTypes, Phases, OptionsOK
  <2>2. Applied(engine, options, Len(options))
    BY <2>1 DEF LoadInv
  <2>3. /\ summary.tos["minsane"] = LastGiven(options, "tos", "minsane", Len(options))
        /\ summary.mru["maxage"] = LastGiven(options, "mru", "maxage", Len(options))
        /\ summary.fudge = FudgeSummary(options, Len(options))
        /\ summary.nts = NtsSummary(options)
    BY <2>1 DEF Summary, TosKeys, MruKeys
  <2>4. ASSUME \A i, j \in FindAll(options, "nts", Len(options)) :
                  i < j => NtsFiles(options[j]) = <<>>
        PROVE summary.nts = LastNtsFiles(options, Len(options))
    <3> DEFINE at == FindAll(options, "nts", Len(options))
               k == CHOOSE i \in at : \A j \in at : i <= j
               full == {i \in at : NtsFiles(options[i]) # <<>>}
    <3>1. /\ NtsSummary(options) = IF at = {} THEN <<>> ELSE NtsFiles(options[k])
          /\ LastNtsFiles(options, Len(options))
               = IF full = {} THEN <<>> ELSE NtsFiles(options[LastAt(full)])
      BY DEF NtsSummary, FindFirst, LastNtsFiles
    <3>2. at \in SUBSET Nat
      BY <2>1 DEF FindAll
    <3>3. CASE at = {}
      BY <2>3, <3>1, <3>3
    <3>4. CASE at # {}
      <4>1. k \in at /\ \A j \in at : k <= j
        <5> HIDE DEF at
        <5>1. \E i \in at : \A j \in at : i <= j
          BY <3>4, <3>2, LeastIn
        <5>2. QED
          BY <5>1
      <4> HIDE DEF k
      <4>2. \A j \in at : j # k => NtsFiles(options[j]) = <<>>
        <5>1. \A j \in at : j # k => k < j
          BY <4>1, <3>2
        <5>2. QED
          BY <2>4, <4>1, <5>1
      <4>3. full \subseteq {k}
        BY <4>2
      <4>4. CASE full = {}
        BY <2>3, <3>1, <3>4, <4>1, <4>4
      <4>5. CASE full = {k}
        <5>1. LastAt(full) = k
          <6>1. full \in SUBSET Int /\ k \in full /\ \A j \in full : j <= k
            BY <3>2, <4>1, <4>5
          <6> HIDE DEF full
          <6>2. QED
            BY <6>1, LastAtOf
        <5>2. QED
          BY <2>3, <3>1, <3>4, <4>5, <5>1
      <4>6. QED
        BY <4>3, <4>4, <4>5
    <3>5. QED
      BY <3>3, <3>4
  <2>5. QED
    BY <2>2, <2>3, <2>4 DEF Applied
<1>2. QED
  BY LoadInvariant, <1>1, PTL

------------------------------------------------------------------------------
(* Associations, their timers and clocks                                   *)

PollTimers(e) == {t.index : t \in {u \in e.timers : u.event = "poll"}}
Polled(e) == {i - 1 : i \in {j \in DOMAIN e.peers : e.peers[j].clock = NoClock}}
FirstNames(e, c) ==
  \E i \in DOMAIN e.peers :
    /\ e.peers[i].associd = e.clocks[c].associd
    /\ e.peers[i].clock = e.clocks[c].clock
    /\ \A j \in 1..(i - 1) : e.peers[j].clock # e.peers[i].clock

Served(e) ==
  /\ IsSeq(e.peers) /\ IsSeq(e.clocks)
  /\ PollTimers(e) = Polled(e)
  /\ \A i \in DOMAIN e.peers : e.peers[i].clock # NoClock =>
       \E c \in DOMAIN e.clocks : e.clocks[c].clock = e.peers[i].clock
  /\ \A c, d \in DOMAIN e.clocks : e.clocks[c].clock = e.clocks[d].clock => c = d
  /\ \A c \in DOMAIN e.clocks : FirstNames(e, c)

\* Served speaks of the three tables only.
LEMMA SameServed ==
  ASSUME NEW e, NEW f, Served(e), f.peers = e.peers, f.clocks = e.clocks, PollTimers(f) = PollTimers(e)
  PROVE  Served(f)
BY DEF Served, Polled, FirstNames

LEMMA FreshServed ==
  Served(Fresh)
<1>1. Fresh.peers = <<>> /\ Fresh.clocks = <<>> /\ Fresh.timers = {}
  BY DEF Fresh
<1>2. DOMAIN Fresh.peers = {} /\ DOMAIN Fresh.clocks = {} /\ IsSeq(Fresh.peers) /\ IsSeq(Fresh.clocks)
  BY <1>1, EmptyIsSeq, SeqHas
<1>3. PollTimers(Fresh) = {} /\ Polled(Fresh) = {}
  BY <1>1, <1>2 DEF PollTimers, Polled
<1>4. QED
  BY <1>2, <1>3 DEF Served

\* An association joins the end of the table, or none does when no id is free.
LEMMA PeerJoins ==
  ASSUME IsEngine(engine), IsSeq(engine.peers), NEW hmode, NEW src, NEW clock, NEW poll,
         NEW e, e = WithPeer(engine, hmode, src, clock, poll)
  PROVE  /\ IsEngine(e) /\ e.timers = engine.timers /\ e.clocks = engine.clocks
         /\ \/ e.peers = engine.peers
            \/ \E p : e.peers = Append(engine.peers, p) /\ p.clock = clock
<1> DEFINE given == AllocateAssocId(engine.nextId, {engine.peers[i].associd : i \in DOMAIN engine.peers})
           p == [associd |-> given.id, hmode |-> hmode, src |-> src, clock |-> clock, poll |-> poll]
           more == Append(engine.peers, p)
           a == [engine EXCEPT !.nextId = given.next]
           b == [a EXCEPT !.peers = more]
<1>1. e = a \/ e = b
  BY DEF WithPeer
<1>2. p.clock = clock
  OBVIOUS
<1> HIDE DEF given, p
<1>3. more = Append(engine.peers, p)
  OBVIOUS
<1> HIDE DEF more
<1>4. /\ IsEngine(a) /\ a.timers = engine.timers /\ a.clocks = engine.clocks /\ a.peers = engine.peers
      /\ IsEngine(b) /\ b.timers = engine.timers /\ b.clocks = engine.clocks /\ b.peers = more
  BY DEF IsEngine, Fields
<1> HIDE DEF a, b
<1>5. QED
  BY <1>1, <1>2, <1>3, <1>4

\* One more association: what was said of those before it stands.
LEMMA JoinedServed ==
  ASSUME NEW e, NEW f, Served(e), NEW p, f.peers = Append(e.peers, p), f.clocks = e.clocks
  PROVE  /\ IsSeq(f.peers) /\ Len(f.peers) = Len(e.peers) + 1 /\ Len(e.peers) \in Nat
         /\ DOMAIN f.peers = 1..(Len(e.peers) + 1) /\ DOMAIN e.peers = 1..Len(e.peers)
         /\ f.peers[Len(e.peers) + 1] = p
         /\ \A i \in 1..Len(e.peers) : f.peers[i] = e.peers[i]
         /\ Polled(f) = IF p.clock = NoClock THEN Polled(e) \cup {Len(e.peers)} ELSE Polled(e)
         /\ \A c \in DOMAIN e.clocks : FirstNames(f, c)
<1> DEFINE n == Len(e.peers)
<1>1. n \in Nat /\ DOMAIN e.peers = 1..n
  BY SeqHas DEF Served
<1>2. /\ IsSeq(f.peers) /\ Len(f.peers) = n + 1 /\ DOMAIN f.peers = 1..(n + 1)
      /\ f.peers[n + 1] = p
      /\ \A i \in 1..n : f.peers[i] = e.peers[i]
  BY AppendIs DEF Served
<1> HIDE DEF n
<1>3. Polled(f) = IF p.clock = NoClock THEN Polled(e) \cup {n} ELSE Polled(e)
  <2> DEFINE F == {j \in DOMAIN f.peers : f.peers[j].clock = NoClock}
             E == {j \in DOMAIN e.peers : e.peers[j].clock = NoClock}
  <2>1. F = IF p.clock = NoClock THEN E \cup {n + 1} ELSE E
    BY <1>1, <1>2
  <2>2. Polled(f) = {i - 1 : i \in F} /\ Polled(e) = {i - 1 : i \in E}
    BY DEF Polled
  <2>3. (n + 1) - 1 = n
    BY <1>1
  <2> HIDE DEF E, F
  <2>4. QED
    BY <2>1, <2>2, <2>3
<1>4. ASSUME NEW c \in DOMAIN e.clocks PROVE FirstNames(f, c)
  <2>1. PICK i \in DOMAIN e.peers :
          /\ e.peers[i].associd = e.clocks[c].associd
          /\ e.peers[i].clock = e.clocks[c].clock
          /\ \A j \in 1..(i - 1) : e.peers[j].clock # e.peers[i].clock
    BY DEF Served, FirstNames
  <2>2. i \in DOMAIN f.peers /\ i \in 1..n /\ f.peers[i] = e.peers[i]
    BY <1>1, <1>2
  <2>3. ASSUME NEW j \in 1..(i - 1) PROVE f.peers[j].clock # f.peers[i].clock
    <3>1. j \in 1..n
      BY <1>1, <2>2
    <3>2. QED
      BY <1>2, <2>1, <2>2, <3>1
  <2>4. QED
    BY <2>1, <2>2, <2>3 DEF FirstNames
<1>5. QED
  BY <1>1, <1>2, <1>3, <1>4 DEF n

\* A server's association is polled by a timer at its place.
LEMMA AssociationServed ==
  ASSUME IsEngine(engine), Served(engine), ApplyAssociation
  PROVE  Served(engine')
<1> DEFINE o == options[next]
           joined == WithPeer(engine, IF o.kind = "peer" THEN "SymActive" ELSE "Client",
                              o.addr, NoClock, PollOptions(o.options))
           x == [event |-> "poll", index |-> PeerIndex(engine)]
           timed == [joined EXCEPT !.timers = @ \cup {x}]
           n == Len(engine.peers)
<1>1. engine' = IF ~IsLiteral(o.addr) THEN engine ELSE IF Len(joined.peers) = n THEN joined ELSE timed
  BY DEF ApplyAssociation, Apply
<1>2. /\ IsEngine(joined) /\ joined.timers = engine.timers /\ joined.clocks = engine.clocks
      /\ \/ joined.peers = engine.peers
         \/ \E p : joined.peers = Append(engine.peers, p) /\ p.clock = NoClock
  BY PeerJoins DEF Served
<1> HIDE DEF joined
<1>3. CASE engine' = engine
  BY <1>3
<1>4. CASE joined.peers = engine.peers
  <2>1. engine' = engine \/ engine' = joined
    BY <1>1, <1>4
  <2>2. Served(joined)
    BY <1>2, <1>4, SameServed DEF PollTimers
  <2>3. QED
    BY <2>1, <2>2
<1>5. CASE engine' # engine /\ joined.peers # engine.peers
  <2>1. PICK p : joined.peers = Append(engine.peers, p) /\ p.clock = NoClock
    BY <1>2, <1>5
  <2>2. Len(joined.peers) # n
    BY <2>1, JoinedServed, <1>2
  <2>3. engine' = timed
    BY <1>1, <1>5, <2>2
  <2>4. engine'.peers = joined.peers /\ engine'.clocks = engine.clocks /\ engine'.timers = engine.timers \cup {x}
    BY <1>2, <2>3 DEF IsEngine, Fields
  <2>5. x.event = "poll" /\ x.index = n
    BY DEF PeerIndex
  <2> HIDE DEF x, timed, n
  <2>6. PollTimers(engine') = PollTimers(engine) \cup {n}
    BY <2>4, <2>5 DEF PollTimers
  <2>7. /\ IsSeq(engine'.peers) /\ Len(engine'.peers) = n + 1 /\ n \in Nat
        /\ DOMAIN engine'.peers = 1..(n + 1) /\ DOMAIN engine.peers = 1..n
        /\ engine'.peers[n + 1] = p
        /\ \A i \in 1..n : engine'.peers[i] = engine.peers[i]
        /\ Polled(engine') = Polled(engine) \cup {n}
        /\ \A c \in DOMAIN engine.clocks : FirstNames(engine', c)
    <3> DEFINE f == engine'
    <3>1. Served(engine) /\ f.peers = Append(engine.peers, p) /\ f.clocks = engine.clocks
      BY <2>1, <2>4
    <3> HIDE DEF f
    <3>2. /\ IsSeq(f.peers) /\ Len(f.peers) = Len(engine.peers) + 1 /\ Len(engine.peers) \in Nat
          /\ DOMAIN f.peers = 1..(Len(engine.peers) + 1) /\ DOMAIN engine.peers = 1..Len(engine.peers)
          /\ f.peers[Len(engine.peers) + 1] = p
          /\ \A i \in 1..Len(engine.peers) : f.peers[i] = engine.peers[i]
          /\ Polled(f) = IF p.clock = NoClock THEN Polled(engine) \cup {Len(engine.peers)} ELSE Polled(engine)
          /\ \A c \in DOMAIN engine.clocks : FirstNames(f, c)
      BY <3>1, JoinedServed
    <3>3. QED
      BY <3>2, <2>1 DEF f, n
  <2>8. ASSUME NEW i \in DOMAIN engine'.peers, engine'.peers[i].clock # NoClock
        PROVE  \E c \in DOMAIN engine'.clocks : engine'.clocks[c].clock = engine'.peers[i].clock
    <3>1. i \in 1..n
      BY <2>1, <2>7, <2>8
    <3>2. QED
      BY <2>4, <2>7, <2>8, <3>1 DEF Served
  <2>9. QED
    BY <2>4, <2>6, <2>7, <2>8 DEF Served
<1>6. QED
  BY <1>3, <1>4, <1>5

\* A reference clock's association has none, and the first of a clock makes
\* the instance of it.
LEMMA ClockServed ==
  ASSUME IsEngine(engine), Served(engine), ApplyRefclock, options[next].clock # NoClock
  PROVE  Served(engine')
<1> DEFINE x == options[next].clock
           joined == WithPeer(engine, "Client", None, x, [min |-> 4, max |-> 10, iburst |-> FALSE])
           id == Last(joined.peers).associd
           held == [joined EXCEPT !.clocks = AddClock(@, x, id)]
           n == Len(engine.peers)
<1>1. engine' = IF Len(joined.peers) = n THEN joined ELSE held
  BY DEF ApplyRefclock, Apply
<1>2. /\ IsEngine(joined) /\ joined.timers = engine.timers /\ joined.clocks = engine.clocks
      /\ \/ joined.peers = engine.peers
         \/ \E p : joined.peers = Append(engine.peers, p) /\ p.clock = x
  BY PeerJoins DEF Served
<1> HIDE DEF joined
<1>3. CASE joined.peers = engine.peers
  <2>1. Served(joined)
    BY <1>2, <1>3, SameServed DEF PollTimers
  <2>2. QED
    BY <1>1, <1>3, <2>1
<1>4. CASE joined.peers # engine.peers
  <2>1. PICK p : joined.peers = Append(engine.peers, p) /\ p.clock = x
    BY <1>2, <1>4
  <2>2. Len(joined.peers) # n
    BY <2>1, JoinedServed, <1>2
  <2>3. engine' = held
    BY <1>1, <2>2
  <2>4. engine'.peers = joined.peers /\ engine'.clocks = AddClock(engine.clocks, x, id)
        /\ engine'.timers = engine.timers
    BY <1>2, <2>3 DEF IsEngine, Fields
  <2>5. /\ IsSeq(joined.peers) /\ Len(joined.peers) = n + 1 /\ n \in Nat
        /\ DOMAIN joined.peers = 1..(n + 1) /\ DOMAIN engine.peers = 1..n
        /\ joined.peers[n + 1] = p
        /\ \A i \in 1..n : joined.peers[i] = engine.peers[i]
        /\ Polled(joined) = Polled(engine)
        /\ \A c \in DOMAIN engine.clocks : FirstNames(joined, c)
    <3> DEFINE f == joined
    <3>1. Served(engine) /\ f.peers = Append(engine.peers, p) /\ f.clocks = engine.clocks
      BY <2>1, <1>2
    <3> HIDE DEF f
    <3>2. /\ IsSeq(f.peers) /\ Len(f.peers) = Len(engine.peers) + 1 /\ Len(engine.peers) \in Nat
          /\ DOMAIN f.peers = 1..(Len(engine.peers) + 1) /\ DOMAIN engine.peers = 1..Len(engine.peers)
          /\ f.peers[Len(engine.peers) + 1] = p
          /\ \A i \in 1..Len(engine.peers) : f.peers[i] = engine.peers[i]
          /\ Polled(f) = IF p.clock = NoClock THEN Polled(engine) \cup {Len(engine.peers)} ELSE Polled(engine)
          /\ \A c \in DOMAIN engine.clocks : FirstNames(f, c)
      BY <3>1, JoinedServed
    <3>3. QED
      BY <3>2, <2>1 DEF f, n
  <2>6. id = p.associd
    BY <2>5 DEF Last
  <2>7. PollTimers(engine') = Polled(engine')
    <3>1. PollTimers(engine') = PollTimers(engine) /\ Polled(engine') = Polled(joined)
      BY <2>4 DEF PollTimers, Polled
    <3>2. QED
      BY <2>5, <3>1 DEF Served
  <2> HIDE DEF held, id, n
  <2>8. CASE \E c \in DOMAIN engine.clocks : engine.clocks[c].clock = x
    <3>1. engine'.clocks = engine.clocks
      BY <2>4, <2>8 DEF AddClock
    <3>2. ASSUME NEW i \in DOMAIN engine'.peers, engine'.peers[i].clock # NoClock
          PROVE  \E c \in DOMAIN engine'.clocks : engine'.clocks[c].clock = engine'.peers[i].clock
      <4>1. i \in 1..n \/ i = n + 1
        BY <2>4, <2>5
      <4>2. QED
        BY <4>1, <2>1, <2>4, <2>5, <2>8, <3>1, <3>2 DEF Served
    <3>3. \A c \in DOMAIN engine'.clocks : FirstNames(engine', c)
      BY <1>2, <2>4, <2>5, <3>1 DEF FirstNames
    <3>4. QED
      BY <2>4, <2>5, <2>7, <3>1, <3>2, <3>3 DEF Served
  <2>9. CASE \A c \in DOMAIN engine.clocks : engine.clocks[c].clock # x
    <3> DEFINE k == [clock |-> x, associd |-> id]
               m == Len(engine.clocks)
    <3>1. engine'.clocks = Append(engine.clocks, k)
      BY <2>4, <2>9 DEF AddClock
    <3>2. k.clock = x /\ k.associd = id
      OBVIOUS
    <3> HIDE DEF k
    <3>3. m \in Nat /\ DOMAIN engine.clocks = 1..m
      BY SeqHas DEF Served
    <3>4. /\ IsSeq(engine'.clocks) /\ DOMAIN engine'.clocks = 1..(m + 1)
          /\ \A c \in 1..m : engine'.clocks[c] = engine.clocks[c]
          /\ engine'.clocks[m + 1] = k
      BY <3>1, AppendIs DEF Served
    <3> HIDE DEF m
    <3>5. ASSUME NEW i \in DOMAIN engine'.peers, engine'.peers[i].clock # NoClock
          PROVE  \E c \in DOMAIN engine'.clocks : engine'.clocks[c].clock = engine'.peers[i].clock
      <4>1. CASE i \in 1..n
        <5>1. PICK c \in DOMAIN engine.clocks : engine.clocks[c].clock = engine.peers[i].clock
          BY <4>1, <3>5, <2>4, <2>5 DEF Served
        <5>2. c \in DOMAIN engine'.clocks /\ engine'.clocks[c] = engine.clocks[c]
          BY <3>3, <3>4
        <5>3. QED
          BY <4>1, <5>1, <5>2, <2>4, <2>5
      <4>2. CASE i = n + 1
        <5>1. m + 1 \in DOMAIN engine'.clocks
          BY <3>3, <3>4
        <5>2. QED
          BY <4>2, <5>1, <3>2, <3>4, <2>1, <2>4, <2>5
      <4>3. QED
        BY <4>1, <4>2, <2>4, <2>5
    <3>6. \A c, d \in DOMAIN engine'.clocks : engine'.clocks[c].clock = engine'.clocks[d].clock => c = d
      <4> SUFFICES ASSUME NEW c \in DOMAIN engine'.clocks, NEW d \in DOMAIN engine'.clocks,
                          engine'.clocks[c].clock = engine'.clocks[d].clock
                   PROVE  c = d
        OBVIOUS
      <4>1. (c \in 1..m \/ c = m + 1) /\ (d \in 1..m \/ d = m + 1)
        BY <3>3, <3>4
      <4>2. CASE c \in 1..m /\ d \in 1..m
        BY <4>2, <3>3, <3>4 DEF Served
      <4>3. CASE ~(c \in 1..m /\ d \in 1..m)
        BY <4>1, <4>3, <3>2, <3>3, <3>4, <2>9
      <4>4. QED
        BY <4>2, <4>3
    <3>7. ASSUME NEW c \in DOMAIN engine'.clocks PROVE FirstNames(engine', c)
      <4>1. CASE c \in 1..m
        <5>1. FirstNames(joined, c)
          BY <4>1, <3>3, <2>5
        <5>2. QED
          BY <1>2, <2>4, <3>4, <4>1, <5>1 DEF FirstNames
      <4>2. CASE c = m + 1
        <5>1. n + 1 \in DOMAIN engine'.peers /\ engine'.peers[n + 1] = p
          BY <2>4, <2>5
        <5>2. engine'.clocks[c].clock = x /\ engine'.clocks[c].associd = p.associd
          BY <4>2, <3>2, <3>4, <2>6
        <5>3. ASSUME NEW j \in 1..n PROVE engine'.peers[j].clock # x
          <6>1. engine'.peers[j] = engine.peers[j] /\ j \in DOMAIN engine.peers
            BY <2>4, <2>5
          <6>2. QED
            BY <6>1, <2>9 DEF Served
        <5>4. (n + 1) - 1 = n
          BY <2>5
        <5>5. QED
          BY <5>1, <5>2, <5>3, <5>4, <2>1 DEF FirstNames
      <4>3. QED
        BY <4>1, <4>2, <3>3, <3>4
    <3>8. QED
      BY <2>4, <2>5, <2>7, <3>4, <3>5, <3>6, <3>7 DEF Served
  <2>10. QED
    BY <2>8, <2>9
<1>5. QED
  BY <1>3, <1>4

ServedInv == LoadInv /\ Served(engine)

LEMMA ServedInit ==
  Init => ServedInv
BY SettledInit, FreshServed DEF ServedInv, Init

LEMMA ServedStep ==
  ServedInv /\ [Next]_vars => ServedInv'
<1> SUFFICES ASSUME ServedInv, [Next]_vars PROVE ServedInv'
  OBVIOUS
<1>1. LoadInv /\ LoadInv' /\ IsEngine(engine) /\ Served(engine)
  BY SettledStep DEF ServedInv, LoadInv
<1>2. CASE engine' = engine
  BY <1>1, <1>2 DEF ServedInv
<1>3. CASE Scan
  <2>1. engine' = engine
    BY <1>3 DEF Scan, SkipComment, BeginDirective, BlankNewline, TakeArgument, QuotedWord, EndDirective, EndOfFile
  <2>2. QED
    BY <1>2, <2>1
<1>4. CASE ApplyAssociation
  BY <1>1, <1>4, AssociationServed DEF ServedInv
<1>5. CASE ApplyRefclock
  <2>1. options[next].kind = "refclock" /\ next \in DOMAIN options
    <3>1. next \in 1..Len(options)
      BY <1>1, <1>5, AppliesOne DEF LoadInv, ApplyOption
    <3>2. QED
      BY <1>1, <1>5, <3>1, SeqHas DEF LoadInv, LoadTypes, OptionsOK, ApplyRefclock, Applying
  <2>2. options[next].clock \in Nat \X Nat
    BY <1>1, <2>1 DEF LoadInv, LoadTypes, OptionsOK, OptionOK
  <2>3. options[next].clock # NoClock
    BY <2>2 DEF NoClock
  <2>4. QED
    BY <1>1, <1>5, <2>3, ClockServed DEF ServedInv
<1>6. CASE ApplyOption /\ ~ApplyAssociation /\ ~ApplyRefclock
  <2>1. options[next].kind \notin AssociationKinds
    <3>1. \/ options[next].kind \in {"restrict", "driftfile", "statsdir", "leapfile", "logfile", "trustedkey",
                "controlkey", "tinker", "tos", "mru", "statistics", "filegen", "nts", "fudge", "setvar",
                "enable", "disable", "other"}
          \/ options[next].kind \notin AppliedKinds
      BY <1>6 DEF ApplyOption, ApplyRestrict, ApplyNaming, ApplyKeys, ApplyTinker, ApplyTos, ApplyMru,
         ApplyStatistics, ApplyFilegen, ApplyNts, ApplyFudge, ApplySetvar, ApplySwitch, ApplyOther, PassOver, Applying
    <3>2. QED
      BY <3>1 DEF AssociationKinds, AppliedKinds
  <2>2. SameTables(engine, engine')
    BY <1>1, <1>6, <2>1, ApplySettles
  <2>3. Served(engine')
    BY <1>1, <2>2, SameServed DEF SameTables, PollTimers
  <2>4. QED
    BY <1>1, <2>3 DEF ServedInv
<1>7. CASE Finish
  <2> DEFINE more == {[event |-> t, index |-> -1] : t \in {"housekeeping", "reachability", "statswrite"}}
  <2>1. engine' = [engine EXCEPT !.timers = @ \cup more]
    BY <1>7 DEF Finish
  <2>2. \A u \in more : u.event # "poll"
    OBVIOUS
  <2> HIDE DEF more
  <2>3. engine'.peers = engine.peers /\ engine'.clocks = engine.clocks /\ engine'.timers = engine.timers \cup more
    BY <1>1, <2>1 DEF IsEngine, Fields
  <2>4. PollTimers(engine') = PollTimers(engine)
    BY <2>2, <2>3 DEF PollTimers
  <2>5. QED
    BY <1>1, <2>3, <2>4, SameServed DEF ServedInv
<1>8. CASE UNCHANGED vars
  BY <1>2, <1>8 DEF vars
<1>9. QED
  BY <1>3, <1>4, <1>5, <1>6, <1>7, <1>8 DEF Next, ApplyOption

\* However servers and clocks are mixed in the file, the poll timers are
\* those of the associations that are polled, at their places in the table,
\* and each clock has one instance, with the id of its first association.
THEOREM TablesFitTogether ==
  Spec => []AssociationsServed
<1>1. ServedInv => AssociationsServed
  <2> SUFFICES ASSUME Served(engine) PROVE AssociationsServed
    BY DEF ServedInv
  <2>1. ASSUME NEW i \in DOMAIN engine.peers, engine.peers[i].clock # NoClock
        PROVE  Cardinality({c \in DOMAIN engine.clocks : engine.clocks[c].clock = engine.peers[i].clock}) = 1
    <3>1. PICK c \in DOMAIN engine.clocks : engine.clocks[c].clock = engine.peers[i].clock
      BY <2>1 DEF Served
    <3>2. {d \in DOMAIN engine.clocks : engine.clocks[d].clock = engine.peers[i].clock} = {c}
      BY <3>1 DEF Served
    <3>3. QED
      BY <3>2, FS_Singleton
  <2>2. QED
    BY <2>1 DEF Served, PollTimers, Polled, FirstNames, AssociationsServed
<1>2. QED
  BY ServedInit, ServedStep, <1>1, PTL DEF Spec

------------------------------------------------------------------------------
(* Lines                                                                   *)

\* No such lexeme from a to b.
NoneIn(x, a, b) == \A i \in a..b : file[i] # x

\* What LineOf is for: the start at or before p with no newline between.
LEMMA LineOfIs ==
  ASSUME file \in Files, NEW p \in 1..(Len(file) + 1)
  PROVE  /\ LineOf(p) \in LineStarts /\ LineOf(p) \in 1..p
         /\ NoneIn(Newline, LineOf(p), p - 1)
         /\ \A s \in LineStarts : s <= p => s <= LineOf(p)
<1> DEFINE S == {i \in LineStarts : i <= p}
           k == LineOf(p)
<1>1. Len(file) \in Nat /\ DOMAIN file = 1..Len(file)
  BY FileIs
<1>2. S \in SUBSET (0..(Len(file) + 1)) /\ 1 \in S
  BY <1>1 DEF LineStarts
<1>3. k = LastAt(S)
  BY DEF LineOf
<1>4. k \in S /\ \A j \in S : j <= k
  <2> HIDE DEF S, k
  <2>1. Len(file) + 1 \in Nat /\ S # {}
    BY <1>1, <1>2
  <2>2. QED
    BY <1>2, <1>3, <2>1, LastAtIs
<1>5. k \in LineStarts /\ k <= p /\ k \in 1..p
  BY <1>1, <1>4 DEF LineStarts
<1>6. ASSUME NEW i \in k..(p - 1), file[i] = Newline PROVE FALSE
  <2>1. i \in DOMAIN file /\ i + 1 <= p
    BY <1>1, <1>5
  <2>2. i + 1 \in S
    BY <1>6, <2>1 DEF LineStarts
  <2>3. i + 1 <= k
    BY <1>4, <2>2
  <2>4. QED
    BY <1>5, <2>3
<1>7. QED
  BY <1>4, <1>5, <1>6 DEF NoneIn

LEMMA LineStartsAre ==
  ASSUME file \in Files
  PROVE  \A s \in LineStarts : s \in 1..(Len(file) + 1) /\ (s # 1 => s - 1 \in 1..Len(file) /\ file[s - 1] = Newline)
BY FileIs DEF LineStarts

LEMMA LineIs ==
  ASSUME file \in Files, NEW p \in 1..(Len(file) + 1), NEW s \in LineStarts, s <= p, NoneIn(Newline, s, p - 1)
  PROVE  LineOf(p) = s
<1>1. LineOf(p) \in LineStarts /\ LineOf(p) \in 1..p /\ s <= LineOf(p)
  BY LineOfIs
<1>2. s \in 1..(Len(file) + 1)
  BY LineStartsAre
<1>3. ASSUME s # LineOf(p) PROVE FALSE
  <2>1. LineOf(p) # 1
    BY <1>1, <1>2, <1>3
  <2>2. file[LineOf(p) - 1] = Newline
    BY <1>1, <2>1, LineStartsAre
  <2>3. LineOf(p) - 1 \in s..(p - 1)
    BY <1>1, <1>2, <1>3
  <2>4. QED
    BY <2>2, <2>3 DEF NoneIn
<1>4. QED
  BY <1>3

\* Places of the line of p before p are those from its start on.
LEMMA SameLine ==
  ASSUME file \in Files, NEW p \in 1..(Len(file) + 1), NEW j \in 1..Len(file), j <= p
  PROVE  LineOf(j) = LineOf(p) <=> j >= LineOf(p)
<1>1. LineOf(p) \in LineStarts /\ LineOf(p) \in 1..p /\ NoneIn(Newline, LineOf(p), p - 1)
  BY LineOfIs
<1>2. Len(file) \in Nat /\ j \in 1..(Len(file) + 1)
  BY FileIs
<1>3. LineOf(j) \in 1..j
  BY <1>2, LineOfIs
<1>4. ASSUME j >= LineOf(p) PROVE LineOf(j) = LineOf(p)
  <2>1. NoneIn(Newline, LineOf(p), j - 1)
    BY <1>1, <1>2 DEF NoneIn
  <2>2. QED
    BY <1>1, <1>2, <1>4, <2>1, LineIs
<1>5. QED
  BY <1>1, <1>3, <1>4

LEMMA CommentIs ==
  ASSUME file \in Files, NEW p \in 1..Len(file), file[p] = Hash
  PROVE  p \in CommentAt(LineOf(p))
BY FileIs DEF CommentAt

\* The first keyword of a line stands in it, behind no other and no comment.
LEMMA FirstIs ==
  ASSUME file \in Files, NEW p \in 1..Len(file), NEW n \in LineStarts
  PROVE  p \in FirstKeyword(n) <=>
           /\ LineOf(p) = n /\ HasKeyword(p)
           /\ \A j \in n..(p - 1) : ~HasKeyword(j) /\ file[j] # Hash
<1>1. Len(file) \in Nat /\ DOMAIN file = 1..Len(file) /\ p \in 1..(Len(file) + 1)
  BY FileIs
<1>2. n \in 1..(Len(file) + 1)
  BY LineStartsAre
<1>3. ASSUME p \in FirstKeyword(n), NEW j \in n..(p - 1) PROVE ~HasKeyword(j) /\ file[j] # Hash
  <2>1. LineOf(p) = n /\ j \in 1..Len(file) /\ j < p
    BY <1>1, <1>2, <1>3 DEF FirstKeyword
  <2>2. LineOf(j) = n
    BY <1>1, <2>1, SameLine
  <2>3. QED
    BY <1>1, <1>3, <2>1, <2>2 DEF FirstKeyword
<1>4. ASSUME LineOf(p) = n, HasKeyword(p), \A j \in n..(p - 1) : ~HasKeyword(j) /\ file[j] # Hash
      PROVE  p \in FirstKeyword(n)
  <2>1. ASSUME NEW j \in DOMAIN file, LineOf(j) = n, j < p PROVE ~HasKeyword(j) /\ file[j] # Hash
    <3>1. j \in 1..Len(file) /\ j <= p
      BY <1>1, <2>1
    <3>2. j >= n
      BY <1>1, <1>4, <2>1, <3>1, SameLine
    <3>3. QED
      BY <1>1, <1>2, <1>4, <2>1, <3>1, <3>2
  <2>2. QED
    BY <1>1, <1>4, <2>1 DEF FirstKeyword
<1>5. QED
  BY <1>3, <1>4 DEF FirstKeyword

\* The places where directives begin.
Good == UNION {FirstKeyword(n) : n \in LineStarts \ Lost}

LEMMA GoodIs ==
  ASSUME file \in Files, NEW p \in 1..Len(file)
  PROVE  p \in Good <=>
           /\ LineOf(p) \notin Lost /\ HasKeyword(p)
           /\ \A j \in LineOf(p)..(p - 1) : ~HasKeyword(j) /\ file[j] # Hash
<1>1. p \in 1..(Len(file) + 1)
  BY FileIs
<1>2. LineOf(p) \in LineStarts
  BY <1>1, LineOfIs
<1>3. \A n \in LineStarts : p \in FirstKeyword(n) => LineOf(p) = n
  BY DEF FirstKeyword
<1>4. p \in Good <=> LineOf(p) \notin Lost /\ p \in FirstKeyword(LineOf(p))
  BY <1>2, <1>3 DEF Good
<1>5. QED
  BY <1>2, <1>4, FirstIs

LEMMA GoodIn ==
  ASSUME file \in Files
  PROVE  Good \subseteq 1..Len(file)
BY FileIs DEF Good, FirstKeyword

\* A line with a comment behind a keyword has a first keyword, before it.
LEMMA FirstOfLine ==
  ASSUME file \in Files, NEW p \in 1..(Len(file) + 1), NEW j \in LineOf(p)..(p - 1), HasKeyword(j),
         NoneIn(Hash, LineOf(p), p - 1)
  PROVE  FirstKeyword(LineOf(p)) # {}
<1> DEFINE n == LineOf(p)
           S == {i \in n..(p - 1) : HasKeyword(i)}
<1>1. Len(file) \in Nat /\ n \in LineStarts /\ n \in 1..p
  BY FileIs, LineOfIs
<1> HIDE DEF n
<1>2. S \in SUBSET Nat /\ S # {}
  BY <1>1 DEF n
<1>3. PICK i \in S : \A k \in S : i <= k
  <2> HIDE DEF S
  <2>1. QED
    BY <1>2, LeastIn
<1>4. i \in 1..Len(file) /\ i <= p /\ i >= n /\ HasKeyword(i)
  BY <1>1, <1>3
<1>5. LineOf(i) = n
  BY <1>4, SameLine DEF n
<1>6. ASSUME NEW k \in n..(i - 1) PROVE ~HasKeyword(k) /\ file[k] # Hash
  <2>1. k \in n..(p - 1) /\ ~(i <= k)
    BY <1>1, <1>3, <1>4
  <2>2. QED
    BY <1>3, <2>1 DEF NoneIn, n
<1>7. i \in FirstKeyword(n)
  BY <1>1, <1>4, <1>5, <1>6, FirstIs
<1>8. QED
  BY <1>7 DEF n

LEMMA NextLine ==
  ASSUME file \in Files, NEW p \in 1..Len(file), file[p] = Newline
  PROVE  p + 1 \in LineStarts /\ LineOf(p + 1) = p + 1
<1>1. Len(file) \in Nat /\ p + 1 \in LineStarts
  BY FileIs DEF LineStarts
<1>2. NoneIn(Newline, p + 1, (p + 1) - 1) /\ p + 1 \in 1..(Len(file) + 1)
  BY <1>1 DEF NoneIn
<1>3. QED
  BY <1>1, <1>2, LineIs

LEMMA SameLineNext ==
  ASSUME file \in Files, NEW p \in 1..Len(file), file[p] # Newline
  PROVE  LineOf(p + 1) = LineOf(p)
<1>1. Len(file) \in Nat /\ p \in 1..(Len(file) + 1) /\ p + 1 \in 1..(Len(file) + 1)
  BY FileIs
<1>2. LineOf(p) \in LineStarts /\ LineOf(p) \in 1..p /\ NoneIn(Newline, LineOf(p), p - 1)
  BY <1>1, LineOfIs
<1>3. NoneIn(Newline, LineOf(p), (p + 1) - 1)
  BY <1>1, <1>2 DEF NoneIn
<1>4. LineOf(p) <= p + 1
  BY <1>1, <1>2
<1>5. QED
  BY <1>1, <1>2, <1>3, <1>4, LineIs

\* A line is not lost behind one without a comment.
LEMMA NotLost ==
  ASSUME file \in Files, NEW p \in 1..Len(file), file[p] = Newline, NoneIn(Hash, LineOf(p), p - 1)
  PROVE  p + 1 \notin Lost
<1> DEFINE s == LineOf(p)
<1>1. Len(file) \in Nat /\ DOMAIN file = 1..Len(file) /\ p \in 1..(Len(file) + 1)
  BY FileIs
<1>2. s \in LineStarts /\ s \in 1..p /\ \A t \in LineStarts : t <= p => t <= s
  BY <1>1, LineOfIs
<1> SUFFICES ASSUME p + 1 \in Lost PROVE FALSE
  OBVIOUS
<1>3. PICK b \in LineStarts : b < p + 1 /\ \A l \in LineStarts : b <= l /\ l < p + 1 => CommentAt(l) # {}
  BY DEF Lost
<1>4. b \in Int /\ b <= s /\ s < p + 1
  <2>1. b \in Int
    BY LineStartsAre
  <2>2. b <= p
    BY <1>1, <1>3, <2>1
  <2>3. QED
    BY <1>1, <1>2, <2>1, <2>2
<1>5. PICK i \in DOMAIN file : file[i] = Hash /\ LineOf(i) = s
  BY <1>2, <1>3, <1>4 DEF CommentAt
<1>6. CASE i <= p
  <2>1. i >= s
    BY <1>1, <1>5, <1>6, SameLine
  <2>2. i # p
    BY <1>5 DEF Hash, Newline
  <2>3. i \in s..(p - 1)
    BY <1>1, <1>2, <1>6, <2>1, <2>2
  <2>4. QED
    BY <1>5, <2>3 DEF NoneIn
<1>7. CASE i > p
  <2>1. p + 1 \in LineStarts /\ p + 1 <= i /\ i \in 1..(Len(file) + 1)
    BY <1>1, <1>7, NextLine
  <2>2. p + 1 <= LineOf(i)
    BY <2>1, LineOfIs
  <2>3. QED
    BY <1>1, <1>2, <1>5, <2>2
<1>8. QED
  BY <1>1, <1>6, <1>7

\* A directive is being read at p: its line is lost to one, or has begun one.
InDirective(p) == LineOf(p) \in Lost \/ \E j \in LineOf(p)..(p - 1) : HasKeyword(j)

\* The line behind one with a comment is lost exactly when a directive is
\* being read where the comment begins.
LEMMA LostBehind ==
  ASSUME file \in Files, NEW p \in 1..Len(file), file[p] = Hash, NoneIn(Hash, LineOf(p), p - 1),
         ~HasKeyword(p), NEW r \in (p + 1)..Len(file), file[r - 1] = Newline, NoneIn(Newline, p, r - 2)
  PROVE  LineOf(r) = r /\ (r \in Lost <=> InDirective(p))
<1> DEFINE s == LineOf(p)
<1>1. Len(file) \in Nat /\ DOMAIN file = 1..Len(file) /\ p \in 1..(Len(file) + 1) /\ r - 1 \in 1..Len(file)
      /\ (r - 1) + 1 = r /\ r - 1 \in 1..(Len(file) + 1) /\ (r - 1) - 1 = r - 2
  BY FileIs
<1>2. /\ s \in LineStarts /\ s \in 1..p /\ NoneIn(Newline, s, p - 1)
      /\ \A t \in LineStarts : t <= p => t <= s
  BY <1>1, LineOfIs
<1>3. r \in LineStarts /\ LineOf(r) = r
  <2> DEFINE q == r - 1
  <2>1. q \in 1..Len(file) /\ file[q] = Newline /\ q + 1 = r
    BY <1>1
  <2> HIDE DEF q
  <2>2. q + 1 \in LineStarts /\ LineOf(q + 1) = q + 1
    BY <2>1, NextLine
  <2>3. QED
    BY <2>1, <2>2
<1> HIDE DEF s
<1>4. NoneIn(Newline, s, (r - 1) - 1) /\ s <= r - 1
  BY <1>1, <1>2 DEF NoneIn
<1>5. LineOf(r - 1) = s
  BY <1>1, <1>2, <1>4, LineIs
<1>6. \A t \in LineStarts : t < r => t <= s /\ t \in Int
  <2> SUFFICES ASSUME NEW t \in LineStarts, t < r PROVE t <= s /\ t \in Int
    OBVIOUS
  <2>1. t \in Int /\ t <= r - 1
    BY LineStartsAre
  <2>2. t <= LineOf(r - 1)
    BY <1>1, <2>1, LineOfIs
  <2>3. QED
    BY <1>5, <2>1, <2>2
<1>7. CommentAt(s) # {}
  BY CommentIs DEF s
<1>8. s < r /\ s <= Len(file) /\ r <= Len(file)
  BY <1>1, <1>2
<1>9. ASSUME s \in Lost PROVE r \in Lost
  <2>1. PICK b \in LineStarts : /\ b < s /\ FirstKeyword(b) # {}
                                /\ \A l \in LineStarts : b <= l /\ l < s => CommentAt(l) # {}
    BY <1>9 DEF Lost
  <2>2. b < r
    BY <1>1, <1>2, <1>8, <2>1, LineStartsAre
  <2>3. ASSUME NEW l \in LineStarts, b <= l, l < r PROVE CommentAt(l) # {}
    <3>1. l < s \/ l = s
      BY <1>2, <1>6, <2>3
    <3>2. QED
      BY <1>7, <2>1, <2>3, <3>1
  <2>4. QED
    BY <1>3, <1>8, <2>1, <2>2, <2>3 DEF Lost
<1>10. ASSUME NEW j \in s..(p - 1), HasKeyword(j) PROVE r \in Lost
  <2>1. FirstKeyword(s) # {}
    BY <1>1, <1>10, FirstOfLine DEF s
  <2>2. ASSUME NEW l \in LineStarts, s <= l, l < r PROVE CommentAt(l) # {}
    <3>1. l = s
      BY <1>2, <1>6, <2>2
    <3>2. QED
      BY <1>7, <3>1
  <2>3. QED
    BY <1>2, <1>3, <1>8, <2>1, <2>2 DEF Lost
<1>11. ASSUME r \in Lost PROVE s \in Lost \/ \E j \in s..(p - 1) : HasKeyword(j)
  <2>1. PICK b \in LineStarts : /\ b < r /\ FirstKeyword(b) # {}
                                /\ \A l \in LineStarts : b <= l /\ l < r => CommentAt(l) # {}
    BY <1>11 DEF Lost
  <2>2. b <= s /\ b \in Int
    BY <1>6, <2>1
  <2>3. CASE b = s
    <3>1. PICK i \in FirstKeyword(s) : TRUE
      BY <2>1, <2>3
    <3>2. i \in 1..Len(file)
      BY <1>1 DEF FirstKeyword
    <3>3. /\ LineOf(i) = s /\ HasKeyword(i)
          /\ \A j \in s..(i - 1) : ~HasKeyword(j) /\ file[j] # Hash
      BY <1>2, <3>1, <3>2, FirstIs
    <3>4. i >= s
      BY <1>1, <3>2, <3>3, LineOfIs
    <3>5. ~(p < i)
      <4>1. p < i => p \in s..(i - 1)
        BY <1>1, <1>2, <3>2
      <4>2. QED
        BY <3>3, <4>1
    <3>6. i # p
      BY <3>3
    <3>7. i \in s..(p - 1)
      BY <1>1, <1>2, <3>2, <3>4, <3>5, <3>6
    <3>8. QED
      BY <3>3, <3>7
  <2>4. CASE b # s
    <3>1. b < s
      BY <1>2, <2>2, <2>4
    <3>2. \A l \in LineStarts : b <= l /\ l < s => CommentAt(l) # {}
      <4> SUFFICES ASSUME NEW l \in LineStarts, b <= l, l < s PROVE CommentAt(l) # {}
        OBVIOUS
      <4>1. l < r
        BY <1>1, <1>2, <1>8, LineStartsAre
      <4>2. QED
        BY <2>1, <4>1
    <3>3. QED
      BY <1>2, <1>8, <2>1, <3>1, <3>2 DEF Lost
  <2>5. QED
    BY <2>3, <2>4
<1>12. QED
  BY <1>3, <1>9, <1>10, <1>11 DEF InDirective, s

\* Who reads at p, and which directives have been read by then.
Directed(h, m, p) ==
  /\ h = {g \in Good : g < p}
  /\ p <= Len(file) => NoneIn(Hash, LineOf(p), p - 1) /\ (m = "args" <=> InDirective(p))

LEMMA GoodNext ==
  ASSUME file \in Files, NEW p \in 1..Len(file)
  PROVE  {g \in Good : g < p + 1} = IF p \in Good THEN {g \in Good : g < p} \cup {p} ELSE {g \in Good : g < p}
<1>1. \A g \in Good : g \in Int
  BY GoodIn
<1>2. \A g \in Good : g < p + 1 <=> g < p \/ g = p
  BY <1>1
<1>3. p < p + 1
  OBVIOUS
<1> HIDE DEF Good
<1>4. QED
  BY <1>2, <1>3

LEMMA StartDirected ==
  ASSUME file \in Files
  PROVE  Directed({}, "start", 1)
<1>1. Len(file) \in Nat /\ 1 \in 1..(Len(file) + 1) /\ DOMAIN file = 1..Len(file)
  BY FileIs
<1>2. {g \in Good : g < 1} = {}
  BY GoodIn
<1>3. LineOf(1) = 1
  BY <1>1, LineOfIs
<1>4. 1 \notin Lost
  BY LineStartsAre DEF Lost
<1>5. QED
  BY <1>2, <1>3, <1>4 DEF Directed, NoneIn, InDirective

\* A word: the first keyword of a line begins a directive, others do not.
LEMMA WordRead ==
  ASSUME file \in Files, NEW p \in 1..Len(file), file[p] # Hash, file[p] # Newline,
         NEW h, NEW m \in {"start", "args"}, Directed(h, m, p)
  PROVE  /\ m = "args" => Directed(h, "args", p + 1)
         /\ m = "start" /\ ~HasKeyword(p) => Directed(h, "start", p + 1)
         /\ m = "start" /\ HasKeyword(p) => Directed(h \cup {p}, "args", p + 1)
<1> DEFINE s == LineOf(p)
<1>1. Len(file) \in Nat /\ p \in 1..(Len(file) + 1)
  BY FileIs
<1>2. s \in 1..p /\ LineOf(p + 1) = s
  BY <1>1, LineOfIs, SameLineNext
<1>3. NoneIn(Hash, s, p - 1) /\ (m = "args" <=> InDirective(p)) /\ h = {g \in Good : g < p}
  BY DEF Directed
<1>4. NoneIn(Hash, LineOf(p + 1), (p + 1) - 1)
  <2> HIDE DEF s
  <2>1. NoneIn(Hash, s, (p + 1) - 1)
    BY <1>2, <1>3 DEF NoneIn
  <2>2. QED
    BY <1>2, <2>1
<1>5. InDirective(p + 1) <=> InDirective(p) \/ HasKeyword(p)
  <2> HIDE DEF s
  <2>1. InDirective(p + 1) <=> s \in Lost \/ \E j \in s..p : HasKeyword(j)
    BY <1>2 DEF InDirective
  <2>2. InDirective(p) <=> s \in Lost \/ \E j \in s..(p - 1) : HasKeyword(j)
    BY DEF InDirective, s
  <2>3. \A j : j \in s..p <=> j \in s..(p - 1) \/ j = p
    BY <1>2
  <2>4. QED
    BY <2>1, <2>2, <2>3
<1>6. p \in Good <=> ~InDirective(p) /\ HasKeyword(p)
  BY <1>3, GoodIs DEF InDirective, NoneIn
<1>7. {g \in Good : g < p + 1} = IF p \in Good THEN h \cup {p} ELSE h
  BY <1>3, GoodNext
<1> HIDE DEF s
<1>8. QED
  BY <1>3, <1>4, <1>5, <1>6, <1>7 DEF Directed

LEMMA MarksAreNoKeywords ==
  ASSUME NEW p, file[p] \in Marks
  PROVE  ~HasKeyword(p)
BY DEF HasKeyword

\* A newline ends the directive.
LEMMA NewlineRead ==
  ASSUME file \in Files, NEW p \in 1..Len(file), file[p] = Newline, NEW h, NEW m, Directed(h, m, p)
  PROVE  Directed(h, "start", p + 1)
<1>1. NoneIn(Hash, LineOf(p), p - 1) /\ h = {g \in Good : g < p}
  BY FileIs DEF Directed
<1>2. p \notin Good
  BY GoodIs, MarksAreNoKeywords DEF Marks
<1>3. h = {g \in Good : g < p + 1}
  BY <1>1, <1>2, GoodNext
<1>4. LineOf(p + 1) = p + 1 /\ p + 1 \notin Lost
  BY <1>1, NextLine, NotLost
<1>5. NoneIn(Hash, p + 1, (p + 1) - 1) /\ ~\E j \in (p + 1)..((p + 1) - 1) : HasKeyword(j)
  BY DEF NoneIn
<1>6. QED
  BY <1>3, <1>4, <1>5 DEF Directed, InDirective

\* A comment takes its newline along: who read before it reads behind it.
LEMMA CommentRead ==
  ASSUME file \in Files, NEW p \in 1..Len(file), file[p] = Hash, NEW h, NEW m, Directed(h, m, p)
  PROVE  Directed(h, m, After(Newline, p))
<1> DEFINE s == LineOf(p)
           r == After(Newline, p)
<1>1. Len(file) \in Nat /\ p \in 1..(Len(file) + 1) /\ p \in Nat \ {0} /\ p <= Len(file) + 1
  BY FileIs
<1>2. /\ r \in p..(Len(file) + 1)
      /\ \/ r = Len(file) + 1 /\ \A i \in p..Len(file) : file[i] # Newline
         \/ /\ r - 1 \in p..Len(file) /\ file[r - 1] = Newline
            /\ \A i \in p..(r - 2) : file[i] # Newline
  BY <1>1, AfterIs
<1> HIDE DEF r
<1>3. NoneIn(Hash, s, p - 1) /\ (m = "args" <=> InDirective(p)) /\ h = {g \in Good : g < p}
  BY DEF Directed
<1>4. s \in LineStarts /\ s \in 1..p /\ NoneIn(Newline, s, p - 1)
  BY <1>1, LineOfIs
<1>5. ~HasKeyword(p)
  BY MarksAreNoKeywords DEF Marks
<1>6. ASSUME NEW g \in p..(r - 1) PROVE g \notin Good
  <2>1. g \in 1..Len(file) /\ g \in 1..(Len(file) + 1)
    BY <1>1, <1>2
  <2>2. NoneIn(Newline, s, g - 1)
    <3> SUFFICES ASSUME NEW i \in s..(g - 1) PROVE file[i] # Newline
      BY DEF NoneIn
    <3> HIDE DEF s
    <3>1. i \in s..(p - 1) \/ i \in p..Len(file)
      BY <1>1, <1>4, <2>1
    <3>2. r - 1 \in p..Len(file) => i \in s..(p - 1) \/ i \in p..(r - 2)
      BY <1>1, <1>2, <1>4, <2>1
    <3>3. QED
      BY <1>2, <1>4, <3>1, <3>2 DEF NoneIn
  <2>3. LineOf(g) = s
    <3> HIDE DEF s
    <3>1. s <= g
      BY <1>4, <1>1
    <3>2. QED
      BY <1>4, <2>1, <2>2, <3>1, LineIs
  <2>4. CASE g = p
    BY <1>5, <2>1, <2>4, GoodIs
  <2>5. CASE g # p
    <3>1. p \in s..(g - 1)
      <4> HIDE DEF s
      <4>1. QED
        BY <1>1, <1>4, <2>1, <2>5
    <3>2. QED
      BY <2>1, <2>3, <3>1, GoodIs
  <2>6. QED
    BY <2>4, <2>5
<1>7. h = {g \in Good : g < r}
  <2>1. \A g \in Good : g \in Int
    BY GoodIn
  <2>2. \A g \in Good : g < r <=> g < p
    BY <1>1, <1>2, <1>6, <2>1
  <2> HIDE DEF Good
  <2>3. QED
    BY <1>3, <2>2
<1>8. ASSUME r <= Len(file) PROVE NoneIn(Hash, LineOf(r), r - 1) /\ (m = "args" <=> InDirective(r))
  <2>1. file[r - 1] = Newline /\ r - 1 \in p..Len(file) /\ NoneIn(Newline, p, r - 2)
    BY <1>1, <1>2, <1>8 DEF NoneIn
  <2>2. r - 1 # p
    BY <2>1 DEF Hash, Newline
  <2>3. r \in (p + 1)..Len(file)
    BY <1>1, <1>2, <1>8, <2>1, <2>2
  <2>4. LineOf(r) = r /\ (r \in Lost <=> InDirective(p))
    BY <1>3, <1>5, <2>1, <2>3, LostBehind
  <2>5. NoneIn(Hash, r, r - 1) /\ ~\E j \in r..(r - 1) : HasKeyword(j)
    BY <2>3 DEF NoneIn
  <2>6. QED
    BY <1>3, <2>4, <2>5 DEF InDirective
<1>9. Directed(h, m, r)
  BY <1>7, <1>8 DEF Directed
<1>10. QED
  BY <1>9 DEF r

LEMMA EndRead ==
  ASSUME file \in Files, NEW h, NEW m, Directed(h, m, Len(file) + 1)
  PROVE  h = Good /\ \A n : Directed(h, n, Len(file) + 1)
<1>1. Len(file) \in Nat
  BY FileIs
<1>2. {g \in Good : g < Len(file) + 1} = Good
  BY <1>1, GoodIn
<1>3. QED
  BY <1>1, <1>2 DEF Directed

Read(h, m, p) == IF m \in {"start", "args"} THEN Directed(h, m, p) ELSE h = Good

\* A quote hides newlines, so that of files with one nothing is said.
ReadInv == Quote \notin Range(file) => Read(heads, mode, pos)

LEMMA ReadOfTheFile ==
  ASSUME file' = file
  PROVE  ReadInv' <=> (Quote \notin Range(file) => Read(heads', mode', pos'))
<1>1. LineStarts' = LineStarts
  BY DEF LineStarts
<1>2. \A p : (LineOf(p))' = LineOf(p)
  BY <1>1 DEF LineOf
<1>3. \A p : (HasKeyword(p))' <=> HasKeyword(p)
  BY DEF HasKeyword
<1>4. \A n : (CommentAt(n))' = CommentAt(n)
  BY <1>2 DEF CommentAt
<1>5. \A n : (FirstKeyword(n))' = FirstKeyword(n)
  BY <1>2, <1>3 DEF FirstKeyword
<1>6. Lost' = Lost
  BY <1>1, <1>4, <1>5 DEF Lost
<1>7. Good' = Good
  BY <1>1, <1>5, <1>6 DEF Good
<1>8. \A x, a, b : (NoneIn(x, a, b))' <=> NoneIn(x, a, b)
  BY DEF NoneIn
<1>9. \A p : (InDirective(p))' <=> InDirective(p)
  BY <1>2, <1>3, <1>6 DEF InDirective
<1>10. \A h, m, p : (Directed(h, m, p))' <=> Directed(h, m, p)
  BY <1>2, <1>7, <1>8, <1>9 DEF Directed
<1>11. QED
  BY <1>7, <1>10 DEF ReadInv, Read

LEMMA ReadInit ==
  Init => ReadInv
BY StartDirected DEF Init, ReadInv, Read

LEMMA ReadStep ==
  ASSUME LoadTypes, ReadInv, [Next]_vars
  PROVE  ReadInv'
<1>1. file \in Files /\ Len(file) \in Nat /\ DOMAIN file = 1..Len(file) /\ pos \in 1..(Len(file) + 1)
      /\ file \in Seq(Words \cup Marks)
  BY FileIs DEF LoadTypes, TypeOK
<1>2. file' = file
  BY DEF Next, Scan, ApplyOption, Finish, SkipComment, BeginDirective, BlankNewline, TakeArgument, QuotedWord,
     EndDirective, EndOfFile, ApplyAssociation, ApplyRefclock, ApplyRestrict, ApplyNaming, ApplyKeys, ApplyTinker,
     ApplyTos, ApplyMru, ApplyStatistics, ApplyFilegen, ApplyNts, ApplyFudge, ApplySetvar, ApplySwitch,
     ApplyOther, PassOver, Apply, scanvars, vars
<1> SUFFICES ASSUME Quote \notin Range(file) PROVE Read(heads', mode', pos')
  BY <1>2, ReadOfTheFile
<1>3. Read(heads, mode, pos)
  BY DEF ReadInv
<1>4. ~AtEnd => pos \in 1..Len(file) /\ file[pos] # Quote
  BY <1>1 DEF AtEnd, Range
<1>5. CASE SkipComment
  <2>1. mode \in {"start", "args"} /\ Here(Hash) /\ pos' = After(Newline, pos) /\ heads' = heads /\ mode' = mode
    BY <1>5 DEF SkipComment, Reading, PastComment
  <2>2. Directed(heads, mode, After(Newline, pos))
    BY <1>1, <1>3, <1>4, <2>1, CommentRead DEF Here, Read
  <2>3. QED
    BY <2>1, <2>2 DEF Read
<1>6. CASE BeginDirective
  <2> DEFINE toks == TokensOf(file[pos])
             at == {i \in DOMAIN toks : IsKeyword(toks[i])}
  <2>1. mode = "start" /\ pos \in 1..Len(file) /\ file[pos] \notin Marks /\ pos' = pos + 1
    BY <1>4, <1>6 DEF BeginDirective
  <2>2. HasKeyword(pos) <=> at # {}
    BY <2>1 DEF HasKeyword, Range, TokensOf, IsKeyword
  <2>3. /\ at = {} => mode' = mode /\ heads' = heads
        /\ at # {} => mode' = "args" /\ heads' = heads \cup {pos}
    BY <1>6 DEF BeginDirective
  <2> HIDE DEF at
  <2>4. file[pos] # Hash /\ file[pos] # Newline /\ Directed(heads, "start", pos)
    BY <1>3, <2>1 DEF Marks, Read
  <2>5. /\ ~HasKeyword(pos) => Directed(heads, "start", pos + 1)
        /\ HasKeyword(pos) => Directed(heads \cup {pos}, "args", pos + 1)
    BY <1>1, <2>1, <2>4, WordRead
  <2>6. QED
    BY <2>1, <2>2, <2>3, <2>5 DEF Read
<1>7. CASE BlankNewline
  <2>1. mode = "start" /\ pos \in 1..Len(file) /\ file[pos] = Newline /\ pos' = pos + 1 /\ mode' = "start" /\ heads' = heads
    BY <1>4, <1>7 DEF BlankNewline, Here
  <2>2. Directed(heads, "start", pos + 1)
    BY <1>1, <1>3, <2>1, NewlineRead DEF Read
  <2>3. QED
    BY <2>1, <2>2 DEF Read
<1>8. CASE TakeArgument
  <2>1. mode = "args" /\ pos \in 1..Len(file) /\ file[pos] \notin Marks /\ pos' = pos + 1 /\ mode' = "args" /\ heads' = heads
    BY <1>4, <1>8 DEF TakeArgument
  <2>2. file[pos] # Hash /\ file[pos] # Newline /\ Directed(heads, "args", pos)
    BY <1>3, <2>1 DEF Marks, Read
  <2>3. Directed(heads, "args", pos + 1)
    BY <1>1, <2>1, <2>2, WordRead
  <2>4. QED
    BY <2>1, <2>3 DEF Read
<1>9. CASE QuotedWord
  BY <1>4, <1>9 DEF QuotedWord, Here
<1>10. CASE EndDirective
  <2>1. mode = "args" /\ mode' = "start" /\ heads' = heads /\ Directed(heads, "args", pos)
    BY <1>3, <1>10 DEF EndDirective, Read
  <2>2. CASE AtEnd
    <3>1. pos = Len(file) + 1 /\ pos' = pos
      BY <1>1, <1>10, <2>2 DEF EndDirective, AtEnd
    <3>2. Directed(heads, "start", Len(file) + 1)
      BY <1>1, <2>1, <3>1, EndRead
    <3>3. QED
      BY <2>1, <3>1, <3>2 DEF Read
  <2>3. CASE ~AtEnd
    <3>1. pos \in 1..Len(file) /\ file[pos] = Newline /\ pos' = pos + 1
      BY <1>4, <1>10, <2>3 DEF EndDirective, Here
    <3>2. Directed(heads, "start", pos + 1)
      BY <1>1, <2>1, <3>1, NewlineRead
    <3>3. QED
      BY <2>1, <3>1, <3>2 DEF Read
  <2>4. QED
    BY <2>2, <2>3
<1>11. CASE EndOfFile
  <2>1. mode = "start" /\ mode' = "apply" /\ heads' = heads /\ pos = Len(file) + 1
    BY <1>1, <1>11 DEF EndOfFile, AtEnd, scanvars
  <2>2. heads = Good
    BY <1>1, <1>3, <2>1, EndRead DEF Read
  <2>3. QED
    BY <2>1, <2>2 DEF Read
<1>12. CASE ApplyOption
  <2>1. mode = "apply" /\ mode' = mode /\ heads' = heads
    BY <1>12, AppliesOne DEF scanvars
  <2>2. QED
    BY <1>3, <2>1 DEF Read
<1>13. CASE Finish
  BY <1>3, <1>13 DEF Finish, Read, scanvars
<1>14. CASE UNCHANGED vars
  BY <1>3, <1>14 DEF vars, scanvars
<1>15. QED
  BY <1>5, <1>6, <1>7, <1>8, <1>9, <1>10, <1>11, <1>12, <1>13, <1>14 DEF Next, Scan

\* The scanner and the parser, interleaved as they are, read of every file
\* without quotes the first keyword of each line that no comment behind a
\* directive costs, and nothing else, as the directives.
THEOREM EveryLineIsRead ==
  Spec => []DirectivesAreTheLines
<1>1. LoadTypes /\ ReadInv /\ [Next]_vars => (LoadTypes /\ ReadInv)'
  BY LoadStep, ReadStep
<1>2. ReadInv => DirectivesAreTheLines
  BY DEF ReadInv, Read, DirectivesAreTheLines, Good
<1>3. QED
  BY LoadInit, ReadInit, <1>1, <1>2, PTL DEF Spec

------------------------------------------------------------------------------
(* The keys of a file                                                      *)

\* A store of keys that lines of L give.
Store(L) == [keys : Seq({KeyOf(l) : l \in L}), trusted : SUBSET {l.id : l \in L}]

\* The first key of an id is k: its codes verify.
Held(s, id, k) == HasKey(s, id) /\ GetKey(s, id) = k

\* Keys are added behind those there are, and none is trusted any less.
Grown(s, t) ==
  /\ Len(s.keys) <= Len(t.keys) /\ \A i \in 1..Len(s.keys) : t.keys[i] = s.keys[i]
  /\ s.trusted \subseteq t.trusted

LEMMA StoreHas ==
  ASSUME NEW L, NEW s \in Store(L)
  PROVE  /\ s = [keys |-> s.keys, trusted |-> s.trusted]
         /\ s.keys \in Seq({KeyOf(l) : l \in L}) /\ s.trusted \in SUBSET {l.id : l \in L}
         /\ Len(s.keys) \in Nat /\ DOMAIN s.keys = 1..Len(s.keys)
<1>1. s.keys \in Seq({KeyOf(l) : l \in L}) /\ s.trusted \in SUBSET {l.id : l \in L} /\ s = [keys |-> s.keys, trusted |-> s.trusted]
  BY DEF Store
<1>2. Len(s.keys) \in Nat /\ DOMAIN s.keys = 1..Len(s.keys)
  BY <1>1, LenProperties
<1>3. QED
  BY <1>1, <1>2

LEMMA GrownTrans ==
  ASSUME NEW L, NEW s \in Store(L), NEW t \in Store(L), NEW u \in Store(L), Grown(s, t), Grown(t, u)
  PROVE  Grown(s, u)
<1>1. Len(s.keys) \in Nat /\ Len(t.keys) \in Nat /\ Len(u.keys) \in Nat
  BY StoreHas
<1>2. \A i \in 1..Len(s.keys) : i \in 1..Len(t.keys)
  BY <1>1 DEF Grown
<1>3. QED
  BY <1>1, <1>2 DEF Grown

\* The first key of an id stays the first.
LEMMA HeldStays ==
  ASSUME NEW L, NEW s \in Store(L), NEW t \in Store(L), Grown(s, t), NEW id, HasKey(s, id)
  PROVE  HasKey(t, id) /\ GetKey(t, id) = GetKey(s, id)
<1> DEFINE as == {i \in DOMAIN s.keys : s.keys[i].id = id}
           at == {i \in DOMAIN t.keys : t.keys[i].id = id}
<1>1. Len(s.keys) \in Nat /\ Len(t.keys) \in Nat /\ DOMAIN s.keys = 1..Len(s.keys) /\ DOMAIN t.keys = 1..Len(t.keys)
  BY StoreHas
<1>2. as # {} /\ as \in SUBSET Nat
  BY <1>1 DEF HasKey
<1>3. \A i \in as : i \in at
  BY <1>1 DEF Grown
<1>4. \A i \in at : i <= Len(s.keys) => i \in as
  BY <1>1 DEF Grown
<1>5. \A i \in as : i <= Len(s.keys)
  BY <1>1
<1>6. at \in SUBSET Nat
  BY <1>1
<1>7. HasKey(t, id)
  BY <1>2, <1>3 DEF HasKey
<1>8. GetKey(s, id) = s.keys[CHOOSE i \in as : \A j \in as : i <= j]
  BY DEF GetKey
<1>9. GetKey(t, id) = t.keys[CHOOSE i \in at : \A j \in at : i <= j]
  BY DEF GetKey
<1>10. \A i \in as : t.keys[i] = s.keys[i]
  BY <1>1 DEF Grown
<1> HIDE DEF as, at
<1>11. PICK m \in as : \A j \in as : m <= j
  BY <1>2, LeastIn
<1>12. \A j \in at : m <= j
  <2> SUFFICES ASSUME NEW j \in at PROVE m <= j
    OBVIOUS
  <2>1. m \in Nat /\ j \in Nat /\ m <= Len(s.keys)
    BY <1>2, <1>5, <1>6, <1>11
  <2>2. CASE j <= Len(s.keys)
    BY <1>4, <1>11, <2>2
  <2>3. CASE ~(j <= Len(s.keys))
    BY <1>1, <2>1, <2>3
  <2>4. QED
    BY <2>2, <2>3
<1> DEFINE x == CHOOSE i \in as : \A j \in as : i <= j
           y == CHOOSE i \in at : \A j \in at : i <= j
<1>13. x \in as /\ \A j \in as : x <= j
  BY <1>11
<1>14. y \in at /\ \A j \in at : y <= j
  BY <1>3, <1>11, <1>12
<1> HIDE DEF x, y
<1>15. x = m
  <2>1. x \in Nat /\ m \in Nat /\ x <= m /\ m <= x
    BY <1>2, <1>11, <1>13
  <2>2. QED
    BY <2>1
<1>16. y = m
  <2>1. y \in Nat /\ m \in Nat /\ y <= m /\ m <= y
    BY <1>3, <1>2, <1>6, <1>11, <1>12, <1>14
  <2>2. QED
    BY <2>1
<1>17. s.keys[x] = t.keys[y]
  BY <1>10, <1>11, <1>15, <1>16
<1>18. QED
  BY <1>7, <1>8, <1>9, <1>17 DEF x, y

LEMMA KeysSet ==
  ASSUME NEW s, NEW a, NEW b, s = [keys |-> a, trusted |-> b], NEW x
  PROVE  [s EXCEPT !.keys = x] = [keys |-> x, trusted |-> b]
OBVIOUS

LEMMA TrustedSet ==
  ASSUME NEW s, NEW a, NEW b, s = [keys |-> a, trusted |-> b], NEW x
  PROVE  [s EXCEPT !.trusted = x] = [keys |-> a, trusted |-> x]
OBVIOUS

\* A good line adds its key behind the others: the first of its id if there
\* is none.
LEMMA LineParsed ==
  ASSUME NEW L, NEW s \in Store(L), NEW l \in L, NEW t, t = ParseLine(s, l)
  PROVE  /\ t \in Store(L) /\ Grown(s, t)
         /\ Len(t.keys) = Len(s.keys) + 1 /\ t.keys[Len(s.keys) + 1] = KeyOf(l)
         /\ ~HasKey(s, l.id) => Held(t, l.id, KeyOf(l))
         /\ l.fields > 3 /\ l.trusted => l.id \in t.trusted
<1> DEFINE K == {KeyOf(x) : x \in L}
           T == {x.id : x \in L}
           k == KeyOf(l)
           n == Len(s.keys)
           ks == Append(s.keys, k)
<1>1. /\ s = [keys |-> s.keys, trusted |-> s.trusted] /\ s.keys \in Seq(K) /\ s.trusted \in SUBSET T
      /\ n \in Nat /\ DOMAIN s.keys = 1..n
  BY StoreHas
<1>2. k \in K /\ l.id \in T
  OBVIOUS
<1>3. k.id = l.id
  BY DEF KeyOf
<1> HIDE DEF K, T, k
<1>4. /\ ks \in Seq(K) /\ Len(ks) = n + 1 /\ DOMAIN ks = 1..(n + 1)
      /\ \A i \in 1..n : ks[i] = s.keys[i]
      /\ ks[n + 1] = k
  <2>1. /\ ks \in Seq(K) /\ Len(ks) = n + 1
        /\ \A i \in 1..n : ks[i] = s.keys[i]
        /\ ks[n + 1] = k
    BY <1>1, <1>2, AppendProperties
  <2> HIDE DEF ks
  <2>2. DOMAIN ks = 1..Len(ks)
    BY <2>1, LenProperties
  <2>3. QED
    BY <2>1, <2>2
<1>5. t.keys = ks /\ t = [keys |-> t.keys, trusted |-> t.trusted] /\ t.trusted \in {s.trusted, s.trusted \cup {l.id}}
      /\ (l.fields > 3 /\ l.trusted => l.id \in t.trusted)
  <2>1. AddKey(s, k) = [keys |-> ks, trusted |-> s.trusted]
    BY <1>1, KeysSet DEF AddKey
  <2>2. Trust(AddKey(s, k), l.id) = [keys |-> ks, trusted |-> s.trusted \cup {l.id}]
    <3> DEFINE r == AddKey(s, k)
    <3>1. r = [keys |-> ks, trusted |-> s.trusted] /\ r.trusted = s.trusted
      BY <2>1
    <3> HIDE DEF r
    <3>2. Trust(r, l.id) = [r EXCEPT !.trusted = r.trusted \cup {l.id}]
      BY DEF Trust
    <3>3. \A x : [r EXCEPT !.trusted = x] = [keys |-> ks, trusted |-> x]
      BY <3>1, TrustedSet
    <3>4. Trust(r, l.id) = [keys |-> ks, trusted |-> r.trusted \cup {l.id}]
      BY <3>2, <3>3
    <3>5. QED
      BY <3>1, <3>4 DEF r
  <2> HIDE DEF ks
  <2>3. t = [keys |-> ks, trusted |-> s.trusted] \/ t = [keys |-> ks, trusted |-> s.trusted \cup {l.id}]
    BY <2>1, <2>2 DEF ParseLine, k
  <2>4. l.fields > 3 /\ l.trusted => t = [keys |-> ks, trusted |-> s.trusted \cup {l.id}]
    BY <2>2 DEF ParseLine, k
  <2>5. QED
    BY <2>3, <2>4
<1> HIDE DEF ks
<1>6. t \in Store(L)
  <2>1. t.keys \in Seq(K) /\ t.trusted \in SUBSET T
    BY <1>1, <1>2, <1>4, <1>5
  <2>2. QED
    BY <1>5, <2>1 DEF Store, K, T
<1>7. Grown(s, t)
  BY <1>1, <1>4, <1>5 DEF Grown
<1>8. ASSUME ~HasKey(s, l.id) PROVE Held(t, l.id, k)
  <2> DEFINE at == {i \in DOMAIN t.keys : t.keys[i].id = l.id}
  <2>1. \A i \in 1..n : s.keys[i].id # l.id
    BY <1>1, <1>8 DEF HasKey
  <2>2. at = {n + 1}
    <3>1. n + 1 \in at
      BY <1>1, <1>3, <1>4, <1>5
    <3>2. ASSUME NEW i \in at PROVE i = n + 1
      <4>1. i \in 1..(n + 1) /\ ks[i].id = l.id
        BY <1>4, <1>5
      <4>2. i \notin 1..n
        BY <1>4, <2>1, <4>1
      <4>3. QED
        BY <1>1, <4>1, <4>2
    <3>3. QED
      BY <3>1, <3>2
  <2>3. HasKey(t, l.id)
    <3>1. n + 1 \in at
      BY <2>2
    <3>2. QED
      BY <3>1 DEF HasKey
  <2>4. GetKey(t, l.id) = t.keys[CHOOSE i \in at : \A j \in at : i <= j]
    BY DEF GetKey
  <2> HIDE DEF at
  <2>5. (CHOOSE i \in at : \A j \in at : i <= j) = n + 1
    BY <1>1, <2>2
  <2>6. GetKey(t, l.id) = k
    BY <1>4, <1>5, <2>4, <2>5
  <2>7. QED
    BY <2>3, <2>6 DEF Held
<1>9. Len(t.keys) = n + 1 /\ t.keys[n + 1] = k
  BY <1>4, <1>5
<1>10. QED
  BY <1>5, <1>6, <1>7, <1>8, <1>9 DEF k

\* What has been read and whether all of it was good.
Result(L) == [ok : BOOLEAN, store : Store(L)]

\* r comes of the first n lines of c, read into s.
Reads(L, s, r, c, n) ==
  /\ r \in Result(L) /\ Grown(s, r.store)
  /\ \A k \in DOMAIN r.store.keys : k <= Len(s.keys) \/ \E i \in 1..n : Gives(c[i], r.store.keys[k])
  /\ r.ok => \A i \in 1..n : ~Ignored(c[i]) =>
       /\ ~HasKey(s, c[i].id) /\ (\A j \in 1..(i - 1) : ~Ignored(c[j]) => c[j].id # c[i].id) =>
            Held(r.store, c[i].id, KeyOf(c[i]))
       /\ c[i].fields > 3 /\ c[i].trusted => c[i].id \in r.store.trusted

LEMMA ResultHas ==
  ASSUME NEW L, NEW r \in Result(L)
  PROVE  r = [ok |-> r.ok, store |-> r.store] /\ r.ok \in BOOLEAN /\ r.store \in Store(L)
BY DEF Result

LEMMA OkSet ==
  ASSUME NEW r, NEW a, NEW b, r = [ok |-> a, store |-> b], NEW x
  PROVE  [r EXCEPT !.ok = x] = [ok |-> x, store |-> b]
OBVIOUS

LEMMA ReadLineIs ==
  ASSUME NEW L, NEW r \in Result(L), NEW l \in L, NEW u, u = ReadLine(r, l)
  PROVE  /\ u \in Result(L)
         /\ \/ u = r /\ (~r.ok \/ Ignored(l))
            \/ ~u.ok /\ u.store = r.store
            \/ r.ok /\ u.ok /\ ~Ignored(l) /\ ~Faulty(l) /\ u.store = ParseLine(r.store, l)
<1>1. r = [ok |-> r.ok, store |-> r.store] /\ r.ok \in BOOLEAN /\ r.store \in Store(L)
  BY ResultHas
<1>2. CASE ~r.ok \/ Ignored(l)
  BY <1>2 DEF ReadLine
<1>3. CASE r.ok /\ ~Ignored(l) /\ Faulty(l)
  <2>1. u = [r EXCEPT !.ok = FALSE]
    BY <1>3 DEF ReadLine
  <2>2. \A x : [r EXCEPT !.ok = x] = [ok |-> x, store |-> r.store]
    BY <1>1, OkSet
  <2>3. u = [ok |-> FALSE, store |-> r.store]
    BY <2>1, <2>2
  <2>4. u.ok = FALSE /\ u.store = r.store
    BY <2>3
  <2>5. u \in Result(L)
    BY <1>1, <2>3 DEF Result
  <2>6. QED
    BY <2>4, <2>5
<1>4. CASE r.ok /\ ~Ignored(l) /\ ~Faulty(l)
  <2> DEFINE t == ParseLine(r.store, l)
  <2>1. u = [r EXCEPT !.store = t]
    BY <1>4 DEF ReadLine
  <2>2. t \in Store(L)
    BY <1>1, LineParsed
  <2> HIDE DEF t
  <2>3. [r EXCEPT !.store = t] = [ok |-> r.ok, store |-> t]
    BY <1>1
  <2>4. u = [ok |-> r.ok, store |-> t]
    BY <2>1, <2>3
  <2>5. u.ok = r.ok /\ u.store = t
    BY <2>4
  <2>6. u \in Result(L)
    BY <1>1, <2>2, <2>4 DEF Result
  <2>7. QED
    BY <1>4, <2>5, <2>6 DEF t
<1>5. QED
  BY <1>2, <1>3, <1>4

\* The keys held after n - 1 lines are those of s and of these lines.
LEMMA HeldBefore ==
  ASSUME NEW L, NEW s \in Store(L), NEW r, NEW c, NEW n \in Nat, Reads(L, s, r, c, n), NEW id, HasKey(r.store, id)
  PROVE  HasKey(s, id) \/ \E i \in 1..n : ~Ignored(c[i]) /\ c[i].id = id
<1>1. /\ Len(r.store.keys) \in Nat /\ DOMAIN r.store.keys = 1..Len(r.store.keys)
      /\ Len(s.keys) \in Nat /\ DOMAIN s.keys = 1..Len(s.keys)
  BY StoreHas, ResultHas DEF Reads
<1>2. PICK k \in DOMAIN r.store.keys : r.store.keys[k].id = id
  BY DEF HasKey
<1>3. CASE k <= Len(s.keys)
  <2>1. k \in DOMAIN s.keys /\ s.keys[k] = r.store.keys[k]
    BY <1>1, <1>2, <1>3 DEF Reads, Grown
  <2>2. QED
    BY <1>2, <2>1 DEF HasKey
<1>4. ASSUME NEW i \in 1..n, Gives(c[i], r.store.keys[k]) PROVE ~Ignored(c[i]) /\ c[i].id = id
  <2>1. ~Ignored(c[i]) /\ KeyOf(c[i]) = r.store.keys[k]
    BY <1>4 DEF Gives
  <2>2. KeyOf(c[i]).id = c[i].id
    BY DEF KeyOf
  <2>3. QED
    BY <1>2, <2>1, <2>2
<1>5. QED
  BY <1>2, <1>3, <1>4 DEF Reads

LEMMA LineRead ==
  ASSUME NEW L, NEW s \in Store(L), NEW r, NEW c, NEW n \in Nat \ {0}, c[n] \in L,
         Reads(L, s, r, c, n - 1), NEW u, u = ReadLine(r, c[n])
  PROVE  Reads(L, s, u, c, n)
<1>1. r \in Result(L) /\ r.store \in Store(L) /\ Grown(s, r.store)
  BY ResultHas DEF Reads
<1>2. u \in Result(L) /\ u.store \in Store(L)
  BY <1>1, ReadLineIs, ResultHas
<1>3. n - 1 \in Nat /\ \A i \in 1..n : i \in 1..(n - 1) \/ i = n
  OBVIOUS
<1>4. CASE u = r /\ (~r.ok \/ Ignored(c[n]))
  <2>1. \A k \in DOMAIN u.store.keys : k <= Len(s.keys) \/ \E i \in 1..n : Gives(c[i], u.store.keys[k])
    BY <1>4 DEF Reads
  <2>2. ASSUME u.ok, NEW i \in 1..n, ~Ignored(c[i]) PROVE i \in 1..(n - 1)
    BY <1>3, <1>4, <2>2
  <2>3. QED
    BY <1>4, <1>1, <2>1, <2>2 DEF Reads
<1>5. CASE ~u.ok /\ u.store = r.store
  <2>1. \A k \in DOMAIN u.store.keys : k <= Len(s.keys) \/ \E i \in 1..n : Gives(c[i], u.store.keys[k])
    BY <1>5 DEF Reads
  <2>2. QED
    BY <1>1, <1>2, <1>5, <2>1 DEF Reads
<1>6. CASE r.ok /\ u.ok /\ ~Ignored(c[n]) /\ ~Faulty(c[n]) /\ u.store = ParseLine(r.store, c[n])
  <2> DEFINE t == r.store
             v == u.store
  <2>1. /\ Grown(t, v) /\ Len(v.keys) = Len(t.keys) + 1 /\ v.keys[Len(t.keys) + 1] = KeyOf(c[n])
        /\ ~HasKey(t, c[n].id) => Held(v, c[n].id, KeyOf(c[n]))
        /\ c[n].fields > 3 /\ c[n].trusted => c[n].id \in v.trusted
    BY <1>1, <1>6, LineParsed
  <2>2. Grown(s, v)
    BY <1>1, <1>2, <2>1, GrownTrans
  <2>3. /\ Len(t.keys) \in Nat /\ DOMAIN t.keys = 1..Len(t.keys)
        /\ Len(v.keys) \in Nat /\ DOMAIN v.keys = 1..Len(v.keys)
    BY <1>1, <1>2, StoreHas
  <2>4. ASSUME NEW k \in DOMAIN v.keys PROVE k <= Len(s.keys) \/ \E i \in 1..n : Gives(c[i], v.keys[k])
    <3>1. CASE k = Len(t.keys) + 1
      BY <1>6, <2>1, <3>1 DEF Gives
    <3>2. CASE k # Len(t.keys) + 1
      <4>1. k \in DOMAIN t.keys /\ v.keys[k] = t.keys[k]
        BY <2>1, <2>3, <3>2 DEF Grown
      <4>2. k <= Len(s.keys) \/ \E i \in 1..(n - 1) : Gives(c[i], t.keys[k])
        BY <4>1 DEF Reads
      <4>3. QED
        BY <1>3, <4>1, <4>2
    <3>3. QED
      BY <3>1, <3>2
  <2>5. ASSUME NEW i \in 1..n, ~Ignored(c[i]), ~HasKey(s, c[i].id),
               \A j \in 1..(i - 1) : ~Ignored(c[j]) => c[j].id # c[i].id
        PROVE  Held(v, c[i].id, KeyOf(c[i]))
    <3>1. CASE i = n
      <4>1. ~HasKey(t, c[n].id)
        BY <1>3, <2>5, <3>1, HeldBefore
      <4>2. QED
        BY <2>1, <3>1, <4>1
    <3>2. CASE i \in 1..(n - 1)
      <4>1. Held(t, c[i].id, KeyOf(c[i]))
        BY <1>6, <2>5, <3>2 DEF Reads
      <4>2. QED
        BY <1>1, <1>2, <2>1, <4>1, HeldStays DEF Held
    <3>3. QED
      BY <1>3, <3>1, <3>2
  <2>6. ASSUME NEW i \in 1..n, ~Ignored(c[i]), c[i].fields > 3, c[i].trusted PROVE c[i].id \in v.trusted
    <3>1. CASE i = n
      BY <2>1, <2>6, <3>1
    <3>2. CASE i \in 1..(n - 1)
      <4>1. c[i].id \in t.trusted
        BY <1>6, <2>6, <3>2 DEF Reads
      <4>2. QED
        BY <2>1, <4>1 DEF Grown
    <3>3. QED
      BY <1>3, <3>1, <3>2
  <2>7. QED
    BY <1>2, <2>2, <2>4, <2>5, <2>6 DEF Reads
<1>7. QED
  BY <1>1, <1>4, <1>5, <1>6, ReadLineIs

\* A file is read line by line.
LEMMA FileRead ==
  ASSUME NEW L, NEW s \in Store(L), NEW c \in Seq(L), NEW r, r = ParseFile(s, c)
  PROVE  Reads(L, s, r, c, Len(c))
<1> DEFINE N == Len(c)
           R == Result(L)
           F == [p \in (1..N) \X R |-> ReadLine(p[2], c[p[1]])]
           Eq(g) == g = [k \in 0..N |-> IF k = 0 THEN Begun(s) ELSE ReadLine(g[k - 1], c[k])]
           after == CHOOSE g : Eq(g)
<1>0. N \in Nat /\ \A i \in 1..N : c[i] \in L
  BY LenProperties, ElementOfSeq
<1>1. Begun(s) \in R /\ Begun(s).ok /\ Begun(s).store = s
  BY DEF Begun, Result
<1>2. ASSUME NEW k \in 1..N, NEW x \in R PROVE ReadLine(x, c[k]) \in R
  BY <1>0, ReadLineIs
<1>3. F \in [(1..N) \X R -> R]
  BY <1>2
<1>4. PICK g \in [0..N -> R] : IsIteration(g, Begun(s), F, N)
  <2> HIDE DEF F, R
  <2> QED BY <1>0, <1>1, <1>3, Iteration
<1>5. ASSUME NEW k \in 1..N PROVE F[<<k, g[k - 1]>>] = ReadLine(g[k - 1], c[k])
  <2>1. <<k, g[k - 1]>> \in (1..N) \X R
    BY <1>0
  <2>2. QED
    BY <2>1
<1>6. Eq(g)
  <2>1. \A k \in 0..N : k # 0 => k \in 1..N
    BY <1>0
  <2> HIDE DEF F
  <2>2. QED
    BY <1>4, <1>5, <2>1 DEF IsIteration
<1>7. Eq(after)
  <2> HIDE DEF Eq
  <2> QED BY <1>6
<1>8. r = after[N]
  BY DEF ParseFile
<1> HIDE DEF after, F
<1>9. after[0] = Begun(s) /\ \A k \in 1..N : after[k] = ReadLine(after[k - 1], c[k])
  BY <1>0, <1>7
<1> DEFINE S == {k \in 0..N : Reads(L, s, after[k], c, k)}
<1>10. 0 \in S
  <2>1. Len(s.keys) \in Nat /\ DOMAIN s.keys = 1..Len(s.keys)
    BY StoreHas
  <2>2. Grown(s, s)
    BY <2>1 DEF Grown
  <2>3. Reads(L, s, after[0], c, 0)
    BY <1>1, <1>9, <2>1, <2>2 DEF Reads
  <2>4. QED
    BY <1>0, <2>3
<1>11. ASSUME NEW k \in 1..N, k - 1 \in S PROVE k \in S
  <2>1. Reads(L, s, after[k - 1], c, k - 1) /\ k \in Nat \ {0} /\ c[k] \in L
    BY <1>0, <1>11
  <2>2. Reads(L, s, after[k], c, k)
    BY <1>9, <2>1, LineRead
  <2>3. QED
    BY <1>0, <2>2
<1> HIDE DEF S
<1>12. N \in S
  <2>1. \A k \in 1..N : k - 1 \in S => k \in S
    BY <1>11
  <2>2. \A k \in 0..N : k \in S
    BY <1>0, <1>10, <2>1, Climb
  <2>3. QED
    BY <1>0, <2>2
<1>13. QED
  BY <1>8, <1>12 DEF S

------------------------------------------------------------------------------
(* The keys of all files                                                   *)

\* r comes of the first n configured files of disk d.
FilesRead(L, d, r, n) ==
  /\ r \in Result(L)
  /\ \A k \in DOMAIN r.store.keys :
       \E f \in 1..n : \E i \in KeyLines(d, f) : Gives(LineAt(d, f, i), r.store.keys[k])
  /\ r.ok => \A f \in 1..n : \A i \in KeyLines(d, f) :
       LET l == LineAt(d, f, i) IN
       /\ FirstOfItsId(d, f, i) => Held(r.store, l.id, KeyOf(l))
       /\ l.fields > 3 /\ l.trusted => l.id \in r.store.trusted

LEMMA NextFile ==
  ASSUME NEW L, NEW d, NEW r, NEW n \in Nat \ {0}, d[Configured[n]] \in Seq(L),
         FilesRead(L, d, r, n - 1), r.ok, NEW u, u = ParseFile(r.store, d[Configured[n]])
  PROVE  FilesRead(L, d, u, n)
<1> DEFINE c == d[Configured[n]]
           t == r.store
           v == u.store
<1>1. r \in Result(L) /\ t \in Store(L)
  BY ResultHas DEF FilesRead
<1>2. c \in Seq(L) /\ Len(c) \in Nat /\ DOMAIN c = 1..Len(c)
  BY LenProperties
<1>3. Reads(L, t, u, c, Len(c))
  BY <1>1, <1>2, FileRead
<1> HIDE DEF c
<1>4. u \in Result(L) /\ v \in Store(L) /\ Grown(t, v)
  BY <1>3, ResultHas DEF Reads
<1>5. /\ Len(t.keys) \in Nat /\ DOMAIN t.keys = 1..Len(t.keys)
      /\ Len(v.keys) \in Nat /\ DOMAIN v.keys = 1..Len(v.keys)
  BY <1>1, <1>4, StoreHas
<1>6. n - 1 \in Nat /\ n \in 1..n /\ \A f \in 1..n : f \in 1..(n - 1) \/ f = n
  OBVIOUS
<1>7. /\ \A i : LineAt(d, n, i) = c[i]
      /\ KeyLines(d, n) = {i \in 1..Len(c) : ~Ignored(c[i])}
  BY <1>2 DEF LineAt, KeyLines, c
<1>8. ASSUME NEW k \in DOMAIN v.keys
      PROVE  \E f \in 1..n : \E i \in KeyLines(d, f) : Gives(LineAt(d, f, i), v.keys[k])
  <2>1. CASE k <= Len(t.keys)
    <3>1. k \in DOMAIN t.keys /\ v.keys[k] = t.keys[k]
      BY <1>4, <1>5, <2>1 DEF Grown
    <3>2. PICK f \in 1..(n - 1) : \E i \in KeyLines(d, f) : Gives(LineAt(d, f, i), t.keys[k])
      BY <3>1 DEF FilesRead
    <3>3. f \in 1..n
      BY <1>6
    <3>4. QED
      BY <3>1, <3>2, <3>3
  <2>2. CASE ~(k <= Len(t.keys))
    <3>1. PICK i \in 1..Len(c) : Gives(c[i], v.keys[k])
      BY <1>3, <2>2 DEF Reads
    <3>2. i \in KeyLines(d, n) /\ Gives(LineAt(d, n, i), v.keys[k])
      BY <1>7, <3>1 DEF Gives
    <3>3. QED
      BY <1>6, <3>2
  <2>3. QED
    BY <2>1, <2>2
<1>9. ASSUME u.ok, NEW f \in 1..n, NEW i \in KeyLines(d, f), FirstOfItsId(d, f, i)
      PROVE  Held(v, LineAt(d, f, i).id, KeyOf(LineAt(d, f, i)))
  <2>1. CASE f = n
    <3>1. i \in 1..Len(c) /\ ~Ignored(c[i]) /\ LineAt(d, f, i) = c[i]
      BY <1>7, <1>9, <2>1
    <3>2. ASSUME HasKey(t, c[i].id) PROVE FALSE
      <4>1. PICK k \in DOMAIN t.keys : t.keys[k].id = c[i].id
        BY <3>2 DEF HasKey
      <4>2. PICK g \in 1..(n - 1) : \E j \in KeyLines(d, g) : Gives(LineAt(d, g, j), t.keys[k])
        BY DEF FilesRead
      <4>3. PICK j \in KeyLines(d, g) : Gives(LineAt(d, g, j), t.keys[k])
        BY <4>2
      <4>4. LineAt(d, g, j).id = c[i].id
        BY <4>1, <4>3 DEF Gives, KeyOf
      <4>5. g \in 1..f /\ g < f
        BY <1>6, <2>1
      <4>6. QED
        BY <1>9, <3>1, <4>3, <4>4, <4>5 DEF FirstOfItsId
    <3>3. ASSUME NEW j \in 1..(i - 1), ~Ignored(c[j]) PROVE c[j].id # c[i].id
      <4>1. j \in 1..Len(c) /\ j < i
        BY <1>2, <3>1
      <4>2. j \in KeyLines(d, n) /\ LineAt(d, n, j) = c[j]
        BY <1>7, <3>3, <4>1
      <4>3. n \in 1..f
        BY <2>1
      <4>4. QED
        BY <1>9, <2>1, <3>1, <4>1, <4>2, <4>3 DEF FirstOfItsId
    <3>4. Held(v, c[i].id, KeyOf(c[i]))
      BY <1>3, <1>9, <3>1, <3>2, <3>3 DEF Reads
    <3>5. QED
      BY <3>1, <3>4
  <2>2. CASE f \in 1..(n - 1)
    <3>1. Held(t, LineAt(d, f, i).id, KeyOf(LineAt(d, f, i)))
      BY <1>9, <2>2 DEF FilesRead
    <3>2. QED
      BY <1>1, <1>4, <3>1, HeldStays DEF Held
  <2>3. QED
    BY <1>6, <2>1, <2>2
<1>10. ASSUME u.ok, NEW f \in 1..n, NEW i \in KeyLines(d, f), LineAt(d, f, i).fields > 3, LineAt(d, f, i).trusted
       PROVE  LineAt(d, f, i).id \in v.trusted
  <2>1. CASE f = n
    <3>1. i \in 1..Len(c) /\ ~Ignored(c[i]) /\ LineAt(d, f, i) = c[i]
      BY <1>7, <2>1
    <3>2. QED
      BY <1>3, <1>10, <3>1 DEF Reads
  <2>2. CASE f \in 1..(n - 1)
    <3>1. LineAt(d, f, i).id \in t.trusted
      BY <1>10, <2>2 DEF FilesRead
    <3>2. QED
      BY <1>4, <3>1 DEF Grown
  <2>3. QED
    BY <1>6, <2>1, <2>2
<1>11. QED
  BY <1>4, <1>8, <1>9, <1>10 DEF FilesRead

\* The files are read one after the other until one fails.
LEMMA AllFilesRead ==
  ASSUME NEW L, NEW d, \A f \in DOMAIN Configured : d[Configured[f]] \in Seq(L),
         NEW r, r = LoadFiles(d, NoKeys, Configured)
  PROVE  FilesRead(L, d, r, Len(Configured))
<1> DEFINE N == Len(Configured)
           R == Result(L)
           Next1(x, k) == IF x.ok THEN ParseFile(x.store, d[Configured[k]]) ELSE x
           F == [p \in (1..N) \X R |-> Next1(p[2], p[1])]
           Eq(g) == g = [k \in 0..N |-> IF k = 0 THEN Begun(NoKeys) ELSE Next1(g[k - 1], k)]
           after == CHOOSE g : Eq(g)
<1>0. N \in Nat /\ DOMAIN Configured = 1..N
  BY KeyAssumption, LenProperties
<1>1. Begun(NoKeys) \in R /\ Begun(NoKeys).ok /\ Begun(NoKeys).store = NoKeys /\ NoKeys.keys = <<>>
  <2>1. NoKeys \in Store(L)
    BY EmptySeq DEF NoKeys, Store
  <2>2. QED
    BY <2>1 DEF Begun, Result, NoKeys
<1>2. ASSUME NEW k \in 1..N, NEW x \in R PROVE Next1(x, k) \in R
  <2>1. d[Configured[k]] \in Seq(L) /\ x.store \in Store(L)
    BY <1>0, ResultHas
  <2>2. ParseFile(x.store, d[Configured[k]]) \in R
    BY <2>1, FileRead DEF Reads
  <2>3. QED
    BY <2>2
<1> HIDE DEF Next1
<1>3. F \in [(1..N) \X R -> R]
  BY <1>2
<1>4. PICK g \in [0..N -> R] : IsIteration(g, Begun(NoKeys), F, N)
  <2> HIDE DEF F, R
  <2> QED BY <1>0, <1>1, <1>3, Iteration
<1>5. ASSUME NEW k \in 1..N PROVE F[<<k, g[k - 1]>>] = Next1(g[k - 1], k)
  <2>1. <<k, g[k - 1]>> \in (1..N) \X R
    BY <1>0
  <2>2. QED
    BY <2>1
<1>6. Eq(g)
  <2>1. \A k \in 0..N : k # 0 => k \in 1..N
    BY <1>0
  <2> HIDE DEF F
  <2>2. QED
    BY <1>4, <1>5, <2>1 DEF IsIteration
<1>7. Eq(after)
  <2> HIDE DEF Eq
  <2> QED BY <1>6
<1>8. r = after[N]
  BY DEF LoadFiles, Next1
<1> HIDE DEF after, F
<1>9. after[0] = Begun(NoKeys) /\ \A k \in 1..N : after[k] = Next1(after[k - 1], k)
  BY <1>0, <1>7
<1> DEFINE S == {k \in 0..N : FilesRead(L, d, after[k], k)}
<1>10. 0 \in S
  <2>1. DOMAIN after[0].store.keys = {}
    BY <1>1, <1>9
  <2>2. FilesRead(L, d, after[0], 0)
    BY <1>1, <1>9, <2>1 DEF FilesRead
  <2>3. QED
    BY <1>0, <2>2
<1>11. ASSUME NEW k \in 1..N, k - 1 \in S PROVE k \in S
  <2>1. FilesRead(L, d, after[k - 1], k - 1) /\ k \in Nat \ {0} /\ d[Configured[k]] \in Seq(L)
    BY <1>0, <1>11
  <2>2. CASE after[k - 1].ok
    <3>1. after[k] = ParseFile(after[k - 1].store, d[Configured[k]])
      BY <1>9, <2>2 DEF Next1
    <3>2. FilesRead(L, d, after[k], k)
      BY <2>1, <2>2, <3>1, NextFile
    <3>3. QED
      BY <1>0, <3>2
  <2>3. CASE ~after[k - 1].ok
    <3>1. after[k] = after[k - 1]
      BY <1>9, <2>3 DEF Next1
    <3>2. \A f \in 1..(k - 1) : f \in 1..k
      BY <1>0
    <3>3. FilesRead(L, d, after[k], k)
      BY <2>1, <2>3, <3>1, <3>2 DEF FilesRead
    <3>4. QED
      BY <1>0, <3>3
  <2>4. QED
    BY <2>2, <2>3
<1> HIDE DEF S
<1>12. N \in S
  <2>1. \A k \in 1..N : k - 1 \in S => k \in S
    BY <1>11
  <2>2. \A k \in 0..N : k \in S
    BY <1>0, <1>10, <2>1, Climb
  <2>3. QED
    BY <1>0, <2>2
<1>13. QED
  BY <1>8, <1>12 DEF S

\* The file of -k adds behind, as far as it goes.
LEMMA OptionsRead ==
  ASSUME NEW L, NEW d, \A g \in DOMAIN Given : d[Given[g]] \in Seq(L),
         NEW s \in Store(L), NEW u, u = WithOptions(d, s)
  PROVE  \E t \in Store(L) :
           /\ Grown(s, t) /\ u.keys = t.keys /\ t.trusted \subseteq u.trusted
           /\ \A k \in DOMAIN t.keys : k <= Len(s.keys)
                \/ \E g \in DOMAIN Given : \E i \in DOMAIN d[Given[g]] : Gives(d[Given[g]][i], t.keys[k])
<1> DEFINE t == IF Given = <<>> THEN s ELSE ParseFile(s, d[Given[1]]).store
<1>0. Len(Given) \in Nat /\ DOMAIN Given = 1..Len(Given)
  BY KeyAssumption, LenProperties
<1>1. CASE Given = <<>>
  <2>1. Len(s.keys) \in Nat /\ DOMAIN s.keys = 1..Len(s.keys)
    BY StoreHas
  <2>2. t = s /\ Grown(s, s)
    BY <1>1, <2>1 DEF Grown
  <2>3. s = [keys |-> s.keys, trusted |-> s.trusted]
    BY StoreHas
  <2>4. u = [s EXCEPT !.trusted = s.trusted \cup TrustedIds]
    BY <1>1 DEF WithOptions
  <2>5. u = [keys |-> s.keys, trusted |-> s.trusted \cup TrustedIds]
    BY <2>3, <2>4, TrustedSet
  <2>6. u.keys = s.keys /\ s.trusted \subseteq u.trusted
    BY <2>5
  <2>7. QED
    BY <2>1, <2>2, <2>6
<1>2. CASE Given # <<>>
  <2>1. 1 \in DOMAIN Given
    BY <1>0, <1>2, KeyAssumption, EmptySeq
  <2> DEFINE c == d[Given[1]]
             r == ParseFile(s, c)
             v == r.store
  <2>2. c \in Seq(L) /\ Len(c) \in Nat /\ DOMAIN c = 1..Len(c)
    BY <2>1, LenProperties
  <2>3. Reads(L, s, r, c, Len(c))
    BY <2>2, FileRead
  <2>4. u = [v EXCEPT !.trusted = v.trusted \cup TrustedIds]
    BY <1>2 DEF WithOptions
  <2> HIDE DEF c, r
  <2>5. v \in Store(L) /\ Grown(s, v)
    BY <2>3, ResultHas DEF Reads
  <2>6. v = [keys |-> v.keys, trusted |-> v.trusted]
    BY <2>5, StoreHas
  <2> HIDE DEF v
  <2>7. u = [keys |-> v.keys, trusted |-> v.trusted \cup TrustedIds]
    BY <2>4, <2>6, TrustedSet
  <2>8. u.keys = v.keys /\ v.trusted \subseteq u.trusted
    BY <2>7
  <2>9. ASSUME NEW k \in DOMAIN v.keys
        PROVE  k <= Len(s.keys) \/ \E g \in DOMAIN Given : \E i \in DOMAIN d[Given[g]] : Gives(d[Given[g]][i], v.keys[k])
    <3>1. k <= Len(s.keys) \/ \E i \in 1..Len(c) : Gives(c[i], v.keys[k])
      BY <2>3 DEF Reads, v
    <3>2. QED
      BY <2>1, <2>2, <3>1 DEF c
  <2>10. QED
    BY <2>5, <2>8, <2>9
<1>3. QED
  BY <1>1, <1>2

------------------------------------------------------------------------------
(* The daemon                                                              *)

\* What a key file may hold at any time: what an administrator or ntpkeygen
\* has written, or nothing yet.
Texts == Contents \cup {KeygenFile(o) : o \in Generated} \cup {<<>>}

AllLines == UNION {{c[i] : i \in DOMAIN c} : c \in Texts}

Loaded(d, s) == LET r == LoadFiles(d, NoKeys, Configured) IN r.ok /\ s = WithOptions(d, r.store)

KeysInv ==
  /\ disk \in [Paths -> Texts] /\ read \in [Paths -> Texts]
  /\ loaded \in {"no", "start", "reload"}
  /\ loaded = "reload" => Loaded(read, keys)

LEMMA TextsAreLines ==
  ASSUME NEW c \in Texts
  PROVE  c \in Seq(AllLines)
<1> DEFINE S == {c[i] : i \in DOMAIN c}
<1>1. c \in Seq(S)
  <2>1. CASE c \in Contents
    BY <2>1, KeyAssumption
  <2>2. CASE c = <<>>
    BY <2>2, EmptySeq
  <2>3. CASE \E o \in Generated : c = KeygenFile(o)
    <3>1. PICK o \in Generated : c = <<KeygenLine(o, 1), KeygenLine(o, 2)>>
      BY <2>3 DEF KeygenFile
    <3> DEFINE a == KeygenLine(o, 1)
               b == KeygenLine(o, 2)
    <3> HIDE DEF a, b
    <3>2. c = <<a, b>>
      BY <3>1 DEF a, b
    <3>3. c \in Seq({a, b})
      BY <3>2
    <3>4. QED
      BY <3>3, SeqIsSeq DEF IsSeq
  <2>4. QED
    BY <2>1, <2>2, <2>3 DEF Texts
<1>2. S \subseteq AllLines
  BY DEF AllLines
<1> HIDE DEF S
<1>3. QED
  BY <1>1, <1>2, SeqMonotonic

LEMMA PathsAre ==
  /\ \A f \in DOMAIN Configured : Configured[f] \in Paths
  /\ \A g \in DOMAIN Given : Given[g] \in Paths
<1> DEFINE S == {Configured[i] : i \in DOMAIN Configured} \cup {Given[i] : i \in DOMAIN Given}
           C == Configured \o Given
<1>1. Configured \in Seq(S) /\ Given \in Seq(S)
  BY KeyAssumption, SeqMonotonic
<1> HIDE DEF S
<1>2. /\ C \in Seq(S) /\ Len(C) = Len(Configured) + Len(Given)
      /\ \A i \in 1..Len(Configured) : C[i] = Configured[i]
      /\ \A i \in 1..Len(Given) : C[Len(Configured) + i] = Given[i]
  <2>1. C \in Seq(S) /\ Len(C) = Len(Configured) + Len(Given)
    BY <1>1, ConcatProperties
  <2>2. /\ Len(Configured) \in Nat /\ Len(Given) \in Nat
        /\ \A i \in 1..Len(Configured) + Len(Given) :
             C[i] = IF i <= Len(Configured) THEN Configured[i] ELSE Given[i - Len(Configured)]
    BY <1>1, ConcatProperties, LenProperties
  <2> HIDE DEF C
  <2>3. QED
    BY <2>1, <2>2
<1>3. /\ Len(Configured) \in Nat /\ Len(Given) \in Nat /\ DOMAIN C = 1..Len(C)
      /\ DOMAIN Configured = 1..Len(Configured) /\ DOMAIN Given = 1..Len(Given)
  BY <1>1, <1>2, LenProperties
<1>4. Paths = {C[i] : i \in DOMAIN C}
  BY DEF Paths, ToSet
<1> HIDE DEF C
<1>5. ASSUME NEW f \in DOMAIN Configured PROVE Configured[f] \in Paths
  <2>1. f \in DOMAIN C /\ C[f] = Configured[f]
    BY <1>2, <1>3
  <2>2. QED
    BY <1>4, <2>1
<1>6. ASSUME NEW g \in DOMAIN Given PROVE Given[g] \in Paths
  <2>1. Len(Configured) + g \in DOMAIN C /\ C[Len(Configured) + g] = Given[g]
    BY <1>2, <1>3
  <2>2. QED
    BY <1>4, <2>1
<1>7. QED
  BY <1>5, <1>6

LEMMA KeysInvInit ==
  KeyInit => KeysInv
BY DEF KeyInit, KeysInv, Texts

LEMMA KeysInvStep ==
  KeysInv /\ [KeyNext]_keyVars => KeysInv'
<1> SUFFICES ASSUME KeysInv, [KeyNext]_keyVars PROVE KeysInv'
  OBVIOUS
<1> USE DEF KeysInv
<1>1. CASE Start
  BY <1>1 DEF Start
<1>2. CASE Reload
  <2> DEFINE r == LoadFiles(disk, NoKeys, Configured)
  <2>1. CASE r.ok
    <3>1. read' = disk /\ loaded' = "reload" /\ keys' = WithOptions(disk, r.store) /\ disk' = disk
      BY <1>2, <2>1 DEF Reload
    <3>2. Loaded(disk, keys')
      BY <2>1, <3>1 DEF Loaded
    <3>3. Loaded(read', keys')
      BY <3>1, <3>2
    <3>4. Loaded(read, keys)' = Loaded(read', keys')
      BY <3>1 DEF Loaded, LoadFiles, WithOptions
    <3>5. QED
      BY <3>1, <3>3, <3>4
  <2>2. CASE ~r.ok
    BY <1>2, <2>2 DEF Reload
  <2>3. QED
    BY <2>1, <2>2
<1>3. ASSUME NEW p \in Paths, Edit(p) PROVE KeysInv'
  BY <1>3 DEF Edit, Texts
<1>4. ASSUME NEW p \in Paths, Keygen(p) PROVE KeysInv'
  BY <1>4 DEF Keygen, Texts
<1>5. CASE UNCHANGED keyVars
  BY <1>5 DEF keyVars
<1>6. QED
  BY <1>1, <1>2, <1>3, <1>4, <1>5 DEF KeyNext

LEMMA LoadedWhole ==
  ASSUME KeysInv
  PROVE  KeysWhole
<1> SUFFICES ASSUME loaded = "reload" PROVE KeysWhole
  BY DEF KeysWhole
<1> DEFINE L == AllLines
           r == LoadFiles(read, NoKeys, Configured)
           s == r.store
<1>1. r.ok /\ keys = WithOptions(read, s)
  BY DEF KeysInv, Loaded
<1>2. \A p \in Paths : read[p] \in Seq(L)
  BY TextsAreLines DEF KeysInv
<1>3. FilesRead(L, read, r, Len(Configured))
  BY <1>2, PathsAre, AllFilesRead
<1>4. Len(Configured) \in Nat /\ DOMAIN Configured = 1..Len(Configured)
  BY KeyAssumption, LenProperties
<1> HIDE DEF L, r
<1>5. s \in Store(L)
  BY <1>3, ResultHas DEF FilesRead
<1>6. PICK t \in Store(L) :
           /\ Grown(s, t) /\ keys.keys = t.keys /\ t.trusted \subseteq keys.trusted
           /\ \A k \in DOMAIN t.keys : k <= Len(s.keys)
                \/ \E g \in DOMAIN Given : \E i \in DOMAIN read[Given[g]] : Gives(read[Given[g]][i], t.keys[k])
  <2>1. \A g \in DOMAIN Given : read[Given[g]] \in Seq(L)
    BY <1>2, PathsAre
  <2> DEFINE u == keys
  <2>2. u = WithOptions(read, s)
    BY <1>1
  <2> HIDE DEF u
  <2>3. \E t \in Store(L) :
           /\ Grown(s, t) /\ u.keys = t.keys /\ t.trusted \subseteq u.trusted
           /\ \A k \in DOMAIN t.keys : k <= Len(s.keys)
                \/ \E g \in DOMAIN Given : \E i \in DOMAIN read[Given[g]] : Gives(read[Given[g]][i], t.keys[k])
    BY <1>5, <2>1, <2>2, OptionsRead
  <2>4. QED
    BY <2>3 DEF u
<1>7. ASSUME NEW f \in DOMAIN Configured, NEW i \in KeyLines(read, f), FirstOfItsId(read, f, i)
      PROVE  LET l == LineAt(read, f, i) IN Verifies(keys, l.id, Packet, Mac(KeyOf(l), Packet))
  <2> DEFINE l == LineAt(read, f, i)
  <2>1. Held(s, l.id, KeyOf(l))
    BY <1>1, <1>3, <1>4, <1>7 DEF FilesRead
  <2>2. HasKey(t, l.id) /\ GetKey(t, l.id) = KeyOf(l)
    BY <1>5, <1>6, <2>1, HeldStays DEF Held
  <2>3. HasKey(keys, l.id) /\ GetKey(keys, l.id) = KeyOf(l)
    BY <1>6, <2>2 DEF HasKey, GetKey
  <2>4. QED
    BY <2>3 DEF Verifies
<1>8. ASSUME NEW f \in DOMAIN Configured, NEW i \in KeyLines(read, f),
             LineAt(read, f, i).fields > 3, LineAt(read, f, i).trusted
      PROVE  LineAt(read, f, i).id \in keys.trusted
  <2>1. LineAt(read, f, i).id \in s.trusted
    BY <1>1, <1>3, <1>4, <1>8 DEF FilesRead
  <2>2. QED
    BY <1>6, <2>1 DEF Grown
<1>9. ASSUME NEW k \in DOMAIN keys.keys
      PROVE  \/ \E f \in DOMAIN Configured : \E i \in KeyLines(read, f) : Gives(LineAt(read, f, i), keys.keys[k])
             \/ \E g \in DOMAIN Given : \E i \in DOMAIN read[Given[g]] : Gives(read[Given[g]][i], keys.keys[k])
  <2>1. CASE k <= Len(s.keys)
    <3>1. k \in DOMAIN s.keys /\ keys.keys[k] = s.keys[k]
      BY <1>5, <1>6, <2>1, StoreHas DEF Grown
    <3>2. QED
      BY <1>3, <1>4, <3>1 DEF FilesRead
  <2>2. CASE ~(k <= Len(s.keys))
    BY <1>6, <2>2
  <2>3. QED
    BY <2>1, <2>2
<1>10. \A f \in DOMAIN Configured : \A i \in KeyLines(read, f) :
         LET l == LineAt(read, f, i) IN
         /\ FirstOfItsId(read, f, i) => Verifies(keys, l.id, Packet, Mac(KeyOf(l), Packet))
         /\ l.fields > 3 /\ l.trusted => l.id \in keys.trusted
  <2> SUFFICES ASSUME NEW f \in DOMAIN Configured, NEW i \in KeyLines(read, f)
               PROVE  LET l == LineAt(read, f, i) IN
                      /\ FirstOfItsId(read, f, i) => Verifies(keys, l.id, Packet, Mac(KeyOf(l), Packet))
                      /\ l.fields > 3 /\ l.trusted => l.id \in keys.trusted
    OBVIOUS
  <2>1. FirstOfItsId(read, f, i) =>
          Verifies(keys, LineAt(read, f, i).id, Packet, Mac(KeyOf(LineAt(read, f, i)), Packet))
    BY <1>7
  <2>2. LineAt(read, f, i).fields > 3 /\ LineAt(read, f, i).trusted => LineAt(read, f, i).id \in keys.trusted
    BY <1>8
  <2>3. QED
    BY <2>1, <2>2
<1>11. \A k \in DOMAIN keys.keys :
         \/ \E f \in DOMAIN Configured : \E i \in KeyLines(read, f) : Gives(LineAt(read, f, i), keys.keys[k])
         \/ \E g \in DOMAIN Given : \E i \in DOMAIN read[Given[g]] : Gives(read[Given[g]][i], keys.keys[k])
  BY <1>9
<1>12. QED
  BY <1>10, <1>11 DEF KeysWhole

(* After a reload the daemon holds every key of every configured file, the *)
(* first of an id before the others, and none that no file it read gives:  *)
(* a file that fails refuses the reload as a whole (main.rs, reload and    *)
(* load_key_files).                                                        *)
THEOREM ReloadedKeysAreWhole == KeySpec => []KeysWhole
<1>1. KeysInv => KeysWhole
  BY LoadedWhole
<1>2. QED
  BY KeysInvInit, KeysInvStep, <1>1, PTL DEF KeySpec

------------------------------------------------------------------------------
(* The table of leap seconds                                               *)

\* Of two places one is before the other.
LEMMA EarlierOrders ==
  ASSUME NEW s, NEW m \in Nat, DOMAIN s = 1..m, \A i \in 1..m : s[i].time \in Int
  PROVE  /\ \A i \in 1..m : ~Earlier(s, i, i)
         /\ \A i, j, k \in 1..m : Earlier(s, i, j) /\ Earlier(s, j, k) => Earlier(s, i, k)
         /\ \A i, j \in 1..m : i = j \/ Earlier(s, i, j) \/ Earlier(s, j, i)
<1>1. ASSUME NEW i \in 1..m PROVE ~Earlier(s, i, i)
  BY DEF Earlier
<1>2. ASSUME NEW i \in 1..m, NEW j \in 1..m, NEW k \in 1..m, Earlier(s, i, j), Earlier(s, j, k)
      PROVE  Earlier(s, i, k)
  <2> DEFINE a == s[i].time
             b == s[j].time
             c == s[k].time
  <2>1. a \in Int /\ b \in Int /\ c \in Int /\ i \in Int /\ j \in Int /\ k \in Int
    OBVIOUS
  <2>2. (a < b \/ (a = b /\ i < j)) /\ (b < c \/ (b = c /\ j < k))
    BY <1>2 DEF Earlier
  <2> HIDE DEF a, b, c
  <2>3. a < c \/ (a = c /\ i < k)
    BY <2>1, <2>2
  <2>4. QED
    BY <2>3 DEF Earlier, a, c
<1>3. ASSUME NEW i \in 1..m, NEW j \in 1..m PROVE i = j \/ Earlier(s, i, j) \/ Earlier(s, j, i)
  <2>1. s[i].time \in Int /\ s[j].time \in Int /\ i \in Int /\ j \in Int
    OBVIOUS
  <2>2. QED
    BY <2>1 DEF Earlier
<1>4. QED
  BY <1>1, <1>2, <1>3

\* Sorting a sequence loses none of its elements and adds none.
LEMMA Ordered ==
  ASSUME NEW s, NEW m \in Nat, DOMAIN s = 1..m, \A i \in 1..m : s[i].time \in Int
  PROVE  LET r == InOrder(s)
         IN /\ DOMAIN r = 1..m
            /\ \A n \in 1..m : \E i \in 1..m : r[n] = s[i]
            /\ \A i \in 1..m : \E n \in 1..m : r[n] = s[i]
<1> DEFINE E == 1..m
           Pred(i) == {j \in E : Earlier(s, j, i)}
           rank == [i \in E |-> Cardinality(Pred(i)) + 1]
           r == InOrder(s)
<1>0. IsFiniteSet(E) /\ Cardinality(E) = m
  <2>1. m \in Int /\ 1 \in Int
    OBVIOUS
  <2>2. IsFiniteSet(1..m) /\ Cardinality(1..m) = IF 1 > m THEN 0 ELSE m - 1 + 1
    BY <2>1, FS_Interval
  <2>3. QED
    BY <2>1, <2>2
<1>1. r = [n \in E |-> s[CHOOSE i \in E : rank[i] = n]]
  BY DEF InOrder
<1> HIDE DEF r
<1>2. ASSUME NEW i \in E
      PROVE  IsFiniteSet(Pred(i)) /\ Cardinality(Pred(i)) \in Nat /\ rank[i] \in 1..m
  <2>1. Pred(i) \in SUBSET (E \ {i})
    BY EarlierOrders
  <2>2. IsFiniteSet(E \ {i}) /\ Cardinality(E \ {i}) = m - 1
    BY <1>0, FS_RemoveElement
  <2> DEFINE p == Pred(i)
  <2> HIDE DEF p
  <2>3. IsFiniteSet(p) /\ Cardinality(p) \in Nat /\ Cardinality(p) <= m - 1
    BY <2>1, <2>2, FS_Subset, FS_CardinalityType DEF p
  <2>4. rank[i] = Cardinality(p) + 1
    BY DEF p
  <2>5. QED
    BY <2>3, <2>4 DEF p
<1>3. ASSUME NEW i \in E, NEW j \in E, Earlier(s, j, i) PROVE rank[j] < rank[i]
  <2>1. Pred(j) \subseteq Pred(i) /\ j \in Pred(i) /\ j \notin Pred(j)
    BY <1>3, EarlierOrders
  <2> DEFINE p == Pred(i)
             q == Pred(j)
  <2>2. rank[i] = Cardinality(p) + 1 /\ rank[j] = Cardinality(q) + 1
    OBVIOUS
  <2>3. IsFiniteSet(p) /\ Cardinality(p) \in Nat /\ Cardinality(q) \in Nat
    BY <1>2
  <2> HIDE DEF p, q, rank
  <2>4. q \in SUBSET p /\ q # p
    BY <2>1 DEF p, q
  <2>5. Cardinality(q) <= Cardinality(p) /\ (Cardinality(p) = Cardinality(q) => p = q)
    BY <2>3, <2>4, FS_Subset
  <2>6. QED
    BY <2>2, <2>3, <2>4, <2>5
<1>4. rank \in Injection(E, 1..m)
  <2>1. rank \in [E -> 1..m]
    BY <1>2
  <2>2. ASSUME NEW i \in E, NEW j \in E, rank[i] = rank[j] PROVE i = j
    <3>0. rank[i] \in 1..m /\ rank[j] \in 1..m
      BY <1>2
    <3>1. rank[i] \in Int /\ rank[j] \in Int
      <4> HIDE DEF rank
      <4> QED BY <3>0
    <3>2. i = j \/ Earlier(s, i, j) \/ Earlier(s, j, i)
      BY EarlierOrders
    <3> HIDE DEF rank
    <3>3. QED
      BY <1>3, <2>2, <3>1, <3>2
  <2> HIDE DEF rank, E
  <2>3. QED
    BY <2>1, <2>2 DEF Injection, IsInjective
<1>5. rank \in Surjection(E, 1..m)
  <2>1. IsFiniteSet(1..m) /\ Cardinality(1..m) = m
    BY <1>0
  <2> HIDE DEF rank, E
  <2>2. QED
    BY <1>0, <1>4, <2>1, FS_Injection
<1> HIDE DEF rank
<1>6. ASSUME NEW n \in 1..m PROVE \E i \in 1..m : r[n] = s[i]
  <2>1. \E i \in E : rank[i] = n
    BY <1>5 DEF Surjection
  <2>2. r[n] = s[CHOOSE i \in E : rank[i] = n]
    BY <1>1
  <2>3. QED
    BY <2>1, <2>2
<1>7. DOMAIN r = 1..m
  BY <1>1
<1>8. ASSUME NEW i \in 1..m PROVE \E n \in 1..m : r[n] = s[i]
  <2> DEFINE n == rank[i]
             k == CHOOSE j \in E : rank[j] = n
  <2>1. n \in 1..m
    BY <1>2
  <2>2. r[n] = s[k]
    BY <1>1, <2>1
  <2>3. k \in E /\ rank[k] = rank[i]
    OBVIOUS
  <2> HIDE DEF k
  <2>4. k = i
    BY <1>4, <2>3 DEF Injection, IsInjective
  <2>5. QED
    BY <2>1, <2>2, <2>4
<1>9. QED
  BY <1>6, <1>7, <1>8 DEF r

LEMMA FirstOfIs ==
  ASSUME NEW at \in SUBSET Nat, at # {}
  PROVE  FirstOf(at) \in at /\ \A j \in at : FirstOf(at) <= j
<1>1. \E i \in at : \A j \in at : i <= j
  BY LeastIn
<1>2. QED
  BY <1>1 DEF FirstOf

LeapLines == [time : Int, offset : Int, good : BOOLEAN]

\* What can be on the disk: a file as far as it was written.
Disks == {c \in [file : LeapFiles, upTo : Nat] : c.upTo <= Len(c.file.lines) + 1}

LEMMA FileHas ==
  ASSUME NEW f \in LeapFiles
  PROVE  f.lines \in Seq(LeapLines) /\ Len(f.lines) \in Nat /\ f.expires \in Int /\ DOMAIN f.lines = 1..Len(f.lines)
<1>1. f.lines \in Seq(LeapLines) /\ f.expires \in Int
  BY LeapAssumption DEF LeapLines
<1>2. QED
  BY <1>1, LenProperties

\* As many lines as were written, each as it is in the file.
LEMMA LinesAre ==
  ASSUME NEW c \in Disks
  PROVE  /\ LinesOf(c) \in Seq(LeapLines)
         /\ c.upTo <= 1 => LinesOf(c) = <<>>
         /\ Len(LinesOf(c)) <= Len(c.file.lines)
         /\ \A i \in 1..Len(LinesOf(c)) : LinesOf(c)[i] = c.file.lines[i] /\ c.upTo >= 1
<1> DEFINE ls == c.file.lines
<1>1. ls \in Seq(LeapLines) /\ Len(ls) \in Nat /\ c.upTo \in Nat /\ c.upTo <= Len(ls) + 1
  BY FileHas DEF Disks
<1> HIDE DEF ls
<1>2. CASE c.upTo <= 1
  <2>1. LinesOf(c) = <<>> /\ Len(<<>>) = 0 /\ <<>> \in Seq(LeapLines)
    BY <1>2, EmptySeq DEF LinesOf
  <2>2. QED
    BY <1>1, <2>1 DEF ls
<1>3. CASE ~(c.upTo <= 1)
  <2> DEFINE n == c.upTo - 1
             p == SubSeq(ls, 1, n)
  <2>1. n \in 1..Len(ls) /\ c.upTo >= 1
    BY <1>1, <1>3
  <2>2. LinesOf(c) = p
    BY <1>3 DEF LinesOf, ls
  <2> HIDE DEF n
  <2>3. 1 \in Int /\ n \in Int /\ \A i \in 1..n : ls[i] \in LeapLines
    BY <1>1, <2>1, ElementOfSeq
  <2>4. /\ p \in Seq(LeapLines) /\ Len(p) = IF 1 <= n THEN n - 1 + 1 ELSE 0
        /\ \A i \in 1..(n - 1 + 1) : p[i] = ls[1 + i - 1]
    BY <2>3, SubSeqProperties
  <2> HIDE DEF p
  <2>5. Len(p) = n /\ \A i \in 1..n : p[i] = ls[i]
    <3>1. n - 1 + 1 = n /\ 1 <= n
      BY <2>1
    <3>2. \A i \in 1..n : 1 + i - 1 = i
      BY <2>1
    <3>3. QED
      BY <2>4, <3>1, <3>2
  <2>6. QED
    BY <1>1, <1>3, <2>1, <2>2, <2>4, <2>5 DEF ls
<1>4. QED
  BY <1>1, <1>2, <1>3

\* The entries of the lines there are, before they are sorted.
Entered(c) == [i \in DOMAIN LinesOf(c) |-> EntryOf(c, LinesOf(c)[i])]

LEMMA EnteredAre ==
  ASSUME NEW c \in Disks
  PROVE  LET m == Len(LinesOf(c)) s == Entered(c)
         IN /\ m \in Nat /\ DOMAIN LinesOf(c) = 1..m /\ DOMAIN s = 1..m
            /\ \A i \in 1..m : /\ s[i] = EntryOf(c, c.file.lines[i])
                               /\ s[i].time \in Int /\ s[i].offset \in Int /\ s[i].expires \in Int
<1> DEFINE m == Len(LinesOf(c))
           s == Entered(c)
<1>1. LinesOf(c) \in Seq(LeapLines) /\ m \in Nat /\ DOMAIN LinesOf(c) = 1..m
  BY LinesAre, LenProperties
<1>2. DOMAIN s = 1..m /\ \A i \in 1..m : s[i] = EntryOf(c, LinesOf(c)[i])
  BY <1>1 DEF Entered
<1>3. ExpiryOf(c) \in Int
  BY FileHas DEF ExpiryOf, Disks, NoExpiry
<1>4. ASSUME NEW i \in 1..m
      PROVE  /\ s[i] = EntryOf(c, c.file.lines[i])
             /\ s[i].time \in Int /\ s[i].offset \in Int /\ s[i].expires \in Int
  <2> DEFINE l == LinesOf(c)[i]
  <2>1. l \in LeapLines /\ l = c.file.lines[i]
    BY <1>1, LinesAre, ElementOfSeq
  <2>2. s[i] = EntryOf(c, l)
    BY <1>2
  <2> HIDE DEF l
  <2>3. l.time \in Int /\ l.offset \in Int
    BY <2>1 DEF LeapLines
  <2>4. EntryOf(c, l).time = l.time /\ EntryOf(c, l).offset = l.offset /\ EntryOf(c, l).expires \in Int
    BY <1>3, <2>3 DEF EntryOf
  <2>5. QED
    BY <2>1, <2>2, <2>3, <2>4
<1>5. QED
  BY <1>1, <1>2, <1>4

\* A table with entries is a file as far as it was written, if it has a hash
\* all of it.
LEMMA LoadedAre ==
  ASSUME NEW c \in Disks, NEW es, es = Load(c).entries, es # <<>>
  PROVE  HashHolds(c) /\ es = InOrder(Entered(c)) /\ Len(LinesOf(c)) >= 1 /\ c.upTo >= 1
<1> DEFINE ls == LinesOf(c)
           bad == {i \in DOMAIN ls : ~ls[i].good}
           m == Len(ls)
<1>1. HashHolds(c)
  BY DEF Load, NoEntries
<1>2. ASSUME bad # {} PROVE FALSE
  <2>1. \A x : [NoEntries EXCEPT !.tai = x].entries = <<>>
    BY DEF NoEntries
  <2>2. QED
    BY <1>1, <1>2, <2>1 DEF Load
<1>3. es = InOrder(Entered(c))
  BY <1>1, <1>2 DEF Load, Entered
<1>4. ASSUME m = 0 PROVE FALSE
  <2>1. DOMAIN Entered(c) = {}
    BY <1>4, EnteredAre
  <2>2. es = <<>>
    BY <1>3, <2>1 DEF InOrder
  <2>3. QED
    BY <2>2
<1>5. m \in Nat /\ m >= 1
  BY <1>4, EnteredAre
<1>6. c.upTo >= 1
  BY <1>5, LinesAre
<1>7. QED
  BY <1>1, <1>3, <1>5, <1>6

\* The file with all that there is to be written.
Whole(f) == [file |-> f, upTo |-> Len(f.lines) + 1]

LEMMA WholeIs ==
  ASSUME NEW f \in LeapFiles
  PROVE  /\ Whole(f) \in Disks /\ LinesOf(Whole(f)) = f.lines /\ ExpiryOf(Whole(f)) = f.expires
         /\ WholeEntries(f) = InOrder(Entered(Whole(f)))
<1> DEFINE c == Whole(f)
           n == Len(f.lines)
<1>1. f.lines \in Seq(LeapLines) /\ n \in Nat /\ DOMAIN f.lines = 1..n
  BY FileHas
<1>2. c.file = f /\ c.upTo = n + 1 /\ c \in [file : LeapFiles, upTo : Nat]
  BY <1>1 DEF Whole
<1>3. c \in Disks
  BY <1>1, <1>2 DEF Disks
<1>4. ExpiryOf(c) = f.expires
  BY <1>1, <1>2 DEF ExpiryOf
<1>5. LinesOf(c) = f.lines
  <2>1. CASE n = 0
    <3>1. LinesOf(c) = <<>>
      BY <1>2, <2>1 DEF LinesOf
    <3>2. f.lines = <<>>
      BY <1>1, <2>1, EmptySeq
    <3>3. QED
      BY <3>1, <3>2
  <2>2. CASE n # 0
    <3> DEFINE ls == f.lines
               p == SubSeq(ls, 1, n)
    <3>1. LinesOf(c) = p
      <4>1. ~(c.upTo <= 1) /\ c.upTo - 1 = n
        BY <1>1, <1>2, <2>2
      <4>2. LinesOf(c) = SubSeq(c.file.lines, 1, c.upTo - 1)
        BY <4>1 DEF LinesOf
      <4>3. QED
        BY <1>2, <4>1, <4>2
    <3> HIDE DEF c
    <3>2. 1 \in Int /\ n \in Int /\ \A i \in 1..n : ls[i] \in LeapLines
      BY <1>1, ElementOfSeq
    <3>3. /\ p \in Seq(LeapLines) /\ Len(p) = IF 1 <= n THEN n - 1 + 1 ELSE 0
          /\ \A i \in 1..(n - 1 + 1) : p[i] = ls[1 + i - 1]
      BY <3>2, SubSeqProperties
    <3> HIDE DEF p, n, ls
    <3>4. Len(p) = n /\ \A i \in 1..n : p[i] = ls[i]
      <4>1. n - 1 + 1 = n /\ 1 <= n
        BY <1>1, <2>2
      <4>2. \A i \in 1..n : 1 + i - 1 = i
        BY <1>1
      <4>3. QED
        BY <3>3, <4>1, <4>2
    <3>5. ls \in Seq(LeapLines) /\ Len(ls) = n
      BY <1>1 DEF ls, n
    <3>6. p = ls
      BY <3>3, <3>4, <3>5, SeqEqual
    <3>7. QED
      BY <3>1, <3>6 DEF ls
  <2>3. QED
    BY <2>1, <2>2
<1>6. WholeEntries(f) = InOrder(Entered(c))
  BY <1>5 DEF WholeEntries, Entered, Whole
<1>7. QED
  BY <1>3, <1>4, <1>5, <1>6

\* An entry does not depend on how much was written, once the header was.
LEMMA SameEntry ==
  ASSUME NEW c \in Disks, c.upTo >= 1, NEW l
  PROVE  EntryOf(c, l) = EntryOf(Whole(c.file), l)
BY WholeIs DEF EntryOf, ExpiryOf, Disks

LEMMA AllOrNone ==
  ASSUME NEW c \in Disks, NEW es, es = Load(c).entries, es # <<>>
  PROVE  LET f == c.file
         IN IF f.hashed THEN es = WholeEntries(f) ELSE ToSet(es) \subseteq ToSet(WholeEntries(f))
<1> DEFINE f == c.file
           w == Whole(f)
           m == Len(LinesOf(c))
           n == Len(f.lines)
<1>1. HashHolds(c) /\ es = InOrder(Entered(c)) /\ m >= 1 /\ c.upTo >= 1
  BY LoadedAre
<1>2. f \in LeapFiles
  BY DEF Disks
<1>3. /\ w \in Disks /\ LinesOf(w) = f.lines /\ WholeEntries(f) = InOrder(Entered(w))
      /\ n \in Nat /\ DOMAIN f.lines = 1..n /\ w.file = f
  BY <1>2, WholeIs, FileHas DEF Whole
<1>4. CASE f.hashed
  <2>1. LinesOf(c) = f.lines
    BY <1>1, <1>4 DEF HashHolds
  <2>2. Entered(c) = Entered(w)
    BY <1>1, <1>3, <2>1, SameEntry DEF Entered
  <2>3. QED
    BY <1>1, <1>3, <1>4, <2>2
<1>5. CASE ~f.hashed
  <2> DEFINE s == Entered(c)
             u == Entered(w)
  <2>1. /\ m \in Nat /\ DOMAIN s = 1..m /\ \A i \in 1..m : s[i] = EntryOf(c, f.lines[i]) /\ s[i].time \in Int
        /\ DOMAIN u = 1..n /\ \A i \in 1..n : u[i] = EntryOf(w, f.lines[i]) /\ u[i].time \in Int
        /\ m <= n
    BY <1>3, EnteredAre, LinesAre
  <2> DEFINE r == WholeEntries(f)
  <2>a. es = InOrder(s) /\ r = InOrder(u)
    BY <1>1, <1>3
  <2> HIDE DEF s, u, m, n, r
  <2>2. DOMAIN es = 1..m /\ \A k \in 1..m : \E i \in 1..m : es[k] = s[i]
    <3>1. m \in Nat /\ DOMAIN s = 1..m /\ \A i \in 1..m : s[i].time \in Int
      BY <2>1
    <3>2. LET q == InOrder(s)
          IN /\ DOMAIN q = 1..m
             /\ \A k \in 1..m : \E i \in 1..m : q[k] = s[i]
             /\ \A i \in 1..m : \E k \in 1..m : q[k] = s[i]
      BY ONLY <3>1, Ordered
    <3>3. QED
      BY <2>a, <3>2
  <2>3. DOMAIN r = 1..n /\ \A i \in 1..n : \E k \in 1..n : r[k] = u[i]
    BY <1>3, <2>1, <2>a, Ordered DEF n
  <2>4. ASSUME NEW k \in 1..m PROVE \E j \in 1..n : r[j] = es[k]
    <3>1. PICK i \in 1..m : es[k] = s[i]
      BY <2>2
    <3>2. i \in 1..n
      BY <1>3, <2>1 DEF n
    <3>3. s[i] = u[i]
      BY <1>1, <2>1, <3>2, SameEntry
    <3>4. QED
      BY <2>3, <3>1, <3>2, <3>3
  <2>5. ToSet(es) = {es[k] : k \in 1..m} /\ ToSet(r) = {r[k] : k \in 1..n}
    BY <2>2, <2>3 DEF ToSet
  <2>6. ToSet(es) \subseteq ToSet(r)
    BY <2>4, <2>5
  <2>7. QED
    BY <1>5, <2>6 DEF r
<1>6. QED
  BY <1>4, <1>5

LeapInv ==
  /\ day \in Nat /\ published \in LeapFiles /\ leapDisk \in Disks /\ fetching \in BOOLEAN
  /\ table = NoEntries \/ \E c \in Disks : table = Load(c)

\* The first entry that is due is not behind one that is.
LEMMA ToldInTime ==
  ASSUME LeapInv, NEW i \in DOMAIN table.entries,
         table.entries[i].expires > Now, \A j \in 1 .. i : table.entries[j].offset > 0
  PROVE  LET e == table.entries[i]
         IN /\ Now = e.time - 1 => Query(table) = "add"
            /\ Now = e.time /\ Smear > 0 => SmearOffset(table) > 0
<1> DEFINE es == table.entries
           e == es[i]
<1>0. table # NoEntries
  BY DEF NoEntries
<1>1. PICK c \in Disks : table = Load(c)
  BY <1>0 DEF LeapInv
<1>2. es # <<>>
  OBVIOUS
<1> DEFINE m == Len(LinesOf(c))
           s == Entered(c)
<1>3. es = InOrder(s) /\ m >= 1
  BY <1>1, <1>2, LoadedAre
<1>4. m \in Nat /\ DOMAIN s = 1..m /\ \A k \in 1..m : s[k].time \in Int /\ s[k].offset \in Int /\ s[k].expires \in Int
  BY EnteredAre
<1> HIDE DEF s, m
<1>5. DOMAIN es = 1..m /\ \A k \in 1..m : \E j \in 1..m : es[k] = s[j]
  <2>1. m \in Nat /\ DOMAIN s = 1..m /\ \A k \in 1..m : s[k].time \in Int
    BY <1>4
  <2>2. LET q == InOrder(s)
        IN /\ DOMAIN q = 1..m
           /\ \A n \in 1..m : \E k \in 1..m : q[n] = s[k]
           /\ \A k \in 1..m : \E n \in 1..m : q[n] = s[k]
    BY ONLY <2>1, Ordered
  <2>3. QED
    BY <1>3, <2>2
<1>6. \A k \in DOMAIN es : k \in Nat /\ k >= 1 /\ es[k].time \in Int /\ es[k].offset \in Int /\ es[k].expires \in Int
  <2> SUFFICES ASSUME NEW k \in 1..m
               PROVE  k \in Nat /\ k >= 1 /\ es[k].time \in Int /\ es[k].offset \in Int /\ es[k].expires \in Int
    BY <1>5
  <2>1. PICK j \in 1..m : es[k] = s[j]
    BY <1>5
  <2>2. es[k].time \in Int /\ es[k].offset \in Int /\ es[k].expires \in Int
    BY <1>4, <2>1
  <2>3. QED
    BY <1>4, <2>2
<1> HIDE DEF es
<1>7. Now \in Int /\ Smear \in Nat
  BY LeapAssumption DEF Now, LeapInv
<1>8. ASSUME NEW at \in SUBSET (DOMAIN es), i \in at
      PROVE  FirstOf(at) \in at /\ es[FirstOf(at)].offset > 0
  <2>1. at \in SUBSET Nat /\ at # {}
    BY <1>6, <1>8
  <2>2. FirstOf(at) \in at /\ FirstOf(at) <= i
    BY <1>8, <2>1, FirstOfIs
  <2>3. FirstOf(at) \in 1..i
    BY <1>6, <2>2
  <2>4. QED
    BY <2>2, <2>3 DEF es
<1>9. ASSUME Now = e.time - 1 PROVE Query(table) = "add"
  <2> DEFINE at == Pending(table)
  <2>1. at = {k \in DOMAIN es : es[k].expires > Now /\ Now >= es[k].time - 1}
    BY DEF Pending, es
  <2>2. at \in SUBSET (DOMAIN es) /\ i \in at
    BY <1>6, <1>7, <1>9, <2>1 DEF es
  <2> HIDE DEF at
  <2>3. es[FirstOf(at)].offset > 0 /\ at # {}
    BY <1>8, <2>2
  <2>4. QED
    BY <2>3 DEF Query, at, es
<1>10. ASSUME Now = e.time, Smear > 0 PROVE SmearOffset(table) > 0
  <2> DEFINE at == {k \in DOMAIN es : es[k].time <= Now /\ Now < es[k].time + Smear}
             x == es[FirstOf(at)]
  <2>1. at \in SUBSET (DOMAIN es) /\ i \in at
    BY <1>6, <1>7, <1>10 DEF es
  <2>2. FirstOf(at) \in at /\ x.offset > 0
    BY <1>8, <2>1
  <2>3. SmearOffset(table) = x.offset * (Smear - (Now - x.time))
    BY <1>7, <1>10, <2>1 DEF SmearOffset, es
  <2>4. x.time \in Int /\ x.offset \in Int /\ x.time <= Now /\ Now < x.time + Smear
    BY <1>6, <2>2
  <2> DEFINE a == x.offset
             b == Smear - (Now - x.time)
  <2>5. a \in Int /\ a > 0 /\ b \in Int /\ b > 0
    BY <1>7, <2>2, <2>4
  <2> HIDE DEF a, b
  <2>6. a * b > 0
    BY <2>5
  <2>7. QED
    BY <2>3, <2>6 DEF a, b
<1>11. QED
  BY <1>9, <1>10 DEF es

LEMMA LeapInvInit ==
  LeapInit => LeapInv
<1> SUFFICES ASSUME LeapInit PROVE LeapInv
  OBVIOUS
<1>1. leapDisk \in Disks
  <2>1. CASE leapDisk \in [file : LeapFiles, upTo : {0}]
    <3>1. leapDisk \in [file : LeapFiles, upTo : Nat] /\ leapDisk.upTo = 0 /\ leapDisk.file \in LeapFiles
      BY <2>1
    <3>2. QED
      BY <3>1, FileHas DEF Disks
  <2>2. CASE leapDisk \in {[file |-> f, upTo |-> Len(f.lines) + 1] : f \in LeapFiles}
    BY <2>2, WholeIs DEF Whole
  <2>3. QED
    BY <2>1, <2>2 DEF LeapInit
<1>2. QED
  BY <1>1 DEF LeapInit, LeapInv

LEMMA LeapInvStep ==
  LeapInv /\ [LeapNext]_leapVars => LeapInv'
<1> SUFFICES ASSUME LeapInv, [LeapNext]_leapVars PROVE LeapInv'
  OBVIOUS
<1> USE DEF LeapInv
<1>1. CASE NextDay
  BY <1>1 DEF NextDay
<1>2. CASE Publish
  BY <1>2 DEF Publish
<1>3. CASE LeapFileReload
  BY <1>3 DEF LeapFileReload
<1>4. ASSUME NEW force \in BOOLEAN, Fetch(force) PROVE LeapInv'
  <2>1. leapDisk' = [file |-> published, upTo |-> 0] /\ fetching' = TRUE /\ UNCHANGED <<day, published, table>>
    BY <1>4 DEF Fetch
  <2>2. leapDisk' \in Disks
    BY <2>1, FileHas DEF Disks
  <2>3. QED
    BY <2>1, <2>2
<1>5. CASE Write
  <2> DEFINE ls == leapDisk.file.lines
  <2>1. PICK n \in leapDisk.upTo + 1 .. Len(ls) + 1 :
          leapDisk' = [leapDisk EXCEPT !.upTo = n] /\ fetching' = (n # Len(ls) + 1)
    BY <1>5 DEF Write
  <2>2. /\ leapDisk = [file |-> leapDisk.file, upTo |-> leapDisk.upTo] /\ leapDisk.file \in LeapFiles
        /\ leapDisk.upTo \in Nat /\ Len(ls) \in Nat
    BY FileHas DEF Disks
  <2>3. n \in Nat /\ n <= Len(ls) + 1
    BY <2>1, <2>2
  <2>4. leapDisk' = [file |-> leapDisk.file, upTo |-> n]
    BY <2>1, <2>2
  <2>5. leapDisk' \in Disks
    BY <2>2, <2>3, <2>4 DEF Disks
  <2>6. QED
    BY <1>5, <2>1, <2>5 DEF Write
<1>6. CASE WriteFails
  BY <1>6 DEF WriteFails
<1>7. CASE UNCHANGED leapVars
  BY <1>7 DEF leapVars
<1>8. QED
  BY <1>1, <1>2, <1>3, <1>4, <1>5, <1>6, <1>7 DEF LeapNext

(* Whatever of a file the daemon finds while the tool writes it, its table *)
(* holds every line of one with a hash or none, of another only lines that *)
(* it has; and in time it tells of an added second and smears it, if none  *)
(* before it is removed (ntp_leapsec.rs, load_leapfile, query and          *)
(* smear_offset).                                                          *)
THEOREM LeapTableIsWhole == LeapSpec => []LeapWhole
<1>1. ASSUME LeapInv PROVE LeapWhole
  <2>1. ASSUME table.entries # <<>>
        PROVE  \E f \in LeapFiles : IF f.hashed THEN table.entries = WholeEntries(f)
                                    ELSE ToSet(table.entries) \subseteq ToSet(WholeEntries(f))
    <3>1. table # NoEntries
      BY <2>1 DEF NoEntries
    <3>2. PICK c \in Disks : table = Load(c)
      BY <1>1, <3>1 DEF LeapInv
    <3>3. c.file \in LeapFiles
      BY DEF Disks
    <3>4. IF c.file.hashed THEN table.entries = WholeEntries(c.file)
          ELSE ToSet(table.entries) \subseteq ToSet(WholeEntries(c.file))
      BY <2>1, <3>2, AllOrNone
    <3>5. QED
      BY <3>3, <3>4
  <2>2. QED
    BY <1>1, <2>1, ToldInTime DEF LeapWhole
<1>2. LeapInv => LeapWhole
  BY <1>1
<1>3. QED
  BY LeapInvInit, LeapInvStep, <1>2, PTL DEF LeapSpec

------------------------------------------------------------------------------
(* A statistics file and its backups                                       *)

\* The names are the current one and numbers; the handle is on the file of
\* one of the two names a writer can have left it at.
Named(s) ==
  /\ s = [files |-> s.files, handle |-> s.handle]
  /\ \A n \in DOMAIN s.files : n \in Nat \cup {Plain} /\ s.files[n] \in Seq(Nat)
  /\ s.handle \in {Closed, Plain, 1}
  /\ s.handle = Plain => Plain \in DOMAIN s.files
  /\ s.handle = 1 => Plain \notin DOMAIN s.files

Holds(f, l) == \E i \in DOMAIN f : f[i] = l

\* Line l, written after r of t rotations, is near enough to the front.
Near(s, t, r, l) ==
  \/ t - r >= MaxBackup
  \/ \E n \in DOMAIN s.files : n <= t - r + 1 /\ Holds(s.files[n], l)

Lines(s, t, w) ==
  /\ t \in Nat /\ w \in Seq(Nat)
  /\ \A l \in DOMAIN w : w[l] <= t /\ Near(s, t, w[l], l)

Sound(s, t, w) == Named(s) /\ Lines(s, t, w)

Registry == [files |-> files, handle |-> handle]

StatsInv == Sound(Registry, turns, written)

LEMMA NearAt ==
  ASSUME NEW s, NEW t \in Nat, NEW r \in Nat, NEW l, NEW n \in DOMAIN s.files,
         n <= t - r + 1, Holds(s.files[n], l)
  PROVE  Near(s, t, r, l)
BY DEF Near

LEMMA NearOld ==
  ASSUME NEW s, NEW t \in Nat, NEW r \in Nat, NEW l, t - r >= MaxBackup
  PROVE  Near(s, t, r, l)
BY DEF Near

------------------------------------------------------------------------------
(* The files, one operation at a time.                                     *)

\* A file that is moved on is found under the next number, another under its
\* own unless the last one moved is put in its place.
LEMMA ShiftedFiles ==
  ASSUME NEW s, Named(s), NEW first \in Nat, NEW last \in Int, first <= last + 1,
         NEW n \in DOMAIN s.files, NEW r, r = Shifted(s, first, last)
  PROVE  /\ n \in first .. last => n + 1 \in DOMAIN r.files /\ r.files[n + 1] = s.files[n]
         /\ n \notin first .. last /\ n # last + 1 => n \in DOMAIN r.files /\ r.files[n] = s.files[n]
<1> DEFINE moved == DOMAIN s.files \cap (first .. last)
           names == (DOMAIN s.files \ moved) \cup {k + 1 : k \in moved}
           f == [m \in names |-> IF m - 1 \in moved THEN s.files[m - 1] ELSE s.files[m]]
<1>1. r.files = f
  BY DEF Shifted
<1>2. n \in Int
  BY DEF Named, Plain
<1>3. CASE n \in first .. last
  <2>1. n \in moved /\ n + 1 \in names /\ (n + 1) - 1 = n
    BY <1>2, <1>3
  <2>2. f[n + 1] = s.files[n]
    BY <2>1
  <2>3. QED
    BY <1>1, <1>3, <2>1, <2>2
<1>4. CASE n \notin first .. last /\ n # last + 1
  <2>1. n \in names /\ n - 1 \notin first .. last
    <3>1. n \notin moved
      BY <1>4
    <3>2. n - 1 \in first .. last => n \in first .. last \/ n = last + 1
      BY <1>2
    <3>3. QED
      BY <1>4, <3>1, <3>2
  <2>2. f[n] = s.files[n]
    BY <2>1
  <2>3. QED
    BY <1>1, <1>4, <2>1, <2>2
<1>5. CASE n \notin first .. last /\ n = last + 1
  BY <1>5
<1>6. QED
  BY <1>3, <1>4, <1>5

LikeNames(r, s) ==
  /\ r = [files |-> r.files, handle |-> s.handle]
  /\ \A n \in DOMAIN r.files : n \in Nat \cup {Plain} /\ r.files[n] \in Seq(Nat)
  /\ Plain \in DOMAIN r.files <=> Plain \in DOMAIN s.files
  /\ Plain \in DOMAIN s.files => r.files[Plain] = s.files[Plain]

\* Numbers stay numbers, and the current file is not touched.
LEMMA ShiftedNames ==
  ASSUME NEW s, Named(s), s.handle # 1, NEW first \in Nat, NEW last \in Int,
         NEW r, r = Shifted(s, first, last)
  PROVE  LikeNames(r, s)
<1> DEFINE moved == DOMAIN s.files \cap (first .. last)
           names == (DOMAIN s.files \ moved) \cup {k + 1 : k \in moved}
           f == [m \in names |-> IF m - 1 \in moved THEN s.files[m - 1] ELSE s.files[m]]
<1>1. s.handle \notin moved /\ (s.handle = last + 1 => last \notin moved)
  BY DEF Named, Plain, Closed
<1>2. r = [files |-> f, handle |-> s.handle]
  BY <1>1 DEF Shifted
<1>3. r.files = f /\ DOMAIN f = names
  BY <1>2
<1>4. \A n \in names : n \in Nat \cup {Plain} /\ f[n] \in Seq(Nat)
  <2> SUFFICES ASSUME NEW n \in names PROVE n \in Nat \cup {Plain} /\ f[n] \in Seq(Nat)
    OBVIOUS
  <2>1. \A k \in moved : k \in Nat /\ k \in DOMAIN s.files
    OBVIOUS
  <2>2. n \in Nat \cup {Plain}
    BY <2>1 DEF Named
  <2>3. CASE n - 1 \in moved
    BY <2>1, <2>3 DEF Named
  <2>4. CASE n - 1 \notin moved
    <3>1. n \in DOMAIN s.files
      <4>1. \A k \in moved : n = k + 1 => n - 1 = k
        BY <2>1
      <4>2. QED
        BY <2>4, <4>1
    <3>2. QED
      BY <2>4, <3>1 DEF Named
  <2>5. QED
    BY <2>2, <2>3, <2>4
<1>5. Plain \notin moved /\ Plain - 1 \notin moved /\ \A k \in moved : k + 1 # Plain
  BY DEF Plain
<1>6. /\ Plain \in names <=> Plain \in DOMAIN s.files
      /\ Plain \in DOMAIN s.files => f[Plain] = s.files[Plain]
  BY <1>5
<1>7. QED
  <2> HIDE DEF f, names
  <2>1. QED
    BY <1>2, <1>3, <1>4, <1>6 DEF LikeNames

------------------------------------------------------------------------------
(* Rotation by the calendar.                                               *)

LEMMA CalendarSound ==
  ASSUME NEW s, NEW t, NEW w, Sound(s, t, w), Plain \in DOMAIN s.files
  PROVE  Sound(ByCalendar(s), t + 1, w)
<1> USE StatsAssumption
<1> DEFINE c == [s EXCEPT !.handle = Closed]
           r == Shifted(c, 0, MaxBackup - 1)
           g == [n \in (DOMAIN r.files \ {Plain}) \cup {0} |->
                   IF n = 0 THEN r.files[Plain] ELSE r.files[n]]
           h == [n \in DOMAIN g \cup {Plain} |-> IF n \in DOMAIN g THEN g[n] ELSE <<>>]
<1>1. c = [files |-> s.files, handle |-> Closed] /\ c.files = s.files /\ c.handle = Closed
  BY DEF Sound, Named
<1>2. Named(c) /\ c.handle # 1 /\ MaxBackup - 1 \in Int /\ 0 \in Nat /\ 0 <= MaxBackup - 1 + 1
  BY <1>1 DEF Sound, Named, Closed, Plain
<1> HIDE DEF c, g, h
<1>r. r = Shifted(c, 0, MaxBackup - 1)
  OBVIOUS
<1> HIDE DEF r
<1>3. /\ r = [files |-> r.files, handle |-> Closed]
      /\ \A n \in DOMAIN r.files : n \in Nat \cup {Plain} /\ r.files[n] \in Seq(Nat)
      /\ Plain \in DOMAIN r.files /\ r.files[Plain] = s.files[Plain]
  <2>1. LikeNames(r, c)
    BY <1>2, <1>r, ShiftedNames
  <2>2. QED
    BY <1>1, <2>1 DEF LikeNames
<1>4. ByCalendar(s) = [files |-> h, handle |-> Plain]
  <2>1. ByCalendar(s) = Open(Rename(r, Plain, 0))
    BY DEF ByCalendar, c, r
  <2>2. Rename(r, Plain, 0).files = g
    BY <1>3 DEF Rename, g
  <2>3. QED
    BY <2>1, <2>2 DEF Open, h
<1>5. /\ DOMAIN h = (DOMAIN r.files \ {Plain}) \cup {0, Plain}
      /\ h[0] = r.files[Plain] /\ h[Plain] = <<>>
      /\ \A n \in DOMAIN r.files : n # Plain /\ n # 0 => h[n] = r.files[n]
  BY DEF g, h, Plain
<1>y. ByCalendar(s).files = h /\ ByCalendar(s) = [files |-> h, handle |-> Plain]
  BY <1>4
<1>6. Named(ByCalendar(s))
  <2>1. \A n \in DOMAIN h : n \in Nat \cup {Plain} /\ h[n] \in Seq(Nat)
    <3> SUFFICES ASSUME NEW n \in DOMAIN h PROVE n \in Nat \cup {Plain} /\ h[n] \in Seq(Nat)
      OBVIOUS
    <3>1. CASE n = Plain
      BY <1>5, <3>1, EmptySeq
    <3>2. CASE n = 0
      BY <1>3, <1>5, <3>2
    <3>3. CASE n # Plain /\ n # 0
      BY <1>3, <1>5, <3>3
    <3>4. QED
      BY <3>1, <3>2, <3>3
  <2>2. QED
    BY <1>5, <1>y, <2>1 DEF Named, Plain
<1> DEFINE x == ByCalendar(s)
           u == t + 1
<1>u. u \in Nat /\ u = t + 1
  BY DEF Sound, Lines
<1> HIDE DEF u
<1> HIDE DEF x
<1>7. ASSUME NEW l \in DOMAIN w PROVE Near(x, u, w[l], l)
  <2>1. t \in Nat /\ w[l] \in Nat /\ w[l] <= t /\ Near(s, t, w[l], l) /\ u \in Nat /\ u = t + 1
    BY <1>u, ElementOfSeq DEF Sound, Lines
  <2>2. x.files = h
    BY <1>y DEF x
  <2>3. CASE t - w[l] >= MaxBackup
    <3>1. u - w[l] >= MaxBackup
      BY <2>1, <2>3
    <3>2. QED
      BY <2>1, <3>1, NearOld
  <2>4. CASE ~(t - w[l] >= MaxBackup)
    <3>1. PICK n \in DOMAIN s.files : n <= t - w[l] + 1 /\ Holds(s.files[n], l)
      BY <2>1, <2>4 DEF Near
    <3>2. n \in Nat \cup {Plain}
      BY DEF Sound, Named
    <3>3. CASE n = Plain
      <4>1. 0 \in DOMAIN h /\ h[0] = s.files[n] /\ 0 <= u - w[l] + 1
        BY <1>3, <1>5, <2>1, <3>3
      <4>2. QED
        BY <2>2, <3>1, <4>1, <2>1, NearAt
    <3>4. CASE n \in 0 .. MaxBackup - 1
      <4>1. n + 1 \in DOMAIN r.files /\ r.files[n + 1] = s.files[n]
        BY <1>1, <1>2, <1>r, <3>4, ShiftedFiles
      <4>2. n + 1 \in Nat /\ n + 1 # Plain /\ n + 1 # 0
        BY <3>4 DEF Plain
      <4>3. n + 1 \in DOMAIN h /\ h[n + 1] = s.files[n]
        BY <1>5, <4>1, <4>2
      <4>4. n + 1 <= u - w[l] + 1
        BY <2>1, <3>1, <3>4
      <4>5. QED
        BY <2>2, <3>1, <4>3, <4>4, <2>1, NearAt
    <3>5. CASE n \in Nat /\ n > MaxBackup
      <4>1. n \in DOMAIN r.files /\ r.files[n] = s.files[n]
        <5>1. n \notin 0 .. MaxBackup - 1 /\ n # MaxBackup - 1 + 1
          BY <3>5
        <5>2. QED
          BY <1>1, <1>2, <1>r, <5>1, ShiftedFiles
      <4>2. n # Plain /\ n # 0
        BY <3>5 DEF Plain
      <4>3. n \in DOMAIN h /\ h[n] = s.files[n]
        BY <1>5, <4>1, <4>2
      <4>4. n <= u - w[l] + 1
        BY <2>1, <3>1, <3>5
      <4>5. QED
        BY <2>2, <3>1, <4>3, <4>4, <2>1, NearAt
    <3>6. CASE n = MaxBackup
      <4>1. u - w[l] >= MaxBackup
        BY <2>1, <3>1, <3>6
      <4>2. QED
        BY <2>1, <4>1, NearOld
    <3>7. QED
      BY <3>2, <3>3, <3>4, <3>5, <3>6
  <2>5. QED
    BY <2>3, <2>4
<1>8. Lines(ByCalendar(s), t + 1, w)
  <2>1. t \in Nat /\ w \in Seq(Nat) /\ \A l \in DOMAIN w : w[l] \in Nat /\ w[l] <= t
    BY ElementOfSeq DEF Sound, Lines
  <2>2. QED
    BY <1>7, <1>u, <2>1 DEF Lines, x
<1>9. QED
  BY <1>6, <1>8 DEF Sound

------------------------------------------------------------------------------
(* Writing a line.                                                         *)

LEMMA PutSound ==
  ASSUME NEW s, NEW t, NEW w, Sound(s, t, w)
  PROVE  Sound(Put(s, Len(w) + 1), t, Append(w, t))
<1> DEFINE l == Len(w) + 1
           name == IF s.handle = Closed THEN Plain ELSE s.handle
           f == [n \in DOMAIN s.files \cup {name} |->
                   IF n # name THEN s.files[n]
                   ELSE IF n \in DOMAIN s.files THEN Append(s.files[n], l) ELSE <<l>>]
<1>1. t \in Nat /\ w \in Seq(Nat) /\ l \in Nat /\ name \in {Plain, 1}
  BY LenProperties DEF Sound, Lines, Named
<1>2. Put(s, l) = [files |-> f, handle |-> s.handle]
  <2>1. name # Unlinked
    BY <1>1 DEF Plain, Unlinked
  <2>2. s = [files |-> s.files, handle |-> s.handle]
    BY DEF Sound, Named
  <2>3. Put(s, l) = [s EXCEPT !.files = f]
    BY <2>1 DEF Put
  <2> HIDE DEF f
  <2>4. QED
    BY <2>2, <2>3
<1>3. DOMAIN f = DOMAIN s.files \cup {name}
  OBVIOUS
<1>4. \A n \in DOMAIN s.files : \A k : Holds(s.files[n], k) => Holds(f[n], k)
  <2> SUFFICES ASSUME NEW n \in DOMAIN s.files, NEW k, Holds(s.files[n], k)
               PROVE  Holds(f[n], k)
    OBVIOUS
  <2>1. CASE n # name
    BY <2>1
  <2>2. CASE n = name
    <3>1. s.files[n] \in Seq(Nat)
      BY DEF Sound, Named
    <3>2. f[n] = Append(s.files[n], l)
      BY <2>2
    <3>3. PICK i \in DOMAIN s.files[n] : s.files[n][i] = k
      BY DEF Holds
    <3>4. i \in DOMAIN f[n] /\ f[n][i] = k
      <4> HIDE DEF f, name, l
      <4>1. QED
        BY <1>1, <3>1, <3>2, <3>3, AppendProperties, LenProperties
    <3>5. QED
      BY <3>4 DEF Holds
  <2>3. QED
    BY <2>1, <2>2
<1>5. f[name] \in Seq(Nat) /\ Holds(f[name], l)
  <2>1. CASE name \in DOMAIN s.files
    <3>1. s.files[name] \in Seq(Nat) /\ f[name] = Append(s.files[name], l)
      BY <2>1 DEF Sound, Named
    <3> HIDE DEF f, name, l
    <3>2. /\ f[name] \in Seq(Nat) /\ Len(s.files[name]) + 1 \in DOMAIN f[name]
          /\ f[name][Len(s.files[name]) + 1] = l
      BY <1>1, <3>1, AppendProperties, LenProperties
    <3>3. QED
      BY <3>2 DEF Holds
  <2>2. CASE name \notin DOMAIN s.files
    <3>1. f[name] = <<l>>
      BY <2>2
    <3> HIDE DEF f, name, l
    <3>2. QED
      BY <1>1, <3>1 DEF Holds
  <2>3. QED
    BY <2>1, <2>2
<1>6. \A n \in DOMAIN f : n \in Nat \cup {Plain} /\ f[n] \in Seq(Nat)
  <2> SUFFICES ASSUME NEW n \in DOMAIN f PROVE n \in Nat \cup {Plain} /\ f[n] \in Seq(Nat)
    OBVIOUS
  <2>1. CASE n = name
    BY <1>1, <1>5, <2>1
  <2>2. CASE n # name
    <3>1. n \in DOMAIN s.files /\ f[n] = s.files[n]
      BY <2>2
    <3>2. QED
      BY <3>1 DEF Sound, Named
  <2>3. QED
    BY <2>1, <2>2
<1>7. /\ s.handle \in {Closed, Plain, 1}
      /\ s.handle = Plain => Plain \in DOMAIN f
      /\ s.handle = 1 => Plain \notin DOMAIN f
  BY <1>3 DEF Sound, Named, Plain, Closed
<1> HIDE DEF f, name
<1>8. Named(Put(s, l))
  BY <1>2, <1>6, <1>7 DEF Named
<1>9. /\ Append(w, t) \in Seq(Nat) /\ DOMAIN Append(w, t) = DOMAIN w \cup {l}
      /\ \A k \in DOMAIN w : Append(w, t)[k] = w[k]
      /\ Append(w, t)[l] = t /\ l \notin DOMAIN w
  BY <1>1, AppendProperties, LenProperties
<1> HIDE DEF l
<1>10. ASSUME NEW k \in DOMAIN Append(w, t)
       PROVE  Append(w, t)[k] <= t /\ Near(Put(s, l), t, Append(w, t)[k], k)
  <2>1. Put(s, l).files = f
    BY <1>2
  <2>2. CASE k = l
    <3>1. name \in DOMAIN f /\ name <= t - t + 1
      BY <1>1, <1>3 DEF Plain
    <3>2. QED
      BY <1>1, <1>5, <1>9, <2>1, <2>2, <3>1 DEF Near
  <2>3. CASE k \in DOMAIN w
    <3>1. w[k] <= t /\ Near(s, t, w[k], k)
      BY <2>3 DEF Sound, Lines
    <3>2. Near(Put(s, l), t, w[k], k)
      <4>1. CASE t - w[k] >= MaxBackup
        BY <4>1 DEF Near
      <4>2. CASE ~(t - w[k] >= MaxBackup)
        <5>1. PICK n \in DOMAIN s.files : n <= t - w[k] + 1 /\ Holds(s.files[n], k)
          BY <3>1, <4>2 DEF Near
        <5>2. n \in DOMAIN f /\ Holds(f[n], k)
          BY <1>3, <1>4, <5>1
        <5>3. QED
          BY <2>1, <5>1, <5>2 DEF Near
      <4>3. QED
        BY <4>1, <4>2
    <3>3. QED
      BY <1>9, <2>3, <3>1, <3>2
  <2>4. QED
    BY <1>9, <2>2, <2>3
<1>11. QED
  BY <1>1, <1>8, <1>9, <1>10 DEF Sound, Lines, l

------------------------------------------------------------------------------
(* Rotation by size.                                                       *)

LEMMA SizeSound ==
  ASSUME NEW s, NEW t, NEW w, Sound(s, t, w), Large(s)
  PROVE  Sound(BySize(s), t + 1, w)
<1> USE StatsAssumption
<1> DEFINE r == Shifted(s, 1, SizeBackup)
           g == [n \in (DOMAIN r.files \ {Plain}) \cup {1} |->
                   IF n = 1 THEN r.files[Plain] ELSE r.files[n]]
           k == IF s.handle = Plain THEN 1 ELSE s.handle
<1>1. Plain \in DOMAIN s.files /\ s.handle \in {Closed, Plain} /\ Named(s)
  BY DEF Large, Sound, Named
<1>r. r = Shifted(s, 1, SizeBackup) /\ 1 <= SizeBackup + 1 /\ 1 \in Nat /\ SizeBackup \in Int
  OBVIOUS
<1> HIDE DEF r
<1>2. /\ r = [files |-> r.files, handle |-> s.handle]
      /\ \A n \in DOMAIN r.files : n \in Nat \cup {Plain} /\ r.files[n] \in Seq(Nat)
      /\ Plain \in DOMAIN r.files /\ r.files[Plain] = s.files[Plain]
  <2>1. s.handle # 1 /\ SizeBackup \in Int /\ 1 \in Nat
    BY <1>1 DEF Closed, Plain
  <2>2. LikeNames(r, s)
    BY <1>1, <1>r, <2>1, ShiftedNames
  <2>3. QED
    BY <1>1, <2>2 DEF LikeNames
<1>3. BySize(s) = [files |-> g, handle |-> k]
  <2>1. BySize(s) = Rename(r, Plain, 1)
    BY DEF BySize, r
  <2>2. r.handle = s.handle /\ s.handle # 1
    BY <1>1, <1>2 DEF Plain, Closed
  <2>3. QED
    BY <1>2, <2>1, <2>2 DEF Rename
<1>4. /\ DOMAIN g = (DOMAIN r.files \ {Plain}) \cup {1}
      /\ g[1] = r.files[Plain]
      /\ \A n \in DOMAIN r.files : n # Plain /\ n # 1 => g[n] = r.files[n]
  OBVIOUS
<1>k. k \in {Closed, 1}
  BY <1>1
<1> DEFINE x == BySize(s)
           u == t + 1
<1>u. u \in Nat /\ u = t + 1
  BY DEF Sound, Lines
<1> HIDE DEF u
<1>x. x = [files |-> g, handle |-> k] /\ x.files = g
  BY <1>3
<1> HIDE DEF g, k, x
<1>5. Named(BySize(s))
  <2>1. \A n \in DOMAIN g : n \in Nat \cup {Plain} /\ g[n] \in Seq(Nat)
    BY <1>2, <1>4
  <2>2. Plain \notin DOMAIN g
    BY <1>4 DEF Plain
  <2>3. QED
    BY <1>3, <1>k, <2>1, <2>2 DEF Named, Plain, Closed
<1>6. ASSUME NEW l \in DOMAIN w PROVE Near(x, u, w[l], l)
  <2>1. t \in Nat /\ w[l] \in Nat /\ w[l] <= t /\ Near(s, t, w[l], l) /\ u \in Nat /\ u = t + 1
    BY <1>u, ElementOfSeq DEF Sound, Lines
  <2>2. x.files = g
    BY <1>x
  <2>3. CASE t - w[l] >= MaxBackup
    <3>1. u - w[l] >= MaxBackup
      BY <2>1, <2>3
    <3>2. QED
      BY <2>1, <3>1, NearOld
  <2>4. CASE ~(t - w[l] >= MaxBackup)
    <3>1. PICK n \in DOMAIN s.files : n <= t - w[l] + 1 /\ Holds(s.files[n], l)
      BY <2>1, <2>4 DEF Near
    <3>2. n \in Nat \cup {Plain}
      BY <1>1 DEF Named
    <3>3. CASE n = Plain
      <4>1. 1 \in DOMAIN g /\ g[1] = s.files[n] /\ 1 <= u - w[l] + 1
        BY <1>2, <1>4, <2>1, <3>3
      <4>2. QED
        BY <2>2, <3>1, <4>1, <2>1, NearAt
    <3>4. CASE n \in 1 .. SizeBackup
      <4>1. n + 1 \in DOMAIN r.files /\ r.files[n + 1] = s.files[n]
        BY <1>1, <1>r, <3>4, ShiftedFiles
      <4>2. n + 1 # Plain /\ n + 1 # 1
        BY <3>4 DEF Plain
      <4>3. n + 1 \in DOMAIN g /\ g[n + 1] = s.files[n]
        BY <1>4, <4>1, <4>2
      <4>4. n + 1 <= u - w[l] + 1
        BY <2>1, <3>1, <3>4
      <4>5. QED
        BY <2>2, <3>1, <4>3, <4>4, <2>1, NearAt
    <3>5. CASE n \in Nat /\ n \notin 1 .. SizeBackup /\ n # SizeBackup + 1
      <4>1. n \in DOMAIN r.files /\ r.files[n] = s.files[n]
        BY <1>1, <1>r, <3>5, ShiftedFiles
      <4>2. n # Plain /\ n # 1
        BY <3>5 DEF Plain
      <4>3. n \in DOMAIN g /\ g[n] = s.files[n]
        BY <1>4, <4>1, <4>2
      <4>4. n <= u - w[l] + 1
        BY <2>1, <3>1, <3>5
      <4>5. QED
        BY <2>2, <3>1, <4>3, <4>4, <2>1, NearAt
    <3>6. CASE n = SizeBackup + 1
      <4>1. u - w[l] >= MaxBackup
        BY <2>1, <3>1, <3>6
      <4>2. QED
        BY <2>1, <4>1, NearOld
    <3>7. QED
      BY <3>2, <3>3, <3>4, <3>5, <3>6
  <2>5. QED
    BY <2>3, <2>4
<1>7. Lines(BySize(s), t + 1, w)
  <2>1. t \in Nat /\ w \in Seq(Nat) /\ \A l \in DOMAIN w : w[l] \in Nat /\ w[l] <= t
    BY ElementOfSeq DEF Sound, Lines
  <2>2. QED
    BY <1>6, <1>u, <2>1 DEF Lines, x
<1>8. QED
  BY <1>5, <1>7 DEF Sound

------------------------------------------------------------------------------
(* The actions.                                                            *)

LEMMA CurrentRecord == Registry.files = files /\ Registry.handle = handle
  BY DEF Registry

LEMMA InitSound == StatsInit => StatsInv
<1> SUFFICES ASSUME StatsInit PROVE StatsInv
  OBVIOUS
<1>1. DOMAIN files = {} /\ DOMAIN written = {} /\ written \in Seq(Nat)
  BY EmptySeq DEF StatsInit
<1>2. QED
  BY <1>1, CurrentRecord DEF StatsInit, StatsInv, Sound, Named, Lines, Registry, Closed, Plain

LEMMA WriteStep ==
  ASSUME StatsInv, WriteStats
  PROVE  StatsInv'
<1> DEFINE s0 == Registry
           s1 == IF RotateDue THEN ByCalendar(s0) ELSE s0
           s2 == Put(s1, Len(written) + 1)
           s3 == IF Large(s2) THEN BySize(s2) ELSE s2
           before == turns + (IF RotateDue THEN 1 ELSE 0)
<1>1. /\ files' = s3.files /\ handle' = s3.handle
      /\ turns' = before + (IF Large(s2) THEN 1 ELSE 0)
      /\ written' = Append(written, before)
  BY DEF WriteStats, Registry
<1>2. Sound(s0, turns, written) /\ turns \in Nat
  BY DEF StatsInv, Sound, Lines
<1>3. Sound(s1, before, written) /\ before \in Nat
  <2>1. CASE RotateDue
    <3>1. Plain \in DOMAIN s0.files
      BY <2>1, CurrentRecord DEF RotateDue
    <3> HIDE DEF s0
    <3>2. QED
      BY <1>2, <2>1, <3>1, CalendarSound
  <2>2. CASE ~RotateDue
    BY <1>2, <2>2
  <2>3. QED
    BY <2>1, <2>2
<1> HIDE DEF s1, before
<1>4. Sound(s2, before, written')
  BY <1>1, <1>3, PutSound
<1> HIDE DEF s2
<1>5. Sound(s3, turns', written')
  <2>1. CASE Large(s2)
    BY <1>1, <1>3, <1>4, <2>1, SizeSound
  <2>2. CASE ~Large(s2)
    BY <1>1, <1>3, <1>4, <2>2
  <2>3. QED
    BY <2>1, <2>2
<1> HIDE DEF s3
<1>6. s3 = Registry'
  BY <1>1, <1>5 DEF Sound, Named, Registry
<1>7. QED
  BY <1>5, <1>6 DEF StatsInv

LEMMA OtherSteps ==
  ASSUME StatsInv, ClockMoves \/ NewRegistry \/ UNCHANGED statsVars
  PROVE  StatsInv'
<1>1. CASE ClockMoves \/ UNCHANGED statsVars
  <2>1. Registry' = Registry /\ turns' = turns /\ written' = written
    BY <1>1 DEF ClockMoves, statsVars, Registry
  <2>2. QED
    BY <2>1 DEF StatsInv
<1>2. CASE NewRegistry
  <2>1. /\ Registry' = [files |-> files, handle |-> Closed]
        /\ Registry'.files = Registry.files /\ Registry'.handle = Closed
        /\ turns' = turns /\ written' = written
    BY <1>2 DEF NewRegistry, Registry
  <2>2. Named(Registry')
    BY <2>1, CurrentRecord DEF StatsInv, Sound, Named, Closed, Plain
  <2>3. Lines(Registry', turns', written')
    BY <2>1 DEF StatsInv, Sound, Lines, Near
  <2>4. QED
    BY <2>2, <2>3 DEF StatsInv, Sound
<1>3. QED
  BY <1>1, <1>2

LEMMA SoundKept == StatsInv => KeptLongEnough
<1> SUFFICES ASSUME StatsInv, NEW l \in DOMAIN written
             PROVE  l \in Kept \/ turns - written[l] >= MaxBackup
  BY DEF KeptLongEnough
<1>1. Near(Registry, turns, written[l], l)
  BY DEF StatsInv, Sound, Lines
<1>2. ASSUME NEW n \in DOMAIN files, NEW i \in DOMAIN files[n], files[n][i] = l PROVE l \in Kept
  BY <1>2 DEF Kept
<1>3. QED
  BY <1>1, <1>2, CurrentRecord DEF Near, Holds

(* Whatever the calendar and the sizes: a line is lost only after as many  *)
(* rotations as there are backups, although the two rotations number them  *)
(* differently and the handle stays on the file that a rotation by size    *)
(* has moved (rotate_if_needed, rotate_file, write_stat_file_ex).          *)
THEOREM LinesKept == StatsSpec => []KeptLongEnough
<1>1. StatsInv /\ [StatsNext]_statsVars => StatsInv'
  BY WriteStep, OtherSteps DEF StatsNext
<1>2. QED
  BY InitSound, <1>1, SoundKept, PTL DEF StatsSpec

==============================================================================

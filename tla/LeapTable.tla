----------------------------- MODULE LeapTable ------------------------------
(***************************************************************************)
(* The table of leap seconds (ntp_leapsec.rs), the timer that reads it     *)
(* again and the tool that fetches the file.  The tool truncates the file  *)
(* and writes it piece by piece while the daemon may read it.              *)
(*                                                                         *)
(* A file is a header, with the time it expires and perhaps a hash of what *)
(* follows, and lines: a time, an offset and whether both are numbers.     *)
(* Times count in days; the NTP count is ahead of the Unix one by Gap.     *)
(***************************************************************************)
EXTENDS Integers, SequencesExt, FiniteSets

CONSTANTS LeapFiles,    \* what may be published: [expires, hashed, lines]
          Gap,          \* NTP days at the Unix epoch
          LastDay,      \* bound on the clock, in Unix days
          Smear         \* days over which a leap second is spread, 0 for none

ASSUME LeapAssumption ==
  /\ Gap \in Nat /\ LastDay \in Nat /\ Smear \in Nat
  /\ LeapFiles \subseteq [expires : Int, hashed : BOOLEAN,
                          lines : Seq([time : Int, offset : Int, good : BOOLEAN])]

VARIABLES day,          \* Unix days
          published,    \* the file on the server
          leapDisk,     \* the file on the disk and how much of it: 0 nothing, 1 the header
          fetching,     \* whether the tool is writing
          table         \* the daemon's

leapVars == <<day, published, leapDisk, fetching, table>>

Now == day + Gap
NoExpiry == -1
NoEntries == [entries |-> <<>>, expires |-> NoExpiry, tai |-> 0]

Sum(off) == FoldLeft(LAMBDA a, b : a + b, 0, off)

\* Everything on the disk: header and as many lines as were written.
LinesOf(c) == IF c.upTo <= 1 THEN <<>> ELSE SubSeq(c.file.lines, 1, c.upTo - 1)
ExpiryOf(c) == IF c.upTo >= 1 THEN c.file.expires ELSE NoExpiry
HashHolds(c) == c.upTo >= 1 /\ c.file.hashed => LinesOf(c) = c.file.lines

\* Without an expiry of the file an entry expires a year after its time.
EntryOf(c, l) == [time |-> l.time, offset |-> l.offset,
                  expires |-> IF ExpiryOf(c) = NoExpiry THEN l.time + 365 ELSE ExpiryOf(c)]

\* A stable sort: where a place goes is how many come before it.
Earlier(s, i, j) == s[i].time < s[j].time \/ (s[i].time = s[j].time /\ i < j)
InOrder(s) ==
  LET rank == [i \in DOMAIN s |-> Cardinality({j \in DOMAIN s : Earlier(s, j, i)}) + 1]
  IN [n \in DOMAIN s |-> s[CHOOSE i \in DOMAIN s : rank[i] = n]]

FirstOf(at) == CHOOSE i \in at : \A j \in at : i <= j

\* Mutant: the hash is not looked at.
LoadUnverified(c) ==
  [entries |-> InOrder([i \in DOMAIN LinesOf(c) |-> EntryOf(c, LinesOf(c)[i])]),
   expires |-> ExpiryOf(c), tai |-> 0]
\* load_leapfile: the table is emptied before anything is verified, and the
\* TAI offset has grown with the lines before a faulty one.
Load(c) ==
  LET ls == LinesOf(c)
      bad == {i \in DOMAIN ls : ~ls[i].good}
      Tai(n) == Sum([i \in 1 .. n |-> ls[i].offset])
  IN  IF ~HashHolds(c) THEN NoEntries
      ELSE IF bad # {} THEN [NoEntries EXCEPT !.tai = Tai(FirstOf(bad) - 1)]
      ELSE [entries |-> InOrder([i \in DOMAIN ls |-> EntryOf(c, ls[i])]),
            expires |-> ExpiryOf(c), tai |-> Tai(Len(ls))]

IsExpired(t) == t.expires # NoExpiry /\ Now >= t.expires

\* query: the first entry whose time comes within a day, or has come.
Pending(t) == {i \in DOMAIN t.entries : t.entries[i].expires > Now /\ Now >= t.entries[i].time - 1}
Query(t) == IF Pending(t) = {} THEN "none"
            ELSE IF t.entries[FirstOf(Pending(t))].offset > 0 THEN "add" ELSE "remove"

\* smear_offset, in parts of 1/Smear of a second.
SmearOffset(t) ==
  LET at == {i \in DOMAIN t.entries : t.entries[i].time <= Now /\ Now < t.entries[i].time + Smear}
      e == t.entries[FirstOf(at)]
  IN  IF Smear = 0 \/ at = {} THEN 0 ELSE e.offset * (Smear - (Now - e.time))

LeapInit == /\ day = 0 /\ published \in LeapFiles
            /\ leapDisk \in [file : LeapFiles, upTo : {0}]
                       \cup {[file |-> f, upTo |-> Len(f.lines) + 1] : f \in LeapFiles}
            /\ fetching = FALSE /\ table = NoEntries

NextDay == /\ day < LastDay /\ day' = day + 1
           /\ UNCHANGED <<published, leapDisk, fetching, table>>

Publish == /\ published' \in LeapFiles /\ UNCHANGED <<day, leapDisk, fetching, table>>

\* The timer: a file that cannot be loaded is not reported.
LeapFileReload == /\ table' = Load(leapDisk)
                  /\ UNCHANGED <<day, published, leapDisk, fetching>>

\* The tool takes the expiry on the disk, an NTP time, for a Unix one.
Current == ExpiryOf(leapDisk) # NoExpiry /\ day < ExpiryOf(leapDisk)

Fetch(force) == /\ ~fetching /\ (force \/ ~Current)
                /\ leapDisk' = [file |-> published, upTo |-> 0] /\ fetching' = TRUE
                /\ UNCHANGED <<day, published, table>>

Write == /\ fetching
         /\ \E n \in leapDisk.upTo + 1 .. Len(leapDisk.file.lines) + 1 :
              /\ leapDisk' = [leapDisk EXCEPT !.upTo = n]
              /\ fetching' = (n # Len(leapDisk.file.lines) + 1)
         /\ UNCHANGED <<day, published, table>>

\* The disk is full, or the tool is stopped.
WriteFails == fetching /\ fetching' = FALSE /\ UNCHANGED <<day, published, leapDisk, table>>

LeapNext == NextDay \/ Publish \/ LeapFileReload \/ Fetch(FALSE) \/ Fetch(TRUE) \/ Write \/ WriteFails

LeapSpec == LeapInit /\ [][LeapNext]_leapVars

WholeEntries(f) == InOrder([i \in DOMAIN f.lines |-> EntryOf([file |-> f, upTo |-> Len(f.lines) + 1], f.lines[i])])

(* Whatever the daemon reads while the tool writes, of a file with a hash  *)
(* it holds every line or none (load_leapfile, validate_hash); and of a    *)
(* table that has not expired an added second, none removed before it, is  *)
(* told the day before, and its smear begins with all of it (query,        *)
(* smear_offset).                                                          *)
LeapWhole ==
  /\ table.entries # <<>> =>
       \E f \in LeapFiles : IF f.hashed THEN table.entries = WholeEntries(f)
                            ELSE ToSet(table.entries) \subseteq ToSet(WholeEntries(f))
  /\ \A i \in DOMAIN table.entries :
       LET e == table.entries[i] IN
       e.expires > Now /\ (\A j \in 1 .. i : table.entries[j].offset > 0) =>
         /\ Now = e.time - 1 => Query(table) = "add"
         /\ Now = e.time /\ Smear > 0 => SmearOffset(table) > 0
=============================================================================

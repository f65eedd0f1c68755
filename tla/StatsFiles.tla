----------------------------- MODULE StatsFiles -----------------------------
(***************************************************************************)
(* One statistics file (ntp_filegen.rs): its entry in the registry, the    *)
(* handle that may be open on it, and the numbered backups it is renamed   *)
(* to, by the calendar before a line is written and by size after it.      *)
(*                                                                         *)
(* A file is the lines in it; lines are numbered as they are written.  A   *)
(* handle stays with its file when that is renamed: `handle' is the name   *)
(* the open file has now.  The current file is name -1, a backup its       *)
(* number.                                                                 *)
(***************************************************************************)
EXTENDS CivilDates, SequencesExt

CONSTANTS Entries,      \* what may be configured: {} or {[gen, enabled, same]}, same: entry and
                        \* daemon name the same file
          Days,         \* the days the clock may show
          SizeLimit,    \* lines a file may have before it is rotated by size
          MaxBackup,    \* FILEGEN_MAX_BACKUP: the last number by the calendar
          SizeBackup,   \* the last number a rotation by size moves on
          MaxLines      \* bound on the lines written

ASSUME StatsAssumption ==
  /\ SizeLimit \in Nat /\ MaxBackup \in Nat /\ SizeBackup \in Nat /\ MaxLines \in Nat
  /\ MaxBackup <= SizeBackup + 1
  /\ Days \subseteq Nat

VARIABLES entry,        \* the first entry of the name
          today,
          files,        \* name -> lines, for the names that exist
          mtime,        \* the day the current file was last written
          handle,       \* the name the open file has, or Closed
          turns,        \* history: rotations so far
          written       \* history: line -> turns when it was written

statsVars == <<entry, today, files, mtime, handle, turns, written>>

Plain == -1
Closed == -2
Unlinked == -3

MonthLength100 == 3044       \* hundredths of a day
YearLength10000 == 3652425   \* ten-thousandths of a day

\* The year and the month by average lengths.
YearOf(t) == 1970 + (t * 10000) \div YearLength10000
MonthKey(t) ==
  LET doy == t - JulianDays(YearOf(t), 1, 1)
      month == IF doy < 0 THEN 0 ELSE (doy * 100) \div MonthLength100
  IN  YearOf(t) * 12 + (IF month > 11 THEN 11 ELSE month)

Period(gen, t) == CASE gen = "day" -> t [] gen = "week" -> t \div 7
                    [] gen = "month" -> MonthKey(t) [] gen = "year" -> YearOf(t)
                    [] OTHER -> 0

\* rename: nothing when there is no such file; what had the name is gone.
Rename(s, a, b) ==
  IF a \notin DOMAIN s.files THEN s
  ELSE [files |-> [n \in (DOMAIN s.files \ {a}) \cup {b} |-> IF n = b THEN s.files[a] ELSE s.files[n]],
        handle |-> CASE s.handle = a -> b [] s.handle = b -> Unlinked [] OTHER -> s.handle]

Shift(s, k) == Rename(s, k, k + 1)

\* Mutant: the backups are moved on from the first to the last.
ShiftedUp(s, first, last) == FoldLeft(Shift, s, [i \in 1 .. last - first + 1 |-> first + i - 1])
\* Each to the next number, the last first, so that it finds its new name
\* free: only what had the number after the last is gone.
Shifted(s, first, last) ==
  LET moved == DOMAIN s.files \cap (first .. last) IN
  [files |-> [n \in (DOMAIN s.files \ moved) \cup {k + 1 : k \in moved} |->
                IF n - 1 \in moved THEN s.files[n - 1] ELSE s.files[n]],
   handle |-> CASE s.handle \in moved -> s.handle + 1
                [] s.handle = last + 1 /\ last \in moved -> Unlinked
                [] OTHER -> s.handle]

\* open: the file is created, and its handle replaces the one of the name.
Open(s) == [files |-> [n \in DOMAIN s.files \cup {Plain} |->
                         IF n \in DOMAIN s.files THEN s.files[n] ELSE <<>>],
            handle |-> Plain]

RotateDue == /\ entry # {} /\ \A e \in entry : e.enabled /\ e.same /\ Period(e.gen, today) # Period(e.gen, mtime)
             /\ Plain \in DOMAIN files

\* rotate_if_needed: close, move on, rename, open.
ByCalendar(s) == Open(Rename(Shifted([s EXCEPT !.handle = Closed], 0, MaxBackup - 1), Plain, 0))

\* write_stat_file_ex: by the handle, or by the name when none is open.
Put(s, l) ==
  LET name == IF s.handle = Closed THEN Plain ELSE s.handle IN
  IF name = Unlinked THEN s
  ELSE [s EXCEPT !.files = [n \in DOMAIN @ \cup {name} |->
                              IF n # name THEN @[n] ELSE IF n \in DOMAIN @ THEN Append(@[n], l) ELSE <<l>>]]

Large(s) == Plain \in DOMAIN s.files /\ Len(s.files[Plain]) > SizeLimit

\* rotate_file: the handle stays open.
BySize(s) == Rename(Shifted(s, 1, SizeBackup), Plain, 1)

StatsInit == /\ entry \in Entries /\ today \in Days
             /\ files = <<>> /\ mtime = today /\ handle = Closed
             /\ turns = 0 /\ written = <<>>

\* write_loopstats, write_peerstats, write_clockstats.
WriteStats ==
  /\ Len(written) < MaxLines
  /\ LET s0 == [files |-> files, handle |-> handle]
         s1 == IF RotateDue THEN ByCalendar(s0) ELSE s0
         s2 == Put(s1, Len(written) + 1)
         s3 == IF Large(s2) THEN BySize(s2) ELSE s2
         before == turns + (IF RotateDue THEN 1 ELSE 0)
     IN  /\ files' = s3.files /\ handle' = s3.handle
         /\ mtime' = IF s1.handle \in {Closed, Plain} THEN today ELSE mtime
         /\ turns' = before + (IF Large(s2) THEN 1 ELSE 0)
         /\ written' = Append(written, before)
  /\ UNCHANGED <<entry, today>>

\* The clock goes on, or is set back.
ClockMoves == today' \in Days /\ UNCHANGED <<entry, files, mtime, handle, turns, written>>

\* A reload, or a restart: the registry is a new one.
NewRegistry == /\ handle' = Closed /\ entry' \in Entries
               /\ UNCHANGED <<today, files, mtime, turns, written>>

StatsNext == WriteStats \/ ClockMoves \/ NewRegistry

StatsSpec == StatsInit /\ [][StatsNext]_statsVars

Kept == UNION {{files[n][i] : i \in DOMAIN files[n]} : n \in DOMAIN files}

(* A line is not lost before the file it is in was moved on as often as    *)
(* there are backups, whichever of the two rotations moved it and wherever *)
(* the open handle had put it (rotate_if_needed, rotate_file,              *)
(* write_stat_file_ex).                                                    *)
KeptLongEnough == \A l \in DOMAIN written : l \in Kept \/ turns - written[l] >= MaxBackup
=============================================================================

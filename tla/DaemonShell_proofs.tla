------------------------- MODULE DaemonShell_proofs -------------------------
(***************************************************************************)
(* Proofs about DaemonShell, for all frequencies, command lines and bounds *)
(* on edits and turns: the type invariant, no SIGHUP is lost, an orderly   *)
(* shutdown cleans up, and a reload takes effect as a whole or not at all. *)
(***************************************************************************)
EXTENDS DaemonShell, TLAPS

------------------------------------------------------------------------------
(* The inductive invariant. *)

\* A process that has not ended has no exit status.
StatusInv == pc # "exited" <=> status = Alive

\* Nobody has seen a version the disk has not had yet, and the version in
\* hand between the reads of a reload is the one looked at, read without an
\* error, with keys no older.
VersionsInv == /\ told <= disk.version /\ looked <= disk.version
               /\ pc \in {"keys", "swap"} => loading.conf = looked /\ loading.clean
               /\ pc = "swap" => loading.keys >= loading.conf

\* A SIGHUP newer than the last look at the files is still flagged, or the
\* reload that will look has begun.
HupInv == pc \notin {"exited", "reading"} /\ ~wants => looked >= told

\* The engine carries the learned frequency from its making on, and the
\* drift file has it before it starts and, outside a jail, after it was saved.
FreqInv == /\ pc = "start" \/ (pc = "clean" /\ ~opts.jail) => drift = learned
           /\ pc \notin {"start", "exited"} => engine.freq = learned

\* Only a process that forks has a parent, only one asked to writes a PID
\* file, and none is there before the fork or in query mode.
PidInv == /\ pc = "fork" \/ parent # "none" => opts.fork
          /\ pidfile => opts.pid
          /\ pc \in {"start", "fork", "poll", "query"} => ~pidfile /\ parent = "none"

\* Query mode never gets as far as the jail.
QueryInv == opts.query => pc \in {"start", "poll", "query", "exited"}

\* What an engine and the files of a reload look like.
Engines == [conf : 0..MaxEdits, keys : 0..MaxEdits, clean : BOOLEAN, extra : BOOLEAN,
            clocks : BOOLEAN, synced : BOOLEAN, freq : Freqs]

Reloads == [conf : 0..MaxEdits, keys : 0..MaxEdits, clean : BOOLEAN]

IInv == /\ TypeOK /\ QueryInv /\ StatusInv /\ VersionsInv /\ HupInv
        /\ FreqInv /\ PidInv /\ ShutdownCleansUp
------------------------------------------------------------------------------
(* One lemma per step; every one needs the whole invariant.                *)

\* A process that runs has no exit code, and a killed one neither.
LEMMA Statuses == Alive \notin {Killed, 0, 1, 2} /\ Killed \notin {0, 1, 2}
BY DEF Alive, Killed

LEMMA InitStep == Init => IInv
<1> SUFFICES ASSUME Init PROVE IInv
  OBVIOUS
<1> USE ShellAssumption DEF Init
<1>1. TypeOK
  <2>1. engine \in Engines
    BY DEF Engines
  <2>2. query \in [left : 0..MaxTurns, answered : BOOLEAN, offset : BOOLEAN]
    OBVIOUS
  <2>3. disk \in [version : 0..MaxEdits, conf : BOOLEAN, keys : BOOLEAN, extra : BOOLEAN]
    <3>1. KeyFileStates \subseteq BOOLEAN
      BY DEF KeyFileStates
    <3>2. PICK c \in BOOLEAN, k \in BOOLEAN, x \in BOOLEAN :
            disk = [version |-> 0, conf |-> c, keys |-> k, extra |-> x]
      BY <3>1
    <3>3. QED
      BY <3>2
  <2>4. loading \in Reloads
    BY DEF Nothing, Reloads
  <2>5. QED
    BY <2>1, <2>2, <2>3, <2>4 DEF TypeOK, Engines, Reloads
<1>2. QED
  BY <1>1, Statuses DEF IInv, QueryInv, StatusInv, VersionsInv, HupInv, FreqInv, PidInv, ShutdownCleansUp

LEMMA StartStep == IInv /\ Start => IInv'
<1> SUFFICES ASSUME IInv, Start PROVE IInv'
  OBVIOUS
<1> USE ShellAssumption DEF Start, Exit, GoTo, outside, signals, startup, IInv
<1>1. TypeOK'
  <2>0. drift \in Freqs /\ disk.version \in 0..MaxEdits
        /\ engine \in Engines
    BY DEF TypeOK, Engines
  <2>1. engine' \in Engines
    <3>1. CASE engine' = engine
      BY <3>1, <2>0
    <3>2. ASSUME NEW clocks \in BOOLEAN,
                 engine' = [conf |-> disk.version, keys |-> disk.version,
                            clean |-> disk.conf /\ disk.keys, extra |-> ~opts.keyfile,
                            clocks |-> clocks, synced |-> FALSE, freq |-> drift]
          PROVE engine' \in Engines
      <4>1. (disk.conf /\ disk.keys) \in BOOLEAN /\ (~opts.keyfile) \in BOOLEAN
        OBVIOUS
      <4>2. QED
        BY <3>2, <4>1, <2>0 DEF Engines
    <3>3. QED
      BY <3>1, <3>2
  <2>2. status' \in {Alive, Killed, 0, 1, 2} /\ pc' \in {"exited", "poll", "fork", "child"}
    BY DEF TypeOK
  <2>3. looked' \in 0..MaxEdits
    BY DEF TypeOK
  <2>4. QED
    BY <2>1, <2>2, <2>3 DEF TypeOK, Engines
<1>2. (QueryInv /\ StatusInv /\ PidInv)'
  BY Statuses DEF TypeOK, CommandLines, QueryInv, StatusInv, PidInv
<1>3. (VersionsInv /\ HupInv)'
  BY Statuses DEF TypeOK, StatusInv, VersionsInv, HupInv
<1>4. (FreqInv /\ ShutdownCleansUp)'
  BY Statuses DEF TypeOK, CommandLines, QueryInv, StatusInv, PidInv, FreqInv, ShutdownCleansUp
<1>5. QED
  BY <1>1, <1>2, <1>3, <1>4

LEMMA ForkStep == IInv /\ Fork => IInv'
BY ShellAssumption, Statuses
   DEF Fork, Exit, GoTo, outside, signals, reload, IInv,
       TypeOK, CommandLines, QueryInv, StatusInv, VersionsInv, HupInv, FreqInv,
       PidInv, ShutdownCleansUp

LEMMA ParentWritesStep == IInv /\ ParentWrites => IInv'
BY ShellAssumption, Statuses
   DEF ParentWrites, outside, signals, reload, IInv,
       TypeOK, CommandLines, QueryInv, StatusInv, VersionsInv, HupInv, FreqInv,
       PidInv, ShutdownCleansUp

LEMMA SettleStep == IInv /\ Settle => IInv'
<1> SUFFICES ASSUME IInv, Settle PROVE IInv'
  OBVIOUS
<1> USE ShellAssumption DEF Settle, Exit, GoTo, outside, signals, reload, IInv
<1>0. \/ engine' = engine
      \/ \E ok \in BOOLEAN : engine' = [engine EXCEPT !.extra = (opts.keyfile => ok)]
  BY DEF Readable, TypeOK
<1>1. TypeOK'
  <2>1. engine \in Engines
    BY DEF TypeOK, Engines
  <2>2. engine' \in Engines
    BY <1>0, <2>1 DEF Engines
  <2>3. QED
    BY <2>2 DEF TypeOK, Engines, CommandLines
<1>f. engine'.freq = engine.freq
  BY <1>0 DEF TypeOK
<1>2. (QueryInv /\ StatusInv /\ PidInv)'
  BY Statuses DEF TypeOK, CommandLines, QueryInv, StatusInv, PidInv
<1>3. (VersionsInv /\ HupInv)'
  BY Statuses DEF TypeOK, StatusInv, VersionsInv, HupInv
<1>4. (FreqInv /\ ShutdownCleansUp)'
  BY <1>f, Statuses DEF TypeOK, CommandLines, QueryInv, StatusInv, PidInv, FreqInv, ShutdownCleansUp
<1>5. QED
  BY <1>1, <1>2, <1>3, <1>4

LEMMA InstallHandlersStep == IInv /\ InstallHandlers => IInv'
BY ShellAssumption, Statuses
   DEF InstallHandlers, Exit, GoTo, outside, signals, startup, reload, IInv,
       TypeOK, CommandLines, QueryInv, StatusInv, VersionsInv, HupInv, FreqInv,
       PidInv, ShutdownCleansUp

\* A turn of the engine keeps its type and learns what it then runs.
LEMMA EngineTurnTypes ==
  ASSUME TypeOK, EngineTurn
  PROVE  /\ engine' \in Engines /\ {drift', learned'} \subseteq Freqs
         /\ engine.freq = learned => engine'.freq = learned'
<1>1. engine \in Engines /\ {drift, learned} \subseteq Freqs
  BY DEF TypeOK, Engines
<1>2. CASE UNCHANGED <<engine, drift, learned>>
  BY <1>1, <1>2
<1>3. CASE engine' = [engine EXCEPT !.synced = FALSE] /\ UNCHANGED <<drift, learned>>
  BY <1>1, <1>3 DEF Engines
<1>4. ASSUME NEW f \in Freqs, engine' = [engine EXCEPT !.synced = TRUE, !.freq = f],
             learned' = f, drift' \in {drift, Saved(f)}
      PROVE  /\ engine' \in Engines /\ {drift', learned'} \subseteq Freqs
             /\ engine'.freq = learned'
  <2>1. engine' = [conf |-> engine.conf, keys |-> engine.keys, clean |-> engine.clean,
                   extra |-> engine.extra, clocks |-> engine.clocks, synced |-> TRUE,
                   freq |-> f]
    BY <1>1, <1>4 DEF Engines
  <2>2. engine' \in Engines
    BY <1>1, <2>1 DEF Engines
  <2>3. QED
    BY <1>1, <1>4, <2>1, <2>2 DEF Saved
<1>5. QED
  BY <1>2, <1>3, <1>4 DEF EngineTurn

LEMMA WaitTurnStep == IInv /\ WaitTurn => IInv'
<1> SUFFICES ASSUME IInv, WaitTurn PROVE IInv'
  OBVIOUS
<1> USE ShellAssumption DEF WaitTurn, outside, signals, startup, reload, IInv
<1>e. /\ engine' \in Engines /\ {drift', learned'} \subseteq Freqs
      /\ engine.freq = learned => engine'.freq = learned'
  BY EngineTurnTypes
<1>1. TypeOK'
  BY <1>e DEF TypeOK, Engines
<1>2. (QueryInv /\ StatusInv /\ PidInv)'
  BY Statuses DEF TypeOK, CommandLines, QueryInv, StatusInv, PidInv
<1>3. (VersionsInv /\ HupInv)'
  BY Statuses DEF TypeOK, StatusInv, VersionsInv, HupInv
<1>4. (FreqInv /\ ShutdownCleansUp)'
  BY <1>e, Statuses DEF TypeOK, CommandLines, QueryInv, StatusInv, PidInv, FreqInv, ShutdownCleansUp
<1>5. QED
  BY <1>1, <1>2, <1>3, <1>4

LEMMA WaitOverStep == IInv /\ WaitOver => IInv'
BY ShellAssumption, Statuses
   DEF WaitOver, GoTo, outside, signals, startup, reload, IInv,
       TypeOK, CommandLines, QueryInv, StatusInv, VersionsInv, HupInv, FreqInv,
       PidInv, ShutdownCleansUp

LEMMA PanicExitStep == IInv /\ PanicExit => IInv'
BY ShellAssumption, Statuses
   DEF PanicExit, Exit, outside, signals, startup, reload, IInv,
       TypeOK, CommandLines, QueryInv, StatusInv, VersionsInv, HupInv, FreqInv,
       PidInv, ShutdownCleansUp

LEMMA LoopEndsStep == IInv /\ LoopEnds => IInv'
BY ShellAssumption, Statuses
   DEF LoopEnds, GoTo, outside, signals, startup, reload, IInv,
       TypeOK, CommandLines, QueryInv, StatusInv, VersionsInv, HupInv, FreqInv,
       PidInv, ShutdownCleansUp

LEMMA LoopGoesOnStep == IInv /\ LoopGoesOn => IInv'
BY ShellAssumption, Statuses
   DEF LoopGoesOn, GoTo, outside, signals, startup, reload, IInv,
       TypeOK, CommandLines, QueryInv, StatusInv, VersionsInv, HupInv, FreqInv,
       PidInv, ShutdownCleansUp

LEMMA TakeReloadStep == IInv /\ TakeReload => IInv'
<1> SUFFICES ASSUME IInv, TakeReload PROVE IInv'
  OBVIOUS
<1> USE ShellAssumption DEF TakeReload, GoTo, outside, startup, reload, IInv
<1>1. TypeOK'
  <2>1. wants' \in BOOLEAN /\ pc' = "reading"
    OBVIOUS
  <2>2. QED
    BY <2>1 DEF TypeOK
<1>2. (QueryInv /\ StatusInv /\ PidInv)'
  BY Statuses DEF TypeOK, CommandLines, QueryInv, StatusInv, PidInv
<1>3. (VersionsInv /\ HupInv)'
  BY Statuses DEF TypeOK, StatusInv, VersionsInv, HupInv
<1>4. (FreqInv /\ ShutdownCleansUp)'
  BY Statuses DEF TypeOK, CommandLines, QueryInv, StatusInv, PidInv, FreqInv, ShutdownCleansUp
<1>5. QED
  BY <1>1, <1>2, <1>3, <1>4

LEMMA ReadConfigStep == IInv /\ ReadConfig => IInv'
<1> SUFFICES ASSUME IInv, ReadConfig PROVE IInv'
  OBVIOUS
<1> USE ShellAssumption DEF ReadConfig, GoTo, outside, startup, FlagAfter, Readable, IInv
<1>0. \/ loading' = Nothing /\ pc' = "turn"
      \/ /\ loading' = [conf |-> disk.version, keys |-> disk.version, clean |-> TRUE]
         /\ pc' = "keys"
  BY DEF TypeOK
<1>1. TypeOK'
  <2>1. loading' \in Reloads
    <3>1. disk.version \in 0..MaxEdits /\ looked \in 0..MaxEdits
      BY DEF TypeOK
    <3>2. Nothing \in Reloads
      BY DEF Nothing, Reloads
    <3>3. [conf |-> disk.version, keys |-> disk.version, clean |-> TRUE] \in Reloads
      BY <3>1 DEF Reloads
    <3>4. QED
      BY <1>0, <3>2, <3>3
  <2>2. QED
    BY <2>1, <1>0 DEF TypeOK, Reloads
<1>2. (QueryInv /\ StatusInv /\ PidInv)'
  BY Statuses DEF TypeOK, CommandLines, QueryInv, StatusInv, PidInv
<1>3. (VersionsInv /\ HupInv)'
  BY <1>0, Statuses DEF TypeOK, StatusInv, VersionsInv, HupInv
<1>4. (FreqInv /\ ShutdownCleansUp)'
  BY Statuses DEF TypeOK, CommandLines, QueryInv, StatusInv, PidInv, FreqInv, ShutdownCleansUp
<1>5. QED
  BY <1>1, <1>2, <1>3, <1>4

LEMMA LoadKeysStep == IInv /\ LoadKeys => IInv'
<1> SUFFICES ASSUME IInv, LoadKeys PROVE IInv'
  OBVIOUS
<1> USE ShellAssumption DEF LoadKeys, GoTo, outside, startup, FlagAfter, Readable, KeysLoad, IInv
<1>0. \/ loading' = Nothing /\ pc' = "turn"
      \/ /\ loading' = [conf |-> looked, keys |-> disk.version, clean |-> TRUE]
         /\ pc' = "swap"
  BY DEF TypeOK, VersionsInv
<1>1. TypeOK'
  <2>1. loading' \in Reloads
    <3>1. disk.version \in 0..MaxEdits /\ looked \in 0..MaxEdits
      BY DEF TypeOK
    <3>2. Nothing \in Reloads
      BY DEF Nothing, Reloads
    <3>3. [conf |-> looked, keys |-> disk.version, clean |-> TRUE] \in Reloads
      BY <3>1 DEF Reloads
    <3>4. QED
      BY <1>0, <3>2, <3>3
  <2>2. QED
    BY <2>1, <1>0 DEF TypeOK, Reloads
<1>2. (QueryInv /\ StatusInv /\ PidInv)'
  BY Statuses DEF TypeOK, CommandLines, QueryInv, StatusInv, PidInv
<1>3. (VersionsInv /\ HupInv)'
  BY <1>0, Statuses DEF TypeOK, StatusInv, VersionsInv, HupInv
<1>4. (FreqInv /\ ShutdownCleansUp)'
  BY Statuses DEF TypeOK, CommandLines, QueryInv, StatusInv, PidInv, FreqInv, ShutdownCleansUp
<1>5. QED
  BY <1>1, <1>2, <1>3, <1>4

LEMMA ReadExtraAndSwapStep == IInv /\ ReadExtraAndSwap => IInv'
<1> SUFFICES ASSUME IInv, ReadExtraAndSwap PROVE IInv'
  OBVIOUS
<1> USE ShellAssumption DEF ReadExtraAndSwap, GoTo, outside, startup, FlagAfter, InheritedFreq, IInv
<1>0. PICK ok \in BOOLEAN :
        engine' = [conf |-> loading.conf, keys |-> loading.keys, clean |-> loading.clean,
                   extra |-> (opts.keyfile => ok), clocks |-> FALSE, synced |-> FALSE,
                   freq |-> engine.freq]
  BY DEF Readable, TypeOK
<1>1. TypeOK'
  <2>1. /\ loading.conf \in 0..MaxEdits /\ loading.keys \in 0..MaxEdits
        /\ loading.clean \in BOOLEAN /\ engine.freq \in Freqs
        /\ (opts.keyfile => ok) \in BOOLEAN
    BY DEF TypeOK
  <2>2. engine' \in Engines
    BY <1>0, <2>1 DEF Engines
  <2>3. loading' \in Reloads
    BY DEF Nothing, Reloads
  <2>4. QED
    BY <2>2, <2>3 DEF TypeOK, Engines, Reloads
<1>f. engine'.freq = engine.freq
  BY <1>0
<1>2. (QueryInv /\ StatusInv /\ PidInv)'
  BY Statuses DEF TypeOK, CommandLines, QueryInv, StatusInv, PidInv
<1>3. (VersionsInv /\ HupInv)'
  BY Statuses DEF TypeOK, StatusInv, VersionsInv, HupInv
<1>4. (FreqInv /\ ShutdownCleansUp)'
  BY <1>f, Statuses DEF TypeOK, CommandLines, QueryInv, StatusInv, PidInv, FreqInv, ShutdownCleansUp
<1>5. QED
  BY <1>1, <1>2, <1>3, <1>4

LEMMA LoopTurnStep == IInv /\ LoopTurn => IInv'
<1> SUFFICES ASSUME IInv, LoopTurn PROVE IInv'
  OBVIOUS
<1> USE ShellAssumption DEF LoopTurn, GoTo, outside, signals, startup, reload, IInv
<1>e. /\ engine' \in Engines /\ {drift', learned'} \subseteq Freqs
      /\ engine.freq = learned => engine'.freq = learned'
  BY EngineTurnTypes
<1>1. TypeOK'
  BY <1>e DEF TypeOK, Engines
<1>2. (QueryInv /\ StatusInv /\ PidInv)'
  BY Statuses DEF TypeOK, CommandLines, QueryInv, StatusInv, PidInv
<1>3. (VersionsInv /\ HupInv)'
  BY Statuses DEF TypeOK, StatusInv, VersionsInv, HupInv
<1>4. (FreqInv /\ ShutdownCleansUp)'
  BY <1>e, Statuses DEF TypeOK, CommandLines, QueryInv, StatusInv, PidInv, FreqInv, ShutdownCleansUp
<1>5. QED
  BY <1>1, <1>2, <1>3, <1>4

LEMMA ClockSpeaksStep == IInv /\ ClockSpeaks => IInv'
BY ShellAssumption, Statuses
   DEF ClockSpeaks, GoTo, outside, signals, startup, reload, IInv,
       TypeOK, CommandLines, QueryInv, StatusInv, VersionsInv, HupInv, FreqInv,
       PidInv, ShutdownCleansUp

LEMMA PersistDriftStep == IInv /\ PersistDrift => IInv'
BY ShellAssumption, Statuses
   DEF PersistDrift, Saved, GoTo, outside, signals, startup, reload, IInv,
       TypeOK, CommandLines, QueryInv, StatusInv, VersionsInv, HupInv, FreqInv,
       PidInv, ShutdownCleansUp

LEMMA CleanUpStep == IInv /\ CleanUp => IInv'
<1> SUFFICES ASSUME IInv, CleanUp PROVE IInv'
  OBVIOUS
<1> USE ShellAssumption DEF CleanUp, Exit, outside, signals, reload, IInv
<1>0. /\ pc' = "exited" /\ status' \in {0, Killed}
      /\ pidfile' \in BOOLEAN /\ (pidfile' => pidfile)
      /\ status' = 0 /\ pidfile' => opts.jail \/ opts.user
  <2>1. pidfile \in BOOLEAN /\ (pidfile => opts.pid)
    BY DEF TypeOK, PidInv
  <2>2. CASE ~opts.pid
    BY <2>1, <2>2 DEF ExitCode
  <2>3. CASE opts.pid /\ ~opts.seccomp
    BY <2>1, <2>3 DEF AfterRemoval, ExitCode
  <2>4. CASE opts.pid /\ opts.seccomp
    BY <2>1, <2>4, Statuses
  <2>5. QED
    BY <2>2, <2>3, <2>4 DEF TypeOK, CommandLines
<1>u. UNCHANGED <<disk, told, running, wants, handlers, loading, looked, parent, opts, query,
                  clockSet, engine, drift, learned>>
  OBVIOUS
<1> HIDE DEF CleanUp
<1>1. TypeOK'
  BY <1>0, <1>u DEF TypeOK
<1>2. (QueryInv /\ StatusInv /\ PidInv)'
  BY <1>0, <1>u, Statuses DEF TypeOK, CommandLines, QueryInv, StatusInv, PidInv
<1>3. (VersionsInv /\ HupInv)'
  BY <1>0, <1>u, Statuses DEF TypeOK, StatusInv, VersionsInv, HupInv
<1>4. (FreqInv /\ ShutdownCleansUp)'
  <2>1. pc = "clean"
    BY DEF CleanUp
  <2>2. QED
    BY <1>0, <1>u, <2>1, Statuses
       DEF TypeOK, CommandLines, QueryInv, StatusInv, PidInv, FreqInv, ShutdownCleansUp
<1>5. QED
  BY <1>1, <1>2, <1>3, <1>4

LEMMA QueryTickStep == IInv /\ QueryTick => IInv'
BY ShellAssumption, Statuses
   DEF QueryTick, GoTo, outside, signals, reload, IInv,
       TypeOK, CommandLines, QueryInv, StatusInv, VersionsInv, HupInv, FreqInv,
       PidInv, ShutdownCleansUp

LEMMA QueryTurnStep == IInv /\ QueryTurn => IInv'
<1> SUFFICES ASSUME IInv, QueryTurn PROVE IInv'
  OBVIOUS
<1> USE ShellAssumption DEF QueryTurn, outside, signals, reload, IInv
<1>1. TypeOK'
  <2> PICK got \in BOOLEAN :
           /\ query' = [query EXCEPT !.left = @ - 1, !.answered = @ \/ got]
           /\ clockSet' = (got /\ query.offset)
    OBVIOUS
  <2>1. query.left - 1 \in 0..MaxTurns /\ (query.answered \/ got) \in BOOLEAN
    BY DEF TypeOK
  <2>2. query' \in [left : 0..MaxTurns, answered : BOOLEAN, offset : BOOLEAN]
    BY <2>1 DEF TypeOK
  <2>3. clockSet' \in BOOLEAN
    OBVIOUS
  <2>4. QED
    BY <2>2, <2>3 DEF TypeOK
<1>2. (QueryInv /\ StatusInv /\ PidInv)'
  BY Statuses DEF TypeOK, CommandLines, QueryInv, StatusInv, PidInv
<1>3. (VersionsInv /\ HupInv)'
  BY Statuses DEF TypeOK, StatusInv, VersionsInv, HupInv
<1>4. (FreqInv /\ ShutdownCleansUp)'
  BY Statuses DEF TypeOK, CommandLines, QueryInv, StatusInv, PidInv, FreqInv, ShutdownCleansUp
<1>5. QED
  BY <1>1, <1>2, <1>3, <1>4

LEMMA QueryDoneStep == IInv /\ QueryDone => IInv'
BY ShellAssumption, Statuses
   DEF QueryDone, Exit, outside, signals, startup, reload, IInv,
       TypeOK, CommandLines, QueryInv, StatusInv, VersionsInv, HupInv, FreqInv,
       PidInv, ShutdownCleansUp

LEMMA EditStep == IInv /\ Edit => IInv'
<1> SUFFICES ASSUME IInv, Edit PROVE IInv'
  OBVIOUS
<1> USE ShellAssumption DEF Edit, signals, startup, reload, IInv
<1>0. PICK c \in BOOLEAN, k \in BOOLEAN, x \in BOOLEAN :
        disk' = [version |-> disk.version + 1, conf |-> c, keys |-> k, extra |-> x]
  BY DEF KeyFileStates
<1>u. UNCHANGED <<running, wants, handlers, parent, opts, pidfile, query, clockSet, loading,
                  looked, pc, status, engine, drift, told, learned>>
  OBVIOUS
<1>v. disk'.version = disk.version + 1 /\ disk.version < MaxEdits
  BY <1>0
<1> HIDE DEF Edit
<1>1. TypeOK'
  <2>1. disk' \in [version : 0..MaxEdits, conf : BOOLEAN, keys : BOOLEAN, extra : BOOLEAN]
    BY <1>0, <1>v DEF TypeOK
  <2>2. QED
    BY <2>1, <1>u DEF TypeOK
<1>2. (QueryInv /\ StatusInv /\ PidInv)'
  BY <1>u DEF QueryInv, StatusInv, PidInv
<1>3. (VersionsInv /\ HupInv)'
  BY <1>u, <1>v DEF TypeOK, VersionsInv, HupInv
<1>4. (FreqInv /\ ShutdownCleansUp)'
  BY <1>u DEF FreqInv, ShutdownCleansUp
<1>5. QED
  BY <1>1, <1>2, <1>3, <1>4

LEMMA HupStep == IInv /\ Hup => IInv'
<1> SUFFICES ASSUME IInv, Hup PROVE IInv'
  OBVIOUS
<1> USE ShellAssumption DEF Hup, Exit, startup, reload, IInv
<1>1. TypeOK'
  <2>1. status' \in {Alive, Killed, 0, 1, 2} /\ wants' \in BOOLEAN /\ pc' \in {pc, "exited"}
    BY DEF TypeOK
  <2>2. QED
    BY <2>1 DEF TypeOK
<1>2. (QueryInv /\ StatusInv /\ PidInv)'
  BY Statuses DEF TypeOK, CommandLines, QueryInv, StatusInv, PidInv
<1>3. (VersionsInv /\ HupInv)'
  BY Statuses DEF TypeOK, StatusInv, VersionsInv, HupInv
<1>4. (FreqInv /\ ShutdownCleansUp)'
  BY Statuses DEF TypeOK, CommandLines, QueryInv, StatusInv, PidInv, FreqInv, ShutdownCleansUp
<1>5. QED
  BY <1>1, <1>2, <1>3, <1>4

LEMMA TermStep == IInv /\ Term => IInv'
<1> SUFFICES ASSUME IInv, Term PROVE IInv'
  OBVIOUS
<1> USE ShellAssumption DEF Term, Exit, outside, startup, reload, IInv
<1>1. TypeOK'
  <2>1. status' \in {Alive, Killed, 0, 1, 2} /\ running' \in BOOLEAN /\ pc' \in {pc, "exited"}
    BY DEF TypeOK
  <2>2. QED
    BY <2>1 DEF TypeOK
<1>2. (QueryInv /\ StatusInv /\ PidInv)'
  BY Statuses DEF TypeOK, CommandLines, QueryInv, StatusInv, PidInv
<1>3. (VersionsInv /\ HupInv)'
  BY Statuses DEF TypeOK, StatusInv, VersionsInv, HupInv
<1>4. (FreqInv /\ ShutdownCleansUp)'
  BY Statuses DEF TypeOK, CommandLines, QueryInv, StatusInv, PidInv, FreqInv, ShutdownCleansUp
<1>5. QED
  BY <1>1, <1>2, <1>3, <1>4

LEMMA StutterStep == IInv /\ UNCHANGED vars => IInv'
BY DEF vars, IInv, TypeOK, QueryInv, StatusInv, VersionsInv, HupInv, FreqInv, PidInv,
       ShutdownCleansUp

LEMMA Invariance == Spec => []IInv
<1>1. Init => IInv
  BY InitStep
<1>2. IInv /\ [Next]_vars => IInv'
  BY StartStep, ForkStep, ParentWritesStep, SettleStep, InstallHandlersStep,
       WaitTurnStep, WaitOverStep, PanicExitStep, LoopEndsStep, LoopGoesOnStep,
       TakeReloadStep, ReadConfigStep, LoadKeysStep, ReadExtraAndSwapStep,
       LoopTurnStep, ClockSpeaksStep, PersistDriftStep, CleanUpStep, QueryTickStep, QueryTurnStep,
       QueryDoneStep, EditStep, HupStep, TermStep,
     StutterStep
     DEF Next, Daemon, Proceed
<1>3. QED
  BY <1>1, <1>2, PTL DEF Spec
------------------------------------------------------------------------------
(* The theorems. *)

\* The process ends with the exit codes its header lists, and versions, the
\* flags and the frequencies keep their types (main.rs as a whole).
THEOREM ShellTypeCorrect == Spec => []TypeOK
<1>1. IInv => TypeOK
  BY DEF IInv
<1>2. QED
  BY <1>1, Invariance, PTL

\* However signals, edits and reloads interleave, the loop never turns with
\* no reload flagged and a SIGHUP newer than the last look at the files
\* (wants_reload.swap before the read, never a store after it).
THEOREM HupNotLost == Spec => []NoLostReload
<1>1. IInv => NoLostReload
  BY DEF IInv, HupInv, NoLostReload
<1>2. QED
  BY <1>1, Invariance, PTL

\* Exit code 0 means that the learned frequency is in the drift file a start
\* reads, unless the daemon went into a jail, and that a foreground daemon left
\* no PID file, unless it went into a jail or gave up root's rights (shutdown
\* steps 2, 4; remove_file and save_drift where they can reach the file).
THEOREM ShutdownOrderly == Spec => []ShutdownCleansUp
<1>1. IInv => ShutdownCleansUp
  BY DEF IInv
<1>2. QED
  BY <1>1, Invariance, PTL

\* A step changes the configuration a running engine has only by a swap for
\* the version just looked at, with keys no older, it and the key files it
\* names all read without an error; of the file of -k nothing is said.
THEOREM ReloadWhole == Spec => ReloadAllOrNothing
<1>1. IInv /\ [Next]_vars
        => [pc # "start" /\ engine'.conf # engine.conf
               => /\ engine'.clean
                  /\ engine'.conf = looked /\ engine'.keys >= engine'.conf]_vars
  <2> SUFFICES ASSUME IInv, Next, pc # "start", engine'.conf # engine.conf
               PROVE  /\ engine'.clean
                      /\ engine'.conf = looked /\ engine'.keys >= engine'.conf
    OBVIOUS
  <2>1. engine \in Engines
    BY DEF IInv, TypeOK, Engines
  <2>2. ~EngineTurn /\ ~Settle
    BY <2>1 DEF EngineTurn, Settle, Engines
  <2>3. ReadExtraAndSwap
    BY <2>2 DEF Next, Daemon, Proceed, Start, Fork, InstallHandlers, WaitOver,
           LoopEnds, LoopGoesOn, TakeReload, ReadConfig, LoadKeys, LoopTurn, ClockSpeaks,
           PersistDrift, CleanUp, QueryTick, QueryTurn, QueryDone, WaitTurn, PanicExit,
           ParentWrites, Edit, Hup, Term, signals, startup, reload
  <2>4. /\ engine'.conf = loading.conf /\ engine'.keys = loading.keys
        /\ engine'.clean = loading.clean /\ pc = "swap"
    BY <2>3 DEF ReadExtraAndSwap
  <2>5. QED
    BY <2>4 DEF IInv, VersionsInv
<1>2. QED
  BY <1>1, Invariance, PTL DEF Spec, ReloadAllOrNothing
==============================================================================

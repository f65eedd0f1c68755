----------------------------- MODULE DaemonShell -----------------------------
(***************************************************************************)
(* The daemon process around the engine (crates/ntpsec-rs-d/src/main.rs):  *)
(* start-up, fork and PID file, signal handlers, query mode, waiting for   *)
(* synchronization, the main loop with its reloads, and shutdown.          *)
(*                                                                         *)
(* The process, its parent after the fork, the threads that turn signals   *)
(* into flags and the operator who edits files and sends signals take      *)
(* their steps independently.  Of the engine only what the shell looks at  *)
(* is kept: which configuration and keys it runs and how well they were    *)
(* read, whether reference clocks are open, whether it is synchronized, and *)
(* the frequency that is worth saving.                                     *)
(***************************************************************************)
EXTENDS Integers

CONSTANTS Freqs,      \* frequencies the loop filter may learn
          Options,    \* command lines to start it with
          MaxEdits,   \* bound: edits of the configuration files
          MaxTurns    \* turns of query mode (100 in the code)

\* Daemonize (no -n), -p, -w, -i, -u, seccomp, -k, -q.
CommandLines == [fork : BOOLEAN, pid : BOOLEAN, wait : BOOLEAN, jail : BOOLEAN,
                 user : BOOLEAN, seccomp : BOOLEAN, keyfile : BOOLEAN, query : BOOLEAN]

ASSUME ShellAssumption == /\ Freqs \subseteq Int /\ 0 \in Freqs
                          /\ Options \subseteq CommandLines
                          /\ MaxEdits \in Nat /\ MaxTurns \in Nat \ {0}

Alive == -1    \* exit status of a process that has not ended
Killed == -2   \* ended by a signal's default action, or by the seccomp filter

VARIABLES pc,        \* where the daemon process is
          parent,    \* the process that forked: none, writing or done
          opts,      \* command line
          status,    \* exit status
          pidfile,   \* the PID file exists
          handlers,  \* the signal handlers are installed
          running,   \* flag cleared by SIGTERM and SIGINT
          wants,     \* flag set by SIGHUP (wants_reload)
          disk,      \* configuration, key files it names, -k file: version, good?
          loading,   \* versions a reload has just read, all without an error?
          engine,    \* the same of the engine in force; its -k keys, open clocks, state
          drift,     \* frequency in the drift file that a start reads
          query,     \* query mode: turns left, answer seen, offset seen
          clockSet,  \* query mode set the clock
          told,      \* history: version on disk at the last SIGHUP
          looked,    \* history: latest version a reload has looked at
          learned    \* history: the last frequency learned

vars == <<pc, parent, opts, status, pidfile, handlers, running, wants, disk,
          loading, engine, drift, query, clockSet, told, looked, learned>>

outside == <<disk, told>>                       \* the operator's
signals == <<running, wants, handlers>>
startup == <<parent, opts, pidfile, query, clockSet>>
reload  == <<loading, looked>>

\* The -k file is good or not; without -k nothing is missing.
KeyFileStates == IF opts.keyfile THEN BOOLEAN ELSE {TRUE}

\* No reload is in hand.
Nothing == [conf |-> 0, keys |-> 0, clean |-> FALSE]

Init == /\ pc = "start" /\ parent = "none" /\ status = Alive
        /\ opts \in Options
        /\ pidfile = FALSE /\ handlers = FALSE
        /\ running = TRUE /\ wants = FALSE
        /\ disk \in [version : {0}, conf : BOOLEAN, keys : BOOLEAN, extra : KeyFileStates]
        /\ loading = Nothing /\ told = 0 /\ looked = 0
        /\ engine = [conf |-> 0, keys |-> 0, clean |-> FALSE, extra |-> FALSE,
                     clocks |-> FALSE, synced |-> FALSE, freq |-> 0]
        /\ drift \in Freqs /\ learned = drift
        /\ query = [left |-> MaxTurns, answered |-> FALSE, offset |-> FALSE]
        /\ clockSet = FALSE

Exit(code) == pc' = "exited" /\ status' = code
GoTo(p) == pc' = p /\ UNCHANGED status
------------------------------------------------------------------------------
\* What becomes of reading a file: in a jail or with another user's rights
\* a good file may be out of reach.
Readable(good) == {good} \cup (IF opts.jail \/ opts.user THEN {FALSE} ELSE {})

\* Read the configuration, make the engine, load drift and keys (faulty lines
\* and bad keys are only logged), open the reference clocks, bind the ports.
Start ==
  /\ pc = "start"
  /\ \/ Exit(1) /\ UNCHANGED <<engine, looked>>             \* unreadable file
     \/ Exit(2) /\ UNCHANGED <<engine, looked>>             \* cannot bind
     \/ /\ \E clocks \in BOOLEAN :
              engine' = [conf |-> disk.version, keys |-> disk.version,
                         clean |-> disk.conf /\ disk.keys, extra |-> ~opts.keyfile,
                         clocks |-> clocks, synced |-> FALSE, freq |-> drift]
        /\ looked' = disk.version
        /\ GoTo(IF opts.query THEN "poll" ELSE IF opts.fork THEN "fork" ELSE "child")
  /\ UNCHANGED <<outside, signals, startup, loading, drift, learned>>

Fork == /\ pc = "fork"
        /\ \/ parent' = "writing" /\ GoTo("child")
           \/ Exit(1) /\ UNCHANGED parent                     \* fork failed
        /\ UNCHANGED <<outside, signals, reload, opts, pidfile, query, clockSet,
                       engine, drift, learned>>

\* The parent writes the child's PID and exits, whatever became of the child.
ParentWrites == /\ parent = "writing"
                /\ parent' = "done"
                /\ pidfile' = (pidfile \/ opts.pid)
                /\ UNCHANGED <<outside, signals, reload, pc, opts, status, query,
                               clockSet, engine, drift, learned>>

\* In the foreground the PID file is written here; then the jail and the
\* user's privileges, either of which may fail, and with them the -k file,
\* whose faults are only logged.
Settle == /\ pc = "child"
          /\ pidfile' = (pidfile \/ (opts.pid /\ ~opts.fork))
          /\ \/ opts.jail /\ Exit(1) /\ UNCHANGED engine
             \/ opts.user /\ Exit(2) /\ UNCHANGED engine
             \/ /\ \E ok \in Readable(disk.extra) :
                      engine' = [engine EXCEPT !.extra = (opts.keyfile => ok)]
                /\ GoTo("signals")
          /\ UNCHANGED <<outside, signals, reload, parent, opts, query, clockSet,
                         drift, learned>>

\* The handlers' threads, then the seccomp filter, which may fail.
InstallHandlers == /\ pc = "signals"
                   /\ handlers' = TRUE
                   /\ \/ GoTo(IF opts.wait THEN "wait" ELSE "loop")
                      \/ opts.seccomp /\ Exit(1)
                   /\ UNCHANGED <<outside, startup, reload, running, wants,
                                  engine, drift, learned>>
------------------------------------------------------------------------------
\* The drift file a start reads, after a save: from inside the jail the path
\* leads to another file, which no start reads.
Saved(f) == IF opts.jail THEN drift ELSE f

\* tick and execute_actions as the shell sees them: nothing, no survivor, or
\* a frequency learned and, every hundredth time, saved.
EngineTurn ==
  \/ UNCHANGED <<engine, drift, learned>>
  \/ /\ engine' = [engine EXCEPT !.synced = FALSE]
     /\ UNCHANGED <<drift, learned>>
  \/ \E f \in Freqs : /\ engine' = [engine EXCEPT !.synced = TRUE, !.freq = f]
                      /\ learned' = f
                      /\ drift' \in {drift, Saved(f)}

\* -w: turns of the engine until it is synchronized or 300 s are over; the
\* flag of SIGTERM is not looked at.
WaitTurn == /\ pc = "wait" /\ ~engine.synced
            /\ EngineTurn
            /\ UNCHANGED <<outside, signals, startup, reload, pc, status>>

\* Mutant: the wait has no limit.
WaitForever == /\ pc = "wait" /\ engine.synced
               /\ GoTo("loop")
               /\ UNCHANGED <<outside, signals, startup, reload, engine, drift, learned>>

WaitOver == /\ pc = "wait"            \* synchronized, or 300 s have passed
            /\ GoTo("loop")
            /\ UNCHANGED <<outside, signals, startup, reload, engine, drift, learned>>

\* The offset is beyond the panic threshold: exit in the middle of it all.
PanicExit == /\ pc \in {"wait", "turn"}
             /\ Exit(1)
             /\ UNCHANGED <<outside, signals, startup, reload, engine, drift, learned>>

\* The top of the main loop: end, reload or turn.
LoopEnds == /\ pc = "loop" /\ ~running
            /\ GoTo("down")
            /\ UNCHANGED <<outside, signals, startup, reload, engine, drift, learned>>

LoopGoesOn == /\ pc = "loop" /\ running /\ ~wants
              /\ GoTo("turn")
              /\ UNCHANGED <<outside, signals, startup, reload, engine, drift, learned>>

\* wants_reload.swap(false)
TakeReload == /\ pc = "loop" /\ running /\ wants
              /\ wants' = FALSE
              /\ GoTo("reading")
              /\ UNCHANGED <<outside, startup, reload, running, handlers, engine,
                             drift, learned>>

\* Mutant: the flag is cleared once the reload is over.
FlagCleared(flag) == FALSE
\* The flag is not touched again: a SIGHUP that comes meanwhile stays.
FlagAfter(flag) == flag

\* The file is read; with errors the old engine stays.
ReadConfig == /\ pc = "reading"
              /\ looked' = disk.version
              /\ \E ok \in Readable(disk.conf) :
                   IF ok
                   THEN /\ loading' = [conf |-> disk.version, keys |-> disk.version, clean |-> ok]
                        /\ UNCHANGED wants /\ GoTo("keys")
                   ELSE loading' = Nothing /\ wants' = FlagAfter(wants) /\ GoTo("turn")
              /\ UNCHANGED <<outside, startup, running, handlers, engine, drift, learned>>

\* Mutants: the new engine's own frequency; the swap despite bad keys.
FreshFreq(e) == 0
AnyKeys(ok) == TRUE

InheritedFreq(e) == e.freq
\* A reload goes on only if load_key_files returned Ok.
KeysLoad(ok) == ok

\* The key files the configuration names are read; a bad one keeps the old engine.
LoadKeys ==
  /\ pc = "keys"
  /\ \E ok \in Readable(disk.keys) :
       IF KeysLoad(ok)
       THEN /\ loading' = [conf |-> loading.conf, keys |-> disk.version,
                           clean |-> loading.clean /\ ok]
            /\ UNCHANGED wants /\ GoTo("swap")
       ELSE loading' = Nothing /\ wants' = FlagAfter(wants) /\ GoTo("turn")
  /\ UNCHANGED <<outside, startup, looked, running, handlers, engine, drift, learned>>

\* The -k file is read again, its faults are not even logged, and the new
\* engine replaces the old one; nobody opens its reference clocks.
ReadExtraAndSwap ==
  /\ pc = "swap"
  /\ \E ok \in Readable(disk.extra) :
       engine' = [conf |-> loading.conf, keys |-> loading.keys, clean |-> loading.clean,
                  extra |-> (opts.keyfile => ok), clocks |-> FALSE, synced |-> FALSE,
                  freq |-> InheritedFreq(engine)]
  /\ loading' = Nothing
  /\ wants' = FlagAfter(wants)
  /\ GoTo("turn")
  /\ UNCHANGED <<outside, startup, looked, running, handlers, drift, learned>>

\* A turn: timers, a datagram, and the reference clocks, which are read with
\* no timeout: a silent receiver, or the end of gpsd's stream, keeps it there.
LoopTurn == /\ pc = "turn"
            /\ EngineTurn
            /\ GoTo("loop") \/ (engine.clocks /\ GoTo("stuck"))
            /\ UNCHANGED <<outside, signals, startup, reload>>

ClockSpeaks == /\ pc = "stuck"
               /\ GoTo("loop")
               /\ UNCHANGED <<outside, signals, startup, reload, engine, drift, learned>>
------------------------------------------------------------------------------
\* Shutdown: drift is saved, the PID file removed, and the process exits.
PersistDrift == /\ pc = "down"
                /\ drift' = Saved(engine.freq)
                /\ GoTo("clean")
                /\ UNCHANGED <<outside, signals, startup, reload, engine, learned>>

ExitCode == 0

\* Removing the PID file fails in silence in a jail, where its path does not
\* lead to it, and may without root's rights.
AfterRemoval == IF opts.jail THEN {pidfile}
                ELSE {FALSE} \cup (IF opts.user THEN {pidfile} ELSE {})

\* The seccomp filter does not allow unlink, and kills the process for it.
CleanUp == /\ pc = "clean"
           /\ CASE ~opts.pid -> UNCHANGED pidfile /\ Exit(ExitCode)
                [] opts.pid /\ ~opts.seccomp -> pidfile' \in AfterRemoval /\ Exit(ExitCode)
                [] opts.pid /\ opts.seccomp -> UNCHANGED pidfile /\ Exit(Killed)
           /\ UNCHANGED <<outside, signals, reload, parent, opts, query, clockSet,
                          engine, drift, learned>>
------------------------------------------------------------------------------
\* run_query_mode: one tick sends the requests (and selects among servers
\* that have not answered yet); then turns that receive an answer each and
\* look for an offset.
QueryTick == /\ pc = "poll"
             /\ query' = [query EXCEPT !.offset = query.answered]
             /\ GoTo("query")
             /\ UNCHANGED <<outside, signals, reload, parent, opts, pidfile, clockSet,
                            engine, drift, learned>>

QueryTurn == /\ pc = "query" /\ query.left > 0 /\ ~clockSet
             /\ \E got \in BOOLEAN :
                   /\ query' = [query EXCEPT !.left = @ - 1, !.answered = @ \/ got]
                   /\ clockSet' = (got /\ query.offset)
             /\ UNCHANGED <<outside, signals, reload, pc, status, parent, opts, pidfile,
                            engine, drift, learned>>

QueryDone == /\ pc = "query" /\ (query.left = 0 \/ clockSet)
             /\ drift' = engine.freq
             /\ Exit(0)
             /\ UNCHANGED <<outside, signals, startup, reload, engine, learned>>
------------------------------------------------------------------------------
\* The operator edits the configuration and the key files.
Edit == /\ disk.version < MaxEdits
        /\ \E c, k \in BOOLEAN, x \in KeyFileStates :
              disk' = [version |-> disk.version + 1, conf |-> c, keys |-> k, extra |-> x]
        /\ UNCHANGED <<signals, startup, reload, pc, status, engine, drift, told, learned>>

\* A signal before the handlers are installed ends the process.
Hup == /\ pc # "exited"
       /\ told' = disk.version
       /\ IF handlers THEN wants' = TRUE /\ UNCHANGED <<pc, status>>
                      ELSE Exit(Killed) /\ UNCHANGED wants
       /\ UNCHANGED <<disk, running, handlers, startup, reload, engine, drift, learned>>

Term == /\ pc # "exited"
        /\ IF handlers THEN running' = FALSE /\ UNCHANGED <<pc, status>>
                       ELSE Exit(Killed) /\ UNCHANGED running
        /\ UNCHANGED <<outside, wants, handlers, startup, reload, engine, drift, learned>>

\* What the process does whatever its servers answer, and what depends on them.
Proceed == \/ Start \/ Fork \/ Settle \/ InstallHandlers \/ WaitOver
           \/ LoopEnds \/ LoopGoesOn \/ TakeReload \/ ReadConfig \/ LoadKeys \/ ReadExtraAndSwap
           \/ LoopTurn \/ PersistDrift \/ CleanUp
           \/ QueryTick \/ QueryTurn \/ QueryDone

Daemon == Proceed \/ WaitTurn \/ PanicExit \/ ClockSpeaks

Next == Daemon \/ ParentWrites \/ Edit \/ Hup \/ Term

Spec == Init /\ [][Next]_vars

\* The process is scheduled, and its waiting for synchronization is bounded
\* by a clock of its own; nothing is assumed of servers, operator and the
\* devices of reference clocks.
FairSpec == Spec /\ WF_vars(Proceed)
------------------------------------------------------------------------------
\* Type invariant: in particular only the exit codes the header lists.
TypeOK ==
  /\ pc \in {"start", "fork", "child", "signals", "wait", "loop", "reading", "keys", "swap",
             "turn", "stuck", "down", "clean", "poll", "query", "exited"}
  /\ parent \in {"none", "writing", "done"}
  /\ opts \in CommandLines
  /\ status \in {Alive, Killed, 0, 1, 2}
  /\ {pidfile, handlers, running, wants, clockSet} \subseteq BOOLEAN
  /\ disk \in [version : 0..MaxEdits, conf : BOOLEAN, keys : BOOLEAN, extra : BOOLEAN]
  /\ loading \in [conf : 0..MaxEdits, keys : 0..MaxEdits, clean : BOOLEAN]
  /\ {told, looked} \subseteq 0..MaxEdits
  /\ engine \in [conf : 0..MaxEdits, keys : 0..MaxEdits, clean : BOOLEAN, extra : BOOLEAN,
                 clocks : BOOLEAN, synced : BOOLEAN, freq : Freqs]
  /\ {drift, learned} \subseteq Freqs
  /\ query \in [left : 0..MaxTurns, answered : BOOLEAN, offset : BOOLEAN]

\* No SIGHUP is lost: when the loop goes on without a reload in hand, the
\* configuration was looked at as it was at the last SIGHUP or later, even
\* if that came while another reload was being done (wants_reload.swap).
NoLostReload == pc = "turn" /\ ~wants => looked >= told

\* A reload takes effect as a whole or not at all, as far as the configuration
\* and the key files it names go: the engine is replaced only by one for which
\* all of them were read without an error, the configuration as it was when it
\* was last looked at and keys no older, however the files change in between.
\* The file of -k is excepted (the SIGHUP branch of the main loop).
ReloadAllOrNothing ==
  [][pc # "start" /\ engine'.conf # engine.conf
        => /\ engine'.clean
           /\ engine'.conf = looked /\ engine'.keys >= engine'.conf]_vars

\* An orderly shutdown cleans up as far as it can reach: what was learned of
\* the clock's frequency, reloads or not, is in the drift file that the next
\* start reads, unless the daemon went into a jail; and a daemon in the
\* foreground leaves no PID file behind, unless it went into a jail or gave
\* up root's rights (shutdown steps 2 and 4).
ShutdownCleansUp ==
  status = 0 => /\ opts.query \/ ~opts.jail => drift = learned
                /\ pidfile => opts.fork \/ opts.jail \/ opts.user

\* SIGTERM ends the daemon once the handlers are there, even while it waits
\* for synchronization or reloads (running, the loop's condition), provided
\* that no reference clock keeps it in a read for ever.
TermStops == []<>(pc # "stuck") => (handlers /\ ~running ~> pc = "exited")

\* What the option -q promises: "poll peers once, set clock, exit".
QuerySetsClock == status = 0 /\ opts.query /\ query.answered => clockSet
==============================================================================

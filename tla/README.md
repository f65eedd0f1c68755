# Specifications of ntpsec-rs

TLA+ models of `ntpsec-rs`, a Rust reconstruction of NTPsec: the daemon
`ntpsec-rs-d` with its protocols, reference clocks and files, and the tools that
query it; the TLC configurations that check the models on small instances, and
TLAPS proofs of what matters most for every instance. Paths below are relative to
the repository root; `core/` stands for `src/crates/ntpsec-rs-core/src/` and
`main.rs` for `src/crates/ntpsec-rs-d/src/main.rs`. `PROJECT.json` maps every
definition to the lines it models and lists runs, mutants, hazards, findings and
theorems.

Reading order: `RequestLedger`, `PollExchange`, `PollExchange_proofs`,
`ClockSelect`, `ClockDiscipline`, `DaemonShell` are the core of the daemon;
`ServerDispatch`, `ControlSession` what it does for others; `ConfigLoad`,
`RefclockManager`, `NtsKe`, `ControlQuery`, `NtpDig` and the modules about files
stand each for itself. The proofs about a module `M` are in `M_proofs`, those about
`ControlQuery` and `NtpDig` in `QueryTools_proofs` and those about `RefclockManager` in
`Refclocks_proofs`; each begins with its inductive invariant.

## 1. Inventory of the system

The daemon is one process. `DaemonEngine` (`core/daemon_engine.rs`) has no
clock and no sockets: `tick(now)` and `handle(packet, now)` change its state and
return actions, which `main.rs` executes (send, slew, step, panic). Everything
runs in the thread of the main loop, except threads that turn signals into
atomic flags, one thread for each NTS key establishment, and the parent process
that survives the fork for a moment. The interleavings are therefore those of
handlers, of popped timers within one tick, of packets in a network that loses,
repeats and reorders them, of signals, of devices that write while they are read,
and of an operator or a tool that edits files.

| component | state | operations | what makes it correct |
|---|---|---|---|
| associations and poll exchange (`daemon_engine.rs`, `ntp_proto.rs`, `ntp_peer.rs`) | peer table (poll exponents, reach register, filter, last originate time), requests waiting for an answer | poll, reachability and housekeeping events; server answer, kiss-o'-death; mode-2 packet | one poll timer per association for ever; an answer credits its own association, once; exponents stay in range |
| timer queue (`ntp_timer.rs`) | entries, next id | schedule, `pop_due` | nothing due is skipped or fires twice, however late the tick |
| clock selection (`ntp_proto.rs`) | flash bits, system peer, system offset | intersection, cluster, combine | believes the servers that agree, and only them |
| clock filter and discipline (`ntp_proto.rs`, `ntp_loopfilter.rs`, `daemon_engine.rs`) | eight samples per peer, `clock_set`, phase, frequency; the wall clock itself | add sample, filter, `local_clock`, `step_clock` | moves the clock towards the truth, by recent measurements, within the limits |
| daemon shell (`main.rs`) | signal flags, PID and drift file, the engine in force | start, fork, jail, `-w`, `-q`, loop, SIGHUP reload, SIGTERM shutdown | no signal lost, reload whole or not at all, what was learned is there for the next start, the process ends when told to |
| server side (`daemon_engine.rs`, `ntp_restrict.rs`) | restrictions, counters, MRU list, ephemeral associations | `handle_packet` for every mode | every packet counted once by its fate; ids never given twice |
| control protocol (`ntp_control.rs`, `ntp_monitor.rs`, `ntp_auth.rs`) | nonces, keys, system variables, log file | mode-6 commands | only the authorised change what is served; a nonce works once, while young |
| reference clocks (`RefclockManager`, `refclock_*.rs`, `parse.rs`) | driver state, partial reports, cached dates, connections | open, poll, read, close, reload | a report is a sample once, of the right date and of the present connection |
| NTS (`nts*.rs`) | key ring, cookies, both ends of a TLS stream | key establishment, seal and open cookies, rotation | both ends have the same keys; no end acts on a part; a cookie opens while its key is kept |
| configuration (`ntp_config.rs`) | place in the text, options, the engine being filled | scan, parse, apply | a line is the directive it names; what is summed up is what is applied |
| keys, leap seconds, statistics (`ntp_auth.rs`, `ntp_leapsec.rs`, `ntp_filegen.rs`) | tables, open handles, backups | load, reload, rotate | whole files or none; nothing lost before its time |
| tools (`control_client.rs`, `ntpdig_proto.rs`, `ntpsec-rs-*`) | fragments of an answer, attempts, the best sample | query, trace, dig | an answer put together is one that was given; the tools end |
| time types (`ntp_fp.rs`, `ntp_calendar.rs`) | none | Unix to NTP time and back, dates | the routines in use agree on the day (the engine's own does not, section 5) |
| codecs, OS wrappers, name resolution, release tooling | none worth a model | formats and I/O | round trips, which unit tests reach |

Interaction: the timer queue drives polls, reachability and housekeeping;
polls leave pending requests that answers consume; an accepted answer enters the
peer's filter and register, as does a reference clock's sample, of which every
tenth turn of the loop collects one per clock; housekeeping runs the selection
over all peers and the loop filter on its result; the loop filter's decision moves
the very clock that the timers and timestamps are read from; time packets and
control messages read, and a few change, the same engine; the shell replaces the
whole engine, built from configuration and key files, on a reload. The behaviours
that are hard to test are listed, line by line, under "hazards" in `PROJECT.json`;
in short: timers re-armed by their own handlers, late and duplicated answers,
full lists, exchanges that straddle a clock step, samples that survive the event
they describe, ties of interval ends, signals that arrive while an earlier one is
served, files that change or are half written between two reads, partial reports
kept between polls, streams cut anywhere, keys that rotate under the cookies they
sealed, answers assembled from pieces of several attempts.

## 2. Plan

Done, in this order: `RequestLedger` and `PollExchange` with their proofs;
`ClockSelect`; `ClockDiscipline`; `DaemonShell`; the server side and the control
protocol on one engine; the configuration; the reference clocks; NTS; the tools;
files and calendars; the proofs, first about what steps build up, then about what folds,
sorting and scans compute (selection, configuration, keys, leap seconds, dates and
sentences). Left:

1. `SymmetricPair`: two engines that poll each other in modes 1 and 2.
2. `ReachTiming`: the reach register with the real ratio of its period to the poll
   interval.
3. Proofs: `EventsOnce` for the clocks that send packets (section 6).

How the modules depend on each other: `PollExchange` composes associations, timer
queue and pending requests. `ControlSession` extends `ServerDispatch`, which
extends `AccessControl`, `MonList` and `AssocIds`: one engine, one `handle`.
`MCTables` also takes its configurations from `MCConfigLoad`. `ConfigLoad` extends `ConfigTree` and `AssocIds`; `RefclockManager` extends
`NmeaClock` and `SerialClocks`, the former `CivilDates`; `NtsKe` extends
`NtsRecords` and `NtsCookies`; `ControlQuery` extends `Fragments`. Each of the others sees
the part of the state its properties need: selection depends on an association only
through offset, distance and reachability (any change of them is an action of
`ClockSelect`), the discipline on the selection only through the filtered offset of
the system peer, the shell on the engine only through the file versions it was built
from, whether it is synchronized, and the frequency, the server on selection only
through the system variables it writes. `MCTables` and `MCQueryTools` put
independent parts side by side, one of them running in each behaviour.

## 3. The modules

### RequestLedger
What the poll exchange promises: questions `<<association, instant>>` are asked,
then answered at most once, or forgotten; each answer puts exactly one sample
into the filter.

### PollExchange
| TLA+ | code |
|---|---|
| `peers`, `timers`, `pending` | `DaemonEngine.peers`, `TimerQueue`, `pending_requests` |
| `firing` | the events `pop_due` returned, while the loop of `tick` goes through them |
| `sent`, `credited` | history: what was ever sent, what was ever taken |
| `Init` | `apply_config`: table, one poll per line due at once, reachability timer |
| `TickBegin`, `TickPoll`, `TickReach` | `tick`: pop; `TimerEvent::Poll`; `TimerEvent::Reachability` |
| `AcceptAnswer`, `RefuseAnswer`, `CrazyAnswer`, `IgnoreAnswer` | `handle_server_response`: accepted; stratum 0 or 16; offset beyond 1e6 s; no pending request matches |
| `Accepted`, `NextPoll`, `Bursting` | `accept_sample`, `poll_update` |
| `HandleSymPassive` | mode 2 in `handle_packet`: an ephemeral association |

The network is `sent`: any request ever sent may be answered at any later moment,
any number of times, which is loss, delay, duplication and reordering at once.
`Flip` is what `netaddr_to_sockaddr` does to an address (its bytes reversed).
Left out: packet authentication, everything of a sample but its size class, and poll
exponents of 32 and more, which the code accepts and gets wrong (section 5).

### ClockSelect
`Answer` and `FallSilent` change the table; `Select` is `run_selection`:
`Intersection` (`clock_intersection`, `ScanStep` one turn of its inner loop),
`Marked` (TEST5, TEST9), `Cluster`, `Combined`, `SystemFor`
(`update_from_peers`). The sort of the endpoints is a rank, the scan over them a recursive
function, the means and products folds of the library. Distances and offsets are
integers; the combined offset is a fraction. A server that never answered votes in the intersection too, with the
huge distance its zero reference time gives it; one that fell silent votes with
its last interval. The prefer flag is left out because nothing in the daemon
sets it.

### ClockDiscipline
One server. `err` is the server's clock minus the local clock, `Local` the local
clock the timers are compared with. `Ask`, `Lose`, `Arrive` and `Answer` are
an exchange that may straddle a move of the clock (`TwiceOffset`, `DelayOf`): the
kernel stamps an answer on arrival and the loop takes it from the socket later;
`HousekeepingDue` with `Unsynchronized`, `Panic`, `StepClock` and `SlewClock`
is the tick that runs the selection, `local_clock` and the execution of its
result, then shifts the reach register; `Reload` is the SIGHUP branch, which
makes a new engine with the options at their defaults. Left out: frequency, the
drift of the oscillator (a slew covers any part of its offset instead), more than
one request in flight.

### DaemonShell
The program counter `pc` follows `main`; `parent` is the forking process. `Start`,
`Fork`, `ParentWrites`, `Settle` and `InstallHandlers` are start-up with its
failures; `WaitTurn`/`WaitOver` the option `-w`; `LoopEnds`, `LoopGoesOn`,
`LoopTurn` the main loop, which a reference clock may keep in a read until it speaks again
(`stuck`, `ClockSpeaks`); `TakeReload`, `ReadConfig`, `LoadKeys`, `ReadExtraAndSwap` a reload,
between whose steps files may change and signals come; `PersistDrift`,
`CleanUp` the shutdown; `QueryTick`, `QueryTurn`, `QueryDone` the option `-q`;
`PanicExit` the exit from inside `execute_actions`; `Edit`, `Hup`, `Term` the
operator. `disk` tells the configuration, the key files it names and the file of `-k` apart,
since a fault in each has another effect. `drift` is the file that a start reads: from inside a jail
the same path is another file (`Saved`). `Readable` is what a jail or another user's rights do to
reading, `AfterRemoval` what they do to removing the PID file. Left out: lab mode, failing writes of the drift file.

### AccessControl, MonList, AssocIds, ServerDispatch
The engine as a server. `RestrictAction` is `RestrictList::check` over `Evaluate`
(the flags of all matching entries, or the family's default); an address with its
mask is the set of sources it matches. `HandlePacket` is `handle_packet` in the order
of its checks, `Outcome` its fate and `Bump` the counters; `PeersAfter` adds the
ephemeral association, whose id is `AllocateAssocId`; `PeerChanges` and `Select` are
an answer and what `run_selection` then does to the system variables. `WithNonce`, `VerifyNonce` and the MRU
functions of `MonList` are those of `core/ntp_monitor.rs`. Left out: the
authentication of time packets, and what an answer's timestamps are.

### ControlSession
`HandleControl` is `handle_control` on the same engine: `Refused` with
`RequiresAuth` and `AuthValid` the early returns, then `Write`, `Read`, `Mru` and `Nonce`
the commands. `ring` is the key store loaded, `logfile` what
WRITEVAR of the log names, `drawn` and `opened` the history of nonces, `writer` who
changed what is served last. Left out: the texts of variables, except that a
value parses or does not.

### ConfigTree, ConfigLoad
`BuildOption` and its parts give each directive its meaning over classes of words.
`ConfigLoad` steps through the text as the code does: `mode` says who asks the scanner
for the next token (the line, the arguments), because what a comment swallows
depends on it; `heads` is the history of the places where a directive was read; `Pieces` are the tokens a word falls into. Then `Apply...` applies one
option after the other to a new engine and `Finish` ends with the timers
`apply_config` always sets. `summary` is what `parse_config` collects beside the
options; of NTS files it keeps those of the first line, the engine those of the last line that names
both (`LastNtsFiles`). Left out: `includefile`, conversions of numerals.

### CivilDates, NmeaClock, SerialClocks, RefclockManager
`CivilDates` has the drivers' calendar routines and, as `TimecodeDays`, the engine's own. A driver is a function from its
state and the next line, byte or packet to state and sample (`NmeaStep`, `JjyStep`,
...); `RefclockManager` opens, polls, closes and reloads the clocks (`OpenAll`,
`BeginPoll`, `Read`, `HandleSample`, `EndPoll`, `CloseAll`, `Reload`), beside devices
that go on writing, are unplugged, raise pulses, close and accept connections or
write shared memory field by field, in the order of either mode (`WriterOrder`) and without ever
clearing its flag. A month of 14 or more makes two drivers panic (the form "wild"). A sample carries the report it was made of as
history. Left out: positions, signal quality, checksums other than right or wrong.

### NtsRecords, NtsCookies, NtsKe
Both ends' checks of a message, record by record (`ServerAccepts`,
`ClientAccepts`); the key ring and cookies (`AddKey`, `PruneKeys`, `GetKey`, `Seal`,
`Open`); and a key establishment over a stream that is cut anywhere, with a
stranger in place of either end, followed by protected requests (`Ask`, `Serve`,
`Receive`) while the owner rotates, prunes or binds the ring. Two halves of a record
are the cuts a stream can have. `Day` lets time pass; `at` is the history of when a cookie was sealed. Keys are opaque, a sealed cookie opens under its key
and identity only.

### Fragments, ControlQuery, NtpDig
`Fragments` is the collector of `control_client.rs`; `ControlQuery` the loop of
attempts around it and the tools over it, against daemons that change once and a
network that loses, doubles and delays; `NtpDig` the samples of ntpdig with a clock
that is off by some amount.

### KeyStore, LeapTable, StatsFiles, Timecodes
`KeyStore` (`KeySpec`): key files that are edited or generated while the daemon starts and
reloads; the loops over files and lines (`LoadFiles`, `LoadFile`) are recursive functions.
`LeapTable` (`LeapSpec`): the leap file as a sequence of lines that ntpleapfetch writes in place
while the daemon loads, asks and smears; the stable sort of the entries puts each at its rank. `StatsFiles`: the registry with its open handle,
rotation by date and by size. `Timecodes` (`TimeSpec`): the NMEA driver's and the timecode parser's
readings of the same sentences and fixed-width lines, date by date, and the calendar of
NTP times (`ntp_calendar`, `ntp_fp`), where an instant is a day and a second of it, since
its seconds are beyond TLC's integers. `DayNumber` is what they are compared with: the
days since 1970 by the years, the leap days among them and the starts of the months. A
fixed-width line is a sequence of two-digit groups; of two letters for one field the later
counts, as in the code's loop.

Type invariants are conjuncts of the modules (`TypeOK`) where the state is not plain
records of the constants' values. Only that of `PollExchange` is part of a run,
because bounds of exponents and registers are among its hazards; others are proved
(section 6), so that the runs are about what could be wrong.

## 4. The runs

| run | instance | shows |
|---|---|---|
| `poll` | two associations: two servers one of them iburst, a server and a symmetric peer, or the same server twice; a third, ephemeral one; two requests kept; polls every 1 to 4 s, under `FairSpec` | `TypeOK`, `OneTimerPerPeer`, `OneSamplePerRequest`, `CreditedByOwnServer`, `RefinesLedger`, and `DuePollIsSent`: what is due is sent, however late the tick |
| `select` | three servers, offsets 0, 3, 6, distances 1 and 3 | `FindsReference`, `SyncsWithTheBelieved`, `DroppedAreWorst`, `CombinedNearAgreement` |
| `discipline` | one server, initial error -4, 0, 1 or 4, limits 1 (step) and 3 (panic), 4 s | `FreshStepIsExact`, `MovedOnRecentAnswer`, `BoundedMoves` |
| `discipline_stale` (violation) | the same | `NoOvercorrection` fails: an offset already stepped is stepped again |
| `shell` | five command lines that between them use every option, two edits, signals at any moment, silent clocks, two frequencies, under `FairSpec` | `NoLostReload`, `ReloadAllOrNothing`, `ShutdownCleansUp`, `TermStops` |
| `shell_query` (violation) | `-q` | `QuerySetsClock` fails: `-q` exits without setting the clock |
| `server` | four sources of both families, three packets or messages of five mixes, ids up to 2, nonces that live 2 s, three key stores | `CountersBalance`, `AssocIdFresh`, `WritesAreAuthenticated`, `NonceOnce` |
| `refclocks` | each kind of clock, and a pulse source beside a serial clock; up to three reports, over the end of 2079 | `DatedRight`, `EventsOnce`, `FixOfThisConnection`, `LastWriteTaken` |
| `nts` | both ends ours, or a stranger with one of thirteen requests or eight answers; a ring of two keys, three added; two protected requests | `KeysAgree`, `WholeMessages`, `CookieLife`, `ReaderEnds` |
| `nts_age` (violation) | the same | `OldCookiesRefused` fails: a cookie opens at any age |
| `tools` | ntpq, ntpmon and ntptrace against three hosts that follow each other in a ring, answers of up to three pieces in three versions, one retry; ntpdig with two samples | `AnswerWhole`, `BestIsNearest`, `ToolEnds` |
| `tables` | configurations: every pair of some sixty lines, and triples with comments, quotes and repetitions; two configured key files and a given one with four contents; three leap files over ten days; statistics of every kind over the turn of a year and a leap day, eight lines; every date of three years from December 1969, 1999 and 2099 | `DirectivesAreTheLines`, `AssociationsServed`, `TwoReadingsAgree`, `KeysWhole`, `LeapWhole`, `KeptLongEnough`, `CalendarsAgree`, `SentencesAgree` |

Every property of a passing run has a mutant in `PROJECT.json`: a plausible bug in
one mapped definition under which TLC finds the property violated.

Bounds, and why they are enough:
- `MaxTime` (`PollExchange`, `ClockDiscipline`) stops the clock. A few seconds hold
  several polls per association, two reachability ticks, an overflow of the list
  of pending requests and answers that cross; a step, the stale sample that
  follows it, a panic and a reload. The theorems of section 6 hold for any value of
  these bounds, here and below, within the assumptions on the constants.
- `PendingCap` = 2, `ReachSize` = 4, `FilterSize` = 2 and `Period` = 2 scale 1000, 256,
  8 and 64 s down so that lists fill, registers empty and timers come round.
- `MaxPeers` = 3: one more than the configuration, so that one ephemeral
  association fits and a second does not.
- `N` = 3 is the smallest number at which two can outvote one. `MinClock` = 2 and
  a jitter limit of 7/5 (`JitterNum`/`JitterDen`) let both pruning loops drop
  servers; with the code's 3 and 9 the first needs 19 candidates.
- `MaxChanges` = 1: the table changes once between two selections. Every table is
  reached all the same, and the selection depends on the table alone, so more
  changes at a time reach no new outcome.
- `MaxEdits` = 2: one edit before and one during a reload. `MaxTurns` = 2: one turn
  of query mode for an answer and one to use it. `shell_query` has the one command line that shows its violation.
- `server`: `MaxId` = 2 with one configured server, so that ids wrap and run out;
  `NonceMax` = 2 and three nonces drawn, so that one is evicted; `RateCount` = 2. Three
  events are a nonce, its use and its second use, or three packets of one source.
- `refclocks`: `TicksPerDay` = 2 and two days, so that a sentence comes before and after
  midnight and the two-digit year changes its century; `MaxReports` = 3, the parts of
  a report in two pieces and one of the next; `MaxQueue` = 1, since a driver reads one
  report at a time. `DeviceLines` = 1 stands for 5.
- `nts`: `MaxKeys` = 2 and three keys added, so that the oldest is pushed out;
  `JarSize` = 2 stands for 8 cookies; `MaxDays` = 1: cookies of today and of a day that is past.
- `tools`: three pieces are a first, a middle and a last; `MaxSeq` = 3 wraps the sequence
  number; one retry is the tools' own.
- `tables`: `SizeLimit` = 1 line, `MaxBackup` = 4 and `SizeBackup` = 5 stand for 10 MB, 8
  (`FILEGEN_MAX_BACKUP`) and 9 (the last file `rotate_file` moves on); 1096 days hold a leap year, and 2100 is none.
- `CHECK_DEADLOCK FALSE` where the process, the connection or the tool ends, or the bound on
  events is reached: `discipline`, `shell`, `refclocks`, `nts`, `tools`, `tables`.

Fairness. `PollExchange!FairSpec` is weakly fair to `TickBegin` and to the handling
of popped events: the main loop of the daemon calls `tick`, takes at most one datagram
without blocking and sleeps a second, for ever, and `tick` runs its loop to the end. Nothing is assumed
of the network or of time. `DaemonShell!FairSpec` is weakly fair to `Proceed`, what
the process does whatever its servers answer, including the end of the 300 s it
waits for synchronization; nothing is assumed of answers (`WaitTurn`, `PanicExit`),
of the operator, nor of reference clocks: a turn may be stuck in a read for ever, which
`TermStops` excepts by its proviso. A thread that turned a signal into a flag is part of `Hup`
and `Term`. `RefclockManager!Spec` is weakly fair to the polling loop, not to devices,
pulses or connections. `NtsKe!Spec` is weakly fair to the server's thread only: clients,
owner and network may stop at any point. `ControlQuery!Spec` is weakly fair to the tool,
whose wait for a datagram has a timeout.

## 5. What the models found

Shown by a run, where a property that states what the repository says of the program fails:
- A step is applied again from the samples it was made of
  (`discipline_stale`; `core/ntp_loopfilter.rs:285`).
- Query mode never sets the clock (`shell_query`; `main.rs:876`).
- Cookies do not expire after a day, or at all (`nts_age`; `core/nts_cookie.rs:194`).

Met while modelling, where the models have the code's
behaviour and the properties say what is left:
- Poll exponents of 32 to 63 make the interval 0, so that a request is sent at every tick; these,
  unlike the rest, are left out of the model.
- iburst never bursts; the intersection believes a single server when none agree;
  survivors of clustering are not sorted; `-x` does not hold for the first update.
- The shell: under `-u` the PID file cannot be removed where only root may (`main.rs:707`), and under
  `--seccomp` the process is killed for trying (`core/ntp_sandbox.rs:84`); under `-i` the drift is loaded
  outside the jail and saved inside it (694); a reload ignores the faults of the `-k` file (552); a silent
  clock holds the loop against SIGTERM (603). A reload does not open the reference clocks again and
  drops `-x` and `-g`.
- Configuration: a comment behind a directive swallows the next line; `restrict default`
  is for IPv4 only; host names are skipped in silence; of several nts lines the summary and the
  engine may hold different files.
- Server: nothing records sources, so that nobody is ever rate limited; READ_MRU answers
  with one piece at most.
- Reference clocks: samples carry the poll's time and often nothing of the report's; GGA
  and GLL are a day early after midnight; a clean end of gpsd's stream spins, any object
  repeats its last fix; serial reads block the loop; of shared
  memory written in the order of mode 1, half of a report may be taken and the whole lost; a month of 14 or more panics in the jjy and
  hpgps drivers.
- NTS: the daemon's server has no cookie key; a silent client keeps its thread for ever.
- Files: a faulty key file is kept in part at start-up; leap seconds are announced until
  the file expires, and real files' totals are read as single seconds; size rotation
  moves the file under the open handle; ntpleapfetch compares NTP with Unix seconds.
- Tools: one failed sample of ntpdig discards the good ones; ntptrace does not look at
  strata.
- Time types: an instant before 1970 loses a second on its way to NTP time; the engine's routine for the
  days of a timecode is 59 days early before March 2000 and 400 years more after it.

Each is described under "findings", with the line of the documentation it differs
from where there is one.

## 6. What is proved

Eight modules hold proofs. Every invariant and every action property of a passing run is
stated by a theorem, as is the refinement; `EventsOnce` for all but clocks that send packets. A theorem holds for every value of the constants that the assumptions of its
modules admit (TLC evaluates those in every run); what a theorem needs beyond them is a
hypothesis of it, named in the table, and holds in the run's instance.

| module | theorem | states |
|---|---|---|
| `PollExchange_proofs` | `TypeCorrect`, `OneTimer`, `NoDoubleCredit`, `NoCrossTalk` | `TypeOK`, `OneTimerPerPeer`, `OneSamplePerRequest`, `CreditedByOwnServer` |
| | `Refinement` | `RefinesLedger` |
| `DaemonShell_proofs` | `ShellTypeCorrect` | `TypeOK` |
| | `HupNotLost`, `ShutdownOrderly`, `ReloadWhole` | `NoLostReload`, `ShutdownCleansUp`, `ReloadAllOrNothing` |
| `ControlSession_proofs` | `IdsFresh`, `CountersBalanced`, `OnlyAuthorsWrite`, `NoncesOpenOnce` | `AssocIdFresh`, `CountersBalance`, `WritesAreAuthenticated`, `NonceOnce` |
| `Clock_proofs` | `SelectTypes` | `SelectTypeOK` |
| | `SelectionFindsTheInterval`, `SelectionSyncs`, `ClusteringDropsTheWorst`, `CombiningStaysNear` | `FindsReference`, `SyncsWithTheBelieved`, `DroppedAreWorst`, `CombinedNearAgreement` |
| | `DisciplineTypes` | `TypeOK` |
| | `FreshStepsExact`, `MovesAreBounded`, `MovesNeedAnswers` | `FreshStepIsExact`, `BoundedMoves`, `MovedOnRecentAnswer` |
| | `CalendarsCountAlike`, `ReceiversReadAlike` | `CalendarsAgree`, `SentencesAgree` |
| `NtsKe_proofs` | `ActOnWholeMessages`, `CookiesHoldOurKeys`, `CookiesLive` | `WholeMessages`, `KeysAgree`, `CookieLife` |
| `QueryTools_proofs` | `AnswersWhole`, if `TextsAreSequences` | `AnswerWhole` |
| | `BestSampleNearest` | `BestIsNearest` |
| `Files_proofs` | `LoadTypeCorrect` | `TypeOK` |
| | `EveryLineIsRead`, `TablesFitTogether`, `OneReadingOfTheFile` | `DirectivesAreTheLines`, `AssociationsServed`, `TwoReadingsAgree` |
| | `ReloadedKeysAreWhole`, `LeapTableIsWhole`, `LinesKept` | `KeysWhole`, `LeapWhole`, `KeptLongEnough` |
| `Refclocks_proofs` | `ClocksTyped` | `TypeOK` |
| | `FixesAreOfTheConnection` | `FixOfThisConnection` |
| | `LinesUsedOnce`, if `LinesNumbered` | `SampledOnce`: `EventsOnce` for all but packet clocks |
| | `EventsUsedOnce`, if `LinesNumbered` and no clock sends packets | `EventsOnce` |
| | `SentencesDatedRight`, if `SentencesGiven` and `DatesGiven` | `DatedRight` |

Each proof has the same outline: an inductive invariant made of named parts, a lemma for
the initial states, one for each action or driver, one that a step keeps it, and temporal
steps at the end. What follows says why the properties are not inductive alone. The
invariants hold in the runs too, but are not part of them: they are proved.

What loops compute of data is proved as well where the property is about that. The library's
induction theorems take an operator as a parameter, which no prover here can instantiate;
instead a lemma names the set of the numbers up to which the statement holds (`Climb`), or
takes the least element of a set of counterexamples (`LeastNat`, `SmallestSet`). `Iteration` and
`FoldExists` show that the recursive definitions of the model and of the library have the function
they define; `FoldStep`, `SumOf`, `SumUpTo` then take one element out.

### The poll exchange

The theorems hold for every table, address mapping, cap, interval and time bound.
Assumptions: servers are addresses and `Flip` maps addresses to addresses; a configuration fits the table; intervals and
periods are positive; the daemon starts late enough for both kinds of timer to be
due, which the wall clock guarantees. The network, the number of associations and
the interleaving are unrestricted.

None of the four safety properties is inductive alone; `IInv` is. That an answer is credited once needs that a credited request
is no longer pending (`PendingInv`), hence that no two pending entries are equal,
hence that one association never sends two requests with one transmit time
(`SentInv`). That needs its next poll to lie after all its requests, which holds
because it has one poll timer (`OneTimerPerPeer`) that its own handler re-arms at a
later time, after it has left the queue (`TimersInv`). Cross-talk is excluded by
`SentInv` and `CreditInv`, which tie requests and credits to the address of the row
and rest on rows never changing theirs. There is one lemma per action; answers
share `Consume`. For the refinement, a poll is `Ask` (dropping the oldest request is
the `given` of the same step), an accepted answer is `Answer`, a refused or crazy one
`Forget`, everything else a stutter.

### The daemon shell

That no SIGHUP is lost is about the instant at which a reload has read both files, while
edits, signals and the two reads interleave. `HupInv` says what holds in between: a SIGHUP
newer than the last look at the files is still flagged, or the reload that will look has
begun; `VersionsInv` that nobody has seen a version the disk has not had yet, and that
the version in hand between the reads is the one looked at, read without an error, with keys no
older; hence `ReloadAllOrNothing`, which speaks of the configuration and the key files it names and
not of the file of `-k`. For the shutdown, `FreqInv`
ties the frequency of the engine to what was learned and, outside a jail, to the drift file, `PidInv`
the PID file and the waiting parent to the options, `StatusInv` the exit status to the
process having ended, `QueryInv` query mode to never reaching the jail. `ShutdownCleansUp` excepts jails
and, for the PID file, other users, where it does not hold (section 5). Assumed: any
set of command lines, the frequencies contain 0 and a query lasts a turn.

### The control session

`FreshId` is the lemma about `allocate_associd`: wherever its counter stands, the id it
gives is unused, since the first of the free candidates is found by the well-foundedness of
the naturals. `TableInv` keeps the counter and the rows in range. `NonceOnce` needs to know
that a nonce in the cache was drawn at the time it carries and has opened nothing yet
(`CacheInv`), and what was opened was drawn (`OpenedInv`): then the reuse of a nonce
finds the cache without it. `CountersBalance` needs only the types of the counters; its
proof is that each of the paths through a packet counts it once. Assumed: key 0 is no key, at
least one id, traffic made of the packets and messages.

### The selection

For every number of associations and every offset and distance. `FindsReference` compares the
code's scan over sorted endpoints with a definition that knows neither: the lowest interval
on which as many servers agree as on any. The argument: ranks put the endpoints in the strict
total order `Before` (`EndpointsSorted`), where each server's three stand in their order;
`ScanInv` says what the scan knows after k endpoints (how many intervals are open, the first
stretch that qualifies), so that it finds the first stretch that qualifies (`ScanFinds`); a stretch
is an interval that enough servers agree on (`StretchAgrees`), and such an interval is a stretch
(`AgreementStretches`), by way of the last endpoint that lies before a point (`FrontExists`), at halves between integers.
`ClusterKeeps`: each pass of pruning and each drop of the worst keeps the best, and the
loops end at `MinClock` servers. `CombinedNear`: every weighted offset is within its own distance of
the interval, and the weight times the distance is the same product for all. The inductive invariant
`SelectIInv` is what the last selection found, while nothing has changed since. Assumed
(`SelectAssumption`): positive distances, integer offsets, positive limits.

### The clock discipline

A step is exact only if the sample it is made of was measured since the last move, so
`FreshInv` follows freshness from the request in flight to the datagram and the filter: what is fresh
saw the error as it is. That the clock is moved only while an answer lies within the
register (`MovedOnRecentAnswer`) rests on the arithmetic of the shift register, `SilenceInv`: after n
silent ticks the register is a multiple of 2^n below its size, hence 0 once n is the width.
The powers of two it needs are obtained by counting subsets, since nothing about `^` is
known to the provers. Assumed: the register's size is a power of two, errors and limits bounded.

### Network time security

`WholeMessages` needs `MessageInv`: which end has started and what the other end may have put
into the stream so far, cut anywhere. `KeysAgree` needs in addition that the answer our
client accepts is the one our server made, with cookies of the keys both exported.
`CookieLife` says that a protected request is refused only if its key was pruned or pushed out by
`MaxKeys` later ones, its number was given again, or the identity changed. It needs `RingInv` and `AreLatest`: the ring holds the
keys added last, in their order and with their numbers, as many as fit, and what is missing
was pruned; age plays no part in it; `CookieInv` ties each cookie to the number of its key. `OpenedUnlessOutlived` is the
lemma that then finds the key in the ring. Assumed: ring and jar hold at least one, requests and answers are
sequences of records.

### The tools

`AnswerWhole` is about what pieces of several attempts, duplicated and late, are put together
into. `NetInv` says that a datagram of an earlier question has another sequence number and
each other datagram is a piece of an answer to the question asked now; `GotInv` that what was
collected are pieces of one status word, each in its place. Then pieces without a gap from 0 to the
end are the text (`CutFrom`). Two consecutive numbers must differ, so `MaxSeq` > 1. `TextsAreSequences`
says that what a daemon would answer is a sequence or nothing. For `ntpdig` the invariant is that each sample kept
is as near to the truth as it promises, and the best is one that promises least.

### The configuration

For every vocabulary and every set of texts. `LoadTypes` says where the scanner stands and what
options it has built; of all directives only a reference clock's address makes a clock. `Applied`
says of n options applied what a summary of those n options says, which gives
`TwoReadingsAgree` when n is all of them: of nts the engine holds the files of the last line that
names both, and the summary the same unless a line after the first names both. `Served`: poll timers stand at the places of the servers in
the table, every clock is in the manager once, under the association of the first line that names it;
each option adds to both or to neither. `ReadInv` says which directives have been read when
the scanner stands at a position, line by line: the first keyword of each line before, unless the line
is lost to a comment. It is stated of texts without quotes, as the property is, because a quote
may hide lines. Assumed: texts are made of the words and marks, and the tables that give words
their numbers, clocks and spelling are tables of words.

### The key and leap files

Keys: `Reads` says what the first n lines of a file add to a store (no key they do not give, and, if
none was faulty, the first of each id), `FilesRead` what the first n files do, and `KeysInv` that
after a reload the store is that of the files as they were read, whatever has been written since. Assumed: files are
sequences of lines, at most one is given on the command line, trusted ids are numbers.

Leap seconds: `LeapInv` says that the table is empty or what was loaded of a part of one published file.
Sorting by ranks loses and adds no entry; a hash admits all lines or none; and an added second
is announced and smeared in time if no earlier one is removed, because the entries are looked
through in their order. Assumed: published files are sequences of lines, gaps and smearing
have natural lengths.

### Statistics files

A line is lost when its file is rotated out. The invariant: a line is in a file whose number is at
most one more than the rotations since it was written, or as many rotations have passed as
there are backups. One more, because a rotation by size leaves the handle on the file it has
moved to number 1, where the next lines go. A step rotates, writes and rotates again, so
the invariant is stated of the files and the handle as a record and each of the three keeps
it. Assumed: `MaxBackup` <= `SizeBackup` + 1, as with the code's 8 and 9. What
`rotate_file` does to the names is written in closed form, not as the code's loop, since a theorem
cannot unfold a loop; the run compares lines and files, not the loop's steps.

### Dates and sentences

`CalendarsAgree` holds of every date from the year 1 on, for every routine but `TimecodeDays`, the
engine's own, of which it states the error: 59 days, and 146097 for each era of 400 years after the fourth
(`EngineStrays`). All are compared with `DayNumber`:
those that count from the first of March (`MarchMonth`, `MarchDay`) by one formula for the start of
a month, those that add up years and months by induction over the sums (`SumUpTo`), and the way
back, `CivilFromDays`, by the eras of 400 years: a day of one is so many centuries, spans of
four years, years and days into it, from which the code's divisions find its year
(`EraFound`). The one invariant is
`OnCalendar`: the date is valid and its number is `DayNumber`; that tomorrow's is again is what
counting a day means. Times are carried through NTP time with the second lost before 1970. Assumed
(`TimeAssumption`): a walk starts at such a date, clocks show an hour below 24 and at most 60
minutes and seconds, `Bad` and `Empty` are no values of fields.

`SentencesAgree` adds `LineInv`: the line of now is a sentence about this date, whatever is wrong with it,
or a line printed in one of the configured formats. `ReadersCompared` compares the two
readers kind by kind. For a fixed-width line, the letters of a format have separate groups
(`WidthsGrow`), what is printed for a letter stands in its groups (`PrintedGroups`), and is read from
there (`FieldRead`), so that a format in which no two letters set one field (`Sound`, assumed
where it is the only format) reads what it printed; formats that share a list have no such promise.

### The reference clocks

`ManagerInv` has three parts: how far a poll has come (`Polled`), the samples read and not
yet handled, at most one of each clock passed and all with the time of this poll (`Waiting`),
and per gpsd clock the connection its fix is of (`Connections`). The others build on it.

Used once: `LineOk` says that the lines in a receiver's queue are numbered in order above all
those a sample was made of, kept parts of a JJY report included; `PulseOk` the same
of the sequence number of pulses. `LinesNumbered` is the hypothesis that a receiver writes
one line at a time with a number of its own. Trimble's and Oncore's packets are left out: of which bytes
a sample may be made depends on what the bytes say, so that for them `EventsOnce` is the run's.

Dated: `DatedRight` says that the time the engine takes from an NMEA clock is right, or off by
whole days if the sentence carries no date. Dates with two digits, and the year cached from an earlier
sentence, can be wrong; the reason that no wrong year is taken is that it is off by more than
the limit on offsets. `DatedInv` orders what this rests on: queued sentences are in the order
they were written, each of its day; the cached date is from before all of them and before the poll of
a clock not yet passed; a waiting sample is right or too far off. Four lemmas are about
the calendar as the code computes it: `Eras`, `YearsApart`, `CenturiesApart` and `YearShown`, by
which a wrong year is off by at least 365 days and a wrong century by at least 36524.
Hypotheses: `SentencesGiven`, receivers show the day it is in every sentence that is good
(not in void and damaged ones), and `DatesGiven`, the calendar's days follow one another, the offset limit is below 364
days, and the clocks are read for less than a century. Without the first, a receiver shows a
wrong day, against which the driver has no defence and the property no meaning.

## 7. What is only checked, and what is not modelled

Only model-checked:
- `DuePollIsSent`, `TermStops`, `ReaderEnds`, `ToolEnds` and `LastWriteTaken`: liveness under
  fairness and `ENABLED` are out of the prover's reach.
- `EventsOnce` for the clocks that send packets, as said in section 6.
- The runs marked as violations: each is one counterexample.

No module uses a `RECURSIVE` operator.

Not modelled, within modelled components: authentication of time packets and of
answers, the frequency arithmetic of the loop filter (floating point), the lab mode of the
daemon, included configuration files, failing writes of drift and statistics files,
positions and signal quality of receivers, the text of variables and reports. Not to be
modelled: packet codecs and fractions of a second, wrappers of system calls, name resolution and the
signing helper, the tools that print what they are given or do one system call
(`ntpfrob`, `ntptime`, `ntpviz`, the loggers, ...), and the build tooling: they keep no state
that several steps could bring out of order; their correctness is that of single calls,
which tests reach.

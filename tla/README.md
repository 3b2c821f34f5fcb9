# pg-guard: TLA+ models, model checking and proofs

pg-guard supervises one PostgreSQL server per node and keeps two nodes, a
primary and a standby, in a high-availability pair. This directory holds TLA+
models of its core, translated from `src/src/*.go`, the TLC configurations that
check them on small instances, and TLAPS proofs of the main safety properties
for every value of the constants.

## The system and its parts

| Part | State | Operations | Interacts through |
| --- | --- | --- | --- |
| Reaper and command runner (`reaper_linux.go`, `runcmd.go`, `child.go`) | `reaper.waiters`, its mutex, the signal channel, the kernel's process table | spawn, register, reap all, deliver an exit code, wait directly (`runBackupPipe`) | SIGCHLD, pids, one channel per child |
| Main loop, supervisor, handover (`main.go`, `supervisor.go`, `handover.go`, `api.go`, `state.go`) | `currentChild`, `postgresRunning`, `restartPending`, `shutdownInProgress`, `maintenanceActive`, ... | the cases of the select loop; shutdown, reboot, switchover, maintenance, start, rejoin; stop, kill, ask the peer to promote | `handoverRequests` (unbuffered), `exitRequested` (capacity 1), termination signals, atomics the handlers write too |
| Crash-restart budget (`main.go`) | `crashTimestamps` | crash, verdict, backoff, restart, exit | the main loop |
| Failover monitor (`failover.go`) | `unhealthySince`, `failoverPromoteDeadline`, `rebootSuppressUntil` | probe, count down, withhold, promote | the peer's `/health` and `/status`, the reboot notice, `pg_promote()` |
| Cluster of two (`bootstrap.go`, `rewind.go`, `peer.go`, `metrics_server.go`) | both data directories and roles | bootstrap, clone, rejoin, start, promote, hand over | what each reads in the other's `/status` |
| State file (`statepersist.go`) | counters in memory, the file, its temporary file | load, count, snapshot, write, rename | every goroutine that counts |
| Backups (`backup.go`) | `backupInProgress`, the backup directories, the last attempt | trigger, role check, `pg_basebackup`, record, prune | scheduler and API goroutines |
| pg_hba.conf, roles, database (`bootstrap.go`, `setpassword.go`) | a file, the rules postgres has loaded, SQL objects | bootstrap, upsert a line, reload, create; `-set-password` | startup, promotion, the monitor's refresh, a process of its own |
| Metrics, status, text file (`metrics*.go`, `textfile.go`) | counters of the other parts | format | HTTP, a file |
| Windows service (`service_windows.go`) | a second copy of the main loop | start, stop by a control, exit | the service control manager |
| Configuration, TLS, authentication, CLI, logging | none | parse, filter, forward | - |

What is hard here: HTTP handlers, the scheduler, the monitor and the main loop
run concurrently and share atomics; every decision about the other node is made
on an answer that may be stale when it is acted on, or that hides the role because
the database did not answer in time; postgres, pg-guard or a node
can die between any two steps; external commands fail half way; timeouts race
late answers. `PROJECT.json` lists these hazards at their lines.

What makes the parts correct: an exit status reaches the caller whose child
ended (reaper); never two postgres on one data directory, never one left behind,
every request answered (main loop); the restart limit is a true rolling limit
(budget); no promotion without a whole timeout of silence, and one in the end
(monitor); no second primary and no lost database (cluster); a crash never costs
the state file (state file); backups do not overlap and pruning never takes the
one that matters (backups); pg_hba.conf loses no line, a set password is not
undone and the replication grant follows the peer (set-up).

## Modules

Each module's variables carry the names of the Go variables where there is one;
"history" variables record what the properties speak of and are read by no
action's guard. Most of them forget: what an exception names (a SIGKILL not
confirmed, decisions that overlapped, a race on a file) ends with its effect, so
that the property holds in full again from there on. Operators called `Mut...` are wrong variants of the definition
that follows them, kept to show that the properties notice them; no
specification uses them.

* **Reaper** - the kernel's process table (pids are reused as soon as a zombie is
  collected, pending SIGCHLDs coalesce), the reaper goroutine, and the three
  kinds of call sites: watched (the supervisor's postgres), logged
  (`runLoggedCommand`: streams to EOF first) and direct (`runBackupPipe`). The
  mutex is explicit: `trackChild` holds it from the fork to the registration.
* **ExitMailbox** - the abstract specification of the reaper's tracked calls: one
  mailbox per call, filled once with its own child's exit code and emptied once.
  Processes, pids and signals do not occur in it. `Mailboxes` in Reaper is the
  refinement mapping: a call's child is "running" until its process has an exit
  status, "ended" until the call has returned, and "taken" then.
* **MainLoop** - one pg-guard process. Every wait of the main goroutine (select,
  start, check the peer, stop, kill, promote, rejoin) is a state, and handlers go
  on between them. With `cfg.service` it is the Windows service, whose `Execute`
  repeats the loop: no control reaches it while it starts, and it drops the exit
  code of the signal path. What the peer, a tool or the disk answers is a free choice, as
  is whether a timer fires first. The budget's verdict is free; RestartBudget
  says which one is given.
* **Supervision** - the abstract specification of MainLoop: what pg-guard promises
  about the one postgres, without the loop, channels, timers and handover. A
  request takes effect at one moment between asking and answer; a granted stop
  stopped an instance and a granted start started one; a refusal changed nothing,
  except that a stop whose peer did not take over is reported as an error; a
  restart owed for a crash and a granted start exclude each other; after a signal
  nothing is started. `Abstract` in MainLoop is the refinement mapping: `owed` is the
  pending restart or one being made, `answer` is "stopped" between the local stop and
  the peer's promotion.
* **RestartBudget** - `recordCrashAndCheckLimit` with an explicit clock; crashes
  may share an instant. It is compared with definitions over the whole history.
  A crash within the limit counts as a restart granted. The granted restart may fail,
  and pg-guard then exits after a single crash (`main.go:303-306`): `exited` keeps the
  reason apart. A start by hand that fails leaves things as they are, unless
  `sup.start` itself fails in `startPostgres`, which is fatal.
* **FailoverMonitor** - one pass of the monitor's ticker takes several steps,
  between which the peer, the local postgres and the API go on. Clock values are
  relative to now (an elapsed time saturates, a deadline counts down to 0), so
  the state space is finite without a bound on time. `pg_promote()` succeeds on a
  standby whose database answers, and may fail otherwise.
* **Cluster** - both nodes: data directory (empty, primary, standby), which
  `initdb` its database comes from, and where the main goroutine is. A decision
  that reads the peer's status and the act it leads to are separate steps. `Status`
  is the set of the answers that may come: a node whose postgres runs, as primary
  too, may say "unknown" (a ping or a role query that failed, `metrics_server.go:158-168`)
  or answer too late (`peer.go:27`). Nodes are lost at any moment and come back. Under `best-effort` a handover does
  whatever it does under the other policies, so the passing run uses it.
* **StatePersist** - inodes and names: rename moves a name, an open descriptor
  keeps the inode; a write over a longer text may leave its tail. A snapshot is
  read in one step, and the counters of one goroutine are one number. Opening,
  writing and renaming may each fail, which leaves the writer owing the save.
* **SavedCounters** - the abstract specification of the state file: counters that
  are saved in one atomic step and survive every death of pg-guard; saves that
  overlap spoil this until one has had the file to itself. Temporary file,
  descriptors and inodes do not occur in it. `Counters` in StatePersist is the
  refinement mapping: the save is the rename of a `persistState` that was alone;
  `saved` is what `loadPersistedState` would read, `due` who is in
  `persistState` or failed to write, `spoilt` the race.
* **Backup** - the directory destination: triggers, the compare-and-swap,
  `pg_basebackup` (whose directory is named after the second, so a second backup
  in the same second fails and leaves the first alone), the record of the last
  attempt, and pruning, which run after the guard has been given back.
* **BackupShelf** - the abstract specification of the backup directory: a shelf of
  good backups, one written at a time, each newer than all on the shelf, and none
  taken down but for a newer one that stays. `Shelf` in Backup is the refinement
  mapping: whoever is between the compare-and-swap and its deferred reset writes,
  the complete directories are the shelf; the rest of the directory, the clock and
  the records do not occur in it.
* **NodeSetup** - pg_hba.conf as three parts (initdb's lines, the replication grant,
  the application line) and everybody who rewrites it: bootstrap,
  `ensureRoleAndDatabase` after startup or promotion and from the monitor's tick,
  and `-set-password`. `hbaUpsertLine` is a read, a truncation and a write, each a
  step; the reload is another. A write over another writer's leaves junk where
  the longer text was. The role and the database, which follow the same code, are
  one variable; the configured password is the one in force.
* **MCReaper**, **MCMainLoop** - values of the constants for TLC. The other modules
  are checked directly.
* **ReaperProofs**, **MainLoopProofs**, **RestartBudgetProofs**,
  **FailoverMonitorProofs**, **BackupProofs**, **StatePersistProofs**,
  **ClusterProofs**, **NodeSetupProofs** - the theorems.

The modules stand side by side: MainLoop leaves open what RestartBudget,
FailoverMonitor and Cluster decide, and Reaper is below all of them (a child's
end in MainLoop is a delivery in Reaper).

## Runs

| Run | Module, configuration | Checks | Distinct states |
| --- | --- | --- | --- |
| `reaper` | MCReaper, `MCReaper.cfg` | a tracked caller gets its own child's code (`TrackedResultIsTrue`), no exit is dropped (`NoLostExit`); the refinement `ImplementsMailboxes`; every zombie is reaped, every tracked call returns | 57 thousand |
| `reaper_direct` | MCReaper, `MCReaper_direct.cfg` | refutes `EveryResultIsTrue` | - |
| `mainloop` | MCMainLoop, `MCMainLoop.cfg` | `AtMostOnePostgres`, `RestartGuard`, `NoPostgresLeftBehind`, `FlagsNeverStick`, `MaintenanceFlagFollows` and the refinement `ImplementsSupervision` under twelve configurations and, as a service, two | 1.7 million |
| `mainloop_live` | MCMainLoop, `MCMainLoop_live.cfg` | `SignalTerminates`, `HandlersReturn`, `CrashRestarts` | 11 thousand |
| `mainloop_refusal` | MCMainLoop, `MCMainLoop_refusal.cfg` | refutes `RefusalStopsNothing` | - |
| `budget` | RestartBudget, `RestartBudget.cfg` | `RollingLimit`, `GivesUpLate` | 12 thousand |
| `failover` | FailoverMonitor, `FailoverMonitor.cfg` | `PromotesOnlyAfterTimeout`, `CountdownHonest`, `NoticeWithholds`, `LostPeerIsReplaced` | 72 thousand |
| `cluster` | Cluster, `Cluster.cfg` | `SplitBrainIsUnseen`, `DataSurvives` | 212 thousand |
| `cluster_restart` | Cluster, `Cluster_restart.cfg` | refutes `RestartNeverSplits` | - |
| `state` | StatePersist, `StatePersist.cfg` | `FileNeverTorn`, `FileCatchesUp` and the refinement `ImplementsSavedCounters` | 246 thousand |
| `backup` | Backup, `Backup.cfg` | `RunningBackupKept`, `PrunedIsSuperseded`, `PruneIsThorough`, `AttemptHonest` and the refinement `ImplementsBackupShelf` | 3.1 million |
| `setup` | NodeSetup, `NodeSetup.cfg` | `HardenedStays`, `RulesInEffect`, `FileIntact`; `GrantHeals` | 1.4 million |

The passing runs also check their module's `TypeOK` (`mainloop` for MainLoop);
RestartBudget's and StatePersist's are theorems only, as are the reaper's
`NoStaleWaiter` and the backups' `OneBackupAtATime`.

### Bounds

* Reaper: two pids and three calls, so that a pid is reused while another call is
  in flight, and an orphan can hold one. Every process ends in the same way: a
  code that goes to the wrong call can do so while that call's process runs.
* MainLoop: two clients (interchangeable, hence the symmetry, used for safety
  only) and `MaxStarts` = 2 postgres instances: a second instance is what the
  properties are about, and with the bound reached every start fails, which the
  code has to survive as well. The liveness run has one client, who makes request
  after request.
* RestartBudget: limit 2, window 3, ten instants, backoff 0: the window slides
  past crashes on and off its edge, several at one instant.
* FailoverMonitor: an interval that does not divide the timeout, a grace period
  longer than the timeout. No bound on time.
* Cluster: two nodes as in the code; `MaxInitdb` = 2, a second one being what
  must not happen by accident. No bound on crashes.
* StatePersist: two writers, counters up to 3, over any number of restarts.
* Backup: two triggers, five seconds, `Retain` 3 and one `pg_basebackup` killed
  before it cleans up. The bounds are tight: `PrunedIsSuperseded` fails with
  `Retain` = `MaxKills` + 1, since one unfinished directory can be the running
  one's and the others those of killed ones.
* NodeSetup: two addresses (the present one and a stale one), one caller of
  `ensureRoleAndDatabaseBlocking` beside the monitor and `-set-password`, so that
  three writers overlap; two such calls and two mishaps (a stop, crash, re-clone,
  move of the peer, failed write or reload) in any order. The monitor's refreshes
  are not bounded. The node is bootstrapped with trust, the mode that
  `-set-password` is there to leave.

StatePersist's run switches deadlock checking off because pg-guard may stay down
once its counters are at their bound, NodeSetup's because a postgres that finds a
torn pg_hba.conf never starts again.

### Fairness

* Reaper: weak fairness of the goroutine's own steps and of the delivery of a
  pending signal; strong fairness of taking the mutex, which Go's `sync.Mutex`
  guarantees (a waiter is handed the lock after a millisecond). A stream reaches
  EOF once its process has ended.
* MainLoop: weak fairness of the work in hand (the waits for the peer and for
  postgres have timeouts; `initdb`, `pg_rewind` and `pg_basebackup` have none and are
  assumed to end);
  strong fairness of each case of the select, which Go chooses among the ready
  ones at random; weak fairness of a handler's return. Nothing is assumed of
  clients, signals, crashes or the peer.
* FailoverMonitor: the clock goes on and the monitor's steps happen (each query
  has a timeout). Nothing is assumed of the peer or of the database:
  `LostPeerIsReplaced` speaks of behaviours in which both settle.
* NodeSetup: a writer's steps happen (each has a deadline) and the monitor's ticker
  keeps firing, so `GrantHeals` is about `PG_GUARD_FAILOVER_MODE=automatic` with a peer
  configured: otherwise no monitor runs (`failover.go:22-25`) and nothing repeats the
  refresh that a promotion could not make. Nothing is assumed of the peer, postgres or an operator;
  `GrantHeals` speaks of behaviours in which postgres stays up as primary and the
  peer keeps an address.

## Where the code and its documentation differ

Three runs refute a statement made in the repository; `PROJECT.json` quotes each.

1. `reaper_direct` - `runBackupPipe` waits for its children itself, beside a
   reaper that collects every child: a piped backup that succeeded can be reported
   as failed (ECHILD).
2. `mainloop_refusal` - under `require-switchover` the local postgres is stopped
   before the peer is asked to promote, so a refusal can leave no primary.
3. `cluster_restart` - a peer that is starting says its role is "unknown", which
   the startup check takes for "not primary": two former primaries that start
   together both come up.

The modules state ten more that TLC refutes at once when they take the place of
the property of a run named here:

| Statement | Try it in | What happens |
| --- | --- | --- |
| `StopIsNotACrash` (PROPERTY) | `MCMainLoop_refusal.cfg` | the child exits just as the timeout fires, the kill fails (`handover.go:215`), and the exit of a postgres that was asked to stop is taken for a crash and postgres restarted |
| `MaintenanceFlagHonest` (INVARIANT) | `MCMainLoop_refusal.cfg` | a start served before `handleMaintenance` sets its flag (`api.go:219`) leaves it set with postgres running |
| `ShutdownFlagHonest` (INVARIANT) | `MCMainLoop_refusal.cfg` | one request's deferred reset clears the flag of another (`api.go:148`) |
| `RebootSignalComesBack` (INVARIANT) | `MCMainLoop_refusal.cfg` with `Configs <- AllConfigs` | a signal in maintenance or in a crash backoff exits 0 (`main.go:449`) |
| `GraceIsKept` (PROPERTY) | `FailoverMonitor.cfg` | a tick between the reboot notice and the peer's going down finds it healthy and clears the grace period (`failover.go:98`, against README.md:588-592) |
| `SetPasswordTakesEffect` (PROPERTY) | `NodeSetup.cfg` | a second `-set-password` after one whose reload failed finds the file up to date, does not reload (`bootstrap.go:359`) and reports success while trust is in effect |
| `NeverDowngrades` (PROPERTY) | `NodeSetup.cfg` | an upsert of the grant that read the file before `-set-password` wrote it brings trust back |
| `NextTickFixesIt` (PROPERTY) | `NodeSetup.cfg` | after a failed reload every later tick finds the file up to date and postgres keeps the stale grant (`bootstrap.go:323`) |
| `BootstrapIsFirst` (PROPERTY) | `Cluster_restart.cfg` with `MaxInitdb = 2` | a clone that failed after the directory was emptied (`rewind.go:90`) makes the node bootstrap beside a peer that has the data |
| `RetainKept` (PROPERTY) | `Backup.cfg` with `Retain = 2` | unfinished directories count as backups (`backup.go:228`) |

The passing runs say how far each goes. `SplitBrainIsUnseen` names the ways to two
primaries that there are without an operator's `force=true`: decisions that overlap
in time, and a decision on an answer that hid the primary. The latter needs no second
failure: a primary with a database that is slow or refuses the role query says
"unknown", with which a start of the peer or `POST /api/promote` goes ahead
(`main.go:417`, `api.go:112`), and one whose `/status` takes longer than 2s for a whole
`PG_GUARD_FAILOVER_TIMEOUT` is replaced by the monitor though its `/health` answers
(`failover.go:143-149`). `DataSurvives` names the only ways to a lost database,
`GivesUpLate` that a crash ends pg-guard with the limit exceeded or with the granted
restart failed,
`FileNeverTorn` and `FileCatchesUp` that only a race between two `persistState`
calls harms the state file and that the next undisturbed call repairs it,
`AttemptHonest` that only crossing attempts are misreported,
`MaintenanceFlagFollows` and `FlagsNeverStick` how far the flags can be trusted,
`HardenedStays`, `FileIntact` and `RulesInEffect` what the unlocked rewriting of
pg_hba.conf keeps short of an overlap, and `GrantHeals` that the monitor repairs
every grant that a lost reload or an unreadable file does not keep from it.

## Proofs

The theorems hold for every value of the constants that satisfies the modules'
named assumptions (which TLC evaluates in the runs). Each rests on an inductive
invariant `IInv`, stated in the component's module and checked with TLC first.

* **Reaper** (any calls, pids and statuses): `TrackedTruth`, `NoExitLost`,
  `WaitersFresh`, `TypeCorrect`, and `ReaperImplementsMailboxes`. `IInv` adds `LockDiscipline` (the reaper is in its
  loop, or a call between fork and registration, exactly when it holds the mutex)
  and `ProcessTable` (who owns a pid and how its process ended agree with what
  the call knows). Without the lock a child could end, be collected and its pid
  be reused before its waiter is there. In the refinement proof a fork is the
  mailbox's `Begin`, a process's end its `End`, the return of the call its `Take`;
  the reaper's rounds, the signals and the reuse of pids show in no mailbox, which
  takes `IInv` and `RunningNotEnded` (a process that runs has given its call no status).
* **MainLoop** (any clients, configurations, number of starts): `SinglePostgres`,
  `RestartNeverRaces`, `CleanExit`, `FlagsCleared`, `MaintenanceFlag`, `TypeCorrect`, and
  `MainLoopImplementsSupervision`. `IInv` adds what each waiting place
  knows: `LoopKnows` (no child while starting, the child being stopped is the
  current one or none), `OnlySupervised`, `RequestInHand` and `ExitDueStopped`. The
  exceptions in the statements are the code's own, and each is tied to the instance
  it is about: one that outlives its unconfirmed SIGKILL, until it ends
  (`unconfirmed`); one that was started with an exit already due, until it is
  stopped (`lateStart`); and a signal that arrives before pg-guard asks to be told of
  signals. `crossed` ends when the maintenance flag is cleared. The flags need
  `MaintenanceQuiet`: once a maintenance is answered nothing but a request starts
  postgres. The refinement proof takes each action to the step of Supervision it
  is (a launch for a client to `Start`, `StopExited` with a hand-off to `Stop`, the
  answer behind it to `Conclude`, ...) or to a stutter; `LoopServes` (for whom the
  goroutine works at each place, and on what) is what makes the abstract guards
  hold.
* **RestartBudget** (any limit, window, backoff): `LimitIsRolling`, `NoEarlyExit`,
  `TypeCorrect`. The argument is that pruning forgets nothing that could matter
  again: time does not go back (`Chronological`) and what was dropped is older
  than the window (`ForgottenIsOld`). `RestartOwed` ties a pending restart to the last
  crash, so that an exit for a restart that failed is one that had been granted.
* **FailoverMonitor** (any interval, timeout, grace): `CountdownCorrect`,
  `TimeoutRespected`, `NoticeRespected` (the latter two are action properties),
  `TypeCorrect`. `IInv` adds `SilentSince` (no probe succeeded since the countdown
  began) and `NoticeSeen`.
* **Backup** (any triggers, retention): `NoOverlap`, `PruneSparesRunning`,
  `AttemptShown`, `PruneThorough`, `PruneKeepsNewestGood`, `TypeCorrect`, and
  `BackupImplementsShelf`. Prunes run outside the guard, so the guard alone does not give
  the second: `RunningIsNewest` and `NamesArePast` say that a victim is older than
  some name and therefore than the directory being written, and than any later.
  `PruneThorough` follows from `PruneLeaves`: what a prune found beyond `Retain`,
  less what it has removed since, is all there is up to its own backup, where
  nothing appears any more (`DestSettled`). `PruneKeepsNewestGood` has a hypothesis,
  `Retain` >= `MaxKills` + 2: directories that are not good backups are counted among
  those to keep, and there are at most `MaxKills` left by `pg_basebackup`s that
  died before they cleaned up (`UnfinishedAreKilled`) and one being written. So
  among the `Retain` newest is a good one, which is newer than every victim
  (`VictimsSuperseded`) and which no other prune takes meanwhile without a newer
  one (`GoodBackupStays`). With one less, TLC shows the newest good backup pruned.
  The refinement proof, under the same hypothesis, puts these together: the
  compare-and-swap begins a backup, `RunningIsNewest` makes a success the newest
  of the shelf, and a victim is taken down only while a newer one stays.
* **StatePersist** (any writers, counters, restarts): `StateFileWhole`,
  `StateFileCurrent`, `TypeCorrect`, and `StateFileImplementsSavedCounters`. `IInv` adds `NamesApart` (the two names never stand for
  one inode, and two writers inside `persistState` count as a race), `AloneKnows`
  (what a writer that nobody disturbed has put where) and `Saved`. The refinement
  also needs `DownIsQuiet`: the steps of a `persistState` that is alone show in
  nothing but its rename, a save that fails leaves its writer owing it, and
  whatever overlaps is the abstract `Muddle`.
* **Cluster** (any bound on databases): `SplitOnlyUnseen`,
  `FirstDatabaseSurvives`, `TypeCorrect`. A node that is primary or has decided to
  become one is *committed*; `OneCommitted` says that when both are, their two
  decisions overlapped (`overlapped`) or the second went by an answer that did not
  show the first as primary (`misled`). What one of them gave up or stopped excuses
  nothing later. In the proof a decision finds its peer primary, and then the answer
  was not "primary" (`Decides`), or about to be, and then the two overlap (`Overlaps`). `OneDatabase` says that no second database comes to be and that -0
  is without data only while it clones to rejoin. Its exception, `broken`, begins when
  a clone of -0, or of -1 with -0 wiped, is cut short, and ends when both nodes have
  the first database again; a clone of -1 that fails while -0 has its data is none.
* **NodeSetup** (any callers, addresses, number of calls and mishaps):
  `PasswordStays`, `FileInEffect`, `LinesKept`, `TypeCorrect`. `IInv` adds `UpsertKnows`
  (without a race an upsert is alone, and the file it truncated stays empty),
  `NobodyHoldsTrust` (once the password is safe no writer holds an older copy) and
  `CopiesGood` (what a writer has read can be loaded). A race, a write or a bootstrap
  that was cut off counts until postgres loads, or a re-clone brings, a whole file of
  which nobody holds a copy (`Sound`); from then on the statements hold again.

Only model-checked are the liveness properties, since the prover handles neither
fairness nor ENABLED: `ZombiesAreReaped` and `TrackedCallReturns`,
`SignalTerminates`, `HandlersReturn` and `CrashRestarts`, `LostPeerIsReplaced`,
`GrantHeals`. Every other property of a passing run is a theorem. Facts that
need induction over data, and RECURSIVE operators, are out of the prover's reach;
the modules use neither.

## What is not modelled, and why

* A network partition has no variable of its own: in Cluster any question, copy and
  promotion may fail while the peer runs, each for itself, which includes what
  `failover.go:3-5` takes for the loss of the peer. An operator's `force=true` promotion, the
  single-node mode and the bootstrap-role override remove the very checks that
  Cluster is about.
* In Cluster a clone that failed counts as an empty directory, writing the
  standby's configuration does not fail, and a rejoin request is not refused for a
  postgres pg-guard does not know of.
* Metrics and status beyond the role, TLS, authentication, configuration parsing,
  the CLI, logging: no state that the modelled parts read. The text file collector
  is one goroutine that writes a temporary file and renames it, the protocol of
  StatePersist without its race.
* Of the Windows service, its installation, the checkpoints it reports and Windows'
  own process handling.
* In NodeSetup, a password in the environment that is not the one in force, and a
  standby's copy of the roles, which replicates.
* `pg-guard backup -stdout` shares no state with the supervisor.

## Plan

Done, in the order of importance: Reaper, MainLoop, RestartBudget,
FailoverMonitor, Cluster, StatePersist, Backup, NodeSetup, each with proofs, and
the abstract specifications Supervision, ExitMailbox, SavedCounters and
BackupShelf with the refinements by MainLoop, Reaper, StatePersist and Backup. Next:

1. An abstract specification of Cluster (one primary that moves) and its refinement.
2. The window in which listeners are up before roles and database exist
   (`main.go:224-228`, against `bootstrap.go:455-465`): NodeSetup and Cluster composed.
3. Liveness of Cluster: with both nodes up and no operator, a primary and a
   standby in the end.

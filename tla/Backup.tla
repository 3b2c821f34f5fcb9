------------------------------- MODULE Backup -------------------------------
(***************************************************************************)
(* Backups into PG_GUARD_BACKUP_DIR (backup.go): the scheduler and every   *)
(* POST /api/backup run performBackup, each in a goroutine of its own.     *)
(* backupInProgress covers pg_basebackup only; the outcome is recorded and *)
(* old backups are pruned after it has been given back.                    *)
(*                                                                         *)
(* A backup is a directory named after the second it was begun in, so time *)
(* counts seconds and is also the name: one that sorts later is newer.     *)
(***************************************************************************)
EXTENDS Integers, FiniteSets

CONSTANTS
  Triggers,   \* goroutines in performBackup
  Scheduler,  \* the one of startBackupScheduler
  Retain,     \* PG_GUARD_BACKUP_RETAIN
  MaxTime,    \* bound: seconds
  MaxKills    \* bound: pg_basebackups killed before they clean up

ASSUME BackupAssumption ==
  /\ Scheduler \in Triggers
  /\ Retain \in Nat \ {0}
  /\ MaxTime \in Nat /\ MaxKills \in Nat

VARIABLES
  now, db,           \* the clock, and the local postgres: down, standby or primary
  backupInProgress,  \* state.go
  pc,                \* per trigger: where it is in performBackup
  dest,              \* per trigger: the directory of its backup
  victims,           \* per trigger: the directories its prune still has to remove
  dir,               \* per name: none, partial or complete
  lastAttempt,       \* metrics.go: backupLastAttemptOK, none before the first
  lastOutcome,       \* history: how the backup ended that ended last
  crossed,           \* history: another outcome was still unrecorded then
  kills              \* counts up to MaxKills
vars == <<now, db, backupInProgress, pc, dest, victims, dir, lastAttempt, lastOutcome, crossed, kills>>
world == <<now, db, kills>>
outcomes == <<lastAttempt, lastOutcome, crossed>>

Times    == 0..MaxTime
Names    == {d \in Times : dir[d] # "none"}
Complete == {d \in Times : dir[d] = "complete"}

From(t, here, next) == pc[t] = here /\ pc' = [pc EXCEPT ![t] = next]

-----------------------------------------------------------------------------
\* The clock, and the local postgres: stops, starts and promotes.
Tick ==
  /\ now < MaxTime /\ now' = now + 1
  /\ UNCHANGED <<db, backupInProgress, pc, dest, victims, dir, outcomes, kills>>

RoleChange(role) ==
  /\ db # role /\ (db = "primary" => role = "down")
  /\ db' = role
  /\ UNCHANGED <<now, backupInProgress, pc, dest, victims, dir, outcomes, kills>>

-----------------------------------------------------------------------------
\* A scheduler tick, skipped without postgres; or a request, which always runs.
Trigger(t) ==
  /\ t = Scheduler => db # "down"
  /\ From(t, "idle", "role")
  /\ UNCHANGED <<world, backupInProgress, dest, victims, dir, outcomes>>

\* performBackup's role check: an error, or errBackupNotPrimary.
NotPrimary(t) ==
  /\ db # "primary"
  /\ From(t, "role", "idle")
  /\ UNCHANGED <<world, backupInProgress, dest, victims, dir, outcomes>>

IsPrimary(t) ==
  /\ db = "primary"
  /\ From(t, "role", "acquire")
  /\ UNCHANGED <<world, backupInProgress, dest, victims, dir, outcomes>>

-----------------------------------------------------------------------------
\* runBackup: the compare-and-swap, errBackupInProgress when it fails.
Acquire(t) ==
  /\ ~backupInProgress /\ backupInProgress' = TRUE
  /\ From(t, "acquire", "start")
  /\ UNCHANGED <<world, dest, victims, dir, outcomes>>

\* Mutant of InProgress: the deferred store is set up before the swap is tried.
MutInProgress(t) ==
  /\ backupInProgress /\ backupInProgress' = FALSE
  /\ From(t, "acquire", "idle")
  /\ UNCHANGED <<world, dest, victims, dir, outcomes>>

InProgress(t) ==
  /\ backupInProgress
  /\ From(t, "acquire", "idle")
  /\ UNCHANGED <<world, backupInProgress, dest, victims, dir, outcomes>>

Running(t) == pc[t] \in {"start", "dump"}

\* runBackup returns, the deferred store runs.
Ends(t, outcome) ==
  /\ backupInProgress' = FALSE
  /\ lastOutcome' = outcome
  /\ crossed' = (\E u \in Triggers : pc[u] \in {"success", "failure"})
  /\ Running(t) /\ pc' = [pc EXCEPT ![t] = outcome]

\* pg_basebackup creates the directory named after this second.
Start(t) ==
  /\ dir[now] = "none"
  /\ dir' = [dir EXCEPT ![now] = "partial"]
  /\ dest' = [dest EXCEPT ![t] = now]
  /\ From(t, "start", "dump")
  /\ UNCHANGED <<world, backupInProgress, victims, outcomes>>

\* The backup directory cannot be made, pg_basebackup cannot be run, or a
\* backup of the same second is there: pg_basebackup leaves that one alone.
StartFails(t) ==
  /\ pc[t] = "start" /\ Ends(t, "failure")
  /\ UNCHANGED <<world, dest, victims, dir, lastAttempt>>

DumpOK(t) ==
  /\ pc[t] = "dump" /\ db # "down" /\ Ends(t, "success")
  /\ dir' = [dir EXCEPT ![dest[t]] = "complete"]
  /\ UNCHANGED <<world, dest, victims, lastAttempt>>

\* Mutant of DumpFails: what it wrote is set aside under a mark nobody reads.
MutDumpFails(t) ==
  /\ pc[t] = "dump" /\ Ends(t, "failure")
  /\ dir' = [dir EXCEPT ![dest[t]] = "failed"]
  /\ UNCHANGED <<world, dest, victims, lastAttempt>>

\* pg_basebackup fails and removes what it wrote.
DumpFails(t) ==
  /\ pc[t] = "dump" /\ Ends(t, "failure")
  /\ dir' = [dir EXCEPT ![dest[t]] = "none"]
  /\ UNCHANGED <<world, dest, victims, lastAttempt>>

\* pg_basebackup is killed; what it wrote stays.
DumpKilled(t) ==
  /\ pc[t] = "dump" /\ Ends(t, "failure")
  /\ kills < MaxKills /\ kills' = kills + 1
  /\ UNCHANGED <<now, db, dest, victims, dir, lastAttempt>>

-----------------------------------------------------------------------------
\* Mutant of RecordFailure: a failure is counted, and not recorded as an attempt.
MutRecordFailure(t) ==
  /\ From(t, "failure", "idle")
  /\ UNCHANGED <<world, backupInProgress, dest, victims, dir, outcomes>>

\* recordBackupAttempt, for a failure and for a success.
RecordFailure(t) ==
  /\ From(t, "failure", "idle")
  /\ lastAttempt' = "failure"
  /\ UNCHANGED <<world, backupInProgress, dest, victims, dir, lastOutcome, crossed>>

RecordSuccess(t) ==
  /\ From(t, "success", "prune")
  /\ lastAttempt' = "success"
  /\ UNCHANGED <<world, backupInProgress, dest, victims, dir, lastOutcome, crossed>>

-----------------------------------------------------------------------------
\* Mutants of Pruned: one kept too few, one too many, the oldest kept.
MutPrunedShort == {d \in Names : Cardinality({e \in Names : e > d}) >= Retain - 1}
MutPrunedLong  == {d \in Names : Cardinality({e \in Names : e > d}) > Retain}
MutPrunedOrder == {d \in Names : Cardinality({e \in Names : e < d}) >= Retain}

\* pruneOldBackups: all but the Retain newest names.
Pruned == {d \in Names : Cardinality({e \in Names : e > d}) >= Retain}

ReadDir(t) ==
  /\ From(t, "prune", "remove")
  /\ victims' = [victims EXCEPT ![t] = Pruned]
  /\ UNCHANGED <<world, backupInProgress, dest, dir, outcomes>>

\* os.RemoveAll, oldest first; a name that is gone by then is no error.
RemoveOldest(t) ==
  /\ pc[t] = "remove"
  /\ \E d \in victims[t] :
       /\ \A e \in victims[t] : d <= e
       /\ dir' = [dir EXCEPT ![d] = "none"]
       /\ victims' = [victims EXCEPT ![t] = @ \ {d}]
  /\ UNCHANGED <<world, backupInProgress, pc, dest, outcomes>>

PruneDone(t) ==
  /\ victims[t] = {}
  /\ From(t, "remove", "idle")
  /\ UNCHANGED <<world, backupInProgress, dest, victims, dir, outcomes>>

\* Reading the directory or removing a backup fails, which is only logged.
PruneFails(t) ==
  /\ \/ From(t, "prune", "idle")
     \/ victims[t] # {} /\ From(t, "remove", "idle")
  /\ victims' = [victims EXCEPT ![t] = {}]
  /\ UNCHANGED <<world, backupInProgress, dest, dir, outcomes>>

\* pg-guard dies and starts again: what was being written stays as it is.
GuardCrash ==
  /\ \E t \in Triggers : pc[t] # "idle"
  /\ pc' = [t \in Triggers |-> "idle"]
  /\ victims' = [t \in Triggers |-> {}]
  /\ backupInProgress' = FALSE
  /\ lastAttempt' = "none" /\ lastOutcome' = "none" /\ crossed' = FALSE
  /\ UNCHANGED <<world, dest, dir>>

-----------------------------------------------------------------------------
Init ==
  /\ now = 0 /\ db = "down" /\ kills = 0
  /\ backupInProgress = FALSE
  /\ pc = [t \in Triggers |-> "idle"]
  /\ dest = [t \in Triggers |-> 0]
  /\ victims = [t \in Triggers |-> {}]
  /\ dir = [d \in Times |-> "none"]
  /\ lastAttempt = "none" /\ lastOutcome = "none" /\ crossed = FALSE

runBackup(t) == \/ Acquire(t) \/ InProgress(t) \/ Start(t) \/ StartFails(t)
                \/ DumpOK(t) \/ DumpFails(t) \/ DumpKilled(t)

pruneOldBackups(t) == ReadDir(t) \/ RemoveOldest(t) \/ PruneDone(t) \/ PruneFails(t)

performBackup(t) == \/ NotPrimary(t) \/ IsPrimary(t) \/ runBackup(t)
                    \/ RecordFailure(t) \/ RecordSuccess(t) \/ pruneOldBackups(t)

Next ==
  \/ Tick \/ GuardCrash
  \/ \E role \in {"down", "standby", "primary"} : RoleChange(role)
  \/ \E t \in Triggers : Trigger(t) \/ performBackup(t)

Spec == Init /\ [][Next]_vars

-----------------------------------------------------------------------------
Outcomes == {"none", "success", "failure"}

TypeOK ==
  /\ now \in Times /\ kills \in 0..MaxKills
  /\ db \in {"down", "standby", "primary"}
  /\ backupInProgress \in BOOLEAN
  /\ pc \in [Triggers -> {"idle", "role", "acquire", "start", "dump", "failure", "success",
                          "prune", "remove"}]
  /\ dest \in [Triggers -> Times]
  /\ victims \in [Triggers -> SUBSET Times]
  /\ dir \in [Times -> {"none", "partial", "complete"}]
  /\ lastAttempt \in Outcomes /\ lastOutcome \in Outcomes /\ crossed \in BOOLEAN

\* backup.go:119-120: a scheduled tick never overlaps an on-demand backup, nor
\* itself, whoever gives backupInProgress back and whenever.
OneBackupAtATime == \A t, u \in Triggers : Running(t) /\ Running(u) => t = u

\* The directory that pg_basebackup is writing to is never pruned under it by
\* another trigger, whose prune runs without backupInProgress (backup.go:100).
RunningBackupKept == \A t \in Triggers : pc[t] = "dump" => dir[dest[t]] = "partial"

\* Why the last two hold. backupInProgress is true while anybody runs, so no
\* directory newer than the running one appears; a victim is older than some
\* name, so it is older than the running one, and than any to come.
GuardHeld == \A t \in Triggers : Running(t) => backupInProgress

NamesArePast ==
  /\ \A d \in Names : d <= now
  /\ \A t \in Triggers : \A d \in victims[t] : d < now

RunningIsNewest ==
  \A u \in Triggers : pc[u] = "dump" =>
    /\ \A d \in Names : d <= dest[u]
    /\ \A t \in Triggers : \A d \in victims[t] : d < dest[u]

IInv == /\ TypeOK /\ GuardHeld /\ OneBackupAtATime
        /\ NamesArePast /\ RunningIsNewest /\ RunningBackupKept

\* A complete backup is only pruned when a newer complete one is there: whatever
\* the other triggers do meanwhile, pruning never takes the newest good backup.
PrunedIsSuperseded ==
  [][\A d \in Times : dir[d] = "complete" /\ dir'[d] = "none"
                        => \E e \in Times : e > d /\ dir'[e] = "complete"]_vars

\* A prune that ends well has left no more than Retain backups up to its own
\* (config.go:114, "prune the rest"), with others being written and pruned
\* meanwhile.
PruneIsThorough ==
  \A t \in Triggers : pc[t] = "remove" /\ victims[t] = {}
                        => Cardinality({d \in Names : d <= dest[t]}) <= Retain

\* Why that holds: nothing appears any more up to a backup that has succeeded, so
\* what a prune found beyond Retain, less what it has removed since, is all there is.
Ended(t) == pc[t] \in {"success", "prune", "remove"}
DestSettled ==
  \A t \in Triggers : Ended(t) => /\ dest[t] <= now
                                  /\ dest[t] = now => dir[now] = "complete"

PruneLeaves ==
  \A t \in Triggers : pc[t] = "remove"
                        => Cardinality({d \in Names : d <= dest[t]} \ victims[t]) <= Retain

\* Why PrunedIsSuperseded holds, with Retain >= MaxKills + 2. Since a backup
\* succeeded only unfinished ones can have come to rank above it: those that
\* were killed, and the one that runs. They are too few to push out the newest
\* complete one, so whoever is a victim has, and keeps, a newer complete one.
Superseded(d) == \E e \in Complete : e > d

GoodBackupStays == \A t \in Triggers : Ended(t) => \E e \in Complete : e >= dest[t]

VictimsSuperseded == \A t \in Triggers : \A d \in victims[t] : Superseded(d)

Unfinished(t) == {d \in Names : /\ d > dest[t] /\ dir[d] = "partial"
                                /\ \A u \in Triggers : pc[u] = "dump" => dest[u] # d}
UnfinishedAreKilled ==
  \A t \in Triggers : pc[t] \in {"success", "prune"} => Cardinality(Unfinished(t)) <= kills

PruneInv == DestSettled /\ PruneLeaves /\ UnfinishedAreKilled
GoodInv  == GoodBackupStays /\ VictimsSuperseded

\* metrics.go:145, "the outcome of the most recent backup *attempt*": with no
\* outcome left to record, what is shown is how the last backup ended, unless
\* an earlier one was still to be recorded when it did: the outcome is recorded
\* after backupInProgress has been given back, and the earlier one may come last.
AttemptHonest ==
  (\A t \in Triggers : pc[t] \notin {"success", "failure"}) /\ ~crossed
    => lastAttempt = lastOutcome

\* Why that holds: unless another one crossed it, the outcome that is still to be
\* recorded is the last, and the only one.
Unrecorded == {t \in Triggers : pc[t] \in {"success", "failure"}}
OutcomeKnown ==
  ~crossed =>
    /\ \A t \in Unrecorded : pc[t] = lastOutcome /\ Unrecorded = {t}
    /\ Unrecorded = {} => lastAttempt = lastOutcome

-----------------------------------------------------------------------------
(* The backup directory implements a shelf of good backups. *)

Shelf == INSTANCE BackupShelf WITH
  Names <- Times, writing <- {t \in Triggers : Running(t)}, shelf <- Complete

\* backup.go:119-120, "a scheduled tick can never overlap an on-demand trigger, or
\* itself", and what pruning leaves: seen from outside, whoever triggers, fails,
\* prunes or dies, backups are written one at a time, each that succeeds is newer
\* than all that are there, and a good one only goes while a newer one stays.
ImplementsBackupShelf == Shelf!Spec

-----------------------------------------------------------------------------
(* What the documentation says of the code, and it does not do. *)

\* README.md:190, "how many of the newest backups to keep": with Retain complete
\* backups on disk there are never fewer again. Unfinished directories count
\* among the newest (backup.go:217-228), so there are.
RetainKept ==
  [][Cardinality(Complete) >= Retain => Cardinality(Complete') >= Retain]_vars
=============================================================================

---------------------------- MODULE BackupProofs ----------------------------
(***************************************************************************)
(* For every number of triggers and every Retain: backups never overlap,   *)
(* and no prune takes the directory that is being written, although prunes *)
(* run without backupInProgress.                                           *)
(***************************************************************************)
EXTENDS Backup, TLAPS, FiniteSetTheorems

\* pruneOldBackups only picks directories that some other name is newer than.
LEMMA PrunedIsOlder ==
  ASSUME NEW d \in Pruned
  PROVE  \E e \in Names : e > d
<1> SUFFICES ASSUME {e \in Names : e > d} = {} PROVE FALSE
  OBVIOUS
<1>1. Cardinality({e \in Names : e > d}) = 0
  BY FS_EmptySet
<1> QED
  BY <1>1, BackupAssumption DEF Pruned

\* The first state satisfies the inductive invariant.
LEMMA InitIInv == Init => IInv
<1> SUFFICES ASSUME Init PROVE IInv
  OBVIOUS
<1> USE BackupAssumption DEF Init
<1>1. TypeOK
  <2>1. 0 \in Times /\ 0 \in 0..MaxKills
    BY DEF Times
  <2>2. /\ backupInProgress \in BOOLEAN /\ lastAttempt \in Outcomes /\ lastOutcome \in Outcomes
        /\ crossed \in BOOLEAN
    BY DEF Outcomes
  <2> QED
    BY <2>1, <2>2 DEF TypeOK
<1>2. Names = {} /\ \A t \in Triggers : ~Running(t) /\ pc[t] # "dump" /\ victims[t] = {}
  BY DEF Names, Running
<1> QED
  BY <1>1, <1>2 DEF IInv, GuardHeld, OneBackupAtATime, NamesArePast, RunningIsNewest,
                    RunningBackupKept

\* Steps that leave the directories, the victims and the clock alone, and after
\* which nobody runs who did not run before.
LEMMA QuietStep ==
  ASSUME IInv, TypeOK', UNCHANGED <<now, dir, victims, dest>>,
         \A t \in Triggers : Running(t)' => pc'[t] = pc[t] /\ backupInProgress'
  PROVE  IInv'
<1> USE DEF IInv
<1>1. Names' = Names
  BY DEF Names
<1>2. GuardHeld' /\ OneBackupAtATime'
  BY DEF GuardHeld, OneBackupAtATime, Running
<1>3. NamesArePast'
  BY <1>1 DEF NamesArePast
<1>4. RunningIsNewest' /\ RunningBackupKept'
  BY <1>1 DEF RunningIsNewest, RunningBackupKept, Running
<1> QED
  BY <1>2, <1>3, <1>4

\* The world around the triggers: the clock and the local postgres.
LEMMA WorldStep ==
  ASSUME IInv, Tick \/ \E role \in {"down", "standby", "primary"} : RoleChange(role)
  PROVE  IInv'
<1> USE BackupAssumption DEF IInv
<1>1. CASE Tick
  <2> USE <1>1 DEF Tick
  <2>1. TypeOK'
    BY DEF TypeOK, Times, outcomes
  <2>2. Names' = Names /\ now \in Int /\ Names \subseteq Int
    BY DEF Names, TypeOK, Times
  <2>3. NamesArePast'
    BY <2>2 DEF NamesArePast, TypeOK, Times
  <2>4. GuardHeld' /\ OneBackupAtATime' /\ RunningIsNewest' /\ RunningBackupKept'
    BY <2>2 DEF GuardHeld, OneBackupAtATime, RunningIsNewest, RunningBackupKept, Running
  <2> QED
    BY <2>1, <2>3, <2>4
<1>2. CASE \E role \in {"down", "standby", "primary"} : RoleChange(role)
  <2>1. TypeOK'
    BY <1>2 DEF RoleChange, TypeOK, outcomes
  <2>2. \A t \in Triggers : Running(t)' => pc'[t] = pc[t] /\ backupInProgress'
    BY <1>2 DEF RoleChange, GuardHeld, Running
  <2> QED
    BY <1>2, <2>1, <2>2, QuietStep DEF RoleChange
<1> QED
  BY <1>1, <1>2

\* The steps of a trigger before and after pg_basebackup, pruning excepted.
LEMMA QuietTriggerStep ==
  ASSUME IInv, NEW t \in Triggers,
         \/ Trigger(t) \/ NotPrimary(t) \/ IsPrimary(t) \/ InProgress(t) \/ StartFails(t)
         \/ DumpKilled(t) \/ RecordFailure(t) \/ RecordSuccess(t) \/ PruneDone(t)
  PROVE  IInv'
<1> USE BackupAssumption DEF IInv, world, outcomes, From
<1>1. TypeOK'
  <2>1. CASE Trigger(t) \/ NotPrimary(t) \/ IsPrimary(t) \/ InProgress(t) \/ PruneDone(t)
    BY <2>1 DEF TypeOK, Trigger, NotPrimary, IsPrimary, InProgress, PruneDone
  <2>2. CASE StartFails(t) \/ DumpKilled(t)
    <3>1. kills' \in 0..MaxKills
      BY <2>2 DEF TypeOK, StartFails, DumpKilled
    <3>2. backupInProgress' \in BOOLEAN /\ crossed' \in BOOLEAN /\ lastOutcome' \in Outcomes
      BY <2>2 DEF StartFails, DumpKilled, Ends, Outcomes
    <3> QED
      BY <2>2, <3>1, <3>2 DEF TypeOK, StartFails, DumpKilled, Ends
  <2>3. CASE RecordFailure(t) \/ RecordSuccess(t)
    BY <2>3 DEF TypeOK, RecordFailure, RecordSuccess, Outcomes
  <2> QED
    BY <2>1, <2>2, <2>3
<1>2. UNCHANGED <<now, dir, victims, dest>>
  BY DEF Trigger, NotPrimary, IsPrimary, InProgress, PruneDone, StartFails, DumpKilled,
         RecordFailure, RecordSuccess
<1>3. \A u \in Triggers : Running(u)' => pc'[u] = pc[u] /\ backupInProgress'
  <2>1. CASE StartFails(t) \/ DumpKilled(t)
    BY <2>1 DEF TypeOK, StartFails, DumpKilled, Ends, Running, OneBackupAtATime
  <2>2. CASE \/ Trigger(t) \/ NotPrimary(t) \/ IsPrimary(t) \/ InProgress(t)
             \/ RecordFailure(t) \/ RecordSuccess(t) \/ PruneDone(t)
    BY <2>2 DEF TypeOK, Trigger, NotPrimary, IsPrimary, InProgress, PruneDone,
                RecordFailure, RecordSuccess, Running, GuardHeld
  <2> QED
    BY <2>1, <2>2
<1> QED
  BY <1>1, <1>2, <1>3, QuietStep

\* The compare-and-swap lets one in, when nobody runs.
LEMMA AcquireStep == ASSUME IInv, NEW t \in Triggers, Acquire(t) PROVE IInv'
<1> USE BackupAssumption DEF IInv, Acquire, From, world, outcomes
<1>1. TypeOK' /\ Names' = Names
  BY DEF TypeOK, Names
<1>2. \A u \in Triggers : ~Running(u)
  BY DEF GuardHeld
<1>3. GuardHeld' /\ OneBackupAtATime'
  BY <1>2 DEF GuardHeld, OneBackupAtATime, Running, TypeOK
<1>4. \A u \in Triggers : pc'[u] # "dump"
  BY <1>2 DEF Running, TypeOK
<1>5. NamesArePast' /\ RunningIsNewest' /\ RunningBackupKept'
  BY <1>1, <1>4 DEF NamesArePast, RunningIsNewest, RunningBackupKept
<1> QED
  BY <1>1, <1>3, <1>5

\* A new directory is the newest, and no victim.
LEMMA StartStep == ASSUME IInv, NEW t \in Triggers, Start(t) PROVE IInv'
<1> USE BackupAssumption DEF IInv, Start, From, world, outcomes
<1>1. TypeOK'
  BY DEF TypeOK
<1>2. Running(t) /\ \A u \in Triggers : Running(u) => u = t
  BY DEF Running, OneBackupAtATime
<1>3. \A u \in Triggers : Running(u)' <=> u = t
  BY <1>2 DEF Running, TypeOK
<1>4. GuardHeld' /\ OneBackupAtATime'
  BY <1>2, <1>3 DEF GuardHeld, OneBackupAtATime
<1>5. Names' = Names \cup {now} /\ now \in Int
  BY DEF Names, TypeOK, Times
<1>6. NamesArePast'
  BY <1>5 DEF NamesArePast
<1>7. dest'[t] = now /\ dir'[now] = "partial" /\ \A u \in Triggers : pc'[u] = "dump" => u = t
  BY <1>3 DEF TypeOK, Running
<1>8. RunningIsNewest' /\ RunningBackupKept'
  BY <1>6, <1>7 DEF NamesArePast, RunningIsNewest, RunningBackupKept
<1> QED
  BY <1>1, <1>4, <1>6, <1>8

\* pg_basebackup ends: only the directory of the one that ran is touched.
LEMMA DumpStep == ASSUME IInv, NEW t \in Triggers, DumpOK(t) \/ DumpFails(t) PROVE IInv'
<1> USE BackupAssumption DEF IInv, world, DumpOK, DumpFails, Ends
<1>1. TypeOK'
  <2>1. backupInProgress' \in BOOLEAN /\ crossed' \in BOOLEAN /\ lastOutcome' \in Outcomes
    BY DEF Outcomes
  <2>2. dir' \in [Times -> {"none", "partial", "complete"}]
    BY DEF TypeOK
  <2>3. UNCHANGED <<now, kills, db, dest, victims, lastAttempt>>
    OBVIOUS
  <2> QED
    BY <2>1, <2>2, <2>3 DEF TypeOK
<1>2. \A u \in Triggers : ~Running(u)'
  BY DEF Running, OneBackupAtATime, TypeOK
<1>3. dest[t] \in Names
  BY DEF RunningBackupKept, Names, TypeOK
<1>4. Names' \subseteq Names
  BY <1>3 DEF Names, TypeOK
<1>5. NamesArePast'
  BY <1>4 DEF NamesArePast
<1>6. GuardHeld' /\ OneBackupAtATime' /\ RunningIsNewest' /\ RunningBackupKept'
  BY <1>2 DEF GuardHeld, OneBackupAtATime, RunningIsNewest, RunningBackupKept, Running
<1> QED
  BY <1>1, <1>5, <1>6

\* The victims of a prune are older than some name, hence than the running one.
LEMMA ReadDirStep == ASSUME IInv, NEW t \in Triggers, ReadDir(t) PROVE IInv'
<1> USE BackupAssumption DEF IInv, ReadDir, From, world, outcomes
<1>1. Names \subseteq Times /\ Pruned \subseteq Names /\ Names' = Names
  BY DEF Names, Pruned
<1>2. TypeOK'
  BY <1>1 DEF TypeOK
<1>3. \A u \in Triggers : Running(u)' <=> Running(u)
  BY DEF Running, TypeOK
<1>4. \A u \in Triggers : pc'[u] = "dump" <=> pc[u] = "dump"
  BY DEF TypeOK
<1>5. GuardHeld' /\ OneBackupAtATime' /\ RunningBackupKept'
  BY <1>3, <1>4 DEF GuardHeld, OneBackupAtATime, RunningBackupKept
<1>6. ASSUME NEW d \in Pruned, NEW limit \in Int, \A e \in Names : e <= limit
      PROVE  d < limit
  BY <1>1, <1>6, PrunedIsOlder DEF Times
<1>7. \A u \in Triggers : victims'[u] = IF u = t THEN Pruned ELSE victims[u]
  BY DEF TypeOK
<1>8. NamesArePast'
  <2>1. now \in Int
    BY DEF TypeOK, Times
  <2>2. \A d \in Pruned : d < now
    BY <1>6, <2>1 DEF NamesArePast
  <2> QED
    BY <1>1, <1>7, <2>2 DEF NamesArePast
<1>9. RunningIsNewest'
  <2> SUFFICES ASSUME NEW u \in Triggers, pc[u] = "dump"
               PROVE  /\ \A d \in Names : d <= dest[u]
                      /\ \A v \in Triggers : \A d \in victims'[v] : d < dest[u]
    BY <1>1, <1>4 DEF RunningIsNewest
  <2>1. dest[u] \in Int /\ \A d \in Names : d <= dest[u]
    BY DEF RunningIsNewest, TypeOK, Times
  <2>2. \A d \in Pruned : d < dest[u]
    BY <1>6, <2>1
  <2> QED
    BY <1>7, <2>1, <2>2 DEF RunningIsNewest
<1> QED
  BY <1>2, <1>5, <1>8, <1>9

\* A victim is removed, or the rest of them is given up.
LEMMA RemoveStep ==
  ASSUME IInv, NEW t \in Triggers, RemoveOldest(t) \/ PruneFails(t)
  PROVE  IInv'
<1> USE BackupAssumption DEF IInv, world, outcomes
<1>1. \A u \in Triggers : victims'[u] \subseteq victims[u]
  BY DEF RemoveOldest, PruneFails, TypeOK
<1>2. Names' \subseteq Names
  BY DEF RemoveOldest, PruneFails, Names, TypeOK
<1>3. \A u \in Triggers : (Running(u)' <=> Running(u)) /\ (pc'[u] = "dump" <=> pc[u] = "dump")
  BY DEF RemoveOldest, PruneFails, From, Running, TypeOK
<1>4. TypeOK'
  BY DEF RemoveOldest, PruneFails, From, TypeOK
<1>5. GuardHeld' /\ OneBackupAtATime'
  BY <1>3 DEF GuardHeld, OneBackupAtATime, RemoveOldest, PruneFails
<1>6. NamesArePast' /\ RunningIsNewest'
  BY <1>1, <1>2, <1>3 DEF NamesArePast, RunningIsNewest, RemoveOldest, PruneFails
<1>7. RunningBackupKept'
  <2> SUFFICES ASSUME NEW u \in Triggers, pc[u] = "dump" PROVE dir'[dest[u]] = "partial"
    BY <1>3 DEF RunningBackupKept, RemoveOldest, PruneFails
  <2>1. dest[u] \in Times /\ dest[u] \notin victims[t] /\ dir[dest[u]] = "partial"
    BY DEF RunningIsNewest, RunningBackupKept, TypeOK, Times
  <2> QED
    BY <2>1 DEF RemoveOldest, PruneFails, TypeOK
<1> QED
  BY <1>4, <1>5, <1>6, <1>7

\* A restart forgets who was running and what was to be removed.
LEMMA CrashStep == ASSUME IInv, GuardCrash PROVE IInv'
<1> USE BackupAssumption DEF IInv, GuardCrash, world
<1>1. TypeOK' /\ Names' = Names
  BY DEF TypeOK, Outcomes, Names
<1>2. \A u \in Triggers : ~Running(u)' /\ pc'[u] # "dump" /\ victims'[u] = {}
  BY DEF Running
<1> QED
  BY <1>1, <1>2 DEF GuardHeld, OneBackupAtATime, NamesArePast, RunningIsNewest,
                    RunningBackupKept

\* Every step preserves the inductive invariant.
LEMMA NextIInv == IInv /\ [Next]_vars => IInv'
<1> SUFFICES ASSUME IInv, [Next]_vars PROVE IInv'
  OBVIOUS
<1>1. CASE UNCHANGED vars
  BY <1>1 DEF vars, IInv, TypeOK, GuardHeld, OneBackupAtATime, NamesArePast,
              RunningIsNewest, RunningBackupKept, Running, Names
<1>2. CASE Tick \/ \E role \in {"down", "standby", "primary"} : RoleChange(role)
  BY <1>2, WorldStep
<1>3. CASE GuardCrash
  BY <1>3, CrashStep
<1>4. ASSUME NEW t \in Triggers, Trigger(t) \/ performBackup(t) PROVE IInv'
  BY <1>4, QuietTriggerStep, AcquireStep, StartStep, DumpStep, ReadDirStep, RemoveStep
     DEF performBackup, runBackup, pruneOldBackups
<1> QED
  BY <1>1, <1>2, <1>3, <1>4 DEF Next

\* The inductive invariant holds of every behaviour.
THEOREM BackupInvariant == Spec => []IInv
BY InitIInv, NextIInv, PTL DEF Spec

\* Every variable stays within its type, whatever the triggers do.
THEOREM TypeCorrect == Spec => []TypeOK
<1>1. IInv => TypeOK
  BY DEF IInv
<1> QED
  BY <1>1, BackupInvariant, PTL

\* backupInProgress keeps backups apart, for any number of triggers.
THEOREM NoOverlap == Spec => []OneBackupAtATime
<1>1. IInv => OneBackupAtATime
  BY DEF IInv
<1> QED
  BY <1>1, BackupInvariant, PTL

\* No prune removes the directory that pg_basebackup is writing, for any
\* number of triggers and any Retain.
THEOREM PruneSparesRunning == Spec => []RunningBackupKept
<1>1. IInv => RunningBackupKept
  BY DEF IInv
<1> QED
  BY <1>1, BackupInvariant, PTL

\* Every step keeps what is known of an outcome that is still to be recorded.
LEMMA OutcomeStep == TypeOK /\ OutcomeKnown /\ [Next]_vars => OutcomeKnown'
<1> SUFFICES ASSUME TypeOK, OutcomeKnown, [Next]_vars PROVE OutcomeKnown'
  OBVIOUS
<1> USE DEF TypeOK, OutcomeKnown, Unrecorded, From, world, outcomes
<1>1. ASSUME Tick PROVE OutcomeKnown'
  BY <1>1 DEF Tick
<1>2. ASSUME NEW role \in {"down", "standby", "primary"}, RoleChange(role) PROVE OutcomeKnown'
  BY <1>2 DEF RoleChange
<1>3. ASSUME GuardCrash PROVE OutcomeKnown'
  BY <1>3 DEF GuardCrash
<1>4. ASSUME NEW t \in Triggers, Trigger(t) PROVE OutcomeKnown'
  BY <1>4 DEF Trigger
<1>5. ASSUME NEW t \in Triggers, NotPrimary(t) PROVE OutcomeKnown'
  BY <1>5 DEF NotPrimary
<1>6. ASSUME NEW t \in Triggers, IsPrimary(t) PROVE OutcomeKnown'
  BY <1>6 DEF IsPrimary
<1>7. ASSUME NEW t \in Triggers, Acquire(t) PROVE OutcomeKnown'
  BY <1>7 DEF Acquire
<1>8. ASSUME NEW t \in Triggers, InProgress(t) PROVE OutcomeKnown'
  BY <1>8 DEF InProgress
<1>9. ASSUME NEW t \in Triggers, Start(t) PROVE OutcomeKnown'
  BY <1>9 DEF Start
<1>10. ASSUME NEW t \in Triggers, StartFails(t) PROVE OutcomeKnown'
  BY <1>10 DEF StartFails, Ends, Running
<1>11. ASSUME NEW t \in Triggers, DumpOK(t) PROVE OutcomeKnown'
  BY <1>11 DEF DumpOK, Ends, Running
<1>12. ASSUME NEW t \in Triggers, DumpFails(t) PROVE OutcomeKnown'
  BY <1>12 DEF DumpFails, Ends, Running
<1>13. ASSUME NEW t \in Triggers, DumpKilled(t) PROVE OutcomeKnown'
  BY <1>13 DEF DumpKilled, Ends, Running
<1>14. ASSUME NEW t \in Triggers, RecordFailure(t) PROVE OutcomeKnown'
  BY <1>14 DEF RecordFailure
<1>15. ASSUME NEW t \in Triggers, RecordSuccess(t) PROVE OutcomeKnown'
  BY <1>15 DEF RecordSuccess
<1>16. ASSUME NEW t \in Triggers, ReadDir(t) PROVE OutcomeKnown'
  BY <1>16 DEF ReadDir
<1>17. ASSUME NEW t \in Triggers, RemoveOldest(t) PROVE OutcomeKnown'
  BY <1>17 DEF RemoveOldest
<1>18. ASSUME NEW t \in Triggers, PruneDone(t) PROVE OutcomeKnown'
  BY <1>18 DEF PruneDone
<1>19. ASSUME NEW t \in Triggers, PruneFails(t) PROVE OutcomeKnown'
  BY <1>19 DEF PruneFails
<1>20. CASE UNCHANGED vars
  BY <1>20 DEF vars
<1> QED
  BY <1>1, <1>2, <1>3, <1>4, <1>5, <1>6, <1>7, <1>8, <1>9, <1>10, <1>11, <1>12, <1>13, <1>14,
     <1>15, <1>16, <1>17, <1>18, <1>19, <1>20 DEF Next, performBackup, runBackup,
     pruneOldBackups

\* metrics.go:145: with nothing left to record the outcome that is shown is that
\* of the backup that ended last, unless it crossed one that was still unrecorded.
THEOREM AttemptShown == Spec => []AttemptHonest
<1>1. Init => OutcomeKnown
  BY DEF Init, OutcomeKnown, Unrecorded
<1>2. IInv => TypeOK
  BY DEF IInv
<1>3. OutcomeKnown => AttemptHonest
  BY DEF OutcomeKnown, AttemptHonest, Unrecorded
<1> QED
  BY BackupInvariant, OutcomeStep, <1>1, <1>2, <1>3, PTL DEF Spec

-----------------------------------------------------------------------------
\* Sets of names are finite, and a smaller one has no more elements.
LEMMA NamesCount ==
  ASSUME NEW T \in SUBSET Times
  PROVE  /\ IsFiniteSet(T) /\ Cardinality(T) \in Nat
         /\ \A S \in SUBSET T : IsFiniteSet(S) /\ Cardinality(S) \in Nat
                                /\ Cardinality(S) <= Cardinality(T)
<1>1. IsFiniteSet(Times)
  BY BackupAssumption, FS_Interval DEF Times
<1>2. IsFiniteSet(T)
  BY <1>1, FS_Subset
<1>3. \A S \in SUBSET T : IsFiniteSet(S) /\ Cardinality(S) <= Cardinality(T)
  BY <1>2, FS_Subset
<1> QED
  BY <1>2, <1>3, FS_CardinalityType

\* Among some names there is an oldest.
LEMMA OldestExists ==
  ASSUME NEW S \in SUBSET Times, S # {}
  PROVE  \E m \in S : \A d \in S : m <= d
<1>1. S \subseteq Nat
  BY BackupAssumption DEF Times
<1>2. PICK m \in S : \A d \in S : ~ (<<d, m>> \in OpToRel(<, Nat))
  BY <1>1, WFMin, NatLessThanWellFounded
<1>3. \A d \in S : ~ (d < m)
  BY <1>1, <1>2 DEF OpToRel
<1> QED
  BY <1>1, <1>3

\* pruneOldBackups keeps no more than Retain names: above the oldest name that
\* is kept there are fewer than Retain, the other ones that are kept among them.
LEMMA KeptAtMostRetain == Cardinality(Names \ Pruned) <= Retain
<1> DEFINE Kept == Names \ Pruned
<1>1. Kept \subseteq Times /\ Names \subseteq Times
  BY DEF Names
<1>2. CASE Kept = {}
  BY <1>2, FS_EmptySet, BackupAssumption
<1>3. CASE Kept # {}
  <2>1. PICK m \in Kept : \A d \in Kept : m <= d
    BY <1>1, <1>3, OldestExists
  <2> DEFINE Above == {e \in Names : e > m}
  <2>2. Cardinality(Above) \in Nat /\ Cardinality(Above) < Retain
    <3>1. Cardinality(Above) \in Nat
      BY <1>1, NamesCount
    <3>2. ~ (Cardinality(Above) >= Retain)
      BY <2>1 DEF Pruned
    <3> QED
      BY <3>1, <3>2, BackupAssumption
  <2>3. Kept \ {m} \subseteq Above
    BY <1>1, <2>1, BackupAssumption DEF Times
  <2>4. Cardinality(Kept \ {m}) <= Cardinality(Above)
    BY <1>1, <2>3, NamesCount
  <2>5. IsFiniteSet(Kept) /\ Cardinality(Kept) \in Nat
    BY <1>1, NamesCount
  <2>6. Cardinality(Kept \ {m}) = Cardinality(Kept) - 1
    BY <2>5, FS_RemoveElement
  <2> HIDE DEF Kept, Above
  <2>7. Cardinality(Kept) <= Retain
    BY <2>2, <2>4, <2>5, <2>6, BackupAssumption
  <2> QED
    BY <2>7 DEF Kept
<1> QED
  BY <1>2, <1>3

-----------------------------------------------------------------------------
\* Steps that leave the directories alone, and with which nobody begins to
\* dump, stops dumping, succeeds, or begins to remove.
LEMMA QuietPruneStep ==
  ASSUME TypeOK, PruneInv, UNCHANGED <<dir, dest, kills>>, now' \in Int, now <= now',
         \A u \in Triggers : /\ pc'[u] = "dump" <=> pc[u] = "dump"
                             /\ pc'[u] \in {"success", "prune"} => pc[u] \in {"success", "prune"}
                             /\ pc'[u] = "remove" => pc[u] = "remove" /\ victims'[u] = victims[u]
  PROVE  PruneInv'
<1> USE DEF PruneInv
<1>1. Names' = Names /\ \A u \in Triggers : Ended(u)' => Ended(u)
  BY DEF Names, Ended
<1>2. DestSettled'
  <2>1. now \in Int /\ \A u \in Triggers : dest[u] \in Int
    BY BackupAssumption DEF TypeOK, Times
  <2> QED
    BY <1>1, <2>1 DEF DestSettled
<1>3. PruneLeaves'
  BY <1>1 DEF PruneLeaves
<1>4. UnfinishedAreKilled'
  <2>1. \A u \in Triggers : Unfinished(u)' = Unfinished(u)
    BY <1>1 DEF Unfinished
  <2> QED
    BY <2>1 DEF UnfinishedAreKilled
<1> QED
  BY <1>2, <1>3, <1>4

\* The clock, the local postgres, and what a trigger does before and after its
\* backup without touching a directory.
LEMMA QuietPruneSteps ==
  ASSUME TypeOK, PruneInv,
         \/ Tick \/ \E role \in {"down", "standby", "primary"} : RoleChange(role)
         \/ \E t \in Triggers :
              \/ Trigger(t) \/ NotPrimary(t) \/ IsPrimary(t) \/ Acquire(t) \/ InProgress(t)
              \/ StartFails(t) \/ RecordFailure(t) \/ RecordSuccess(t) \/ PruneDone(t)
              \/ PruneFails(t)
  PROVE  PruneInv'
<1>1. now \in Int
  BY BackupAssumption DEF TypeOK, Times
<1> USE DEF world, outcomes, From
<1>2. UNCHANGED <<dir, dest, kills>> /\ now' \in Int /\ now <= now'
  BY <1>1 DEF Tick, RoleChange, Trigger, NotPrimary, IsPrimary, Acquire, InProgress,
              StartFails, RecordFailure, RecordSuccess, PruneDone, PruneFails
<1>3. CASE Tick \/ \E role \in {"down", "standby", "primary"} : RoleChange(role)
  <2>1. UNCHANGED <<pc, victims>>
    BY <1>3 DEF Tick, RoleChange
  <2> QED
    BY <1>2, <2>1, QuietPruneStep
<1>4. ASSUME NEW t \in Triggers,
             \/ Trigger(t) \/ NotPrimary(t) \/ IsPrimary(t) \/ Acquire(t) \/ InProgress(t)
             \/ StartFails(t) \/ RecordFailure(t) \/ RecordSuccess(t) \/ PruneDone(t)
             \/ PruneFails(t)
      PROVE  PruneInv'
  <2>1. PICK next \in {"idle", "role", "acquire", "start", "failure", "prune"} :
          /\ pc' = [pc EXCEPT ![t] = next] /\ pc[t] # "dump"
          /\ next = "prune" => pc[t] = "success"
    BY <1>4 DEF Trigger, NotPrimary, IsPrimary, Acquire, InProgress, StartFails, Ends,
                RecordFailure, RecordSuccess, PruneDone, PruneFails
  <2>2. \A u \in Triggers : u # t => victims'[u] = victims[u]
    BY <1>4 DEF TypeOK, Trigger, NotPrimary, IsPrimary, Acquire, InProgress, StartFails,
                RecordFailure, RecordSuccess, PruneDone, PruneFails
  <2>3. \A u \in Triggers : pc'[u] = IF u = t THEN next ELSE pc[u]
    BY <2>1 DEF TypeOK
  <2> QED
    BY <1>2, <2>1, <2>2, <2>3, QuietPruneStep
<1> QED
  BY <1>3, <1>4

\* A new directory is newer than any backup that has succeeded.
LEMMA StartPruneStep == ASSUME IInv, PruneInv, NEW t \in Triggers, Start(t) PROVE PruneInv'
<1> USE BackupAssumption DEF IInv, PruneInv, Start, From, world, outcomes
<1>1. /\ \A u \in Triggers : pc'[u] = IF u = t THEN "dump" ELSE pc[u]
      /\ \A u \in Triggers : dest'[u] = IF u = t THEN now ELSE dest[u]
      /\ \A d \in Times : dir'[d] = IF d = now THEN "partial" ELSE dir[d]
      /\ now \in Times /\ Names' = Names \cup {now}
  BY DEF TypeOK, Names
<1>2. \A u \in Triggers : Ended(u)' => u # t /\ Ended(u) /\ dest[u] < now /\ dest[u] \in Int
  BY <1>1 DEF Ended, DestSettled, TypeOK, Times
<1>3. DestSettled'
  BY <1>1, <1>2 DEF DestSettled
<1>4. ASSUME NEW u \in Triggers, Ended(u)'
      PROVE  {d \in Names : d <= dest[u]}' = {d \in Names : d <= dest[u]}
  BY <1>1, <1>2, <1>4 DEF Times
<1>5. PruneLeaves'
  BY <1>1, <1>4 DEF PruneLeaves, Ended
<1>6. ASSUME NEW u \in Triggers, Ended(u)' PROVE Unfinished(u)' \subseteq Unfinished(u)
  <2> SUFFICES ASSUME NEW d \in Unfinished(u)' PROVE d \in Unfinished(u)
    OBVIOUS
  <2>1. d # now /\ d \in Names /\ dir[d] = "partial" /\ d > dest[u]
    BY <1>1, <1>2, <1>6 DEF Unfinished, Names
  <2>2. \A v \in Triggers : pc[v] = "dump" => dest[v] # d
    BY <1>1 DEF Unfinished
  <2> QED
    BY <2>1, <2>2 DEF Unfinished
<1>7. UnfinishedAreKilled'
  <2> SUFFICES ASSUME NEW u \in Triggers, pc'[u] \in {"success", "prune"}
               PROVE  Cardinality(Unfinished(u)') <= kills
    BY DEF UnfinishedAreKilled
  <2>1. Ended(u)' /\ Unfinished(u) \in SUBSET Times
    BY DEF Ended, Unfinished, Names
  <2>2. /\ Cardinality(Unfinished(u)') \in Nat /\ Cardinality(Unfinished(u)) \in Nat
        /\ Cardinality(Unfinished(u)') <= Cardinality(Unfinished(u))
    BY <1>6, <2>1, NamesCount
  <2>3. Cardinality(Unfinished(u)) <= kills /\ kills \in Int
    BY <1>1, <1>2, <2>1 DEF UnfinishedAreKilled, TypeOK
  <2> QED
    BY <2>2, <2>3
<1> QED
  BY <1>3, <1>5, <1>7

\* What the end of a dump does to the others: whatever becomes of its directory,
\* which was unfinished, no name appears.
LEMMA DumpEndsPruneStep ==
  ASSUME IInv, PruneInv, NEW t \in Triggers, DumpOK(t) \/ DumpFails(t) \/ DumpKilled(t)
  PROVE  DestSettled' /\ PruneLeaves'
<1> USE BackupAssumption DEF IInv, PruneInv, DumpOK, DumpFails, DumpKilled, Ends, world
<1>1. /\ pc[t] = "dump" /\ dir[dest[t]] = "partial" /\ dest[t] \in Names /\ dest[t] \in Times
      /\ UNCHANGED <<now, dest, victims>>
  BY DEF RunningBackupKept, Names, TypeOK
<1>2. PICK outcome \in {"success", "failure"} : pc' = [pc EXCEPT ![t] = outcome]
  OBVIOUS
<1>3. \A d \in Times : d # dest[t] => dir'[d] = dir[d]
  BY DEF TypeOK
<1>4. Names' \subseteq Names
  BY <1>1, <1>3 DEF Names
<1>5. DestSettled'
  <2> SUFFICES ASSUME NEW u \in Triggers, Ended(u)'
               PROVE  dest[u] <= now /\ (dest[u] = now => dir'[now] = "complete")
    BY <1>1 DEF DestSettled
  <2>1. CASE u = t
    <3>1. DumpOK(t)
      BY <2>1 DEF Ended, TypeOK
    <3>2. dest[t] <= now
      BY <1>1 DEF NamesArePast
    <3> QED
      BY <1>1, <2>1, <3>1, <3>2 DEF TypeOK
  <2>2. CASE u # t
    <3>1. Ended(u)
      BY <1>2, <2>2 DEF Ended, TypeOK
    <3> QED
      BY <1>1, <1>3, <3>1 DEF DestSettled, TypeOK
  <2> QED
    BY <2>1, <2>2
<1>6. PruneLeaves'
  <2> SUFFICES ASSUME NEW u \in Triggers, pc'[u] = "remove"
               PROVE  Cardinality({d \in Names' : d <= dest[u]} \ victims[u]) <= Retain
    BY <1>1 DEF PruneLeaves
  <2> DEFINE Left == {d \in Names : d <= dest[u]} \ victims[u]
             LeftThen == {d \in Names' : d <= dest[u]} \ victims[u]
  <2>1. pc[u] = "remove"
    BY <1>2 DEF TypeOK
  <2>2. Left \in SUBSET Times /\ LeftThen \in SUBSET Left
    BY <1>4 DEF Names
  <2>3. Cardinality(Left) \in Nat /\ Cardinality(LeftThen) \in Nat
        /\ Cardinality(LeftThen) <= Cardinality(Left)
    BY <2>2, NamesCount
  <2>4. Cardinality(Left) <= Retain
    BY <2>1 DEF PruneLeaves
  <2> HIDE DEF Left
  <2>5. Cardinality(LeftThen) <= Retain
    <3> HIDE DEF LeftThen
    <3> QED
      BY <2>3, <2>4
  <2> QED
    BY <2>5
<1> QED
  BY <1>5, <1>6

\* One that succeeds has nothing above it; one that is killed is counted.
LEMMA DumpPruneStep ==
  ASSUME IInv, PruneInv, NEW t \in Triggers, DumpOK(t) \/ DumpFails(t) \/ DumpKilled(t)
  PROVE  PruneInv'
<1> USE BackupAssumption DEF IInv, Ends, world
<1>1. DestSettled' /\ PruneLeaves'
  BY DumpEndsPruneStep
<1>2. pc[t] = "dump" /\ dir[dest[t]] = "partial" /\ dest[t] \in Times /\ UNCHANGED dest
  BY DEF RunningBackupKept, TypeOK, DumpOK, DumpFails, DumpKilled
<1>3. \A u \in Triggers : pc[u] = "dump" => u = t
  BY <1>2 DEF OneBackupAtATime, Running
<1> SUFFICES ASSUME NEW u \in Triggers, pc'[u] \in {"success", "prune"}
             PROVE  Cardinality(Unfinished(u)') <= kills'
  BY <1>1 DEF PruneInv, UnfinishedAreKilled
<1>4. Unfinished(u) \in SUBSET Times
  BY DEF Unfinished, Names
<1>5. CASE u = t
  <2>1. DumpOK(t)
    BY <1>5 DEF DumpFails, DumpKilled, TypeOK
  <2>2. \A d \in Names' : d <= dest[t]
    BY <1>2, <2>1 DEF DumpOK, RunningIsNewest, Names, TypeOK
  <2>3. Unfinished(u)' = {}
    BY <1>2, <1>5, <2>2 DEF Unfinished, Names, Times
  <2>4. kills' \in Nat
    BY <2>1 DEF DumpOK, TypeOK
  <2> QED
    BY <2>3, <2>4, FS_EmptySet
<1>6. CASE u # t
  <2>1. Cardinality(Unfinished(u)) <= kills /\ kills \in Int
    <3>1. pc[u] \in {"success", "prune"}
      BY <1>6 DEF TypeOK, DumpOK, DumpFails, DumpKilled
    <3> QED
      BY <3>1 DEF PruneInv, UnfinishedAreKilled, TypeOK
  <2>2. CASE DumpOK(t) \/ DumpFails(t)
    <3>1. kills' = kills
      BY <2>2 DEF DumpOK, DumpFails
    <3>2. \A d \in Times : dir'[d] = "partial" => dir[d] = "partial" /\ d # dest[t]
      BY <1>2, <2>2 DEF TypeOK, DumpOK, DumpFails
    <3>3. Unfinished(u)' \subseteq Unfinished(u)
      BY <1>2, <1>3, <3>2 DEF Unfinished, Names
    <3> QED
      BY <1>4, <2>1, <3>1, <3>3, NamesCount
  <2>3. CASE DumpKilled(t)
    <3>1. Unfinished(u)' \subseteq Unfinished(u) \cup {dest[t]} /\ kills' = kills + 1
      BY <1>2, <1>3, <2>3 DEF Unfinished, Names, TypeOK, DumpKilled
    <3>2. Unfinished(u) \cup {dest[t]} \in SUBSET Times /\ IsFiniteSet(Unfinished(u))
          /\ Cardinality(Unfinished(u)) \in Nat
      BY <1>2, <1>4, NamesCount
    <3>3. Cardinality(Unfinished(u) \cup {dest[t]}) <= Cardinality(Unfinished(u)) + 1
      BY <3>2, FS_AddElement
    <3>4. Cardinality(Unfinished(u)') <= Cardinality(Unfinished(u) \cup {dest[t]})
          /\ Cardinality(Unfinished(u)') \in Nat
          /\ Cardinality(Unfinished(u) \cup {dest[t]}) \in Nat
      BY <3>1, <3>2, NamesCount
    <3> QED
      BY <2>1, <3>1, <3>2, <3>3, <3>4
  <2> QED
    BY <2>2, <2>3 DEF DumpOK, DumpFails, DumpKilled
<1> QED
  BY <1>5, <1>6

\* The rest of what a prune reads is no more than Retain names.
LEMMA ReadDirPruneStep == ASSUME IInv, PruneInv, NEW t \in Triggers, ReadDir(t) PROVE PruneInv'
<1> USE BackupAssumption DEF IInv, PruneInv, ReadDir, From, world, outcomes
<1>1. /\ UNCHANGED <<now, dest, dir, kills>> /\ Names' = Names
      /\ pc[t] = "prune" /\ \A u \in Triggers : pc'[u] = IF u = t THEN "remove" ELSE pc[u]
      /\ \A u \in Triggers : victims'[u] = IF u = t THEN Pruned ELSE victims[u]
  BY DEF TypeOK, Names
<1>2. DestSettled'
  BY <1>1 DEF DestSettled, Ended
<1>3. PruneLeaves'
  <2> SUFFICES ASSUME NEW u \in Triggers, pc'[u] = "remove"
               PROVE  Cardinality({d \in Names : d <= dest[u]} \ victims'[u]) <= Retain
    BY <1>1 DEF PruneLeaves
  <2>1. CASE u = t
    <3> DEFINE Left == {d \in Names : d <= dest[t]} \ Pruned
    <3>1. Left \in SUBSET (Names \ Pruned) /\ Names \ Pruned \in SUBSET Times
      BY DEF Names
    <3>2. Cardinality(Left) \in Nat /\ Cardinality(Names \ Pruned) \in Nat
          /\ Cardinality(Left) <= Cardinality(Names \ Pruned)
      BY <3>1, NamesCount
    <3> HIDE DEF Left
    <3>3. Cardinality(Left) <= Retain
      BY <3>2, KeptAtMostRetain
    <3> QED
      BY <1>1, <2>1, <3>3 DEF Left
  <2>2. CASE u # t
    BY <1>1, <2>2 DEF PruneLeaves
  <2> QED
    BY <2>1, <2>2
<1>4. UnfinishedAreKilled'
  <2>1. \A u \in Triggers : Unfinished(u)' = Unfinished(u)
    BY <1>1 DEF Unfinished
  <2> QED
    BY <1>1, <2>1 DEF UnfinishedAreKilled
<1> QED
  BY <1>2, <1>3, <1>4

\* A victim goes from the names and from the victims at once, and is older than
\* a backup that was begun in this second.
LEMMA RemovePruneStep ==
  ASSUME IInv, PruneInv, NEW t \in Triggers, RemoveOldest(t)
  PROVE  PruneInv'
<1> USE BackupAssumption DEF IInv, PruneInv, RemoveOldest, world, outcomes
<1>1. PICK d \in victims[t] : /\ dir' = [dir EXCEPT ![d] = "none"]
                              /\ victims' = [victims EXCEPT ![t] = @ \ {d}]
  OBVIOUS
<1>2. d \in Times /\ d < now /\ UNCHANGED <<now, pc, dest, kills>>
  BY DEF TypeOK, NamesArePast
<1>3. /\ Names' = Names \ {d}
      /\ \A u \in Triggers : victims[u] \ {d} \subseteq victims'[u]
      /\ \A e \in Names' : dir'[e] = dir[e]
  BY <1>1, <1>2 DEF Names, TypeOK
<1>4. DestSettled'
  BY <1>1, <1>2 DEF DestSettled, Ended, TypeOK, Times
<1>5. ASSUME NEW S \in SUBSET Times, NEW T \in SUBSET S, NEW n \in Int, Cardinality(S) <= n
      PROVE  Cardinality(T) <= n
  BY <1>5, NamesCount
<1>6. PruneLeaves'
  <2> SUFFICES ASSUME NEW u \in Triggers, pc[u] = "remove"
               PROVE  Cardinality({e \in Names' : e <= dest[u]} \ victims'[u]) <= Retain
    BY <1>2 DEF PruneLeaves
  <2> DEFINE Left == {e \in Names : e <= dest[u]} \ victims[u]
             LeftThen == {e \in Names' : e <= dest[u]} \ victims'[u]
  <2>1. Left \in SUBSET Times /\ LeftThen \in SUBSET Left
    BY <1>3 DEF Names
  <2>2. Cardinality(Left) <= Retain
    BY DEF PruneLeaves
  <2> HIDE DEF Left, LeftThen
  <2>3. Cardinality(LeftThen) <= Retain
    BY <1>5, <2>1, <2>2
  <2> QED
    BY <2>3 DEF LeftThen
<1>7. UnfinishedAreKilled'
  <2> SUFFICES ASSUME NEW u \in Triggers, pc[u] \in {"success", "prune"}
               PROVE  Cardinality(Unfinished(u)') <= kills
    BY <1>2 DEF UnfinishedAreKilled
  <2>1. Unfinished(u) \in SUBSET Times /\ Unfinished(u)' \in SUBSET Unfinished(u)
    BY <1>2, <1>3 DEF Unfinished, Names
  <2>2. Cardinality(Unfinished(u)) <= kills /\ kills \in Int
    BY DEF UnfinishedAreKilled, TypeOK
  <2> QED
    BY <1>5, <2>1, <2>2
<1> QED
  BY <1>4, <1>6, <1>7

\* Every step preserves what a prune is promised to leave.
LEMMA NextPruneInv == IInv /\ PruneInv /\ [Next]_vars => PruneInv'
<1> SUFFICES ASSUME IInv, PruneInv, [Next]_vars PROVE PruneInv'
  OBVIOUS
<1>1. CASE UNCHANGED vars
  <2>1. /\ Names' = Names /\ UNCHANGED <<now, dest, dir, kills, pc, victims>>
        /\ \A u \in Triggers : Unfinished(u)' = Unfinished(u) /\ (Ended(u)' <=> Ended(u))
    BY <1>1 DEF vars, Names, Unfinished, Ended
  <2> QED
    BY <2>1 DEF PruneInv, DestSettled, PruneLeaves, UnfinishedAreKilled
<1>2. CASE GuardCrash
  <2>1. \A u \in Triggers : pc'[u] = "idle"
    BY <1>2 DEF GuardCrash
  <2> QED
    BY <2>1 DEF PruneInv, DestSettled, PruneLeaves, UnfinishedAreKilled, Ended
<1>3. CASE Tick \/ \E role \in {"down", "standby", "primary"} : RoleChange(role)
  BY <1>3, QuietPruneSteps DEF IInv
<1>4. ASSUME NEW t \in Triggers, Trigger(t) \/ performBackup(t) PROVE PruneInv'
  <2>1. CASE \/ Trigger(t) \/ NotPrimary(t) \/ IsPrimary(t) \/ Acquire(t) \/ InProgress(t)
             \/ StartFails(t) \/ RecordFailure(t) \/ RecordSuccess(t) \/ PruneDone(t)
             \/ PruneFails(t)
    BY <2>1, QuietPruneSteps DEF IInv
  <2>2. CASE Start(t) \/ DumpOK(t) \/ DumpFails(t) \/ DumpKilled(t)
    BY <2>2, StartPruneStep, DumpPruneStep
  <2>3. CASE ReadDir(t) \/ RemoveOldest(t)
    BY <2>3, ReadDirPruneStep, RemovePruneStep
  <2> QED
    BY <1>4, <2>1, <2>2, <2>3 DEF performBackup, runBackup, pruneOldBackups
<1> QED
  BY <1>1, <1>2, <1>3, <1>4 DEF Next

\* Nothing has ended before the first step.
LEMMA InitPruneInv == Init => PruneInv
BY DEF Init, PruneInv, DestSettled, PruneLeaves, UnfinishedAreKilled, Ended

\* config.go:114: a prune that ends well leaves no more than Retain backups up
\* to its own, for any number of triggers, whatever they write and prune meanwhile.
THEOREM PruneThorough == Spec => []PruneIsThorough
<1>1. PruneInv => PruneIsThorough
  <2> SUFFICES ASSUME PruneLeaves, NEW t \in Triggers, pc[t] = "remove", victims[t] = {}
               PROVE  Cardinality({d \in Names : d <= dest[t]}) <= Retain
    BY DEF PruneInv, PruneIsThorough
  <2>1. {d \in Names : d <= dest[t]} \ victims[t] = {d \in Names : d <= dest[t]}
    OBVIOUS
  <2> QED
    BY <2>1 DEF PruneLeaves
<1> QED
  BY <1>1, BackupInvariant, InitPruneInv, NextPruneInv, PTL DEF Spec

-----------------------------------------------------------------------------
\* What a prune reads: above the newest complete backup that ranks no lower than
\* its own there are only the unfinished ones, fewer than Retain.
LEMMA PrunedAreSuperseded ==
  ASSUME IInv, PruneInv, GoodInv, MaxKills + 2 <= Retain,
         NEW t \in Triggers, pc[t] = "prune", NEW d \in Pruned
  PROVE  Superseded(d)
<1> USE BackupAssumption DEF IInv
<1> SUFFICES ASSUME ~ Superseded(d) PROVE FALSE
  OBVIOUS
<1>1. PICK e \in Complete : e >= dest[t]
  BY DEF GoodInv, GoodBackupStays, Ended
<1>2. d \in Int /\ dest[t] \in Int /\ d >= dest[t]
  BY <1>1 DEF Superseded, Complete, Pruned, Names, TypeOK, Times
<1> DEFINE Above == {f \in Names : f > d}
<1>3. Cardinality(Above) >= Retain /\ Above \in SUBSET Times
  BY DEF Pruned, Names
<1>4. \A f \in Above : f > dest[t] /\ dir[f] = "partial"
  BY <1>2 DEF Superseded, Complete, Names, TypeOK, Times
<1>5. /\ Unfinished(t) \in SUBSET Times /\ IsFiniteSet(Unfinished(t))
      /\ Cardinality(Unfinished(t)) \in Nat /\ Cardinality(Unfinished(t)) <= MaxKills
  <2>1. Unfinished(t) \in SUBSET Times
    BY DEF Unfinished, Names
  <2>2. Cardinality(Unfinished(t)) <= kills
    BY DEF PruneInv, UnfinishedAreKilled
  <2> QED
    BY <2>1, <2>2, NamesCount DEF TypeOK
<1>6. PICK r \in Times : Above \subseteq Unfinished(t) \cup {r}
  <2>1. CASE \E u \in Triggers : pc[u] = "dump"
    <3>1. PICK u \in Triggers : pc[u] = "dump"
      BY <2>1
    <3>2. \A v \in Triggers : pc[v] = "dump" => v = u
      BY <3>1 DEF OneBackupAtATime, Running
    <3>3. Above \subseteq Unfinished(t) \cup {dest[u]}
      BY <1>4, <3>2 DEF Unfinished
    <3> QED
      BY <3>3 DEF TypeOK
  <2>2. CASE \A u \in Triggers : pc[u] # "dump"
    <3>1. Above \subseteq Unfinished(t)
      BY <1>4, <2>2 DEF Unfinished
    <3> QED
      BY <3>1 DEF TypeOK
  <2> QED
    BY <2>1, <2>2
<1>7. Cardinality(Unfinished(t) \cup {r}) <= Cardinality(Unfinished(t)) + 1
  BY <1>5, FS_AddElement
<1>8. Unfinished(t) \cup {r} \in SUBSET Times
  BY <1>5, <1>6
<1>9. /\ Cardinality(Above) \in Nat /\ Cardinality(Unfinished(t) \cup {r}) \in Nat
      /\ Cardinality(Above) <= Cardinality(Unfinished(t) \cup {r})
  BY <1>6, <1>8, NamesCount
<1> HIDE DEF Above
<1> QED
  BY <1>3, <1>5, <1>7, <1>9

\* A step that takes a complete backup only with a newer one in its place, makes
\* no victims, and lets nobody succeed who has left none.
LEMMA GoodKept ==
  ASSUME TypeOK, GoodInv, \A u \in Triggers : victims'[u] \subseteq victims[u],
         \A d \in Complete : \E e \in Complete' : e >= d,
         \A u \in Triggers : Ended(u)' => \/ Ended(u) /\ dest'[u] = dest[u]
                                          \/ dest'[u] \in Complete'
  PROVE  GoodInv'
<1> USE BackupAssumption DEF GoodInv
<1>1. Complete \subseteq Int /\ Complete' \subseteq Int
  BY DEF Complete, Times
<1>2. GoodBackupStays'
  <2> SUFFICES ASSUME NEW u \in Triggers, Ended(u)' PROVE \E e \in Complete' : e >= dest'[u]
    BY DEF GoodBackupStays
  <2>1. CASE dest'[u] \in Complete'
    <3>1. \A e \in Complete' : e >= e
      BY <1>1
    <3> QED
      BY <2>1, <3>1
  <2>2. CASE Ended(u) /\ dest'[u] = dest[u]
    <3>1. PICK d \in Complete : d >= dest[u]
      BY <2>2 DEF GoodBackupStays
    <3>2. PICK e \in Complete' : e >= d
      OBVIOUS
    <3>3. dest[u] \in Int
      BY DEF TypeOK, Times
    <3> QED
      BY <1>1, <2>2, <3>1, <3>2, <3>3
  <2> QED
    BY <2>1, <2>2
<1>3. VictimsSuperseded'
  <2> SUFFICES ASSUME NEW u \in Triggers, NEW v \in victims'[u] PROVE \E e \in Complete' : e > v
    BY DEF VictimsSuperseded, Superseded
  <2>1. PICK d \in Complete : d > v
    BY DEF VictimsSuperseded, Superseded
  <2>2. PICK e \in Complete' : e >= d
    OBVIOUS
  <2>3. v \in Int
    BY DEF TypeOK, Times
  <2> QED
    BY <1>1, <2>1, <2>2, <2>3
<1> QED
  BY <1>2, <1>3

\* A victim that is removed leaves the newer complete backup where it is.
LEMMA RemovedIsSuperseded ==
  ASSUME IInv, GoodInv, NEW t \in Triggers, RemoveOldest(t), NEW d \in Times,
         dir[d] = "complete", dir'[d] = "none"
  PROVE  \E e \in Times : e > d /\ dir'[e] = "complete"
<1> USE BackupAssumption DEF IInv
<1>1. PICK v \in victims[t] : dir' = [dir EXCEPT ![v] = "none"]
  BY DEF RemoveOldest
<1>2. d = v
  BY <1>1 DEF TypeOK
<1>3. PICK e \in Complete : e > d
  BY <1>2 DEF GoodInv, VictimsSuperseded, Superseded
<1>4. e \in Times /\ dir'[e] = "complete"
  BY <1>1, <1>2, <1>3 DEF Complete, TypeOK, Times
<1> QED
  BY <1>3, <1>4

\* No other step takes a complete backup.
LEMMA OnlyPrunesRemove ==
  ASSUME IInv, [Next]_vars, \A t \in Triggers : ~ RemoveOldest(t)
  PROVE  Complete \subseteq Complete'
<1> USE DEF IInv, Complete, world, outcomes, From
<1>1. CASE UNCHANGED vars \/ GuardCrash \/ Tick
           \/ \E role \in {"down", "standby", "primary"} : RoleChange(role)
  BY <1>1 DEF vars, GuardCrash, Tick, RoleChange
<1>2. ASSUME NEW t \in Triggers, Trigger(t) \/ performBackup(t) PROVE Complete \subseteq Complete'
  <2>1. CASE Start(t)
    BY <2>1 DEF Start, TypeOK
  <2>2. CASE DumpOK(t) \/ DumpFails(t)
    BY <2>2 DEF DumpOK, DumpFails, TypeOK, RunningBackupKept
  <2>3. CASE \/ Trigger(t) \/ NotPrimary(t) \/ IsPrimary(t) \/ Acquire(t) \/ InProgress(t)
             \/ StartFails(t) \/ DumpKilled(t) \/ RecordFailure(t) \/ RecordSuccess(t)
             \/ PruneDone(t) \/ PruneFails(t) \/ ReadDir(t)
    BY <2>3 DEF Trigger, NotPrimary, IsPrimary, Acquire, InProgress, StartFails, DumpKilled,
                RecordFailure, RecordSuccess, PruneDone, PruneFails, ReadDir
  <2> QED
    BY <1>2, <2>1, <2>2, <2>3 DEF performBackup, runBackup, pruneOldBackups
<1> QED
  BY <1>1, <1>2 DEF Next

\* Every step keeps what every victim needs: a newer complete backup.
LEMMA NextGoodInv ==
  ASSUME MaxKills + 2 <= Retain, IInv, PruneInv, GoodInv, [Next]_vars
  PROVE  GoodInv'
<1> USE BackupAssumption DEF IInv, world, outcomes, From
<1>1. ASSUME NEW t \in Triggers, RemoveOldest(t) PROVE GoodInv'
  <2>1. \A d \in Complete : \E e \in Complete' : e >= d
    <3> SUFFICES ASSUME NEW d \in Complete PROVE \E e \in Complete' : e >= d
      OBVIOUS
    <3>1. d \in Times /\ dir[d] = "complete" /\ dir'[d] \in {"none", dir[d]} /\ d >= d
      BY <1>1 DEF Complete, RemoveOldest, TypeOK, Times
    <3>2. CASE dir'[d] = "none"
      BY <1>1, <3>1, <3>2, RemovedIsSuperseded DEF Complete, Times
    <3>3. CASE dir'[d] # "none"
      BY <3>1, <3>3 DEF Complete
    <3> QED
      BY <3>2, <3>3
  <2>2. UNCHANGED <<pc, dest>> /\ \A u \in Triggers : victims'[u] \subseteq victims[u]
    BY <1>1 DEF RemoveOldest, TypeOK
  <2> QED
    BY <2>1, <2>2, GoodKept DEF Ended
<1>2. ASSUME \A t \in Triggers : ~ RemoveOldest(t) PROVE \A d \in Complete : \E e \in Complete' : e >= d
  <2>1. Complete \subseteq Complete'
    BY <1>2, OnlyPrunesRemove
  <2>2. \A d \in Complete : d >= d
    BY DEF Complete, Times
  <2> QED
    BY <2>1, <2>2
<1>3. ASSUME NEW t \in Triggers, ReadDir(t), \A u \in Triggers : ~ RemoveOldest(u) PROVE GoodInv'
  <2>1. /\ UNCHANGED <<dest, dir>> /\ Complete' = Complete /\ pc[t] = "prune"
        /\ \A u \in Triggers : victims'[u] = IF u = t THEN Pruned ELSE victims[u]
        /\ \A u \in Triggers : Ended(u)' <=> Ended(u)
    BY <1>3 DEF ReadDir, TypeOK, Complete, Ended
  <2>2. \A d \in Pruned : Superseded(d)
    BY <2>1, PrunedAreSuperseded
  <2>3. VictimsSuperseded'
    BY <2>1, <2>2 DEF GoodInv, VictimsSuperseded, Superseded
  <2>4. GoodBackupStays'
    BY <2>1 DEF GoodInv, GoodBackupStays
  <2> QED
    BY <2>3, <2>4 DEF GoodInv
<1>4. CASE GuardCrash
  <2>1. \A u \in Triggers : pc'[u] = "idle" /\ victims'[u] = {}
    BY <1>4 DEF GuardCrash
  <2> QED
    BY <2>1 DEF GoodInv, GoodBackupStays, VictimsSuperseded, Ended
<1>5. CASE UNCHANGED vars \/ Tick \/ \E role \in {"down", "standby", "primary"} : RoleChange(role)
  <2>1. UNCHANGED <<pc, dest, dir, victims>>
    BY <1>5 DEF vars, Tick, RoleChange
  <2>2. \A u \in Triggers : (Ended(u)' <=> Ended(u)) /\ Complete' = Complete
    BY <2>1 DEF Ended, Complete
  <2> QED
    BY <2>1, <2>2 DEF GoodInv, GoodBackupStays, VictimsSuperseded, Superseded
<1>6. ASSUME NEW t \in Triggers, Trigger(t) \/ performBackup(t), ~ ReadDir(t),
             \A u \in Triggers : ~ RemoveOldest(u)
      PROVE  GoodInv'
  <2> USE <1>6 DEF performBackup, runBackup, pruneOldBackups
  <2>1. \A u \in Triggers : victims'[u] \subseteq victims[u]
    BY DEF Trigger, NotPrimary, IsPrimary, Acquire, InProgress, Start, StartFails, DumpOK,
           DumpFails, DumpKilled, RecordFailure, RecordSuccess, PruneDone, PruneFails, TypeOK
  <2>2. ASSUME NEW u \in Triggers, Ended(u)'
        PROVE  (Ended(u) /\ dest'[u] = dest[u]) \/ dest'[u] \in Complete'
    <3>1. CASE Start(t)
      BY <2>2, <3>1 DEF Start, Ended, TypeOK
    <3>2. CASE DumpOK(t)
      BY <2>2, <3>2 DEF DumpOK, Ends, Ended, Complete, TypeOK
    <3>3. CASE StartFails(t) \/ DumpFails(t) \/ DumpKilled(t)
      BY <2>2, <3>3 DEF StartFails, DumpFails, DumpKilled, Ends, Ended, TypeOK
    <3>4. CASE \/ Trigger(t) \/ NotPrimary(t) \/ IsPrimary(t) \/ Acquire(t) \/ InProgress(t)
               \/ RecordFailure(t) \/ RecordSuccess(t) \/ PruneDone(t) \/ PruneFails(t)
      BY <2>2, <3>4 DEF Trigger, NotPrimary, IsPrimary, Acquire, InProgress, RecordFailure,
                        RecordSuccess, PruneDone, PruneFails, Ended, TypeOK
    <3> QED
      BY <3>1, <3>2, <3>3, <3>4
  <2> QED
    BY <1>2, <2>1, <2>2, GoodKept
<1> QED
  BY <1>1, <1>3, <1>4, <1>5, <1>6 DEF Next, performBackup, pruneOldBackups

\* A prune never takes the newest good backup, for any number of triggers, as
\* long as pg_basebackups that die before they clean up, and the one that runs,
\* are fewer than Retain: unfinished directories are counted among the newest
\* (backup.go:217-228), and with one more they push it out.
THEOREM PruneKeepsNewestGood ==
  ASSUME MaxKills + 2 <= Retain
  PROVE  Spec => PrunedIsSuperseded
<1>1. Init => GoodInv
  BY DEF Init, GoodInv, GoodBackupStays, VictimsSuperseded, Ended
<1>2. IInv /\ PruneInv /\ GoodInv /\ [Next]_vars => GoodInv'
  BY NextGoodInv
<1>3. IInv /\ PruneInv /\ GoodInv /\ [Next]_vars
        => [\A d \in Times : dir[d] = "complete" /\ dir'[d] = "none"
                               => \E e \in Times : e > d /\ dir'[e] = "complete"]_vars
  <2> SUFFICES ASSUME IInv, PruneInv, GoodInv, [Next]_vars, NEW d \in Times,
                      dir[d] = "complete", dir'[d] = "none"
               PROVE  \E e \in Times : e > d /\ dir'[e] = "complete"
    OBVIOUS
  <2>1. PICK t \in Triggers : RemoveOldest(t)
    BY OnlyPrunesRemove DEF Complete
  <2> QED
    BY <2>1, RemovedIsSuperseded
<1> QED
  BY <1>1, <1>2, <1>3, BackupInvariant, InitPruneInv, NextPruneInv, PTL
     DEF Spec, PrunedIsSuperseded

-----------------------------------------------------------------------------
Writing == {t \in Triggers : Running(t)}
ShelfStep == [Shelf!Next]_(Shelf!vars)

\* A step that neither starts nor ends a backup, nor touches a good one.
LEMMA ShowsNothing ==
  ASSUME Writing' = Writing, Complete' = Complete
  PROVE  ShelfStep
BY DEF Writing, ShelfStep, Shelf!vars

\* The compare-and-swap lets a backup in when nobody is writing one.
LEMMA ShowsBegin == ASSUME IInv, NEW t \in Triggers, Acquire(t) PROVE ShelfStep
<1> USE DEF IInv, TypeOK, Acquire, From, world, outcomes
<1>1. Writing = {}
  BY DEF Writing, GuardHeld
<1>2. Writing' = {t} /\ Complete' = Complete
  BY <1>1 DEF Writing, Running, Complete
<1>3. Shelf!Begin(t)
  BY <1>1, <1>2 DEF Writing, Shelf!Begin
<1> QED
  BY <1>3 DEF ShelfStep, Shelf!Next

\* Nobody else is writing when a backup ends.
LEMMA EndsWriting ==
  ASSUME IInv, NEW t \in Triggers, NEW outcome \in {"success", "failure"}, Ends(t, outcome)
  PROVE  Writing = {t} /\ Writing' = {}
BY DEF IInv, TypeOK, Ends, Writing, Running, OneBackupAtATime

\* A backup that succeeds goes on the shelf as the newest.
LEMMA ShowsSucceed == ASSUME IInv, NEW t \in Triggers, DumpOK(t) PROVE ShelfStep
<1> USE BackupAssumption DEF IInv, TypeOK, DumpOK, Complete
<1>1. Writing = {t} /\ Writing' = {}
  BY EndsWriting
<1>2. dir[dest[t]] = "partial" /\ dest[t] \in Times
  BY DEF RunningBackupKept
<1>3. \A e \in Complete : e < dest[t]
  <2> SUFFICES ASSUME NEW e \in Complete PROVE e < dest[t]
    OBVIOUS
  <2>1. e <= dest[t] /\ e # dest[t]
    BY <1>2 DEF RunningIsNewest, Names
  <2> QED
    BY <1>2, <2>1 DEF Times
<1>4. Complete' = Complete \cup {dest[t]}
  BY <1>2
<1>5. PICK d \in Times : d = dest[t]
  BY <1>2
<1>6. Shelf!Succeed(d)
  BY <1>1, <1>3, <1>4, <1>5 DEF Writing, Shelf!Succeed
<1> QED
  BY <1>6 DEF ShelfStep, Shelf!Next

\* A backup that fails leaves the shelf as it is.
LEMMA ShowsFail ==
  ASSUME IInv, NEW t \in Triggers, StartFails(t) \/ DumpFails(t) \/ DumpKilled(t)
  PROVE  ShelfStep
<1> USE DEF IInv, TypeOK, StartFails, DumpFails, DumpKilled
<1>1. Writing = {t} /\ Writing' = {}
  BY EndsWriting
<1>2. Complete' = Complete
  BY DEF Complete, RunningBackupKept
<1>3. Shelf!Fail
  BY <1>1, <1>2 DEF Writing, Shelf!Fail
<1> QED
  BY <1>3 DEF ShelfStep, Shelf!Next

\* A death of pg-guard fails the backup that runs, if one does.
LEMMA ShowsDeath == ASSUME IInv, GuardCrash PROVE ShelfStep
<1>1. Writing' = {} /\ Complete' = Complete
  BY DEF GuardCrash, Writing, Running, Complete, world
<1>2. CASE Writing = {}
  BY <1>1, <1>2, ShowsNothing
<1>3. CASE Writing # {}
  <2>1. Shelf!Fail
    BY <1>1, <1>3 DEF Writing, Shelf!Fail
  <2> QED
    BY <2>1 DEF ShelfStep, Shelf!Next
<1> QED
  BY <1>2, <1>3

\* A victim that is removed leaves the shelf while a newer one stays, or was not on it.
LEMMA ShowsDrop == ASSUME IInv, GoodInv, NEW t \in Triggers, RemoveOldest(t) PROVE ShelfStep
<1> USE BackupAssumption DEF IInv, TypeOK
<1>1. PICK d \in victims[t] : dir' = [dir EXCEPT ![d] = "none"]
  BY DEF RemoveOldest
<1>2. Writing' = Writing
  BY DEF RemoveOldest, outcomes, Writing, Running
<1>3. CASE d \notin Complete
  <2>1. Complete' = Complete
    BY <1>1, <1>3 DEF Complete
  <2> QED
    BY <1>2, <2>1, ShowsNothing
<1>4. CASE d \in Complete
  <2>1. Complete' = Complete \ {d}
    BY <1>1 DEF Complete
  <2>2. \E e \in Complete : e > d
    BY DEF GoodInv, VictimsSuperseded, Superseded
  <2>3. Shelf!Drop(d)
    BY <1>2, <1>4, <2>1, <2>2 DEF Writing, Shelf!Drop
  <2> QED
    BY <1>1, <2>3 DEF ShelfStep, Shelf!Next
<1> QED
  BY <1>3, <1>4

\* Every step maps to one of the shelf, or to a stutter.
LEMMA StepRefines == IInv /\ GoodInv /\ [Next]_vars => ShelfStep
<1> SUFFICES ASSUME IInv, GoodInv, [Next]_vars PROVE ShelfStep
  OBVIOUS
<1> USE DEF world, outcomes
<1>1. CASE GuardCrash
  BY <1>1, ShowsDeath
<1>2. CASE UNCHANGED vars \/ Tick \/ \E role \in {"down", "standby", "primary"} : RoleChange(role)
  <2>1. Writing' = Writing /\ Complete' = Complete
    BY <1>2 DEF vars, Tick, RoleChange, Writing, Running, Complete
  <2> QED
    BY <2>1, ShowsNothing
<1>3. ASSUME NEW t \in Triggers, Trigger(t) \/ performBackup(t) PROVE ShelfStep
  <2>1. CASE Acquire(t)
    BY <2>1, ShowsBegin
  <2>2. CASE DumpOK(t)
    BY <2>2, ShowsSucceed
  <2>3. CASE StartFails(t) \/ DumpFails(t) \/ DumpKilled(t)
    BY <2>3, ShowsFail
  <2>4. CASE RemoveOldest(t)
    BY <2>4, ShowsDrop
  <2>5. CASE Start(t)
    <3>1. Writing' = Writing /\ Complete' = Complete
      BY <2>5 DEF Start, From, Writing, Running, Complete, IInv, TypeOK
    <3> QED
      BY <3>1, ShowsNothing
  <2>6. CASE \/ Trigger(t) \/ NotPrimary(t) \/ IsPrimary(t) \/ InProgress(t) \/ RecordFailure(t)
             \/ RecordSuccess(t) \/ ReadDir(t) \/ PruneDone(t) \/ PruneFails(t)
    <3>1. Writing' = Writing /\ Complete' = Complete
      BY <2>6 DEF Trigger, NotPrimary, IsPrimary, InProgress, RecordFailure, RecordSuccess,
                  ReadDir, PruneDone, PruneFails, From, Writing, Running, Complete, IInv, TypeOK
    <3> QED
      BY <3>1, ShowsNothing
  <2> QED
    BY <1>3, <2>1, <2>2, <2>3, <2>4, <2>5, <2>6 DEF performBackup, runBackup, pruneOldBackups
<1> QED
  BY <1>1, <1>2, <1>3 DEF Next

\* backup.go: backups, prunes, failures and crashes amount to a shelf of good
\* backups that is written one at a time and keeps its newest, for any triggers
\* and, as for PruneKeepsNewestGood, any retention of at least MaxKills + 2.
THEOREM BackupImplementsShelf ==
  ASSUME MaxKills + 2 <= Retain
  PROVE  Spec => ImplementsBackupShelf
<1>1. Init => GoodInv
  BY DEF Init, GoodInv, GoodBackupStays, VictimsSuperseded, Ended
<1>2. IInv /\ PruneInv /\ GoodInv /\ [Next]_vars => GoodInv'
  BY NextGoodInv
<1>3. Init => Shelf!Init
  BY DEF Init, Shelf!Init, Running, Complete
<1>4. IInv /\ GoodInv /\ [Next]_vars => [Shelf!Next]_(Shelf!vars)
  BY StepRefines DEF ShelfStep
<1> QED
  BY <1>1, <1>2, <1>3, <1>4, BackupInvariant, InitPruneInv, NextPruneInv, PTL
     DEF Spec, ImplementsBackupShelf, Shelf!Spec
=============================================================================

------------------------- MODULE StatePersistProofs -------------------------
(***************************************************************************)
(* For any finite set of goroutines that persist: the state file's name    *)
(* never stands for a torn file, and the file catches up with the          *)
(* counters, short of a race through the one temporary file.               *)
(***************************************************************************)
EXTENDS StatePersist, FiniteSetTheorems, TLAPS

LEMMA Basics ==
  /\ IsFiniteSet(Writers) /\ Main \in Writers /\ MaxCount \in Nat
  /\ Cardinality(Writers) \in Nat
  /\ NoFile = 0 /\ NoFile \notin Inodes
  /\ Zero \in Snapshots /\ Torn \notin Snapshots
<1>1. Cardinality(Writers) \in Nat
  BY WritersAssumption, FS_CardinalityType
<1>2. Torn \notin Snapshots
  <2> SUFFICES ASSUME Torn \in Snapshots PROVE FALSE
    OBVIOUS
  <2>1. Torn[Main] = -1
    BY WritersAssumption DEF Torn
  <2>2. Torn[Main] \in 0..MaxCount
    BY WritersAssumption DEF Snapshots
  <2> QED
    BY <2>1, <2>2, WritersAssumption
<1> QED
  BY <1>1, <1>2, WritersAssumption DEF NoFile, Inodes, Zero, Snapshots

\* A temporary file that is created gets an inode of its own: there is one more
\* inode than two names and a descriptor per writer can hold.
LEMMA FreeInode ==
  ASSUME TypeOK, tmp = NoFile
  PROVE  \E j \in Inodes : j \notin InUse
<1> SUFFICES ASSUME Inodes \subseteq InUse PROVE FALSE
  OBVIOUS
<1> DEFINE Held == {fd[w] : w \in Writers}
<1>1. fd \in Surjection(Writers, Held)
  BY DEF TypeOK, Surjection
<1>2. IsFiniteSet(Held) /\ Cardinality(Held) <= Cardinality(Writers)
  BY <1>1, Basics, FS_Surjection
<1> HIDE DEF Held
<1>3. IsFiniteSet(Held \cup {path}) /\ Cardinality(Held \cup {path}) <= Cardinality(Held) + 1
      /\ Cardinality(Held) \in Nat
  <2>1. IsFiniteSet(Held \cup {path}) /\ Cardinality(Held \cup {path})
          = IF path \in Held THEN Cardinality(Held) ELSE Cardinality(Held) + 1
    BY <1>2, FS_AddElement
  <2>2. Cardinality(Held) \in Nat
    BY <1>2, FS_CardinalityType
  <2> QED
    BY <2>1, <2>2
<1>4. Inodes \subseteq Held \cup {path}
  BY Basics DEF InUse, Held
<1>5. Cardinality(Inodes) <= Cardinality(Held \cup {path})
  BY <1>3, <1>4, FS_Subset
<1>6. Cardinality(Inodes) = Cardinality(Writers) + 2
  BY Basics, FS_Interval DEF Inodes
<1>7. Cardinality(Held \cup {path}) \in Nat
  BY <1>3, FS_CardinalityType
<1> QED
  BY <1>2, <1>3, <1>5, <1>6, <1>7, Basics

\* Open takes the temporary file that is there, or an inode nobody holds.
LEMMA OpenInode ==
  ASSUME TypeOK, NamesApart, NEW w \in Writers, Open(w)
  PROVE  /\ tmp' \in Inodes /\ tmp' # path
         /\ fd' = [fd EXCEPT ![w] = tmp']
         /\ content' = [content EXCEPT ![tmp'] = Torn]
<1>1. CASE tmp # NoFile
  BY <1>1 DEF Open, TypeOK, NamesApart
<1>2. CASE tmp = NoFile
  <2>1. PICK i : i = CHOOSE j \in Inodes : j \notin InUse
    OBVIOUS
  <2>2. i \in Inodes /\ i \notin InUse
    BY <1>2, <2>1, FreeInode
  <2>3. tmp' = i /\ fd' = [fd EXCEPT ![w] = i] /\ content' = [content EXCEPT ![i] = Torn]
    BY <1>2, <2>1, Zenon DEF Open
  <2> QED
    BY <2>2, <2>3 DEF InUse
<1> QED
  BY <1>1, <1>2

\* initPersistentState begins in a state that satisfies the inductive invariant.
LEMMA InitIInv == Init => IInv
<1> SUFFICES ASSUME Init PROVE IInv
  OBVIOUS
<1> USE Basics DEF Init
<1>1. TypeOK
  BY DEF TypeOK
<1>2. NamesApart /\ AloneKnows
  BY DEF NamesApart, AloneKnows, Persisting
<1>3. FileNeverTorn /\ Saved
  BY DEF FileNeverTorn, Saved
<1> QED
  BY <1>1, <1>2, <1>3 DEF IInv

\* loadPersistedState never takes a torn file for counters.
LEMMA LoadedType == TypeOK => Loaded \in Snapshots
BY Basics DEF TypeOK, Loaded

\* Every step keeps the types.
LEMMA TypeStep == TypeOK /\ NamesApart /\ [Next]_vars => TypeOK'
<1> SUFFICES ASSUME TypeOK, NamesApart, [Next]_vars PROVE TypeOK'
  OBVIOUS
<1> USE Basics DEF history, files, To, TypeOK, NamesApart, Snapshots
<1>1. ASSUME Boot PROVE TypeOK'
  BY <1>1, LoadedType DEF Boot, Enter
<1>2. ASSUME GuardCrash PROVE TypeOK'
  BY <1>2 DEF GuardCrash
<1>3. ASSUME NEW w \in Writers, Ready(w) PROVE TypeOK'
  BY <1>3 DEF Ready
<1>4. ASSUME NEW w \in Writers, Count(w) PROVE TypeOK'
  BY <1>4 DEF Count, Enter
<1>5. ASSUME NEW w \in Writers, Snapshot(w) PROVE TypeOK'
  BY <1>5 DEF Snapshot
<1>6. ASSUME NEW w \in Writers, Open(w) PROVE TypeOK'
  BY <1>6, OpenInode DEF Open
<1>7. ASSUME NEW w \in Writers, Write(w) PROVE TypeOK'
  BY <1>7 DEF Write
<1>8. ASSUME NEW w \in Writers, WriteFails(w) PROVE TypeOK'
  BY <1>8 DEF WriteFails
<1>9. ASSUME NEW w \in Writers, Rename(w) PROVE TypeOK'
  BY <1>9 DEF Rename
<1>10. ASSUME NEW w \in Writers, SaveFails(w) PROVE TypeOK'
  BY <1>10 DEF SaveFails
<1>11. CASE UNCHANGED vars
  BY <1>11 DEF vars
<1> QED
  BY <1>1, <1>2, <1>3, <1>4, <1>5, <1>6, <1>7, <1>8, <1>9, <1>10, <1>11
     DEF Next, Persist

\* Every step keeps the names and descriptors apart.
LEMMA NamesStep == TypeOK /\ NamesApart /\ [Next]_vars => NamesApart'
<1> SUFFICES ASSUME TypeOK, NamesApart, [Next]_vars PROVE NamesApart'
  OBVIOUS
<1> USE Basics DEF history, files, To, TypeOK, NamesApart, Persisting
<1>1. ASSUME Boot PROVE NamesApart'
  BY <1>1 DEF Boot, Enter
<1>2. ASSUME GuardCrash PROVE NamesApart'
  BY <1>2 DEF GuardCrash
<1>3. ASSUME NEW w \in Writers, Ready(w) PROVE NamesApart'
  BY <1>3 DEF Ready
<1>4. ASSUME NEW w \in Writers, Count(w) PROVE NamesApart'
  BY <1>4 DEF Count, Enter
<1>5. ASSUME NEW w \in Writers, Snapshot(w) PROVE NamesApart'
  BY <1>5 DEF Snapshot
<1>6. ASSUME NEW w \in Writers, Open(w) PROVE NamesApart'
  BY <1>6, OpenInode DEF Open
<1>7. ASSUME NEW w \in Writers, Write(w) PROVE NamesApart'
  BY <1>7 DEF Write
<1>8. ASSUME NEW w \in Writers, WriteFails(w) PROVE NamesApart'
  BY <1>8 DEF WriteFails
<1>9. ASSUME NEW w \in Writers, Rename(w) PROVE NamesApart'
  BY <1>9 DEF Rename
<1>10. ASSUME NEW w \in Writers, SaveFails(w) PROVE NamesApart'
  BY <1>10 DEF SaveFails
<1>11. CASE UNCHANGED vars
  BY <1>11 DEF vars
<1> QED
  BY <1>1, <1>2, <1>3, <1>4, <1>5, <1>6, <1>7, <1>8, <1>9, <1>10, <1>11
     DEF Next, Persist

\* Every step keeps what a lone writer knows.
LEMMA KnowsStep == TypeOK /\ NamesApart /\ AloneKnows /\ [Next]_vars => AloneKnows'
<1> SUFFICES ASSUME TypeOK, NamesApart, AloneKnows, [Next]_vars PROVE AloneKnows'
  OBVIOUS
<1> USE Basics DEF history, files, To, TypeOK, NamesApart, AloneKnows, Persisting
<1>1. ASSUME Boot PROVE AloneKnows'
  BY <1>1 DEF Boot, Enter
<1>2. ASSUME GuardCrash PROVE AloneKnows'
  BY <1>2 DEF GuardCrash
<1>3. ASSUME NEW w \in Writers, Ready(w) PROVE AloneKnows'
  BY <1>3 DEF Ready
<1>4. ASSUME NEW w \in Writers, Count(w) PROVE AloneKnows'
  BY <1>4 DEF Count, Enter
<1>5. ASSUME NEW w \in Writers, Snapshot(w) PROVE AloneKnows'
  BY <1>5 DEF Snapshot
<1>6. ASSUME NEW w \in Writers, Open(w) PROVE AloneKnows'
  <2>1. CASE alone
    <3>1. \A v \in Writers : v # w => pc[v] \in {"off", "idle"}
      BY <1>6, <2>1 DEF Open
    <3>2. /\ tmp' \in Inodes /\ fd' = [fd EXCEPT ![w] = tmp']
          /\ content' = [content EXCEPT ![tmp'] = Torn]
      BY <1>6, OpenInode
    <3>3. fd'[w] = tmp' /\ content'[tmp'] = Torn
      BY <3>2
    <3>4. pc' = [pc EXCEPT ![w] = "write"] /\ UNCHANGED <<counts, snap, alone>> /\ snap[w] = counts
      BY <1>6, <2>1 DEF Open
    <3> QED
      BY <3>1, <3>3, <3>4
  <2>2. CASE ~alone
    BY <1>6, <2>2 DEF Open
  <2> QED
    BY <2>1, <2>2
<1>7. ASSUME NEW w \in Writers, Write(w) PROVE AloneKnows'
  <2>1. CASE alone
    <3>1. \A v \in Writers : v # w => pc[v] \in {"off", "idle"}
      BY <1>7, <2>1 DEF Write
    <3>2. fd[w] = tmp /\ tmp \in Inodes /\ content[tmp] = Torn /\ snap[w] = counts
      BY <1>7, <2>1 DEF Write
    <3>3. content' = [content EXCEPT ![tmp] = counts]
      BY <1>7, <3>2 DEF Write, TailStays
    <3>4. pc' = [pc EXCEPT ![w] = "rename"] /\ UNCHANGED <<counts, snap, fd, tmp, alone>>
      BY <1>7 DEF Write
    <3> QED
      BY <3>1, <3>2, <3>3, <3>4
  <2>2. CASE ~alone
    BY <1>7, <2>2 DEF Write
  <2> QED
    BY <2>1, <2>2
<1>8. ASSUME NEW w \in Writers, WriteFails(w) PROVE AloneKnows'
  BY <1>8 DEF WriteFails
<1>9. ASSUME NEW w \in Writers, Rename(w) PROVE AloneKnows'
  BY <1>9 DEF Rename
<1>10. ASSUME NEW w \in Writers, SaveFails(w) PROVE AloneKnows'
  BY <1>10 DEF SaveFails
<1>11. CASE UNCHANGED vars
  BY <1>11 DEF vars
<1> QED
  BY <1>1, <1>2, <1>3, <1>4, <1>5, <1>6, <1>7, <1>8, <1>9, <1>10, <1>11
     DEF Next, Persist

\* Every step keeps the state file whole.
LEMMA TornStep == TypeOK /\ NamesApart /\ AloneKnows /\ FileNeverTorn /\ [Next]_vars => FileNeverTorn'
<1> SUFFICES ASSUME TypeOK, NamesApart, AloneKnows, FileNeverTorn, [Next]_vars PROVE FileNeverTorn'
  OBVIOUS
<1> USE Basics DEF history, files, To, TypeOK, NamesApart, AloneKnows, FileNeverTorn, Persisting
<1>1. ASSUME Boot PROVE FileNeverTorn'
  BY <1>1 DEF Boot, Enter
<1>2. ASSUME GuardCrash PROVE FileNeverTorn'
  BY <1>2 DEF GuardCrash
<1>3. ASSUME NEW w \in Writers, Ready(w) PROVE FileNeverTorn'
  BY <1>3 DEF Ready
<1>4. ASSUME NEW w \in Writers, Count(w) PROVE FileNeverTorn'
  BY <1>4 DEF Count, Enter
<1>5. ASSUME NEW w \in Writers, Snapshot(w) PROVE FileNeverTorn'
  BY <1>5 DEF Snapshot
<1>6. ASSUME NEW w \in Writers, Open(w) PROVE FileNeverTorn'
  BY <1>6, OpenInode, ZenonT(30) DEF Open
<1>7. ASSUME NEW w \in Writers, Write(w) PROVE FileNeverTorn'
  BY <1>7 DEF Write
<1>8. ASSUME NEW w \in Writers, WriteFails(w) PROVE FileNeverTorn'
  BY <1>8 DEF WriteFails
<1>9. ASSUME NEW w \in Writers, Rename(w) PROVE FileNeverTorn'
  BY <1>9 DEF Rename
<1>10. ASSUME NEW w \in Writers, SaveFails(w) PROVE FileNeverTorn'
  BY <1>10 DEF SaveFails
<1>11. CASE UNCHANGED vars
  BY <1>11 DEF vars
<1> QED
  BY <1>1, <1>2, <1>3, <1>4, <1>5, <1>6, <1>7, <1>8, <1>9, <1>10, <1>11
     DEF Next, Persist

\* Every step keeps the state file up to date.
LEMMA SavedStep == TypeOK /\ NamesApart /\ AloneKnows /\ Saved /\ [Next]_vars => Saved'
<1> SUFFICES ASSUME TypeOK, NamesApart, AloneKnows, Saved, [Next]_vars PROVE Saved'
  OBVIOUS
<1> USE Basics DEF history, files, To, TypeOK, NamesApart, AloneKnows, Saved, Persisting
<1>1. ASSUME Boot PROVE Saved'
  BY <1>1 DEF Boot, Enter
<1>2. ASSUME GuardCrash PROVE Saved'
  BY <1>2 DEF GuardCrash
<1>3. ASSUME NEW w \in Writers, Ready(w) PROVE Saved'
  BY <1>3 DEF Ready
<1>4. ASSUME NEW w \in Writers, Count(w) PROVE Saved'
  BY <1>4 DEF Count, Enter
<1>5. ASSUME NEW w \in Writers, Snapshot(w) PROVE Saved'
  BY <1>5 DEF Snapshot
<1>6. ASSUME NEW w \in Writers, Open(w) PROVE Saved'
  BY <1>6, OpenInode DEF Open
<1>7. ASSUME NEW w \in Writers, Write(w) PROVE Saved'
  BY <1>7 DEF Write
<1>8. ASSUME NEW w \in Writers, WriteFails(w) PROVE Saved'
  BY <1>8 DEF WriteFails
<1>9. ASSUME NEW w \in Writers, Rename(w) PROVE Saved'
  BY <1>9 DEF Rename
<1>10. ASSUME NEW w \in Writers, SaveFails(w) PROVE Saved'
  BY <1>10 DEF SaveFails
<1>11. CASE UNCHANGED vars
  BY <1>11 DEF vars
<1> QED
  BY <1>1, <1>2, <1>3, <1>4, <1>5, <1>6, <1>7, <1>8, <1>9, <1>10, <1>11
     DEF Next, Persist

\* Spec keeps the whole inductive invariant.
THEOREM StatePersistInvariant == Spec => []IInv
<1>1. IInv /\ [Next]_vars => IInv'
  BY TypeStep, NamesStep, KnowsStep, TornStep, SavedStep DEF IInv
<1> QED
  BY InitIInv, <1>1, PTL DEF Spec

\* statepersist.go: counters, snapshots and inodes keep their types.
THEOREM TypeCorrect == Spec => []TypeOK
<1>1. IInv => TypeOK
  BY DEF IInv
<1> QED
  BY StatePersistInvariant, <1>1, PTL

\* statepersist.go:104-108: the state file's name never stands for a torn file,
\* whenever pg-guard dies, unless two goroutines raced through the temporary file.
THEOREM StateFileWhole == Spec => []FileNeverTorn
<1>1. IInv => FileNeverTorn
  BY DEF IInv
<1> QED
  BY StatePersistInvariant, <1>1, PTL

\* With no persistState under way the file holds the counters, unless a write
\* failed or a race has not been made good.
THEOREM StateFileCurrent == Spec => []FileCatchesUp
<1>1. IInv => FileCatchesUp
  BY Basics DEF IInv, Saved, FileCatchesUp, Persisting
<1> QED
  BY StatePersistInvariant, <1>1, PTL

-----------------------------------------------------------------------------
\* Every step keeps pg-guard off as a whole.
LEMMA DownStep == TypeOK /\ DownIsQuiet /\ [Next]_vars => DownIsQuiet'
<1> SUFFICES ASSUME TypeOK, DownIsQuiet, [Next]_vars PROVE DownIsQuiet'
  OBVIOUS
<1> USE Basics DEF history, files, To, TypeOK, DownIsQuiet
<1>1. CASE Boot \/ GuardCrash
  BY <1>1 DEF Boot, GuardCrash
<1>2. ASSUME NEW w \in Writers, Ready(w) \/ Count(w) \/ Persist(w) PROVE DownIsQuiet'
  <2>1. pc'[Main] = "off" => pc[Main] = "off"
    BY <1>2 DEF Ready, Count, Persist, Snapshot, Open, Write, WriteFails, SaveFails, Rename
  <2>2. pc[Main] # "off"
    BY <1>2 DEF Ready, Count, Persist, Snapshot, Open, Write, WriteFails, SaveFails, Rename
  <2> QED
    BY <2>1, <2>2
<1>3. CASE UNCHANGED vars
  BY <1>3 DEF vars
<1> QED
  BY <1>1, <1>2, <1>3 DEF Next

Due == Persisting \cup unsaved
CountersStep == [Counters!Next]_(Counters!vars)
SameUp == (pc'[Main] # "off") <=> (pc[Main] # "off")

\* A step that shows nothing of what it does.
LEMMA ShowsNothing ==
  ASSUME SameUp, UNCHANGED <<counts, raced>>, Readable' = Readable, Due' = Due
  PROVE  CountersStep
BY DEF SameUp, Due, CountersStep, Counters!vars

\* After a race anything may be read, and a save may be done with.
LEMMA ShowsMuddle ==
  ASSUME TypeOK', raced, SameUp, UNCHANGED <<counts, raced>>, Due' \subseteq Due
  PROVE  CountersStep
<1>1. Readable' \in Snapshots \cup {Torn}
  BY DEF TypeOK, Readable
<1> QED
  BY <1>1 DEF SameUp, Due, CountersStep, Counters!Next, Counters!Muddle

\* startup's load and its count are one step.
LEMMA ShowsStart ==
  ASSUME TypeOK, DownIsQuiet, Boot
  PROVE  CountersStep
<1> USE Basics DEF TypeOK, Boot, Enter, To, files
<1>1. pc[Main] = "off" /\ pc'[Main] # "off" /\ Readable' = Readable
  BY DEF Readable
<1>2. Persisting = {} /\ unsaved = {} /\ Persisting' = {Main} /\ UNCHANGED <<unsaved, raced>>
  BY DEF DownIsQuiet, Persisting
<1>3. Loaded = Counters!Restored
  BY DEF Loaded, Readable, Counters!Restored, Counters!Zero, Zero
<1>4. counts' = [Counters!Restored EXCEPT ![Main] = @ + 1]
  BY <1>3
<1>5. Counters!Start
  BY <1>1, <1>2, <1>4 DEF Counters!Start
<1> QED
  BY <1>5 DEF CountersStep, Counters!Next

\* The rename of a persistState that was alone is the save.
LEMMA ShowsSave ==
  ASSUME TypeOK, NamesApart, AloneKnows, NEW w \in Writers, Rename(w), alone
  PROVE  CountersStep
<1> USE Basics DEF TypeOK, Rename, To
<1>1. fd[w] = tmp /\ tmp # NoFile /\ content[tmp] = counts
  BY DEF NamesApart, AloneKnows
<1>2. path' = tmp /\ Readable' = counts /\ raced' = FALSE
  BY <1>1 DEF Readable
<1>3. pc[Main] # "off" <=> pc'[Main] # "off"
  OBVIOUS
<1>4. w \in Due /\ Due' = Due \ {w}
  BY DEF Due, Persisting
<1>5. Counters!Save(w)
  BY <1>2, <1>3, <1>4 DEF Counters!Save, Due
<1> QED
  BY <1>5 DEF CountersStep, Counters!Next

\* The write of a persistState that is alone, done or failed, is not seen.
LEMMA LoneWriteHidden ==
  ASSUME TypeOK, NamesApart, AloneKnows, ~raced,
         NEW w \in Writers, Write(w) \/ WriteFails(w)
  PROVE  CountersStep
<1> USE Basics DEF TypeOK, Write, WriteFails, To
<1>1. fd[w] = tmp /\ tmp # NoFile /\ tmp # path
  BY DEF NamesApart, AloneKnows
<1>2. Readable' = Readable
  BY <1>1 DEF Readable
<1>3. Due' = Due
  <2>1. CASE Write(w)
    BY <2>1 DEF Due, Persisting, history
  <2>2. CASE WriteFails(w)
    <3>1. Persisting' = Persisting \ {w} /\ unsaved' = unsaved \cup {w} /\ w \in Persisting
      BY <2>2 DEF Persisting
    <3> QED
      BY <3>1 DEF Due
  <2> QED
    BY <2>1, <2>2
<1>4. SameUp /\ UNCHANGED <<counts, raced>>
  BY DEF SameUp, history
<1> QED
  BY <1>2, <1>3, <1>4, ShowsNothing

\* A step of persistState, seen from outside, is a save, nothing, or part of a race.
LEMMA PersistShows ==
  ASSUME IInv, TypeOK', NEW w \in Writers, Persist(w)
  PROVE  CountersStep
<1> USE Basics DEF IInv
<1>1. CASE Snapshot(w)
  <2>1. SameUp /\ Readable' = Readable /\ Due' = Due /\ UNCHANGED <<counts, raced>>
    BY <1>1 DEF Snapshot, SameUp, Readable, Due, Persisting, TypeOK, To, files, history
  <2> QED
    BY <2>1, ShowsNothing
<1>2. CASE Open(w)
  <2>1. tmp' # path /\ content' = [content EXCEPT ![tmp'] = Torn]
    BY <1>2, OpenInode
  <2>2. SameUp /\ Due' = Due /\ UNCHANGED <<counts, path, raced>>
    BY <1>2 DEF Open, SameUp, Due, Persisting, TypeOK, To, history
  <2>3. Readable' = Readable
    BY <2>1, <2>2 DEF Readable, TypeOK
  <2> QED
    BY <2>2, <2>3, ShowsNothing
<1>3. CASE Write(w) \/ WriteFails(w)
  <2>1. CASE raced
    <3>1. SameUp /\ Due' \subseteq Due /\ UNCHANGED <<counts, raced>>
      BY <1>3 DEF Write, WriteFails, SameUp, Due, Persisting, TypeOK, To, history
    <3> QED
      BY <2>1, <3>1, ShowsMuddle
  <2>2. CASE ~raced
    BY <1>3, <2>2, LoneWriteHidden
  <2> QED
    BY <2>1, <2>2
<1>4. CASE Rename(w)
  <2>1. CASE alone
    BY <1>4, <2>1, ShowsSave
  <2>2. CASE ~alone
    <3>1. raced
      BY <2>2 DEF NamesApart
    <3>2. SameUp /\ Due' \subseteq Due /\ UNCHANGED <<counts, raced>>
      BY <1>4, <2>2, <3>1 DEF Rename, SameUp, Due, Persisting, TypeOK, To
    <3> QED
      BY <3>1, <3>2, ShowsMuddle
  <2> QED
    BY <2>1, <2>2
<1>5. CASE SaveFails(w)
  <2>1. w \in Persisting /\ Persisting' = Persisting \ {w} /\ unsaved' = unsaved \cup {w}
    BY <1>5 DEF SaveFails, Persisting, TypeOK, To
  <2>2. SameUp /\ Readable' = Readable /\ UNCHANGED <<counts, raced>>
    BY <1>5 DEF SaveFails, SameUp, Readable, TypeOK, To, files
  <2>3. Due' = Due
    BY <2>1 DEF Due
  <2> QED
    BY <2>2, <2>3, ShowsNothing
<1> QED
  BY <1>1, <1>2, <1>3, <1>4, <1>5 DEF Persist

LEMMA InitRefines == Init => Counters!Init
BY Basics DEF Init, Counters!Init, Counters!Zero, Zero, Readable, Persisting

\* Every step maps to one of the saved counters, or to a stutter.
LEMMA StepRefines == IInv /\ DownIsQuiet /\ [Next]_vars => CountersStep
<1> SUFFICES ASSUME IInv, DownIsQuiet, [Next]_vars PROVE CountersStep
  OBVIOUS
<1> USE Basics DEF IInv
<1>1. CASE Boot
  BY <1>1, ShowsStart
<1>2. CASE GuardCrash
  <2>1. pc[Main] # "off" /\ ~(pc'[Main] # "off")
    BY <1>2 DEF GuardCrash, DownIsQuiet
  <2>2. (Persisting \cup unsaved)' = {}
    BY <1>2 DEF GuardCrash, Persisting
  <2>3. counts' = Counters!Zero /\ Readable' = Readable /\ raced' = raced
    BY <1>2 DEF GuardCrash, Counters!Zero, Zero, Readable, files
  <2>4. Counters!Die
    BY <2>1, <2>2, <2>3 DEF Counters!Die
  <2> QED
    BY <2>4 DEF CountersStep, Counters!Next
<1>3. ASSUME NEW w \in Writers, Ready(w) PROVE CountersStep
  <2>1. SameUp /\ Readable' = Readable /\ Due' = Due /\ UNCHANGED <<counts, raced>>
    BY <1>3 DEF Ready, SameUp, Readable, Due, Persisting, TypeOK, To, files, history
  <2> QED
    BY <2>1, ShowsNothing
<1>4. ASSUME NEW w \in Writers, Count(w) PROVE CountersStep
  <2>1. pc[Main] # "off" /\ pc'[Main] # "off" /\ Readable' = Readable
    BY <1>4 DEF Count, DownIsQuiet, Readable, TypeOK, To, files
  <2>2. Due' = Due \cup {w}
    BY <1>4 DEF Count, Due, Persisting, TypeOK, To
  <2>3. counts' = [counts EXCEPT ![w] = @ + 1] /\ raced' \in {raced, TRUE}
    BY <1>4 DEF Count, Enter, TypeOK
  <2>4. Counters!Count(w)
    BY <2>1, <2>2, <2>3 DEF Counters!Count, Due
  <2> QED
    BY <2>4 DEF CountersStep, Counters!Next
<1>5. ASSUME NEW w \in Writers, Persist(w) PROVE CountersStep
  <2>1. TypeOK'
    BY TypeStep
  <2> QED
    BY <1>5, <2>1, PersistShows
<1>6. CASE UNCHANGED vars
  <2>1. SameUp /\ Readable' = Readable /\ Due' = Due /\ UNCHANGED <<counts, raced>>
    BY <1>6 DEF vars, SameUp, Readable, Due, Persisting
  <2> QED
    BY <2>1, ShowsNothing
<1> QED
  BY <1>1, <1>2, <1>3, <1>4, <1>5, <1>6 DEF Next

\* statepersist.go: seen from outside, persistState saves all the counters in one
\* step, at its rename, unless another one overlaps it, and a crash never changes
\* what is saved.
THEOREM StateFileImplementsSavedCounters == Spec => ImplementsSavedCounters
<1>1. Init => DownIsQuiet
  BY DEF Init, DownIsQuiet
<1>2. IInv /\ DownIsQuiet /\ [Next]_vars => DownIsQuiet'
  BY DownStep DEF IInv
<1>3. IInv /\ DownIsQuiet /\ [Next]_vars => [Counters!Next]_(Counters!vars)
  BY StepRefines DEF CountersStep
<1> QED
  BY StatePersistInvariant, InitRefines, <1>1, <1>2, <1>3,
     PTL DEF Spec, ImplementsSavedCounters, Counters!Spec
=============================================================================

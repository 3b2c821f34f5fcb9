---------------------------- MODULE StatePersist ----------------------------
(***************************************************************************)
(* PG_GUARD_STATE_FILE (statepersist.go): every goroutine that counts      *)
(* something calls persistState, which writes a snapshot of all counters   *)
(* to one temporary file and renames it over the state file. The main      *)
(* goroutine does so at startup and after crashes and restarts, and so     *)
(* does whoever runs a backup (performBackup). Nothing serialises them.    *)
(*                                                                         *)
(* A file is an inode: rename moves the name, an open descriptor keeps the *)
(* inode. The counters one goroutine advances are taken together.          *)
(***************************************************************************)
EXTENDS Integers, FiniteSets

CONSTANTS
  Writers,    \* goroutines that count and persist
  Main,       \* the main goroutine, one of them
  MaxCount    \* bound: how far a counter goes

ASSUME WritersAssumption ==
  /\ IsFiniteSet(Writers) /\ Main \in Writers
  /\ MaxCount \in Nat

VARIABLES
  pc,         \* per writer: where it is in persistState, "off" without pg-guard
  counts,     \* the counters in memory
  snap,       \* per writer: its snapshot of them
  fd,         \* per writer: the inode it writes to
  path, tmp,  \* the inodes the two names stand for, NoFile if there is none
  content,    \* per inode: a snapshot, or Torn
  unsaved,    \* history: the writers whose last save failed
  alone,      \* history: whoever is in persistState has been on its own there
  raced       \* history: two were in it at once, and nobody has done it alone since
vars == <<pc, counts, snap, fd, path, tmp, content, unsaved, alone, raced>>
history == <<unsaved, alone, raced>>
files == <<path, tmp, content>>

NoFile == 0
Inodes == 1..(Cardinality(Writers) + 2)
Zero   == [w \in Writers |-> 0]
Torn   == [w \in Writers |-> -1]    \* truncated, or with the tail of an older text

InUse  == {path, tmp} \cup {fd[w] : w \in Writers}
To(w, next) == pc' = [pc EXCEPT ![w] = next]

Persisting == {w \in Writers : pc[w] \notin {"off", "idle"}}

\* A writer enters persistState: alone, or it races those who are in it.
Enter == alone' = (Persisting = {}) /\ raced' = (raced \/ Persisting # {})

-----------------------------------------------------------------------------
\* loadPersistedState: a missing or corrupt file is all zeroes.
Loaded == IF path = NoFile \/ content[path] = Torn THEN Zero ELSE content[path]

\* initPersistentState, before anything else runs: load, count this start.
Boot ==
  /\ \A w \in Writers : pc[w] = "off"
  /\ Loaded[Main] < MaxCount
  /\ counts' = [Loaded EXCEPT ![Main] = @ + 1]
  /\ To(Main, "snapshot") /\ Enter
  /\ UNCHANGED <<snap, fd, files, unsaved>>

\* Startup is over; the scheduler and the listeners' handlers can run.
Ready(w) ==
  /\ w # Main /\ pc[w] = "off" /\ pc[Main] = "idle"
  /\ To(w, "idle")
  /\ UNCHANGED <<counts, snap, fd, files, history>>

\* Mutant of Count: the value is persisted first and counted afterwards.
MutCount(w) ==
  /\ pc[w] = "idle" /\ counts[w] < MaxCount
  /\ counts' = [counts EXCEPT ![w] = @ + 1]
  /\ snap' = [snap EXCEPT ![w] = counts]
  /\ To(w, "open") /\ Enter
  /\ UNCHANGED <<fd, files, unsaved>>

\* A crash, a restart or a backup is counted, persistState is called.
Count(w) ==
  /\ pc[w] = "idle" /\ counts[w] < MaxCount
  /\ counts' = [counts EXCEPT ![w] = @ + 1]
  /\ To(w, "snapshot") /\ Enter
  /\ UNCHANGED <<snap, fd, files, unsaved>>

Snapshot(w) ==
  /\ pc[w] = "snapshot"
  /\ snap' = [snap EXCEPT ![w] = counts]
  /\ To(w, "open")
  /\ UNCHANGED <<counts, fd, files, history>>

\* Mutant of Open: the state file itself is written, without a temporary file.
MutOpen(w) ==
  /\ pc[w] = "open"
  /\ LET i == IF path # NoFile THEN path ELSE CHOOSE j \in Inodes : j \notin InUse
     IN /\ fd' = [fd EXCEPT ![w] = i]
        /\ path' = i
        /\ content' = [content EXCEPT ![i] = Torn]
  /\ To(w, "write")
  /\ UNCHANGED <<counts, snap, tmp, history>>

\* os.WriteFile opens the temporary file: created, or truncated where it is.
Open(w) ==
  /\ pc[w] = "open"
  /\ LET i == IF tmp # NoFile THEN tmp ELSE CHOOSE j \in Inodes : j \notin InUse
     IN /\ fd' = [fd EXCEPT ![w] = i]
        /\ tmp' = i
        /\ content' = [content EXCEPT ![i] = Torn]
  /\ To(w, "write")
  /\ UNCHANGED <<counts, snap, path, history>>

\* A text that is written over a longer one, of larger numbers, leaves its tail.
TailStays(old, new) == old # Torn /\ \E w \in Writers : old[w] > new[w]

\* os.WriteFile writes at the start of the inode it holds.
Write(w) ==
  /\ pc[w] = "write"
  /\ \E text \in {snap[w]} \cup (IF TailStays(content[fd[w]], snap[w]) THEN {Torn} ELSE {}) :
       content' = [content EXCEPT ![fd[w]] = text]
  /\ To(w, "rename")
  /\ UNCHANGED <<counts, snap, fd, path, tmp, history>>

\* Mutant of WriteFails: the error is not looked at, and the file is renamed.
MutWriteFails(w) ==
  /\ pc[w] = "write"
  /\ content' = [content EXCEPT ![fd[w]] = Torn]
  /\ To(w, "rename")
  /\ UNCHANGED <<counts, snap, fd, path, tmp, history>>

\* The write fails half way (a full disk): a warning, nothing is renamed.
WriteFails(w) ==
  /\ pc[w] = "write"
  /\ content' = [content EXCEPT ![fd[w]] = Torn]
  /\ fd' = [fd EXCEPT ![w] = NoFile]
  /\ unsaved' = unsaved \cup {w}
  /\ To(w, "idle")
  /\ UNCHANGED <<counts, snap, path, tmp, alone, raced>>

\* The directory or the temporary file cannot be made, or the rename is refused: a
\* warning, and the files stay as they are.
SaveFails(w) ==
  /\ pc[w] \in {"open", "rename"}
  /\ fd' = [fd EXCEPT ![w] = NoFile]
  /\ unsaved' = unsaved \cup {w}
  /\ To(w, "idle")
  /\ UNCHANGED <<counts, snap, files, alone, raced>>

\* os.Rename; without a temporary file it fails, which is only logged.
Rename(w) ==
  /\ pc[w] = "rename"
  /\ IF tmp = NoFile THEN UNCHANGED <<path, tmp>> ELSE path' = tmp /\ tmp' = NoFile
  /\ unsaved' = unsaved \ {w}
  /\ fd' = [fd EXCEPT ![w] = NoFile]
  /\ raced' = (raced /\ ~alone)
  /\ To(w, "idle")
  /\ UNCHANGED <<counts, snap, content, alone>>

\* pg-guard dies at any moment; the files stay as they are.
GuardCrash ==
  /\ \E w \in Writers : pc[w] # "off"
  /\ pc' = [w \in Writers |-> "off"]
  /\ fd' = [w \in Writers |-> NoFile]
  /\ counts' = Zero
  /\ snap' = [w \in Writers |-> Zero]
  /\ unsaved' = {}
  /\ UNCHANGED <<files, alone, raced>>

-----------------------------------------------------------------------------
Init ==
  /\ pc = [w \in Writers |-> "off"]
  /\ counts = Zero
  /\ snap = [w \in Writers |-> Zero]
  /\ fd = [w \in Writers |-> NoFile]
  /\ path = NoFile /\ tmp = NoFile
  /\ content = [i \in Inodes |-> Torn]
  /\ unsaved = {} /\ alone = TRUE /\ raced = FALSE

Persist(w) == Snapshot(w) \/ Open(w) \/ Write(w) \/ WriteFails(w) \/ SaveFails(w)
              \/ Rename(w)

Next == Boot \/ GuardCrash \/ \E w \in Writers : Ready(w) \/ Count(w) \/ Persist(w)

Spec == Init /\ [][Next]_vars

-----------------------------------------------------------------------------
Snapshots == [Writers -> 0..MaxCount]

TypeOK ==
  /\ pc \in [Writers -> {"off", "idle", "snapshot", "open", "write", "rename"}]
  /\ counts \in Snapshots
  /\ snap \in [Writers -> Snapshots]
  /\ fd \in [Writers -> Inodes \cup {NoFile}]
  /\ path \in Inodes \cup {NoFile} /\ tmp \in Inodes \cup {NoFile}
  /\ content \in [Inodes -> Snapshots \cup {Torn}]
  /\ unsaved \subseteq Writers /\ alone \in BOOLEAN /\ raced \in BOOLEAN

\* statepersist.go:104-108: "a crash mid-write can never leave a truncated/corrupt
\* file in place of a good one". At no moment, so at no crash, does the state
\* file's own name stand for a torn file, unless two goroutines raced through
\* the one temporary file; and then only until one persists on its own.
FileNeverTorn == path # NoFile /\ content[path] = Torn => raced

\* README.md:705-706: the file is written "immediately after each value it holds
\* changes": with no persistState under way the file holds the counters as they
\* are, unless the disk refused or an older snapshot won a race; one undisturbed
\* persistState, by anybody, puts every counter right.
FileCatchesUp ==
  (\A w \in Writers : pc[w] = "idle") /\ unsaved = {} /\ ~raced
    => path # NoFile /\ content[path] = counts

-----------------------------------------------------------------------------
(* The parts of the inductive invariant behind the invariants above. *)

\* The descriptors, the two names, and who is in persistState.
NamesApart ==
  /\ \A w \in Writers : fd[w] # NoFile <=> pc[w] \in {"write", "rename"}
  /\ tmp # NoFile => tmp # path
  /\ alone \/ raced
  /\ alone => \A v, w \in Persisting : v = w

\* What a writer that is alone in persistState has done so far.
AloneKnows ==
  alone => \A w \in Writers :
    /\ pc[w] \in {"open", "write", "rename"} => snap[w] = counts
    /\ pc[w] \in {"write", "rename"} => fd[w] = tmp
    /\ pc[w] = "write" => content[tmp] = Torn
    /\ pc[w] = "rename" => content[tmp] = counts

\* FileCatchesUp from the moment the main goroutine is up.
Saved ==
  pc[Main] # "off" /\ Persisting = {} /\ unsaved = {} /\ ~raced
    => path # NoFile /\ content[path] = counts

IInv == TypeOK /\ NamesApart /\ AloneKnows /\ FileNeverTorn /\ Saved

\* Without the main goroutine nobody runs, and nothing is known to be unsaved.
DownIsQuiet == pc[Main] = "off" => unsaved = {} /\ \A w \in Writers : pc[w] = "off"

-----------------------------------------------------------------------------
(* The state file implements counters that are saved atomically. *)

Readable == IF path = NoFile THEN Torn ELSE content[path]

Counters == INSTANCE SavedCounters WITH
  Unreadable <- Torn, up <- pc[Main] # "off", saved <- Readable,
  due <- Persisting \cup unsaved, spoilt <- raced

\* statepersist.go:104-108 and README.md:705-706 as one promise: seen from
\* outside, a persistState that no other one overlaps saves every counter in one
\* step, at its rename, and a crash at any moment leaves the last save in place.
ImplementsSavedCounters == Counters!Spec
=============================================================================

---------------------------- MODULE BackupShelf ----------------------------
(***************************************************************************)
(* What backups into PG_GUARD_BACKUP_DIR promise, without directories,     *)
(* guard, clock, prunes and crashes: a shelf of good backups. At most one  *)
(* is being written; one that succeeds is newer than all on the shelf; and *)
(* a backup only leaves the shelf while a newer one stays. So a shelf that *)
(* has something on it never becomes empty, and its newest never older.    *)
(***************************************************************************)
EXTENDS Integers

CONSTANTS
  Triggers,  \* who may write a backup
  Names      \* names of backups: a greater one is newer

VARIABLES
  writing,  \* who is writing a backup
  shelf     \* the good backups
vars == <<writing, shelf>>

Init == writing = {} /\ shelf = {}

Begin(t) ==
  /\ writing = {} /\ writing' = {t}
  /\ UNCHANGED shelf

Succeed(d) ==
  /\ writing # {} /\ writing' = {}
  /\ \A e \in shelf : e < d
  /\ shelf' = shelf \cup {d}

\* The backup fails, or pg-guard dies.
Fail ==
  /\ writing # {} /\ writing' = {}
  /\ UNCHANGED shelf

Drop(d) ==
  /\ d \in shelf /\ \E e \in shelf : e > d
  /\ shelf' = shelf \ {d}
  /\ UNCHANGED writing

Next == Fail \/ (\E t \in Triggers : Begin(t)) \/ \E d \in Names : Succeed(d) \/ Drop(d)

Spec == Init /\ [][Next]_vars
=============================================================================

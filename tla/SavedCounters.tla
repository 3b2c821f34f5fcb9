--------------------------- MODULE SavedCounters ---------------------------
(***************************************************************************)
(* What PG_GUARD_STATE_FILE promises of the counters, without snapshots,   *)
(* temporary files, descriptors and names. Whoever counts owes a save. A   *)
(* save is one atomic step that takes all the counters as they are then,   *)
(* and a death of pg-guard never changes what is saved: the next start     *)
(* goes on from it. Two saves that overlap spoil this, until one has had   *)
(* the file to itself: meanwhile anything may be there.                    *)
(***************************************************************************)
EXTENDS Integers

CONSTANTS
  Writers, Main,
  Snapshots,   \* values of the counters
  Unreadable   \* no file, or one that does not parse

VARIABLES
  up,      \* pg-guard runs
  counts,  \* the counters in memory
  saved,   \* what a start would read
  due,     \* who owes a save, or has tried one in vain
  spoilt   \* saves overlapped, and none has had the file to itself since
vars == <<up, counts, saved, due, spoilt>>

Zero == [w \in Writers |-> 0]

Init ==
  /\ up = FALSE /\ counts = Zero /\ saved = Unreadable
  /\ due = {} /\ spoilt = FALSE

Restored == IF saved = Unreadable THEN Zero ELSE saved

Start ==
  /\ ~up /\ up' = TRUE
  /\ counts' = [Restored EXCEPT ![Main] = @ + 1]
  /\ due' = {Main}
  /\ UNCHANGED <<saved, spoilt>>

Count(w) ==
  /\ up
  /\ counts' = [counts EXCEPT ![w] = @ + 1]
  /\ due' = due \cup {w}
  /\ spoilt' \in {spoilt, TRUE}
  /\ UNCHANGED <<up, saved>>

Save(w) ==
  /\ w \in due /\ due' = due \ {w}
  /\ saved' = counts /\ spoilt' = FALSE
  /\ UNCHANGED <<up, counts>>

\* Saves overlap: what is there is some other snapshot, or torn.
Muddle ==
  /\ spoilt
  /\ saved' \in Snapshots \cup {Unreadable}
  /\ due' \subseteq due
  /\ UNCHANGED <<up, counts, spoilt>>

Die ==
  /\ up /\ up' = FALSE
  /\ counts' = Zero /\ due' = {}
  /\ UNCHANGED <<saved, spoilt>>

Next == Start \/ Muddle \/ Die \/ \E w \in Writers : Count(w) \/ Save(w)

Spec == Init /\ [][Next]_vars
=============================================================================

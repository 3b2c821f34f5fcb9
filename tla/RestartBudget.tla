--------------------------- MODULE RestartBudget ---------------------------
(***************************************************************************)
(* The crash-restart budget of main.go: recordCrashAndCheckLimit and the   *)
(* two cases of the select loop that use it. Time is counted in ticks of   *)
(* the clock, so two crashes can carry the same time. MainLoop leaves the  *)
(* verdict open; this module says which verdict is given.                  *)
(***************************************************************************)
EXTENDS Integers, Sequences, FiniteSets

CONSTANTS
  Limit,     \* PG_GUARD_POSTGRES_RESTART_LIMIT, 0 or greater
  Window,    \* PG_GUARD_POSTGRES_RESTART_WINDOW, positive
  Backoff,   \* PG_GUARD_POSTGRES_RESTART_BACKOFF, 0 or greater
  MaxTime    \* bound: no crash after this time

ASSUME BudgetAssumption ==
  /\ Limit \in Nat
  /\ Window \in Nat \ {0}
  /\ Backoff \in Nat
  /\ MaxTime \in Nat

VARIABLES
  now,
  at,               \* times of all the crashes of this pg-guard process
  crashTimestamps,  \* the crashes it remembers, as indices of "at"
  granted,          \* history: the crashes answered with a restart
  up,               \* postgres is running
  restartAt,        \* when the restart timer fires, NoTimer for nil
  exited            \* why pg-guard has exited: "crashes", "restart" or "start"; "no" before
vars == <<now, at, crashTimestamps, granted, up, restartAt, exited>>

NoTimer == -1

\* Mutants of Kept: entries at the cutoff stay, and entries just after it go.
MutKeptLong(t) == {i \in crashTimestamps : at[i] >= t - Window} \cup {Len(at) + 1}
MutKeptShort(t) == {i \in crashTimestamps : at[i] > t - Window + 1} \cup {Len(at) + 1}

\* recordCrashAndCheckLimit: drop what is not after the cutoff, append now.
Kept(t) == {i \in crashTimestamps : at[i] > t - Window} \cup {Len(at) + 1}
WithinLimit(remembered) == Cardinality(remembered) <= Limit

Tick ==
  /\ exited = "no"
  /\ now < MaxTime + Backoff
  /\ now' = now + 1
  /\ UNCHANGED <<at, crashTimestamps, granted, up, restartAt, exited>>

\* case <-childDone. With Limit 0 nothing is recorded: pg-guard just exits.
Crash ==
  /\ exited = "no" /\ up /\ now <= MaxTime
  /\ up' = FALSE
  /\ at' = Append(at, now)
  /\ crashTimestamps' = IF Limit = 0 THEN crashTimestamps ELSE Kept(now)
  /\ IF Limit = 0 \/ ~WithinLimit(Kept(now))
     THEN exited' = "crashes" /\ UNCHANGED <<granted, restartAt>>
     ELSE /\ granted' = granted \cup {Len(at) + 1}
          /\ restartAt' = now + Backoff
          /\ UNCHANGED exited
  /\ UNCHANGED now

\* case <-restartAt: startPostgres brings postgres up.
Restart ==
  /\ exited = "no" /\ restartAt # NoTimer /\ now >= restartAt
  /\ restartAt' = NoTimer
  /\ up' = TRUE
  /\ UNCHANGED <<now, at, crashTimestamps, granted, exited>>

\* case <-restartAt: startPostgres leaves no child, its bootstrap or startup rejoin
\* having failed (the peer did not answer for 30s), or sup.start fails.
RestartFails ==
  /\ exited = "no" /\ restartAt # NoTimer /\ now >= restartAt
  /\ restartAt' = NoTimer
  /\ exited' = "restart"
  /\ UNCHANGED <<now, at, crashTimestamps, granted, up>>

\* Maintenance stops postgres, start or rejoin brings it back; neither counts. A
\* start that fails leaves things as they were, but for a failure of sup.start in
\* startPostgres, which is fatal.
ManualStop ==
  /\ exited = "no" /\ up
  /\ up' = FALSE
  /\ UNCHANGED <<now, at, crashTimestamps, granted, restartAt, exited>>

ManualStart ==
  /\ exited = "no" /\ ~up /\ restartAt = NoTimer
  /\ up' = TRUE
  /\ UNCHANGED <<now, at, crashTimestamps, granted, restartAt, exited>>

StartFatal ==
  /\ exited = "no" /\ ~up /\ restartAt = NoTimer
  /\ exited' = "start"
  /\ UNCHANGED <<now, at, crashTimestamps, granted, up, restartAt>>

Terminated == exited # "no" /\ UNCHANGED vars

Init ==
  /\ now = 0 /\ at = <<>> /\ crashTimestamps = {} /\ granted = {}
  /\ up \in BOOLEAN /\ restartAt = NoTimer /\ exited = "no"

Next ==
  \/ Tick \/ Crash \/ Restart \/ RestartFails
  \/ ManualStop \/ ManualStart \/ StartFatal \/ Terminated

Spec == Init /\ [][Next]_vars

-----------------------------------------------------------------------------
\* The crashes of the Window that ends at t, from the full record.
InWindow(t) == {i \in 1..Len(at) : t - Window < at[i] /\ at[i] <= t}

TypeOK ==
  /\ now \in Nat
  /\ at \in Seq(Nat)
  /\ crashTimestamps \subseteq 1..Len(at)
  /\ granted \subseteq 1..Len(at)
  /\ up \in BOOLEAN /\ exited \in {"no", "crashes", "restart", "start"}
  /\ restartAt \in Nat \cup {NoTimer}

\* README.md:643-650: in no stretch of Window ticks, wherever it begins, are more
\* than Limit restarts granted, although old crashes are forgotten on the way.
RollingLimit == \A t \in 0..now : Cardinality(InWindow(t) \cap granted) <= Limit

\* A crash ends pg-guard in two ways. Refused a restart, it was one of more than Limit
\* crashes in the Window that it closes, although only part of them is remembered.
\* Granted one, pg-guard waited the backoff, and that very restart failed; one crash
\* is enough for this (main.go:303-306).
GivesUpLate ==
  /\ exited = "crashes" => Limit = 0 \/ Cardinality(InWindow(at[Len(at)])) > Limit
  /\ exited = "restart" => Len(at) \in granted /\ now >= at[Len(at)] + Backoff

-----------------------------------------------------------------------------
(* The inductive invariant behind the two. *)

Chronological ==
  /\ \A i \in 1..Len(at) : at[i] <= now
  /\ \A i, j \in 1..Len(at) : i <= j => at[i] <= at[j]

\* What was forgotten has left the Window of the last crash for good.
ForgottenIsOld ==
  Limit # 0 => \A i \in 1..Len(at) : i \in crashTimestamps \/ at[i] <= at[Len(at)] - Window

\* A pending restart is the one granted for the last crash.
RestartOwed ==
  restartAt # NoTimer => ~up /\ Len(at) \in granted /\ restartAt = at[Len(at)] + Backoff

IInv == TypeOK /\ Chronological /\ ForgottenIsOld /\ RestartOwed /\ RollingLimit /\ GivesUpLate
=============================================================================

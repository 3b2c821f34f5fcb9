------------------------ MODULE RestartBudgetProofs ------------------------
(***************************************************************************)
(* The crash-restart budget keeps its promise for every limit, window and  *)
(* backoff. The point of the proof: pruning crashTimestamps loses nothing, *)
(* because time does not go back (Chronological, ForgottenIsOld).          *)
(***************************************************************************)
EXTENDS RestartBudget, TLAPS, FiniteSetTheorems

\* The first state satisfies the inductive invariant.
LEMMA InitIInv == Init => IInv
<1> SUFFICES ASSUME Init PROVE IInv
  OBVIOUS
<1> USE BudgetAssumption DEF Init
<1>1. TypeOK
  <2>1. at \in Seq(Nat)
    OBVIOUS
  <2>2. up \in BOOLEAN /\ exited \in {"no", "crashes", "restart", "start"}
    OBVIOUS
  <2> QED
    BY <2>1, <2>2 DEF TypeOK
<1>4. 1..Len(at) = {}
  OBVIOUS
<1>5. Chronological /\ ForgottenIsOld /\ RestartOwed /\ GivesUpLate
  BY <1>4 DEF Chronological, ForgottenIsOld, RestartOwed, GivesUpLate
<1>2. InWindow(0) \cap granted = {}
  OBVIOUS
<1>3. RollingLimit
  BY <1>2, FS_EmptySet DEF RollingLimit
<1> QED
  BY <1>1, <1>3, <1>5 DEF IInv

\* Only the clock moves: the record of crashes and the verdicts stand.
LEMMA TickStep == IInv /\ Tick => IInv'
<1> SUFFICES ASSUME IInv, Tick PROVE IInv'
  OBVIOUS
<1> USE BudgetAssumption DEF IInv, Tick
<1>1. TypeOK' /\ Chronological' /\ ForgottenIsOld' /\ RestartOwed'
  BY DEF TypeOK, Chronological, ForgottenIsOld, RestartOwed
<1>2. \A t : InWindow(t)' = InWindow(t)
  BY DEF InWindow
<1>3. GivesUpLate'
  BY DEF GivesUpLate, InWindow
<1>4. Cardinality(InWindow(now + 1) \cap granted) <= Limit
  <2>1. InWindow(now + 1) \cap granted \subseteq InWindow(now) \cap granted
    BY DEF InWindow, Chronological, TypeOK
  <2>2. IsFiniteSet(InWindow(now) \cap granted)
    BY FS_Interval, FS_Subset DEF InWindow, TypeOK
  <2>3. Cardinality(InWindow(now) \cap granted) <= Limit
    BY DEF RollingLimit, TypeOK
  <2> QED
    BY <2>1, <2>2, <2>3, FS_Subset, FS_CardinalityType
<1>5. RollingLimit'
  <2>1. ASSUME NEW t \in 0..(now + 1) PROVE Cardinality(InWindow(t) \cap granted) <= Limit
    <3>1. t \in 0..now \/ t = now + 1
      BY DEF TypeOK
    <3> QED
      BY <3>1, <1>4, Zenon DEF RollingLimit
  <2>2. now' = now + 1 /\ granted' = granted
    OBVIOUS
  <2> QED
    BY <2>1, <2>2 DEF RollingLimit, InWindow
<1> QED
  BY <1>1, <1>3, <1>5

\* What is remembered after a crash is exactly the Window that ends there.
LEMMA KeptIsWindow ==
  ASSUME IInv, Crash, Limit # 0
  PROVE  Kept(now) = InWindow(now)'
<1> USE BudgetAssumption DEF IInv, Crash
<1>1. /\ at \in Seq(Nat) /\ now \in Nat /\ Len(at) \in Nat /\ Len(at') = Len(at) + 1
      /\ at'[Len(at) + 1] = now
  BY DEF TypeOK
<1>2. \A i \in 1..Len(at) : at'[i] = at[i] /\ at[i] \in Nat
  BY DEF TypeOK
<1>3. ASSUME NEW i \in 1..Len(at) PROVE i \in Kept(now) <=> i \in InWindow(now)'
  <2>1. Len(at) \in 1..Len(at)
    BY <1>1, <1>3
  <2>2. at[i] <= now /\ at[Len(at)] <= now /\ at[Len(at)] \in Nat
    BY <2>1, <1>2 DEF Chronological
  <2>3. i \in crashTimestamps \/ at[i] <= now - Window
    BY <2>1, <2>2, <1>1, <1>2 DEF ForgottenIsOld
  <2> QED
    BY <1>1, <1>2, <2>2, <2>3 DEF Kept, InWindow
<1>4. Len(at) + 1 \in Kept(now) /\ Len(at) + 1 \in InWindow(now)'
  BY <1>1 DEF Kept, InWindow
<1>5. crashTimestamps \subseteq 1..Len(at)
  BY DEF TypeOK
<1>6. Kept(now) \subseteq 1..Len(at) \cup {Len(at) + 1}
  BY <1>5 DEF Kept
<1>7. InWindow(now)' \subseteq 1..Len(at')
  BY DEF InWindow
<1>8. 1..Len(at') = 1..Len(at) \cup {Len(at) + 1}
  BY <1>1
<1>9. Kept(now) \subseteq InWindow(now)'
  BY <1>3, <1>4, <1>6
<1>10. InWindow(now)' \subseteq Kept(now)
  BY <1>3, <1>4, <1>7, <1>8
<1> QED
  BY <1>9, <1>10

\* A crash is judged by the full record, and the grant keeps every window.
LEMMA CrashStep == IInv /\ Crash => IInv'
<1> SUFFICES ASSUME IInv, Crash PROVE IInv'
  OBVIOUS
<1> USE BudgetAssumption DEF IInv
<1>1. /\ at \in Seq(Nat) /\ now \in Nat /\ now' = now /\ at' \in Seq(Nat)
      /\ Len(at) \in Nat /\ Len(at') = Len(at) + 1 /\ at'[Len(at) + 1] = now
      /\ \A i \in 1..Len(at) : at'[i] = at[i] /\ at[i] \in Nat
  BY DEF TypeOK, Crash
<1>2. TypeOK'
  <2>1. 1..Len(at') = 1..Len(at) \cup {Len(at) + 1}
    BY <1>1
  <2>2. crashTimestamps' \subseteq 1..Len(at') /\ granted' \subseteq 1..Len(at')
    BY <2>1 DEF TypeOK, Crash, Kept
  <2>3. up' \in BOOLEAN /\ exited' \in {"no", "crashes"} /\ restartAt' \in Nat \cup {NoTimer}
    <3>1. now + Backoff \in Nat
      BY <1>1
    <3> QED
      BY <3>1, Zenon DEF TypeOK, Crash
  <2> QED
    BY <1>1, <2>2, <2>3 DEF TypeOK
<1>3. Chronological'
  <2>1. \A i \in 1..Len(at) : at[i] <= now
    BY DEF Chronological
  <2>2. ASSUME NEW i \in 1..Len(at') PROVE i \in 1..Len(at) \/ i = Len(at) + 1
    BY <1>1
  <2>3. \A i \in 1..Len(at') : at'[i] <= now'
    BY <1>1, <2>1, <2>2
  <2>4. ASSUME NEW i \in 1..Len(at'), NEW j \in 1..Len(at'), i <= j PROVE at'[i] <= at'[j]
    <3>1. CASE j \in 1..Len(at)
      <4>1. i \in 1..Len(at)
        BY <1>1, <2>4, <3>1
      <4> QED
        BY <1>1, <2>4, <3>1, <4>1 DEF Chronological
    <3>2. CASE j = Len(at) + 1
      BY <1>1, <2>3, <3>2
    <3> QED
      BY <2>2, <3>1, <3>2
  <2> QED
    BY <2>3, <2>4 DEF Chronological
<1>8. IsFiniteSet(InWindow(now)')
  <2>1. IsFiniteSet(1..Len(at')) /\ InWindow(now)' \subseteq 1..Len(at')
    BY <1>1, FS_Interval DEF InWindow
  <2> QED
    BY <2>1, FS_Subset
<1>4. ForgottenIsOld'
  <2>1. SUFFICES ASSUME Limit # 0, NEW i \in 1..Len(at'), i \notin crashTimestamps'
                 PROVE  at'[i] <= at'[Len(at')] - Window
    BY DEF ForgottenIsOld
  <2>2. i \notin InWindow(now)'
    BY <2>1, KeptIsWindow DEF Crash
  <2>3. at'[i] <= now /\ at'[i] \in Nat
    BY <1>1, <1>3 DEF Chronological
  <2> QED
    BY <1>1, <2>2, <2>3 DEF InWindow
<1>5. RestartOwed'
  <2>1. restartAt = NoTimer /\ ~up'
    BY DEF RestartOwed, Crash
  <2>2. restartAt' # NoTimer => granted' = granted \cup {Len(at) + 1} /\ restartAt' = now + Backoff
    BY <2>1 DEF Crash
  <2> QED
    BY <1>1, <2>1, <2>2 DEF RestartOwed
<1>6. GivesUpLate'
  <2>3. exited' \in {"no", "crashes"}
    BY DEF Crash
  <2>1. SUFFICES ASSUME exited' = "crashes", Limit # 0 PROVE Cardinality(InWindow(now)') > Limit
    BY <1>1, <2>3 DEF GivesUpLate, InWindow
  <2>2. ~WithinLimit(Kept(now))
    BY <2>1 DEF Crash, TypeOK
  <2> QED
    BY <1>8, <2>1, <2>2, KeptIsWindow, FS_CardinalityType DEF WithinLimit
<1>7. RollingLimit'
  <2>1. SUFFICES ASSUME NEW t \in 0..now
                 PROVE  Cardinality((InWindow(t) \cap granted)') <= Limit
    BY <1>1 DEF RollingLimit
  <2>3. CASE t < now \/ granted' = granted
    <3>1. (InWindow(t) \cap granted)' = InWindow(t) \cap granted
      BY <1>1, <2>3 DEF InWindow, Crash, TypeOK
    <3> QED
      BY <3>1 DEF RollingLimit
  <2>4. CASE t = now /\ granted' # granted
    <3>1. Limit # 0 /\ WithinLimit(Kept(now))
      BY <2>4 DEF Crash
    <3>2. Cardinality(InWindow(now)') <= Limit
      BY <3>1, KeptIsWindow DEF WithinLimit
    <3>3. IsFiniteSet(InWindow(now)' \cap granted')
      BY <1>8, FS_Subset
    <3>4. Cardinality(InWindow(now)' \cap granted') <= Cardinality(InWindow(now)')
      BY <1>8, FS_Subset
    <3> QED
      BY <1>8, <2>4, <3>2, <3>3, <3>4, <1>1, FS_CardinalityType
  <2> QED
    BY <2>3, <2>4, <1>1
<1> QED
  BY <1>2, <1>3, <1>4, <1>5, <1>6, <1>7

\* The other steps touch neither the clock nor the record; the restart that fails is
\* the one that was owed.
LEMMA OtherStep ==
  ASSUME IInv, \/ Restart \/ RestartFails \/ ManualStop \/ ManualStart \/ StartFatal
               \/ Terminated \/ UNCHANGED vars
  PROVE  IInv'
<1> USE BudgetAssumption DEF IInv
<1>1. UNCHANGED <<now, at, crashTimestamps, granted>>
  BY DEF Restart, RestartFails, ManualStop, ManualStart, StartFatal, Terminated, vars
<1>2. TypeOK'
  BY <1>1 DEF TypeOK, Restart, RestartFails, ManualStop, ManualStart, StartFatal, Terminated, vars
<1>3. Chronological' /\ ForgottenIsOld' /\ RollingLimit'
  BY <1>1 DEF Chronological, ForgottenIsOld, RollingLimit, InWindow
<1>4. RestartOwed'
  BY <1>1 DEF RestartOwed, Restart, RestartFails, ManualStop, ManualStart, StartFatal, Terminated,
              vars
<1>5. GivesUpLate'
  <2>1. CASE RestartFails
    BY <1>1, <2>1 DEF RestartFails, RestartOwed, GivesUpLate
  <2>2. CASE StartFatal
    BY <2>2 DEF StartFatal, GivesUpLate
  <2>3. CASE Restart \/ ManualStop \/ ManualStart \/ Terminated \/ UNCHANGED vars
    <3>1. exited' = exited
      BY <2>3 DEF Restart, ManualStop, ManualStart, Terminated, vars
    <3> QED
      BY <1>1, <3>1 DEF GivesUpLate, InWindow
  <2> QED
    BY <2>1, <2>2, <2>3
<1> QED
  BY <1>2, <1>3, <1>4, <1>5

\* Spec keeps the whole inductive invariant.
THEOREM BudgetInvariant == Spec => []IInv
<1>1. IInv /\ [Next]_vars => IInv'
  BY TickStep, CrashStep, OtherStep DEF Next
<1> QED
  BY InitIInv, <1>1, PTL DEF Spec

\* The budget's variables keep their types.
THEOREM TypeCorrect == Spec => []TypeOK
<1>1. IInv => TypeOK
  BY DEF IInv
<1> QED
  BY BudgetInvariant, <1>1, PTL

\* recordCrashAndCheckLimit grants at most Limit restarts in any stretch of Window.
THEOREM LimitIsRolling == Spec => []RollingLimit
<1>1. IInv => RollingLimit
  BY DEF IInv
<1> QED
  BY BudgetInvariant, <1>1, PTL

\* runInteractive: a crash ends pg-guard only as one of more than Limit in a Window, or
\* because the restart granted for it failed.
THEOREM NoEarlyExit == Spec => []GivesUpLate
<1>1. IInv => GivesUpLate
  BY DEF IInv
<1> QED
  BY BudgetInvariant, <1>1, PTL
=============================================================================

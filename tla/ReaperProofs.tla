---------------------------- MODULE ReaperProofs ----------------------------
(***************************************************************************)
(* For any set of pids, calls and wait statuses: the reaper's lock         *)
(* discipline makes every tracked call report its own process's status.    *)
(***************************************************************************)
EXTENDS Reaper, TLAPS

\* A real wait status is never the placeholder for "has not ended".
LEMMA NoStatusIsNoStatus == NoStatus \notin Statuses
BY StatusAssumption DEF NoStatus

\* reap() only ever sends a natural number, so never the placeholder NoCode.
LEMMA ExitCodeIsNat == \A s \in Statuses : ExitCode(s) \in Nat /\ ExitCode(s) # NoCode
BY StatusAssumption DEF NoCode

\* The calls and the placeholders are apart.
LEMMA CallFacts ==
  /\ \A c : c \in Calls <=> c \in Tracked \/ c \in Direct
  /\ \A c \in Tracked : c \notin Direct
  /\ NoCall \notin Calls /\ Orphan \notin Calls /\ NoCall # Orphan
  /\ TheReaper \notin Calls /\ Unlocked \notin Calls /\ TheReaper # Unlocked
BY CallsAssumption DEF Calls, NoCall, Orphan, TheReaper, Unlocked

\* startReaper's state satisfies the inductive invariant.
LEMMA InitIInv == Init => IInv
<1> SUFFICES ASSUME Init PROVE IInv
  OBVIOUS
<1> USE CallFacts DEF Init
<1>1. TypeOK
  BY DEF TypeOK, CallStates
<1>2. LockDiscipline
  BY DEF LockDiscipline
<1>3. ProcessTable
  BY DEF ProcessTable, FreePids, OneProcessPerCall, ZombieStatus, RegisteringOwns
<1>4. NoStaleWaiter /\ NoLostExit /\ TrackedResultIsTrue
  BY DEF NoStaleWaiter, NoLostExit, TrackedResultIsTrue
<1> QED
  BY <1>1, <1>2, <1>3, <1>4 DEF IInv

\* Every step keeps the types.
LEMMA TypeStep == TypeOK /\ LockDiscipline /\ ZombieStatus /\ RegisteringOwns /\ [Next]_vars => TypeOK'
<1> SUFFICES ASSUME TypeOK, LockDiscipline, ZombieStatus, RegisteringOwns, [Next]_vars PROVE TypeOK'
  OBVIOUS
<1> USE CallFacts, ExitCodeIsNat DEF kernelVars, reaperVars, callVars, CallStates, TypeOK, LockDiscipline, ZombieStatus, RegisteringOwns
<1>1. ASSUME NEW p \in Pids, Reparent(p) PROVE TypeOK'
  BY <1>1 DEF Reparent
<1>2. ASSUME NEW p \in Pids, ReapOne(p) PROVE TypeOK'
  BY <1>2 DEF ReapOne, Collect
<1>3. ASSUME NEW p \in Pids, NEW s \in Statuses, ProcessExit(p, s) PROVE TypeOK'
  BY <1>3 DEF ProcessExit
<1>4. ASSUME DeliverSignal PROVE TypeOK'
  BY <1>4 DEF DeliverSignal
<1>5. ASSUME ReaperWake PROVE TypeOK'
  BY <1>5 DEF ReaperWake
<1>6. ASSUME ReaperLock PROVE TypeOK'
  BY <1>6 DEF ReaperLock
<1>7. ASSUME ReapDone PROVE TypeOK'
  BY <1>7 DEF ReapDone
<1>8. ASSUME NEW c \in Tracked, NEW p \in Pids, TrackStart(c, p) PROVE TypeOK'
  BY <1>8 DEF TrackStart, Fork, Callable
<1>9. ASSUME NEW c \in Direct, NEW p \in Pids, DirectStart(c, p) PROVE TypeOK'
  BY <1>9 DEF DirectStart, Fork, Callable
<1>10. ASSUME NEW c \in Calls, TrackRegister(c) PROVE TypeOK'
  BY <1>10 DEF TrackRegister
<1>11. ASSUME NEW c \in Calls, StreamsEOF(c) PROVE TypeOK'
  BY <1>11 DEF StreamsEOF
<1>12. ASSUME NEW c \in Calls, ReceiveExit(c) PROVE TypeOK'
  BY <1>12 DEF ReceiveExit
<1>13. ASSUME NEW c \in Calls, DirectWait(c) PROVE TypeOK'
  BY <1>13 DEF DirectWait, Collect
<1>14. CASE UNCHANGED vars
  BY <1>14 DEF vars
<1> QED
  BY <1>1, <1>2, <1>3, <1>4, <1>5, <1>6, <1>7, <1>8, <1>9, <1>10, <1>11, <1>12, <1>13, <1>14
     DEF Next

\* Every step keeps the lock discipline.
LEMMA LockStep == TypeOK /\ LockDiscipline /\ [Next]_vars => LockDiscipline'
<1> SUFFICES ASSUME TypeOK, LockDiscipline, [Next]_vars PROVE LockDiscipline'
  OBVIOUS
<1> USE CallFacts DEF kernelVars, reaperVars, callVars, TypeOK, LockDiscipline
<1>1. ASSUME NEW p \in Pids, Reparent(p) PROVE LockDiscipline'
  BY <1>1 DEF Reparent
<1>2. ASSUME NEW p \in Pids, ReapOne(p) PROVE LockDiscipline'
  BY <1>2 DEF ReapOne, Collect
<1>3. ASSUME NEW p \in Pids, NEW s \in Statuses, ProcessExit(p, s) PROVE LockDiscipline'
  BY <1>3 DEF ProcessExit
<1>4. ASSUME DeliverSignal PROVE LockDiscipline'
  BY <1>4 DEF DeliverSignal
<1>5. ASSUME ReaperWake PROVE LockDiscipline'
  BY <1>5 DEF ReaperWake
<1>6. ASSUME ReaperLock PROVE LockDiscipline'
  BY <1>6 DEF ReaperLock
<1>7. ASSUME ReapDone PROVE LockDiscipline'
  BY <1>7 DEF ReapDone
<1>8. ASSUME NEW c \in Tracked, NEW p \in Pids, TrackStart(c, p) PROVE LockDiscipline'
  BY <1>8 DEF TrackStart, Fork, Callable
<1>9. ASSUME NEW c \in Direct, NEW p \in Pids, DirectStart(c, p) PROVE LockDiscipline'
  BY <1>9 DEF DirectStart, Fork, Callable
<1>10. ASSUME NEW c \in Calls, TrackRegister(c) PROVE LockDiscipline'
  BY <1>10 DEF TrackRegister
<1>11. ASSUME NEW c \in Calls, StreamsEOF(c) PROVE LockDiscipline'
  BY <1>11 DEF StreamsEOF
<1>12. ASSUME NEW c \in Calls, ReceiveExit(c) PROVE LockDiscipline'
  BY <1>12 DEF ReceiveExit
<1>13. ASSUME NEW c \in Calls, DirectWait(c) PROVE LockDiscipline'
  BY <1>13 DEF DirectWait, Collect
<1>14. CASE UNCHANGED vars
  BY <1>14 DEF vars
<1> QED
  BY <1>1, <1>2, <1>3, <1>4, <1>5, <1>6, <1>7, <1>8, <1>9, <1>10, <1>11, <1>12, <1>13, <1>14
     DEF Next

\* Every step keeps the pids and the process table in step.
LEMMA FreeStep == TypeOK /\ FreePids /\ [Next]_vars => FreePids'
<1> SUFFICES ASSUME TypeOK, FreePids, [Next]_vars PROVE FreePids'
  OBVIOUS
<1> USE CallFacts DEF kernelVars, reaperVars, callVars, TypeOK, FreePids
<1>1. ASSUME NEW p \in Pids, Reparent(p) PROVE FreePids'
  BY <1>1 DEF Reparent
<1>2. ASSUME NEW p \in Pids, ReapOne(p) PROVE FreePids'
  BY <1>2 DEF ReapOne, Collect
<1>3. ASSUME NEW p \in Pids, NEW s \in Statuses, ProcessExit(p, s) PROVE FreePids'
  BY <1>3 DEF ProcessExit
<1>4. ASSUME DeliverSignal PROVE FreePids'
  BY <1>4 DEF DeliverSignal
<1>5. ASSUME ReaperWake PROVE FreePids'
  BY <1>5 DEF ReaperWake
<1>6. ASSUME ReaperLock PROVE FreePids'
  BY <1>6 DEF ReaperLock
<1>7. ASSUME ReapDone PROVE FreePids'
  BY <1>7 DEF ReapDone
<1>8. ASSUME NEW c \in Tracked, NEW p \in Pids, TrackStart(c, p) PROVE FreePids'
  BY <1>8 DEF TrackStart, Fork, Callable
<1>9. ASSUME NEW c \in Direct, NEW p \in Pids, DirectStart(c, p) PROVE FreePids'
  BY <1>9 DEF DirectStart, Fork, Callable
<1>10. ASSUME NEW c \in Calls, TrackRegister(c) PROVE FreePids'
  BY <1>10 DEF TrackRegister
<1>11. ASSUME NEW c \in Calls, StreamsEOF(c) PROVE FreePids'
  BY <1>11 DEF StreamsEOF
<1>12. ASSUME NEW c \in Calls, ReceiveExit(c) PROVE FreePids'
  BY <1>12 DEF ReceiveExit
<1>13. ASSUME NEW c \in Calls, DirectWait(c) PROVE FreePids'
  BY <1>13 DEF DirectWait, Collect
<1>14. CASE UNCHANGED vars
  BY <1>14 DEF vars
<1> QED
  BY <1>1, <1>2, <1>3, <1>4, <1>5, <1>6, <1>7, <1>8, <1>9, <1>10, <1>11, <1>12, <1>13, <1>14
     DEF Next

\* A call and its process keep knowing each other until the collection.
LEMMA OwnerStep == TypeOK /\ OneProcessPerCall /\ FreePids /\ NoLostExit /\ [Next]_vars => OneProcessPerCall'
<1> SUFFICES ASSUME TypeOK, OneProcessPerCall, FreePids, NoLostExit, [Next]_vars PROVE OneProcessPerCall'
  OBVIOUS
<1> USE CallFacts DEF kernelVars, reaperVars, callVars, TypeOK, OneProcessPerCall, FreePids, NoLostExit
<1>1. ASSUME NEW p \in Pids, Reparent(p) PROVE OneProcessPerCall'
  BY <1>1 DEF Reparent
<1>2. ASSUME NEW p \in Pids, ReapOne(p) PROVE OneProcessPerCall'
  BY <1>2 DEF ReapOne, Collect
<1>3. ASSUME NEW p \in Pids, NEW s \in Statuses, ProcessExit(p, s) PROVE OneProcessPerCall'
  BY <1>3 DEF ProcessExit
<1>4. ASSUME DeliverSignal PROVE OneProcessPerCall'
  BY <1>4 DEF DeliverSignal
<1>5. ASSUME ReaperWake PROVE OneProcessPerCall'
  BY <1>5 DEF ReaperWake
<1>6. ASSUME ReaperLock PROVE OneProcessPerCall'
  BY <1>6 DEF ReaperLock
<1>7. ASSUME ReapDone PROVE OneProcessPerCall'
  BY <1>7 DEF ReapDone
<1>8. ASSUME NEW c \in Tracked, NEW p \in Pids, TrackStart(c, p) PROVE OneProcessPerCall'
  BY <1>8 DEF TrackStart, Fork, Callable
<1>9. ASSUME NEW c \in Direct, NEW p \in Pids, DirectStart(c, p) PROVE OneProcessPerCall'
  BY <1>9 DEF DirectStart, Fork, Callable
<1>10. ASSUME NEW c \in Calls, TrackRegister(c) PROVE OneProcessPerCall'
  BY <1>10 DEF TrackRegister
<1>11. ASSUME NEW c \in Calls, StreamsEOF(c) PROVE OneProcessPerCall'
  BY <1>11 DEF StreamsEOF
<1>12. ASSUME NEW c \in Calls, ReceiveExit(c) PROVE OneProcessPerCall'
  BY <1>12 DEF ReceiveExit
<1>13. ASSUME NEW c \in Calls, DirectWait(c) PROVE OneProcessPerCall'
  BY <1>13 DEF DirectWait, Collect
<1>14. CASE UNCHANGED vars
  BY <1>14 DEF vars
<1> QED
  BY <1>1, <1>2, <1>3, <1>4, <1>5, <1>6, <1>7, <1>8, <1>9, <1>10, <1>11, <1>12, <1>13, <1>14
     DEF Next

\* A zombie keeps its status.
LEMMA ZombieStep == TypeOK /\ OneProcessPerCall /\ FreePids /\ ZombieStatus /\ [Next]_vars => ZombieStatus'
<1> SUFFICES ASSUME TypeOK, OneProcessPerCall, FreePids, ZombieStatus, [Next]_vars PROVE ZombieStatus'
  OBVIOUS
<1> USE CallFacts DEF kernelVars, reaperVars, callVars, TypeOK, OneProcessPerCall, FreePids, ZombieStatus
<1>1. ASSUME NEW p \in Pids, Reparent(p) PROVE ZombieStatus'
  BY <1>1 DEF Reparent
<1>2. ASSUME NEW p \in Pids, ReapOne(p) PROVE ZombieStatus'
  BY <1>2 DEF ReapOne, Collect
<1>3. ASSUME NEW p \in Pids, NEW s \in Statuses, ProcessExit(p, s) PROVE ZombieStatus'
  BY <1>3 DEF ProcessExit
<1>4. ASSUME DeliverSignal PROVE ZombieStatus'
  BY <1>4 DEF DeliverSignal
<1>5. ASSUME ReaperWake PROVE ZombieStatus'
  BY <1>5 DEF ReaperWake
<1>6. ASSUME ReaperLock PROVE ZombieStatus'
  BY <1>6 DEF ReaperLock
<1>7. ASSUME ReapDone PROVE ZombieStatus'
  BY <1>7 DEF ReapDone
<1>8. ASSUME NEW c \in Tracked, NEW p \in Pids, TrackStart(c, p) PROVE ZombieStatus'
  BY <1>8 DEF TrackStart, Fork, Callable
<1>9. ASSUME NEW c \in Direct, NEW p \in Pids, DirectStart(c, p) PROVE ZombieStatus'
  BY <1>9 DEF DirectStart, Fork, Callable
<1>10. ASSUME NEW c \in Calls, TrackRegister(c) PROVE ZombieStatus'
  BY <1>10 DEF TrackRegister
<1>11. ASSUME NEW c \in Calls, StreamsEOF(c) PROVE ZombieStatus'
  BY <1>11 DEF StreamsEOF
<1>12. ASSUME NEW c \in Calls, ReceiveExit(c) PROVE ZombieStatus'
  BY <1>12 DEF ReceiveExit
<1>13. ASSUME NEW c \in Calls, DirectWait(c) PROVE ZombieStatus'
  BY <1>13 DEF DirectWait, Collect
<1>14. CASE UNCHANGED vars
  BY <1>14 DEF vars
<1> QED
  BY <1>1, <1>2, <1>3, <1>4, <1>5, <1>6, <1>7, <1>8, <1>9, <1>10, <1>11, <1>12, <1>13, <1>14
     DEF Next

\* Nobody collects a process between cmd.Start and its registration.
LEMMA RegisterStep == TypeOK /\ OneProcessPerCall /\ FreePids /\ LockDiscipline /\ RegisteringOwns /\ [Next]_vars => RegisteringOwns'
<1> SUFFICES ASSUME TypeOK, OneProcessPerCall, FreePids, LockDiscipline, RegisteringOwns, [Next]_vars PROVE RegisteringOwns'
  OBVIOUS
<1> USE CallFacts DEF kernelVars, reaperVars, callVars, TypeOK, OneProcessPerCall, FreePids, LockDiscipline, RegisteringOwns
<1>1. ASSUME NEW p \in Pids, Reparent(p) PROVE RegisteringOwns'
  BY <1>1 DEF Reparent
<1>2. ASSUME NEW p \in Pids, ReapOne(p) PROVE RegisteringOwns'
  BY <1>2 DEF ReapOne, Collect
<1>3. ASSUME NEW p \in Pids, NEW s \in Statuses, ProcessExit(p, s) PROVE RegisteringOwns'
  BY <1>3 DEF ProcessExit
<1>4. ASSUME DeliverSignal PROVE RegisteringOwns'
  BY <1>4 DEF DeliverSignal
<1>5. ASSUME ReaperWake PROVE RegisteringOwns'
  BY <1>5 DEF ReaperWake
<1>6. ASSUME ReaperLock PROVE RegisteringOwns'
  BY <1>6 DEF ReaperLock
<1>7. ASSUME ReapDone PROVE RegisteringOwns'
  BY <1>7 DEF ReapDone
<1>8. ASSUME NEW c \in Tracked, NEW p \in Pids, TrackStart(c, p) PROVE RegisteringOwns'
  BY <1>8 DEF TrackStart, Fork, Callable
<1>9. ASSUME NEW c \in Direct, NEW p \in Pids, DirectStart(c, p) PROVE RegisteringOwns'
  BY <1>9 DEF DirectStart, Fork, Callable
<1>10. ASSUME NEW c \in Calls, TrackRegister(c) PROVE RegisteringOwns'
  BY <1>10 DEF TrackRegister
<1>11. ASSUME NEW c \in Calls, StreamsEOF(c) PROVE RegisteringOwns'
  BY <1>11 DEF StreamsEOF
<1>12. ASSUME NEW c \in Calls, ReceiveExit(c) PROVE RegisteringOwns'
  BY <1>12 DEF ReceiveExit
<1>13. ASSUME NEW c \in Calls, DirectWait(c) PROVE RegisteringOwns'
  BY <1>13 DEF DirectWait, Collect
<1>14. CASE UNCHANGED vars
  BY <1>14 DEF vars
<1> QED
  BY <1>1, <1>2, <1>3, <1>4, <1>5, <1>6, <1>7, <1>8, <1>9, <1>10, <1>11, <1>12, <1>13, <1>14
     DEF Next

\* A waiter is entered for a live process and deleted when it is collected.
LEMMA WaiterStep == TypeOK /\ FreePids /\ OneProcessPerCall /\ RegisteringOwns /\ NoStaleWaiter /\ LockDiscipline /\ [Next]_vars => NoStaleWaiter'
<1> SUFFICES ASSUME TypeOK, FreePids, OneProcessPerCall, RegisteringOwns, NoStaleWaiter, LockDiscipline, [Next]_vars PROVE NoStaleWaiter'
  OBVIOUS
<1> USE CallFacts DEF kernelVars, reaperVars, callVars, TypeOK, FreePids, OneProcessPerCall, RegisteringOwns, NoStaleWaiter, LockDiscipline
<1>1. ASSUME NEW p \in Pids, Reparent(p) PROVE NoStaleWaiter'
  BY <1>1 DEF Reparent
<1>2. ASSUME NEW p \in Pids, ReapOne(p) PROVE NoStaleWaiter'
  BY <1>2 DEF ReapOne, Collect
<1>3. ASSUME NEW p \in Pids, NEW s \in Statuses, ProcessExit(p, s) PROVE NoStaleWaiter'
  BY <1>3 DEF ProcessExit
<1>4. ASSUME DeliverSignal PROVE NoStaleWaiter'
  BY <1>4 DEF DeliverSignal
<1>5. ASSUME ReaperWake PROVE NoStaleWaiter'
  BY <1>5 DEF ReaperWake
<1>6. ASSUME ReaperLock PROVE NoStaleWaiter'
  BY <1>6 DEF ReaperLock
<1>7. ASSUME ReapDone PROVE NoStaleWaiter'
  BY <1>7 DEF ReapDone
<1>8. ASSUME NEW c \in Tracked, NEW p \in Pids, TrackStart(c, p) PROVE NoStaleWaiter'
  BY <1>8 DEF TrackStart, Fork, Callable
<1>9. ASSUME NEW c \in Direct, NEW p \in Pids, DirectStart(c, p) PROVE NoStaleWaiter'
  BY <1>9 DEF DirectStart, Fork, Callable
<1>10. ASSUME NEW c \in Calls, TrackRegister(c) PROVE NoStaleWaiter'
  BY <1>10 DEF TrackRegister
<1>11. ASSUME NEW c \in Calls, StreamsEOF(c) PROVE NoStaleWaiter'
  BY <1>11 DEF StreamsEOF
<1>12. ASSUME NEW c \in Calls, ReceiveExit(c) PROVE NoStaleWaiter'
  BY <1>12 DEF ReceiveExit
<1>13. ASSUME NEW c \in Calls, DirectWait(c) PROVE NoStaleWaiter'
  BY <1>13 DEF DirectWait, Collect
<1>14. CASE UNCHANGED vars
  BY <1>14 DEF vars
<1> QED
  BY <1>1, <1>2, <1>3, <1>4, <1>5, <1>6, <1>7, <1>8, <1>9, <1>10, <1>11, <1>12, <1>13, <1>14
     DEF Next

\* The exit status moves from the process to the channel in one step.
LEMMA ExitStep == TypeOK /\ FreePids /\ OneProcessPerCall /\ ZombieStatus /\ RegisteringOwns /\ NoStaleWaiter /\ NoLostExit /\ LockDiscipline /\ [Next]_vars => NoLostExit'
<1> SUFFICES ASSUME TypeOK, FreePids, OneProcessPerCall, ZombieStatus, RegisteringOwns, NoStaleWaiter, NoLostExit, LockDiscipline, [Next]_vars PROVE NoLostExit'
  OBVIOUS
<1> USE CallFacts, NoStatusIsNoStatus, ExitCodeIsNat DEF kernelVars, reaperVars, callVars, TypeOK, FreePids, OneProcessPerCall, ZombieStatus, RegisteringOwns, NoStaleWaiter, NoLostExit, LockDiscipline
<1>1. ASSUME NEW p \in Pids, Reparent(p) PROVE NoLostExit'
  BY <1>1 DEF Reparent
<1>2. ASSUME NEW p \in Pids, ReapOne(p) PROVE NoLostExit'
  BY <1>2 DEF ReapOne, Collect
<1>3. ASSUME NEW p \in Pids, NEW s \in Statuses, ProcessExit(p, s) PROVE NoLostExit'
  BY <1>3 DEF ProcessExit
<1>4. ASSUME DeliverSignal PROVE NoLostExit'
  BY <1>4 DEF DeliverSignal
<1>5. ASSUME ReaperWake PROVE NoLostExit'
  BY <1>5 DEF ReaperWake
<1>6. ASSUME ReaperLock PROVE NoLostExit'
  BY <1>6 DEF ReaperLock
<1>7. ASSUME ReapDone PROVE NoLostExit'
  BY <1>7 DEF ReapDone
<1>8. ASSUME NEW c \in Tracked, NEW p \in Pids, TrackStart(c, p) PROVE NoLostExit'
  BY <1>8 DEF TrackStart, Fork, Callable
<1>9. ASSUME NEW c \in Direct, NEW p \in Pids, DirectStart(c, p) PROVE NoLostExit'
  BY <1>9 DEF DirectStart, Fork, Callable
<1>10. ASSUME NEW c \in Calls, TrackRegister(c) PROVE NoLostExit'
  BY <1>10 DEF TrackRegister
<1>11. ASSUME NEW c \in Calls, StreamsEOF(c) PROVE NoLostExit'
  BY <1>11 DEF StreamsEOF
<1>12. ASSUME NEW c \in Calls, ReceiveExit(c) PROVE NoLostExit'
  BY <1>12 DEF ReceiveExit
<1>13. ASSUME NEW c \in Calls, DirectWait(c) PROVE NoLostExit'
  BY <1>13 DEF DirectWait, Collect
<1>14. CASE UNCHANGED vars
  BY <1>14 DEF vars
<1> QED
  BY <1>1, <1>2, <1>3, <1>4, <1>5, <1>6, <1>7, <1>8, <1>9, <1>10, <1>11, <1>12, <1>13, <1>14
     DEF Next

\* What is received from the channel is what the process ended with.
LEMMA ResultStep == TypeOK /\ FreePids /\ OneProcessPerCall /\ NoLostExit /\ TrackedResultIsTrue /\ [Next]_vars => TrackedResultIsTrue'
<1> SUFFICES ASSUME TypeOK, FreePids, OneProcessPerCall, NoLostExit, TrackedResultIsTrue, [Next]_vars PROVE TrackedResultIsTrue'
  OBVIOUS
<1> USE CallFacts, NoStatusIsNoStatus DEF kernelVars, reaperVars, callVars, TypeOK, FreePids, OneProcessPerCall, NoLostExit, TrackedResultIsTrue
<1>1. ASSUME NEW p \in Pids, Reparent(p) PROVE TrackedResultIsTrue'
  BY <1>1 DEF Reparent
<1>2. ASSUME NEW p \in Pids, ReapOne(p) PROVE TrackedResultIsTrue'
  BY <1>2 DEF ReapOne, Collect
<1>3. ASSUME NEW p \in Pids, NEW s \in Statuses, ProcessExit(p, s) PROVE TrackedResultIsTrue'
  BY <1>3 DEF ProcessExit
<1>4. ASSUME DeliverSignal PROVE TrackedResultIsTrue'
  BY <1>4 DEF DeliverSignal
<1>5. ASSUME ReaperWake PROVE TrackedResultIsTrue'
  BY <1>5 DEF ReaperWake
<1>6. ASSUME ReaperLock PROVE TrackedResultIsTrue'
  BY <1>6 DEF ReaperLock
<1>7. ASSUME ReapDone PROVE TrackedResultIsTrue'
  BY <1>7 DEF ReapDone
<1>8. ASSUME NEW c \in Tracked, NEW p \in Pids, TrackStart(c, p) PROVE TrackedResultIsTrue'
  BY <1>8 DEF TrackStart, Fork, Callable
<1>9. ASSUME NEW c \in Direct, NEW p \in Pids, DirectStart(c, p) PROVE TrackedResultIsTrue'
  BY <1>9 DEF DirectStart, Fork, Callable
<1>10. ASSUME NEW c \in Calls, TrackRegister(c) PROVE TrackedResultIsTrue'
  BY <1>10 DEF TrackRegister
<1>11. ASSUME NEW c \in Calls, StreamsEOF(c) PROVE TrackedResultIsTrue'
  BY <1>11 DEF StreamsEOF
<1>12. ASSUME NEW c \in Calls, ReceiveExit(c) PROVE TrackedResultIsTrue'
  BY <1>12 DEF ReceiveExit
<1>13. ASSUME NEW c \in Calls, DirectWait(c) PROVE TrackedResultIsTrue'
  BY <1>13 DEF DirectWait, Collect
<1>14. CASE UNCHANGED vars
  BY <1>14 DEF vars
<1> QED
  BY <1>1, <1>2, <1>3, <1>4, <1>5, <1>6, <1>7, <1>8, <1>9, <1>10, <1>11, <1>12, <1>13, <1>14
     DEF Next

\* Spec keeps the whole inductive invariant.
THEOREM ReaperInvariant == Spec => []IInv
<1>1. IInv /\ [Next]_vars => IInv'
  BY TypeStep, LockStep, FreeStep, OwnerStep, ZombieStep, RegisterStep, WaiterStep, ExitStep,
     ResultStep DEF IInv, ProcessTable
<1> QED
  BY InitIInv, <1>1, PTL DEF Spec

\* reaper_linux.go: every variable keeps its type, whatever the pids and calls.
THEOREM TypeCorrect == Spec => []TypeOK
<1>1. IInv => TypeOK
  BY DEF IInv
<1> QED
  BY ReaperInvariant, <1>1, PTL

\* trackChild and reap: a tracked call reports its own process's exit code.
THEOREM TrackedTruth == Spec => []TrackedResultIsTrue
<1>1. IInv => TrackedResultIsTrue
  BY DEF IInv
<1> QED
  BY ReaperInvariant, <1>1, PTL

\* trackChild and reap: no exit status is dropped, duplicated or misdelivered.
THEOREM NoExitLost == Spec => []NoLostExit
<1>1. IInv => NoLostExit
  BY DEF IInv
<1> QED
  BY ReaperInvariant, <1>1, PTL

\* reap deletes the waiter with the zombie: pid reuse is harmless.
THEOREM WaitersFresh == Spec => []NoStaleWaiter
<1>1. IInv => NoStaleWaiter
  BY DEF IInv
<1> QED
  BY ReaperInvariant, <1>1, PTL

-----------------------------------------------------------------------------
\* A process that runs has not ended in the books of its call: only the one
\* process of a call writes there, and a new one begins there empty.
LEMMA RunningStep == TypeOK /\ FreePids /\ OneProcessPerCall /\ RunningNotEnded /\ [Next]_vars => RunningNotEnded'
<1> SUFFICES ASSUME TypeOK, FreePids, OneProcessPerCall, RunningNotEnded, [Next]_vars PROVE RunningNotEnded'
  OBVIOUS
<1> USE CallFacts DEF kernelVars, reaperVars, callVars, TypeOK, FreePids, OneProcessPerCall, RunningNotEnded
<1>1. ASSUME NEW p \in Pids, Reparent(p) PROVE RunningNotEnded'
  BY <1>1 DEF Reparent
<1>2. ASSUME NEW p \in Pids, ReapOne(p) PROVE RunningNotEnded'
  BY <1>2 DEF ReapOne, Collect
<1>3. ASSUME NEW p \in Pids, NEW s \in Statuses, ProcessExit(p, s) PROVE RunningNotEnded'
  BY <1>3 DEF ProcessExit
<1>4. ASSUME DeliverSignal PROVE RunningNotEnded'
  BY <1>4 DEF DeliverSignal
<1>5. ASSUME ReaperWake PROVE RunningNotEnded'
  BY <1>5 DEF ReaperWake
<1>6. ASSUME ReaperLock PROVE RunningNotEnded'
  BY <1>6 DEF ReaperLock
<1>7. ASSUME ReapDone PROVE RunningNotEnded'
  BY <1>7 DEF ReapDone
<1>8. ASSUME NEW c \in Tracked, NEW p \in Pids, TrackStart(c, p) PROVE RunningNotEnded'
  BY <1>8 DEF TrackStart, Fork, Callable
<1>9. ASSUME NEW c \in Direct, NEW p \in Pids, DirectStart(c, p) PROVE RunningNotEnded'
  BY <1>9 DEF DirectStart, Fork, Callable
<1>10. ASSUME NEW c \in Calls, TrackRegister(c) PROVE RunningNotEnded'
  BY <1>10 DEF TrackRegister
<1>11. ASSUME NEW c \in Calls, StreamsEOF(c) PROVE RunningNotEnded'
  BY <1>11 DEF StreamsEOF
<1>12. ASSUME NEW c \in Calls, ReceiveExit(c) PROVE RunningNotEnded'
  BY <1>12 DEF ReceiveExit
<1>13. ASSUME NEW c \in Calls, DirectWait(c) PROVE RunningNotEnded'
  BY <1>13 DEF DirectWait, Collect
<1>14. CASE UNCHANGED vars
  BY <1>14 DEF vars
<1> QED
  BY <1>1, <1>2, <1>3, <1>4, <1>5, <1>6, <1>7, <1>8,
     <1>9, <1>10, <1>11, <1>12, <1>13, <1>14
     DEF Next

SameMailbox(c) == Child(c)' = Child(c) /\ Code(c)' = Code(c) /\ result'[c] = result[c]
OthersSame(c) == \A d \in Tracked \ {c} : SameMailbox(d)

MailStep == [Mailboxes!Next]_(Mailboxes!vars)

\* A step that no mailbox shows.
LEMMA ShowsNothing == (\A c \in Tracked : SameMailbox(c)) => MailStep
BY DEF SameMailbox, MailStep, Mailboxes!vars

\* What the start of a child shows.
LEMMA ShowsBegin ==
  ASSUME NEW c \in Tracked, Child(c) \in {"none", "taken"}, Child(c)' = "running",
         Code(c)' = NoCode, result'[c] = NoCode, OthersSame(c)
  PROVE  MailStep
BY DEF OthersSame, SameMailbox, MailStep, Mailboxes!Next, Mailboxes!Begin

\* What the end of a child shows.
LEMMA ShowsEnd ==
  ASSUME NEW c \in Tracked, NEW s \in Statuses, Child(c) = "running", Child(c)' = "ended",
         Code(c)' = ExitCode(s), result'[c] = result[c], OthersSame(c)
  PROVE  MailStep
BY DEF OthersSame, SameMailbox, MailStep, Mailboxes!Next, Mailboxes!End

\* What the receipt of an exit code shows.
LEMMA ShowsTake ==
  ASSUME NEW c \in Tracked, Child(c) = "ended", Child(c)' = "taken", Code(c)' = Code(c),
         result'[c] = Code(c), OthersSame(c)
  PROVE  MailStep
BY DEF OthersSame, SameMailbox, MailStep, Mailboxes!Next, Mailboxes!Take

\* The reaper begins with every mailbox empty.
LEMMA InitRefines == Init => Mailboxes!Init
<1> SUFFICES ASSUME Init PROVE Mailboxes!Init
  OBVIOUS
<1>1. \A c \in Tracked : Child(c) = "none" /\ Code(c) = NoCode /\ result[c] = NoCode
  BY CallFacts DEF Init, Child, Code
<1> QED
  BY <1>1 DEF Mailboxes!Init

\* Every step of the processes, the kernel, the reaper and the calls is a step of
\* one mailbox, or shows in none.
LEMMA StepRefines == IInv /\ RunningNotEnded /\ [Next]_vars => MailStep
<1> SUFFICES ASSUME IInv, RunningNotEnded, [Next]_vars PROVE MailStep
  OBVIOUS
<1> USE CallFacts, NoStatusIsNoStatus DEF kernelVars, reaperVars, callVars, IInv, TypeOK
<1>1. ASSUME NEW p \in Pids, Reparent(p) PROVE MailStep
  BY <1>1, ShowsNothing DEF Reparent, SameMailbox, Child, Code
<1>2. ASSUME NEW p \in Pids, ReapOne(p) PROVE MailStep
  BY <1>2, ShowsNothing DEF ReapOne, Collect, SameMailbox, Child, Code
<1>3. ASSUME NEW p \in Pids, NEW s \in Statuses, ProcessExit(p, s) PROVE MailStep
  <2>1. CASE powner[p] \in Tracked
    <3>0. PICK c \in Tracked : c = powner[p]
      BY <2>1
    <3>1. exitOf' = [exitOf EXCEPT ![c] = s] /\ UNCHANGED <<cpc, result>>
      BY <1>3, <3>0 DEF ProcessExit
    <3>2. exitOf[c] = NoStatus /\ cpc[c] \in {"registering", "streaming", "waiting"}
      BY <1>3, <3>0 DEF ProcessExit, RunningNotEnded, ProcessTable, OneProcessPerCall
    <3>3. Child(c) = "running" /\ Child(c)' = "ended" /\ Code(c)' = ExitCode(s)
      BY <3>1, <3>2 DEF Child, Code
    <3>4. OthersSame(c)
      BY <3>1 DEF OthersSame, SameMailbox, Child, Code
    <3> QED
      BY <3>1, <3>3, <3>4, ShowsEnd
  <2>2. CASE powner[p] \notin Tracked
    BY <1>3, <2>2, ShowsNothing DEF ProcessExit, SameMailbox, Child, Code
  <2> QED
    BY <2>1, <2>2
<1>4. ASSUME DeliverSignal PROVE MailStep
  BY <1>4, ShowsNothing DEF DeliverSignal, SameMailbox, Child, Code
<1>5. ASSUME ReaperWake PROVE MailStep
  BY <1>5, ShowsNothing DEF ReaperWake, SameMailbox, Child, Code
<1>6. ASSUME ReaperLock PROVE MailStep
  BY <1>6, ShowsNothing DEF ReaperLock, SameMailbox, Child, Code
<1>7. ASSUME ReapDone PROVE MailStep
  BY <1>7, ShowsNothing DEF ReapDone, SameMailbox, Child, Code
<1>8. ASSUME NEW c \in Tracked, NEW p \in Pids, TrackStart(c, p) PROVE MailStep
  <2>1. Child(c) \in {"none", "taken"}
    BY <1>8 DEF TrackStart, Callable, Child
  <2>2. Child(c)' = "running" /\ Code(c)' = NoCode /\ result'[c] = NoCode
    BY <1>8 DEF TrackStart, Fork, Child, Code
  <2>3. OthersSame(c)
    BY <1>8 DEF TrackStart, Fork, OthersSame, SameMailbox, Child, Code
  <2> QED
    BY <2>1, <2>2, <2>3, ShowsBegin
<1>9. ASSUME NEW c \in Direct, NEW p \in Pids, DirectStart(c, p) PROVE MailStep
  BY <1>9, ShowsNothing DEF DirectStart, Fork, Callable, SameMailbox, Child, Code
<1>10. ASSUME NEW c \in Calls, TrackRegister(c) PROVE MailStep
  BY <1>10, ShowsNothing DEF TrackRegister, SameMailbox, Child, Code
<1>11. ASSUME NEW c \in Calls, StreamsEOF(c) PROVE MailStep
  BY <1>11, ShowsNothing DEF StreamsEOF, SameMailbox, Child, Code
<1>12. ASSUME NEW c \in Calls, ReceiveExit(c) PROVE MailStep
  <2>1. c \in Tracked /\ exitOf[c] # NoStatus /\ chan[c] = Code(c)
    BY <1>12 DEF ReceiveExit, NoLostExit, Code
  <2>2. Child(c) = "ended" /\ Child(c)' = "taken" /\ Code(c)' = Code(c) /\ result'[c] = Code(c)
    BY <1>12, <2>1 DEF ReceiveExit, Child, Code
  <2>3. OthersSame(c)
    BY <1>12 DEF ReceiveExit, OthersSame, SameMailbox, Child, Code
  <2> QED
    BY <2>1, <2>2, <2>3, ShowsTake
<1>13. ASSUME NEW c \in Calls, DirectWait(c) PROVE MailStep
  BY <1>13, ShowsNothing DEF DirectWait, Collect, SameMailbox, Child, Code
<1>14. CASE UNCHANGED vars
  BY <1>14, ShowsNothing DEF vars, SameMailbox, Child, Code
<1> QED
  BY <1>1, <1>2, <1>3, <1>4, <1>5, <1>6, <1>7, <1>8,
     <1>9, <1>10, <1>11, <1>12, <1>13, <1>14
     DEF Next

\* trackChild: whatever the kernel and the reaper do, the tracked calls see one
\* mailbox each, for any number of calls, pids and statuses.
THEOREM ReaperImplementsMailboxes == Spec => ImplementsMailboxes
<1>1. Init => RunningNotEnded
  BY DEF Init, RunningNotEnded
<1>2. IInv /\ RunningNotEnded /\ [Next]_vars => RunningNotEnded'
  BY RunningStep DEF IInv, ProcessTable
<1>3. IInv /\ RunningNotEnded /\ [Next]_vars => [Mailboxes!Next]_(Mailboxes!vars)
  BY StepRefines DEF MailStep
<1> QED
  BY ReaperInvariant, InitRefines, <1>1, <1>2, <1>3, PTL DEF Spec, ImplementsMailboxes, Mailboxes!Spec
=============================================================================

--------------------------- MODULE MainLoopProofs ---------------------------
(***************************************************************************)
(* For any set of clients, any configurations and any number of starts:    *)
(* the select loop supervises at most one postgres, and leaves none behind *)
(* when it exits, with the exceptions the properties name.                 *)
(***************************************************************************)
EXTENDS MainLoop, TLAPS

\* 0 stands for nil and is no instance; clients are none of the loop's own tasks.
LEMMA Basics ==
  /\ MaxStarts \in Nat
  /\ 0 \notin Children
  /\ \A n \in 0..MaxStarts : n < MaxStarts => n + 1 \in Children
  /\ \A c \in Clients : c \notin {"boot", "loop", "signal", "restart"}
  /\ {"boot", "loop", "signal", "restart"} \subseteq Internal
BY MainLoopAssumption DEF Children, Internal

\* runInteractive's first state satisfies the inductive invariant.
LEMMA InitIInv == Init => IInv
<1> SUFFICES ASSUME Init PROVE IInv
  OBVIOUS
<1> USE Basics DEF Init
<1>1. LoopType /\ HandlerType /\ ExitType
  BY DEF LoopType, HandlerType, ExitType, LoopStates
<1>4. ChildType
  BY DEF ChildType
<1>5. FlagType
  BY DEF FlagType
<1>2. OnlySupervised /\ LoopKnows /\ RestartGuard /\ NoPostgresLeftBehind
  BY DEF OnlySupervised, LoopKnows, RestartGuard, NoPostgresLeftBehind
<1>3. RequestInHand /\ ExitDueStopped
  BY DEF RequestInHand, ExitDueStopped, ExitDue
<1>6. FlagsNeverStick /\ LoopServes /\ MaintenanceQuiet
  BY DEF FlagsNeverStick, LoopServes, MaintenanceQuiet, MaintenanceDue
<1> QED
  BY <1>1, <1>2, <1>3, <1>4, <1>5, <1>6 DEF IInv, TypeOK

\* Every step keeps the type of the main goroutine's own state.
LEMMA LoopTypeStep == HandlerType /\ LoopType /\ [Next]_vars => LoopType'
<1> SUFFICES ASSUME HandlerType, LoopType, [Next]_vars PROVE LoopType'
  OBVIOUS
<1> USE Basics DEF loopVars, childVars, restartVars, handlerVars, flagVars, exitVars, history, LoopStates, Kinds, HandlerType, LoopType
<1>1. ASSUME NEW p \in Children, ChildExit(p) PROVE LoopType'
  BY <1>1 DEF ChildExit
<1>2. ASSUME Signal PROVE LoopType'
  BY <1>2 DEF Signal, Listening
<1>3. ASSUME EarlySignal PROVE LoopType'
  BY <1>3 DEF EarlySignal, Exit
<1>4. ASSUME NEW c \in Clients, NEW k \in Kinds, HandlerBegin(c, k) PROVE LoopType'
  BY <1>4 DEF HandlerBegin
<1>5. ASSUME NEW c \in Clients, HandlerReturn(c) PROVE LoopType'
  BY <1>5 DEF HandlerReturn, Clears, MaintenanceAfter
<1>6. ASSUME OnSignal PROVE LoopType'
  BY <1>6 DEF OnSignal, Exit
<1>7. ASSUME OnChildDone PROVE LoopType'
  BY <1>7 DEF OnChildDone, ClearChild, Exit
<1>8. ASSUME OnRestartAt PROVE LoopType'
  BY <1>8 DEF OnRestartAt
<1>9. ASSUME OnExitRequested PROVE LoopType'
  BY <1>9 DEF OnExitRequested
<1>10. ASSUME NEW c \in Clients, OnRequest(c) PROVE LoopType'
  BY <1>10 DEF OnRequest, Refused, StopKinds
<1>11. ASSUME StartOK PROVE LoopType'
  BY <1>11 DEF StartOK, Launch, Reply, BackToSelect
<1>12. ASSUME StartFailed PROVE LoopType'
  BY <1>12 DEF StartFailed, Exit, Reply, BackToSelect
<1>13. ASSUME StartFatal PROVE LoopType'
  BY <1>13 DEF StartFatal, Exit
<1>14. ASSUME Ensured PROVE LoopType'
  BY <1>14 DEF Ensured, BackToSelect
<1>15. ASSUME RejoinOK PROVE LoopType'
  BY <1>15 DEF RejoinOK, Launch, Reply, BackToSelect
<1>16. ASSUME RejoinFailed PROVE LoopType'
  BY <1>16 DEF RejoinFailed, Reply, BackToSelect
<1>17. ASSUME CheckProceed PROVE LoopType'
  BY <1>17 DEF CheckProceed
<1>18. ASSUME CheckRefuse PROVE LoopType'
  BY <1>18 DEF CheckRefuse, HandoverError, HandoverOK, SignalCode, ClearChild, Exit, Reply, BackToSelect
<1>19. ASSUME StopExited PROVE LoopType'
  BY <1>19 DEF StopExited, Stopped, HandoverOK, SignalCode, ClearChild, Exit, Reply, BackToSelect
<1>20. ASSUME StopTimeout PROVE LoopType'
  BY <1>20 DEF StopTimeout
<1>21. ASSUME StopKillError PROVE LoopType'
  BY <1>21 DEF StopKillError, HandoverError, HandoverOK, SignalCode, ClearChild, Exit, Reply, BackToSelect
<1>22. ASSUME KillConfirmed PROVE LoopType'
  BY <1>22 DEF KillConfirmed, Stopped, HandoverOK, SignalCode, ClearChild, Exit, Reply, BackToSelect
<1>23. ASSUME KillUnconfirmed PROVE LoopType'
  BY <1>23 DEF KillUnconfirmed, Stopped, HandoverOK, SignalCode, ClearChild, Exit, Reply, BackToSelect
<1>24. ASSUME PromoteOK PROVE LoopType'
  BY <1>24 DEF PromoteOK, HandoverOK, SignalCode, ClearChild, Exit, Reply, BackToSelect
<1>25. ASSUME PromoteFailed PROVE LoopType'
  BY <1>25 DEF PromoteFailed, HandoverError, HandoverOK, SignalCode, ClearChild, Exit, Reply, BackToSelect
<1>26. ASSUME Terminated PROVE LoopType'
  BY <1>26 DEF Terminated, vars
<1>27. CASE UNCHANGED vars
  BY <1>27 DEF vars
<1> QED
  BY <1>1, <1>2, <1>3, <1>4, <1>5, <1>6, <1>7, <1>8, <1>9, <1>10, <1>11, <1>12, <1>13, <1>14,
     <1>15, <1>16, <1>17, <1>18, <1>19, <1>20, <1>21, <1>22, <1>23, <1>24, <1>25, <1>26, <1>27
     DEF Next, Select, Work

\* Every step keeps the type of the supervised child.
LEMMA ChildTypeStep == ChildType /\ [Next]_vars => ChildType'
<1> SUFFICES ASSUME ChildType, [Next]_vars PROVE ChildType'
  OBVIOUS
<1> USE Basics DEF loopVars, childVars, restartVars, handlerVars, flagVars, exitVars, history, ChildType
<1>1. ASSUME NEW p \in Children, ChildExit(p) PROVE ChildType'
  BY <1>1 DEF ChildExit
<1>2. ASSUME Signal PROVE ChildType'
  BY <1>2 DEF Signal, Listening
<1>3. ASSUME EarlySignal PROVE ChildType'
  BY <1>3 DEF EarlySignal, Exit
<1>4. ASSUME NEW c \in Clients, NEW k \in Kinds, HandlerBegin(c, k) PROVE ChildType'
  BY <1>4 DEF HandlerBegin
<1>5. ASSUME NEW c \in Clients, HandlerReturn(c) PROVE ChildType'
  BY <1>5 DEF HandlerReturn, Clears, MaintenanceAfter
<1>6. ASSUME OnSignal PROVE ChildType'
  BY <1>6 DEF OnSignal, Exit
<1>7. ASSUME OnChildDone PROVE ChildType'
  BY <1>7 DEF OnChildDone, ClearChild, Exit
<1>8. ASSUME OnRestartAt PROVE ChildType'
  BY <1>8 DEF OnRestartAt
<1>9. ASSUME OnExitRequested PROVE ChildType'
  BY <1>9 DEF OnExitRequested
<1>10. ASSUME NEW c \in Clients, OnRequest(c) PROVE ChildType'
  BY <1>10 DEF OnRequest, Refused, StopKinds
<1>11. ASSUME StartOK PROVE ChildType'
  BY <1>11 DEF StartOK, Launch, Reply, BackToSelect
<1>12. ASSUME StartFailed PROVE ChildType'
  BY <1>12 DEF StartFailed, Exit, Reply, BackToSelect
<1>13. ASSUME StartFatal PROVE ChildType'
  BY <1>13 DEF StartFatal, Exit
<1>14. ASSUME Ensured PROVE ChildType'
  BY <1>14 DEF Ensured, BackToSelect
<1>15. ASSUME RejoinOK PROVE ChildType'
  BY <1>15 DEF RejoinOK, Launch, Reply, BackToSelect
<1>16. ASSUME RejoinFailed PROVE ChildType'
  BY <1>16 DEF RejoinFailed, Reply, BackToSelect
<1>17. ASSUME CheckProceed PROVE ChildType'
  BY <1>17 DEF CheckProceed
<1>18. ASSUME CheckRefuse PROVE ChildType'
  BY <1>18 DEF CheckRefuse, HandoverError, HandoverOK, SignalCode, ClearChild, Exit, Reply, BackToSelect
<1>19. ASSUME StopExited PROVE ChildType'
  BY <1>19 DEF StopExited, Stopped, HandoverOK, SignalCode, ClearChild, Exit, Reply, BackToSelect
<1>20. ASSUME StopTimeout PROVE ChildType'
  BY <1>20 DEF StopTimeout
<1>21. ASSUME StopKillError PROVE ChildType'
  BY <1>21 DEF StopKillError, HandoverError, HandoverOK, SignalCode, ClearChild, Exit, Reply, BackToSelect
<1>22. ASSUME KillConfirmed PROVE ChildType'
  BY <1>22 DEF KillConfirmed, Stopped, HandoverOK, SignalCode, ClearChild, Exit, Reply, BackToSelect
<1>23. ASSUME KillUnconfirmed PROVE ChildType'
  BY <1>23 DEF KillUnconfirmed, Stopped, HandoverOK, SignalCode, ClearChild, Exit, Reply, BackToSelect
<1>24. ASSUME PromoteOK PROVE ChildType'
  BY <1>24 DEF PromoteOK, HandoverOK, SignalCode, ClearChild, Exit, Reply, BackToSelect
<1>25. ASSUME PromoteFailed PROVE ChildType'
  BY <1>25 DEF PromoteFailed, HandoverError, HandoverOK, SignalCode, ClearChild, Exit, Reply, BackToSelect
<1>26. ASSUME Terminated PROVE ChildType'
  BY <1>26 DEF Terminated, vars
<1>27. CASE UNCHANGED vars
  BY <1>27 DEF vars
<1> QED
  BY <1>1, <1>2, <1>3, <1>4, <1>5, <1>6, <1>7, <1>8, <1>9, <1>10, <1>11, <1>12, <1>13, <1>14,
     <1>15, <1>16, <1>17, <1>18, <1>19, <1>20, <1>21, <1>22, <1>23, <1>24, <1>25, <1>26, <1>27
     DEF Next, Select, Work

\* A launch records what it crosses as Booleans.
LEMMA LaunchRecords == Launch => lateStart' \in BOOLEAN /\ crossed' \in BOOLEAN
<1> SUFFICES ASSUME Launch PROVE lateStart' \in BOOLEAN /\ crossed' \in BOOLEAN
  OBVIOUS
<1>1. lateStart' \in BOOLEAN
  BY DEF Launch, ExitDue
<1>2. crossed' \in BOOLEAN
  BY Zenon DEF Launch
<1> QED
  BY <1>1, <1>2

\* However a handover ends, the flags it writes stay Boolean.
LEMMA HandoverFlags ==
  ASSUME {handoff, forced, postgresRunning, asked, lateStart} \subseteq BOOLEAN,
         HandoverOK \/ HandoverError \/ Stopped
  PROVE  {handoff, forced, postgresRunning, asked, lateStart}' \subseteq BOOLEAN
<1> USE DEF childVars
<1>1. ASSUME HandoverOK PROVE {handoff, forced, postgresRunning, asked, lateStart}' \subseteq BOOLEAN
  <2>1. {postgresRunning, asked, lateStart}' \subseteq BOOLEAN
    BY <1>1 DEF HandoverOK, ClearChild
  <2>2. {handoff, forced}' \subseteq BOOLEAN
    BY <1>1 DEF HandoverOK, Exit, Reply, BackToSelect
  <2> QED
    BY <2>1, <2>2
<1>2. ASSUME HandoverError PROVE {handoff, forced, postgresRunning, asked, lateStart}' \subseteq BOOLEAN
  BY <1>1, <1>2 DEF HandoverError, Reply, BackToSelect
<1>3. ASSUME Stopped PROVE {handoff, forced, postgresRunning, asked, lateStart}' \subseteq BOOLEAN
  BY <1>1, <1>3 DEF Stopped, ClearChild
<1> QED
  BY <1>1, <1>2, <1>3

\* Every step keeps the flags Boolean.
LEMMA FlagTypeStep == FlagType /\ [Next]_vars => FlagType'
<1> SUFFICES ASSUME FlagType, [Next]_vars PROVE FlagType'
  OBVIOUS
<1> USE Basics, LaunchRecords DEF loopVars, childVars, restartVars, handlerVars, flagVars, exitVars, history, FlagType
<1>1. ASSUME NEW p \in Children, ChildExit(p) PROVE FlagType'
  BY <1>1 DEF ChildExit
<1>2. ASSUME Signal PROVE FlagType'
  BY <1>2 DEF Signal, Listening
<1>3. ASSUME EarlySignal PROVE FlagType'
  BY <1>3 DEF EarlySignal, Exit
<1>4. ASSUME NEW c \in Clients, NEW k \in Kinds, HandlerBegin(c, k) PROVE FlagType'
  BY <1>4 DEF HandlerBegin
<1>5. ASSUME NEW c \in Clients, HandlerReturn(c) PROVE FlagType'
  BY <1>5 DEF HandlerReturn, Clears, MaintenanceAfter
<1>6. ASSUME OnSignal PROVE FlagType'
  <2>1. {handoff, forced}' \subseteq BOOLEAN
    BY <1>6 DEF OnSignal, Exit
  <2>2. {sigCh}' \subseteq BOOLEAN
    BY <1>6 DEF OnSignal
  <2>3. {postgresRunning, restartPending, restartAt, shutdownInProgress, switchoverInProgress,
         maintenanceActive, asked, lateStart, crossed}' \subseteq BOOLEAN
    BY <1>6 DEF OnSignal
  <2> QED
    BY <2>1, <2>2, <2>3
<1>7. ASSUME OnChildDone PROVE FlagType'
  <2>1. {postgresRunning, asked, lateStart}' \subseteq BOOLEAN
    BY <1>7 DEF OnChildDone, ClearChild
  <2>2. {handoff, forced}' \subseteq BOOLEAN
    BY <1>7 DEF OnChildDone, Exit
  <2>3. {restartPending, restartAt}' \subseteq BOOLEAN
    BY <1>7 DEF OnChildDone
  <2>4. {sigCh, shutdownInProgress, switchoverInProgress,
         maintenanceActive, crossed}' \subseteq BOOLEAN
    BY <1>7 DEF OnChildDone
  <2> QED
    BY <2>1, <2>2, <2>3, <2>4
<1>8. ASSUME OnRestartAt PROVE FlagType'
  BY <1>8 DEF OnRestartAt
<1>9. ASSUME OnExitRequested PROVE FlagType'
  BY <1>9 DEF OnExitRequested
<1>10. ASSUME NEW c \in Clients, OnRequest(c) PROVE FlagType'
  BY <1>10 DEF OnRequest, Refused, StopKinds
<1>11. ASSUME StartOK PROVE FlagType'
  <2>1. {postgresRunning, asked, lateStart, crossed}' \subseteq BOOLEAN
    BY <1>11 DEF StartOK, Launch
  <2>2. {handoff, forced}' \subseteq BOOLEAN
    BY <1>11 DEF StartOK, Reply, BackToSelect
  <2>3. {restartPending, restartAt, sigCh, shutdownInProgress, switchoverInProgress,
         maintenanceActive}' \subseteq BOOLEAN
    BY <1>11 DEF StartOK
  <2> QED
    BY <2>1, <2>2, <2>3
<1>12. ASSUME StartFailed PROVE FlagType'
  <2>1. {handoff, forced}' \subseteq BOOLEAN
    BY <1>12 DEF StartFailed, Exit, Reply, BackToSelect
  <2>2. {postgresRunning, restartPending, restartAt, sigCh, shutdownInProgress,
         switchoverInProgress, maintenanceActive, asked, lateStart, crossed}' \subseteq BOOLEAN
    BY <1>12 DEF StartFailed
  <2> QED
    BY <2>1, <2>2
<1>13. ASSUME StartFatal PROVE FlagType'
  BY <1>13 DEF StartFatal, Exit
<1>14. ASSUME Ensured PROVE FlagType'
  BY <1>14 DEF Ensured, BackToSelect
<1>15. ASSUME RejoinOK PROVE FlagType'
  <2>1. {postgresRunning, asked, lateStart, crossed}' \subseteq BOOLEAN
    BY <1>15 DEF RejoinOK, Launch
  <2>2. {handoff, forced}' \subseteq BOOLEAN
    BY <1>15 DEF RejoinOK, Reply, BackToSelect
  <2>3. {restartPending, restartAt, sigCh,
         shutdownInProgress, switchoverInProgress, maintenanceActive}' \subseteq BOOLEAN
    BY <1>15 DEF RejoinOK
  <2> QED
    BY <2>1, <2>2, <2>3
<1>16. ASSUME RejoinFailed PROVE FlagType'
  BY <1>16 DEF RejoinFailed, Reply, BackToSelect
<1>17. ASSUME CheckProceed PROVE FlagType'
  BY <1>17 DEF CheckProceed
<1>18. ASSUME CheckRefuse PROVE FlagType'
  BY <1>18, HandoverFlags DEF CheckRefuse
<1>19. ASSUME StopExited PROVE FlagType'
  BY <1>19, HandoverFlags DEF StopExited
<1>20. ASSUME StopTimeout PROVE FlagType'
  BY <1>20 DEF StopTimeout
<1>21. ASSUME StopKillError PROVE FlagType'
  BY <1>21, HandoverFlags DEF StopKillError
<1>22. ASSUME KillConfirmed PROVE FlagType'
  BY <1>22, HandoverFlags DEF KillConfirmed
<1>23. ASSUME KillUnconfirmed PROVE FlagType'
  BY <1>23, HandoverFlags DEF KillUnconfirmed
<1>24. ASSUME PromoteOK PROVE FlagType'
  BY <1>24, HandoverFlags DEF PromoteOK
<1>25. ASSUME PromoteFailed PROVE FlagType'
  BY <1>25, HandoverFlags DEF PromoteFailed
<1>26. ASSUME Terminated PROVE FlagType'
  BY <1>26 DEF Terminated, vars
<1>27. CASE UNCHANGED vars
  BY <1>27 DEF vars
<1> QED
  BY <1>1, <1>2, <1>3, <1>4, <1>5, <1>6, <1>7, <1>8, <1>9, <1>10, <1>11, <1>12, <1>13, <1>14,
     <1>15, <1>16, <1>17, <1>18, <1>19, <1>20, <1>21, <1>22, <1>23, <1>24, <1>25, <1>26, <1>27
     DEF Next, Select, Work

\* Every step keeps the type of the handlers' state.
LEMMA HandlerTypeStep == HandlerType /\ [Next]_vars => HandlerType'
<1> SUFFICES ASSUME HandlerType, [Next]_vars PROVE HandlerType'
  OBVIOUS
<1> USE Basics DEF loopVars, childVars, restartVars, handlerVars, flagVars, exitVars, history, HandlerType
<1>1. ASSUME NEW p \in Children, ChildExit(p) PROVE HandlerType'
  BY <1>1 DEF ChildExit
<1>2. ASSUME Signal PROVE HandlerType'
  BY <1>2 DEF Signal, Listening
<1>3. ASSUME EarlySignal PROVE HandlerType'
  BY <1>3 DEF EarlySignal, Exit
<1>4. ASSUME NEW c \in Clients, NEW k \in Kinds, HandlerBegin(c, k) PROVE HandlerType'
  BY <1>4 DEF HandlerBegin
<1>5. ASSUME NEW c \in Clients, HandlerReturn(c) PROVE HandlerType'
  BY <1>5 DEF HandlerReturn, Clears, MaintenanceAfter
<1>6. ASSUME OnSignal PROVE HandlerType'
  BY <1>6 DEF OnSignal, Exit
<1>7. ASSUME OnChildDone PROVE HandlerType'
  BY <1>7 DEF OnChildDone, ClearChild, Exit
<1>8. ASSUME OnRestartAt PROVE HandlerType'
  BY <1>8 DEF OnRestartAt
<1>9. ASSUME OnExitRequested PROVE HandlerType'
  BY <1>9 DEF OnExitRequested
<1>10. ASSUME NEW c \in Clients, OnRequest(c) PROVE HandlerType'
  BY <1>10 DEF OnRequest, Refused, StopKinds
<1>11. ASSUME StartOK PROVE HandlerType'
  BY <1>11 DEF StartOK, Launch, Reply, BackToSelect
<1>12. ASSUME StartFailed PROVE HandlerType'
  BY <1>12 DEF StartFailed, Exit, Reply, BackToSelect
<1>13. ASSUME StartFatal PROVE HandlerType'
  BY <1>13 DEF StartFatal, Exit
<1>14. ASSUME Ensured PROVE HandlerType'
  BY <1>14 DEF Ensured, BackToSelect
<1>15. ASSUME RejoinOK PROVE HandlerType'
  BY <1>15 DEF RejoinOK, Launch, Reply, BackToSelect
<1>16. ASSUME RejoinFailed PROVE HandlerType'
  BY <1>16 DEF RejoinFailed, Reply, BackToSelect
<1>17. ASSUME CheckProceed PROVE HandlerType'
  BY <1>17 DEF CheckProceed
<1>18. ASSUME CheckRefuse PROVE HandlerType'
  BY <1>18 DEF CheckRefuse, HandoverError, HandoverOK, SignalCode, ClearChild, Exit, Reply, BackToSelect
<1>19. ASSUME StopExited PROVE HandlerType'
  BY <1>19 DEF StopExited, Stopped, HandoverOK, SignalCode, ClearChild, Exit, Reply, BackToSelect
<1>20. ASSUME StopTimeout PROVE HandlerType'
  BY <1>20 DEF StopTimeout
<1>21. ASSUME StopKillError PROVE HandlerType'
  BY <1>21 DEF StopKillError, HandoverError, HandoverOK, SignalCode, ClearChild, Exit, Reply, BackToSelect
<1>22. ASSUME KillConfirmed PROVE HandlerType'
  BY <1>22 DEF KillConfirmed, Stopped, HandoverOK, SignalCode, ClearChild, Exit, Reply, BackToSelect
<1>23. ASSUME KillUnconfirmed PROVE HandlerType'
  BY <1>23 DEF KillUnconfirmed, Stopped, HandoverOK, SignalCode, ClearChild, Exit, Reply, BackToSelect
<1>24. ASSUME PromoteOK PROVE HandlerType'
  BY <1>24 DEF PromoteOK, HandoverOK, SignalCode, ClearChild, Exit, Reply, BackToSelect
<1>25. ASSUME PromoteFailed PROVE HandlerType'
  BY <1>25 DEF PromoteFailed, HandoverError, HandoverOK, SignalCode, ClearChild, Exit, Reply, BackToSelect
<1>26. ASSUME Terminated PROVE HandlerType'
  BY <1>26 DEF Terminated, vars
<1>27. CASE UNCHANGED vars
  BY <1>27 DEF vars
<1> QED
  BY <1>1, <1>2, <1>3, <1>4, <1>5, <1>6, <1>7, <1>8, <1>9, <1>10, <1>11, <1>12, <1>13, <1>14,
     <1>15, <1>16, <1>17, <1>18, <1>19, <1>20, <1>21, <1>22, <1>23, <1>24, <1>25, <1>26, <1>27
     DEF Next, Select, Work

\* Every step keeps the type of the exit codes.
LEMMA ExitTypeStep == ExitType /\ [Next]_vars => ExitType'
<1> SUFFICES ASSUME ExitType, [Next]_vars PROVE ExitType'
  OBVIOUS
<1> USE Basics DEF loopVars, childVars, restartVars, handlerVars, flagVars, exitVars, history, ExitType
<1>1. ASSUME NEW p \in Children, ChildExit(p) PROVE ExitType'
  BY <1>1 DEF ChildExit
<1>2. ASSUME Signal PROVE ExitType'
  BY <1>2 DEF Signal, Listening
<1>3. ASSUME EarlySignal PROVE ExitType'
  BY <1>3 DEF EarlySignal, Exit
<1>4. ASSUME NEW c \in Clients, NEW k \in Kinds, HandlerBegin(c, k) PROVE ExitType'
  BY <1>4 DEF HandlerBegin
<1>5. ASSUME NEW c \in Clients, HandlerReturn(c) PROVE ExitType'
  BY <1>5 DEF HandlerReturn, Clears, MaintenanceAfter
<1>6. ASSUME OnSignal PROVE ExitType'
  BY <1>6 DEF OnSignal, Exit
<1>7. ASSUME OnChildDone PROVE ExitType'
  BY <1>7 DEF OnChildDone, ClearChild, Exit
<1>8. ASSUME OnRestartAt PROVE ExitType'
  BY <1>8 DEF OnRestartAt
<1>9. ASSUME OnExitRequested PROVE ExitType'
  BY <1>9 DEF OnExitRequested
<1>10. ASSUME NEW c \in Clients, OnRequest(c) PROVE ExitType'
  BY <1>10 DEF OnRequest, Refused, StopKinds
<1>11. ASSUME StartOK PROVE ExitType'
  BY <1>11 DEF StartOK, Launch, Reply, BackToSelect
<1>12. ASSUME StartFailed PROVE ExitType'
  BY <1>12 DEF StartFailed, Exit, Reply, BackToSelect
<1>13. ASSUME StartFatal PROVE ExitType'
  BY <1>13 DEF StartFatal, Exit
<1>14. ASSUME Ensured PROVE ExitType'
  BY <1>14 DEF Ensured, BackToSelect
<1>15. ASSUME RejoinOK PROVE ExitType'
  BY <1>15 DEF RejoinOK, Launch, Reply, BackToSelect
<1>16. ASSUME RejoinFailed PROVE ExitType'
  BY <1>16 DEF RejoinFailed, Reply, BackToSelect
<1>17. ASSUME CheckProceed PROVE ExitType'
  BY <1>17 DEF CheckProceed
<1>18. ASSUME CheckRefuse PROVE ExitType'
  BY <1>18 DEF CheckRefuse, HandoverError, HandoverOK, SignalCode, ClearChild, Exit, Reply, BackToSelect
<1>19. ASSUME StopExited PROVE ExitType'
  BY <1>19 DEF StopExited, Stopped, HandoverOK, SignalCode, ClearChild, Exit, Reply, BackToSelect
<1>20. ASSUME StopTimeout PROVE ExitType'
  BY <1>20 DEF StopTimeout
<1>21. ASSUME StopKillError PROVE ExitType'
  BY <1>21 DEF StopKillError, HandoverError, HandoverOK, SignalCode, ClearChild, Exit, Reply, BackToSelect
<1>22. ASSUME KillConfirmed PROVE ExitType'
  BY <1>22 DEF KillConfirmed, Stopped, HandoverOK, SignalCode, ClearChild, Exit, Reply, BackToSelect
<1>23. ASSUME KillUnconfirmed PROVE ExitType'
  BY <1>23 DEF KillUnconfirmed, Stopped, HandoverOK, SignalCode, ClearChild, Exit, Reply, BackToSelect
<1>24. ASSUME PromoteOK PROVE ExitType'
  BY <1>24 DEF PromoteOK, HandoverOK, SignalCode, ClearChild, Exit, Reply, BackToSelect
<1>25. ASSUME PromoteFailed PROVE ExitType'
  BY <1>25 DEF PromoteFailed, HandoverError, HandoverOK, SignalCode, ClearChild, Exit, Reply, BackToSelect
<1>26. ASSUME Terminated PROVE ExitType'
  BY <1>26 DEF Terminated, vars
<1>27. CASE UNCHANGED vars
  BY <1>27 DEF vars
<1> QED
  BY <1>1, <1>2, <1>3, <1>4, <1>5, <1>6, <1>7, <1>8, <1>9, <1>10, <1>11, <1>12, <1>13, <1>14,
     <1>15, <1>16, <1>17, <1>18, <1>19, <1>20, <1>21, <1>22, <1>23, <1>24, <1>25, <1>26, <1>27
     DEF Next, Select, Work

\* Every step keeps what the main goroutine knows where it is.
LEMMA KnowsStep == LoopKnows /\ RestartGuard /\ [Next]_vars => LoopKnows'
<1> SUFFICES ASSUME LoopKnows, RestartGuard, [Next]_vars PROVE LoopKnows'
  OBVIOUS
<1> USE Basics DEF loopVars, childVars, restartVars, handlerVars, flagVars, exitVars, history, LoopKnows, RestartGuard
<1>1. ASSUME NEW p \in Children, ChildExit(p) PROVE LoopKnows'
  BY <1>1 DEF ChildExit
<1>2. ASSUME Signal PROVE LoopKnows'
  BY <1>2 DEF Signal, Listening
<1>3. ASSUME EarlySignal PROVE LoopKnows'
  BY <1>3 DEF EarlySignal, Exit
<1>4. ASSUME NEW c \in Clients, NEW k \in Kinds, HandlerBegin(c, k) PROVE LoopKnows'
  BY <1>4 DEF HandlerBegin
<1>5. ASSUME NEW c \in Clients, HandlerReturn(c) PROVE LoopKnows'
  BY <1>5 DEF HandlerReturn, Clears, MaintenanceAfter
<1>6. ASSUME OnSignal PROVE LoopKnows'
  BY <1>6 DEF OnSignal, Exit
<1>7. ASSUME OnChildDone PROVE LoopKnows'
  BY <1>7 DEF OnChildDone, ClearChild, Exit
<1>8. ASSUME OnRestartAt PROVE LoopKnows'
  BY <1>8 DEF OnRestartAt
<1>9. ASSUME OnExitRequested PROVE LoopKnows'
  BY <1>9 DEF OnExitRequested
<1>10. ASSUME NEW c \in Clients, OnRequest(c) PROVE LoopKnows'
  BY <1>10 DEF OnRequest, Refused, StopKinds
<1>11. ASSUME StartOK PROVE LoopKnows'
  BY <1>11 DEF StartOK, Launch, Reply, BackToSelect
<1>12. ASSUME StartFailed PROVE LoopKnows'
  BY <1>12 DEF StartFailed, Exit, Reply, BackToSelect
<1>13. ASSUME StartFatal PROVE LoopKnows'
  BY <1>13 DEF StartFatal, Exit
<1>14. ASSUME Ensured PROVE LoopKnows'
  BY <1>14 DEF Ensured, BackToSelect
<1>15. ASSUME RejoinOK PROVE LoopKnows'
  BY <1>15 DEF RejoinOK, Launch, Reply, BackToSelect
<1>16. ASSUME RejoinFailed PROVE LoopKnows'
  BY <1>16 DEF RejoinFailed, Reply, BackToSelect
<1>17. ASSUME CheckProceed PROVE LoopKnows'
  BY <1>17 DEF CheckProceed
<1>18. ASSUME CheckRefuse PROVE LoopKnows'
  BY <1>18 DEF CheckRefuse, HandoverError, HandoverOK, SignalCode, ClearChild, Exit, Reply, BackToSelect
<1>19. ASSUME StopExited PROVE LoopKnows'
  BY <1>19 DEF StopExited, Stopped, HandoverOK, SignalCode, ClearChild, Exit, Reply, BackToSelect
<1>20. ASSUME StopTimeout PROVE LoopKnows'
  BY <1>20 DEF StopTimeout
<1>21. ASSUME StopKillError PROVE LoopKnows'
  BY <1>21 DEF StopKillError, HandoverError, HandoverOK, SignalCode, ClearChild, Exit, Reply, BackToSelect
<1>22. ASSUME KillConfirmed PROVE LoopKnows'
  BY <1>22 DEF KillConfirmed, Stopped, HandoverOK, SignalCode, ClearChild, Exit, Reply, BackToSelect
<1>23. ASSUME KillUnconfirmed PROVE LoopKnows'
  BY <1>23 DEF KillUnconfirmed, Stopped, HandoverOK, SignalCode, ClearChild, Exit, Reply, BackToSelect
<1>24. ASSUME PromoteOK PROVE LoopKnows'
  BY <1>24 DEF PromoteOK, HandoverOK, SignalCode, ClearChild, Exit, Reply, BackToSelect
<1>25. ASSUME PromoteFailed PROVE LoopKnows'
  BY <1>25 DEF PromoteFailed, HandoverError, HandoverOK, SignalCode, ClearChild, Exit, Reply, BackToSelect
<1>26. ASSUME Terminated PROVE LoopKnows'
  BY <1>26 DEF Terminated, vars
<1>27. CASE UNCHANGED vars
  BY <1>27 DEF vars
<1> QED
  BY <1>1, <1>2, <1>3, <1>4, <1>5, <1>6, <1>7, <1>8, <1>9, <1>10, <1>11, <1>12, <1>13, <1>14,
     <1>15, <1>16, <1>17, <1>18, <1>19, <1>20, <1>21, <1>22, <1>23, <1>24, <1>25, <1>26, <1>27
     DEF Next, Select, Work

\* Every step leaves only the supervised instance running.
LEMMA OnlyStep == ChildType /\ LoopKnows /\ OnlySupervised /\ [Next]_vars => OnlySupervised'
<1> SUFFICES ASSUME ChildType, LoopKnows, OnlySupervised, [Next]_vars PROVE OnlySupervised'
  OBVIOUS
<1> USE Basics DEF loopVars, childVars, restartVars, handlerVars, flagVars, exitVars, history, ChildType, LoopKnows, OnlySupervised
<1>1. ASSUME NEW p \in Children, ChildExit(p) PROVE OnlySupervised'
  BY <1>1 DEF ChildExit
<1>2. ASSUME Signal PROVE OnlySupervised'
  BY <1>2 DEF Signal, Listening
<1>3. ASSUME EarlySignal PROVE OnlySupervised'
  BY <1>3 DEF EarlySignal, Exit
<1>4. ASSUME NEW c \in Clients, NEW k \in Kinds, HandlerBegin(c, k) PROVE OnlySupervised'
  BY <1>4 DEF HandlerBegin
<1>5. ASSUME NEW c \in Clients, HandlerReturn(c) PROVE OnlySupervised'
  BY <1>5 DEF HandlerReturn, Clears, MaintenanceAfter
<1>6. ASSUME OnSignal PROVE OnlySupervised'
  BY <1>6 DEF OnSignal, Exit
<1>7. ASSUME OnChildDone PROVE OnlySupervised'
  BY <1>7 DEF OnChildDone, ClearChild, Exit
<1>8. ASSUME OnRestartAt PROVE OnlySupervised'
  BY <1>8 DEF OnRestartAt
<1>9. ASSUME OnExitRequested PROVE OnlySupervised'
  BY <1>9 DEF OnExitRequested
<1>10. ASSUME NEW c \in Clients, OnRequest(c) PROVE OnlySupervised'
  BY <1>10 DEF OnRequest, Refused, StopKinds
<1>11. ASSUME StartOK PROVE OnlySupervised'
  BY <1>11 DEF StartOK, Launch, Reply, BackToSelect
<1>12. ASSUME StartFailed PROVE OnlySupervised'
  BY <1>12 DEF StartFailed, Exit, Reply, BackToSelect
<1>13. ASSUME StartFatal PROVE OnlySupervised'
  BY <1>13 DEF StartFatal, Exit
<1>14. ASSUME Ensured PROVE OnlySupervised'
  BY <1>14 DEF Ensured, BackToSelect
<1>15. ASSUME RejoinOK PROVE OnlySupervised'
  BY <1>15 DEF RejoinOK, Launch, Reply, BackToSelect
<1>16. ASSUME RejoinFailed PROVE OnlySupervised'
  BY <1>16 DEF RejoinFailed, Reply, BackToSelect
<1>17. ASSUME CheckProceed PROVE OnlySupervised'
  BY <1>17 DEF CheckProceed
<1>18. ASSUME CheckRefuse PROVE OnlySupervised'
  BY <1>18 DEF CheckRefuse, HandoverError, HandoverOK, SignalCode, ClearChild, Exit, Reply, BackToSelect
<1>19. ASSUME StopExited PROVE OnlySupervised'
  BY <1>19 DEF StopExited, Stopped, HandoverOK, SignalCode, ClearChild, Exit, Reply, BackToSelect
<1>20. ASSUME StopTimeout PROVE OnlySupervised'
  BY <1>20 DEF StopTimeout
<1>21. ASSUME StopKillError PROVE OnlySupervised'
  BY <1>21 DEF StopKillError, HandoverError, HandoverOK, SignalCode, ClearChild, Exit, Reply, BackToSelect
<1>22. ASSUME KillConfirmed PROVE OnlySupervised'
  BY <1>22 DEF KillConfirmed, Stopped, HandoverOK, SignalCode, ClearChild, Exit, Reply, BackToSelect
<1>23. ASSUME KillUnconfirmed PROVE OnlySupervised'
  BY <1>23 DEF KillUnconfirmed, Stopped, HandoverOK, SignalCode, ClearChild, Exit, Reply, BackToSelect
<1>24. ASSUME PromoteOK PROVE OnlySupervised'
  BY <1>24 DEF PromoteOK, HandoverOK, SignalCode, ClearChild, Exit, Reply, BackToSelect
<1>25. ASSUME PromoteFailed PROVE OnlySupervised'
  BY <1>25 DEF PromoteFailed, HandoverError, HandoverOK, SignalCode, ClearChild, Exit, Reply, BackToSelect
<1>26. ASSUME Terminated PROVE OnlySupervised'
  BY <1>26 DEF Terminated, vars
<1>27. CASE UNCHANGED vars
  BY <1>27 DEF vars
<1> QED
  BY <1>1, <1>2, <1>3, <1>4, <1>5, <1>6, <1>7, <1>8, <1>9, <1>10, <1>11, <1>12, <1>13, <1>14,
     <1>15, <1>16, <1>17, <1>18, <1>19, <1>20, <1>21, <1>22, <1>23, <1>24, <1>25, <1>26, <1>27
     DEF Next, Select, Work

\* Every step keeps a request its client's until it is answered.
LEMMA RequestStep == LoopType /\ HandlerType /\ RequestInHand /\ [Next]_vars => RequestInHand'
<1> SUFFICES ASSUME LoopType, HandlerType, RequestInHand, [Next]_vars PROVE RequestInHand'
  OBVIOUS
<1> USE Basics DEF loopVars, childVars, restartVars, handlerVars, flagVars, exitVars, history, Kinds, StopKinds, LoopType, HandlerType, RequestInHand
<1>1. ASSUME NEW p \in Children, ChildExit(p) PROVE RequestInHand'
  BY <1>1 DEF ChildExit
<1>2. ASSUME Signal PROVE RequestInHand'
  BY <1>2 DEF Signal, Listening
<1>3. ASSUME EarlySignal PROVE RequestInHand'
  BY <1>3 DEF EarlySignal, Exit
<1>4. ASSUME NEW c \in Clients, NEW k \in Kinds, HandlerBegin(c, k) PROVE RequestInHand'
  BY <1>4 DEF HandlerBegin
<1>5. ASSUME NEW c \in Clients, HandlerReturn(c) PROVE RequestInHand'
  BY <1>5 DEF HandlerReturn, Clears, MaintenanceAfter
<1>6. ASSUME OnSignal PROVE RequestInHand'
  BY <1>6 DEF OnSignal, Exit
<1>7. ASSUME OnChildDone PROVE RequestInHand'
  BY <1>7 DEF OnChildDone, ClearChild, Exit
<1>8. ASSUME OnRestartAt PROVE RequestInHand'
  BY <1>8 DEF OnRestartAt
<1>9. ASSUME OnExitRequested PROVE RequestInHand'
  BY <1>9 DEF OnExitRequested
<1>10. ASSUME NEW c \in Clients, OnRequest(c) PROVE RequestInHand'
  BY <1>10 DEF OnRequest, Refused, StopKinds
<1>11. ASSUME StartOK PROVE RequestInHand'
  BY <1>11 DEF StartOK, Launch, Reply, BackToSelect
<1>12. ASSUME StartFailed PROVE RequestInHand'
  BY <1>12 DEF StartFailed, Exit, Reply, BackToSelect
<1>13. ASSUME StartFatal PROVE RequestInHand'
  BY <1>13 DEF StartFatal, Exit
<1>14. ASSUME Ensured PROVE RequestInHand'
  BY <1>14 DEF Ensured, BackToSelect
<1>15. ASSUME RejoinOK PROVE RequestInHand'
  BY <1>15 DEF RejoinOK, Launch, Reply, BackToSelect
<1>16. ASSUME RejoinFailed PROVE RequestInHand'
  BY <1>16 DEF RejoinFailed, Reply, BackToSelect
<1>17. ASSUME CheckProceed PROVE RequestInHand'
  BY <1>17 DEF CheckProceed
<1>18. ASSUME CheckRefuse PROVE RequestInHand'
  BY <1>18 DEF CheckRefuse, HandoverError, HandoverOK, SignalCode, ClearChild, Exit, Reply, BackToSelect
<1>19. ASSUME StopExited PROVE RequestInHand'
  BY <1>19 DEF StopExited, Stopped, HandoverOK, SignalCode, ClearChild, Exit, Reply, BackToSelect
<1>20. ASSUME StopTimeout PROVE RequestInHand'
  BY <1>20 DEF StopTimeout
<1>21. ASSUME StopKillError PROVE RequestInHand'
  BY <1>21 DEF StopKillError, HandoverError, HandoverOK, SignalCode, ClearChild, Exit, Reply, BackToSelect
<1>22. ASSUME KillConfirmed PROVE RequestInHand'
  BY <1>22 DEF KillConfirmed, Stopped, HandoverOK, SignalCode, ClearChild, Exit, Reply, BackToSelect
<1>23. ASSUME KillUnconfirmed PROVE RequestInHand'
  BY <1>23 DEF KillUnconfirmed, Stopped, HandoverOK, SignalCode, ClearChild, Exit, Reply, BackToSelect
<1>24. ASSUME PromoteOK PROVE RequestInHand'
  BY <1>24 DEF PromoteOK, HandoverOK, SignalCode, ClearChild, Exit, Reply, BackToSelect
<1>25. ASSUME PromoteFailed PROVE RequestInHand'
  BY <1>25 DEF PromoteFailed, HandoverError, HandoverOK, SignalCode, ClearChild, Exit, Reply, BackToSelect
<1>26. ASSUME Terminated PROVE RequestInHand'
  BY <1>26 DEF Terminated, vars
<1>27. CASE UNCHANGED vars
  BY <1>27 DEF vars
<1> QED
  BY <1>1, <1>2, <1>3, <1>4, <1>5, <1>6, <1>7, <1>8, <1>9, <1>10, <1>11, <1>12, <1>13, <1>14,
     <1>15, <1>16, <1>17, <1>18, <1>19, <1>20, <1>21, <1>22, <1>23, <1>24, <1>25, <1>26, <1>27
     DEF Next, Select, Work

\* Every step keeps postgres stopped while an exit is due, or records a late start.
LEMMA DueStep == HandlerType /\ LoopKnows /\ RequestInHand /\ ExitDueStopped /\ [Next]_vars => ExitDueStopped'
<1> SUFFICES ASSUME HandlerType, LoopKnows, RequestInHand, ExitDueStopped, [Next]_vars PROVE ExitDueStopped'
  OBVIOUS
<1> USE Basics DEF loopVars, childVars, restartVars, handlerVars, flagVars, exitVars, history, ExitDue, HandlerType, LoopKnows, RequestInHand, ExitDueStopped
<1>1. ASSUME NEW p \in Children, ChildExit(p) PROVE ExitDueStopped'
  BY <1>1 DEF ChildExit
<1>2. ASSUME Signal PROVE ExitDueStopped'
  BY <1>2 DEF Signal, Listening
<1>3. ASSUME EarlySignal PROVE ExitDueStopped'
  BY <1>3 DEF EarlySignal, Exit
<1>4. ASSUME NEW c \in Clients, NEW k \in Kinds, HandlerBegin(c, k) PROVE ExitDueStopped'
  BY <1>4 DEF HandlerBegin
<1>5. ASSUME NEW c \in Clients, HandlerReturn(c) PROVE ExitDueStopped'
  BY <1>5 DEF HandlerReturn, Clears, MaintenanceAfter
<1>6. ASSUME OnSignal PROVE ExitDueStopped'
  BY <1>6 DEF OnSignal, Exit
<1>7. ASSUME OnChildDone PROVE ExitDueStopped'
  BY <1>7 DEF OnChildDone, ClearChild, Exit
<1>8. ASSUME OnRestartAt PROVE ExitDueStopped'
  BY <1>8 DEF OnRestartAt
<1>9. ASSUME OnExitRequested PROVE ExitDueStopped'
  BY <1>9 DEF OnExitRequested
<1>10. ASSUME NEW c \in Clients, OnRequest(c) PROVE ExitDueStopped'
  BY <1>10 DEF OnRequest, Refused, StopKinds
<1>11. ASSUME StartOK PROVE ExitDueStopped'
  BY <1>11 DEF StartOK, Launch, Reply, BackToSelect
<1>12. ASSUME StartFailed PROVE ExitDueStopped'
  BY <1>12 DEF StartFailed, Exit, Reply, BackToSelect
<1>13. ASSUME StartFatal PROVE ExitDueStopped'
  BY <1>13 DEF StartFatal, Exit
<1>14. ASSUME Ensured PROVE ExitDueStopped'
  BY <1>14 DEF Ensured, BackToSelect
<1>15. ASSUME RejoinOK PROVE ExitDueStopped'
  BY <1>15 DEF RejoinOK, Launch, Reply, BackToSelect
<1>16. ASSUME RejoinFailed PROVE ExitDueStopped'
  BY <1>16 DEF RejoinFailed, Reply, BackToSelect
<1>17. ASSUME CheckProceed PROVE ExitDueStopped'
  BY <1>17 DEF CheckProceed
<1>18. ASSUME CheckRefuse PROVE ExitDueStopped'
  BY <1>18 DEF CheckRefuse, HandoverError, HandoverOK, SignalCode, ClearChild, Exit, Reply, BackToSelect
<1>19. ASSUME StopExited PROVE ExitDueStopped'
  BY <1>19 DEF StopExited, Stopped, HandoverOK, SignalCode, ClearChild, Exit, Reply, BackToSelect
<1>20. ASSUME StopTimeout PROVE ExitDueStopped'
  BY <1>20 DEF StopTimeout
<1>21. ASSUME StopKillError PROVE ExitDueStopped'
  BY <1>21 DEF StopKillError, HandoverError, HandoverOK, SignalCode, ClearChild, Exit, Reply, BackToSelect
<1>22. ASSUME KillConfirmed PROVE ExitDueStopped'
  BY <1>22 DEF KillConfirmed, Stopped, HandoverOK, SignalCode, ClearChild, Exit, Reply, BackToSelect
<1>23. ASSUME KillUnconfirmed PROVE ExitDueStopped'
  BY <1>23 DEF KillUnconfirmed, Stopped, HandoverOK, SignalCode, ClearChild, Exit, Reply, BackToSelect
<1>24. ASSUME PromoteOK PROVE ExitDueStopped'
  BY <1>24 DEF PromoteOK, HandoverOK, SignalCode, ClearChild, Exit, Reply, BackToSelect
<1>25. ASSUME PromoteFailed PROVE ExitDueStopped'
  BY <1>25 DEF PromoteFailed, HandoverError, HandoverOK, SignalCode, ClearChild, Exit, Reply, BackToSelect
<1>26. ASSUME Terminated PROVE ExitDueStopped'
  BY <1>26 DEF Terminated, vars
<1>27. CASE UNCHANGED vars
  BY <1>27 DEF vars
<1> QED
  BY <1>1, <1>2, <1>3, <1>4, <1>5, <1>6, <1>7, <1>8, <1>9, <1>10, <1>11, <1>12, <1>13, <1>14,
     <1>15, <1>16, <1>17, <1>18, <1>19, <1>20, <1>21, <1>22, <1>23, <1>24, <1>25, <1>26, <1>27
     DEF Next, Select, Work

\* Every step keeps the restart timer and the child apart.
LEMMA GuardStep == LoopKnows /\ RestartGuard /\ [Next]_vars => RestartGuard'
<1> SUFFICES ASSUME LoopKnows, RestartGuard, [Next]_vars PROVE RestartGuard'
  OBVIOUS
<1> USE Basics DEF loopVars, childVars, restartVars, handlerVars, flagVars, exitVars, history, LoopKnows, RestartGuard
<1>1. ASSUME NEW p \in Children, ChildExit(p) PROVE RestartGuard'
  BY <1>1 DEF ChildExit
<1>2. ASSUME Signal PROVE RestartGuard'
  BY <1>2 DEF Signal, Listening
<1>3. ASSUME EarlySignal PROVE RestartGuard'
  BY <1>3 DEF EarlySignal, Exit
<1>4. ASSUME NEW c \in Clients, NEW k \in Kinds, HandlerBegin(c, k) PROVE RestartGuard'
  BY <1>4 DEF HandlerBegin
<1>5. ASSUME NEW c \in Clients, HandlerReturn(c) PROVE RestartGuard'
  BY <1>5 DEF HandlerReturn, Clears, MaintenanceAfter
<1>6. ASSUME OnSignal PROVE RestartGuard'
  BY <1>6 DEF OnSignal, Exit
<1>7. ASSUME OnChildDone PROVE RestartGuard'
  BY <1>7 DEF OnChildDone, ClearChild, Exit
<1>8. ASSUME OnRestartAt PROVE RestartGuard'
  BY <1>8 DEF OnRestartAt
<1>9. ASSUME OnExitRequested PROVE RestartGuard'
  BY <1>9 DEF OnExitRequested
<1>10. ASSUME NEW c \in Clients, OnRequest(c) PROVE RestartGuard'
  BY <1>10 DEF OnRequest, Refused, StopKinds
<1>11. ASSUME StartOK PROVE RestartGuard'
  BY <1>11 DEF StartOK, Launch, Reply, BackToSelect
<1>12. ASSUME StartFailed PROVE RestartGuard'
  BY <1>12 DEF StartFailed, Exit, Reply, BackToSelect
<1>13. ASSUME StartFatal PROVE RestartGuard'
  BY <1>13 DEF StartFatal, Exit
<1>14. ASSUME Ensured PROVE RestartGuard'
  BY <1>14 DEF Ensured, BackToSelect
<1>15. ASSUME RejoinOK PROVE RestartGuard'
  BY <1>15 DEF RejoinOK, Launch, Reply, BackToSelect
<1>16. ASSUME RejoinFailed PROVE RestartGuard'
  BY <1>16 DEF RejoinFailed, Reply, BackToSelect
<1>17. ASSUME CheckProceed PROVE RestartGuard'
  BY <1>17 DEF CheckProceed
<1>18. ASSUME CheckRefuse PROVE RestartGuard'
  BY <1>18 DEF CheckRefuse, HandoverError, HandoverOK, SignalCode, ClearChild, Exit, Reply, BackToSelect
<1>19. ASSUME StopExited PROVE RestartGuard'
  BY <1>19 DEF StopExited, Stopped, HandoverOK, SignalCode, ClearChild, Exit, Reply, BackToSelect
<1>20. ASSUME StopTimeout PROVE RestartGuard'
  BY <1>20 DEF StopTimeout
<1>21. ASSUME StopKillError PROVE RestartGuard'
  BY <1>21 DEF StopKillError, HandoverError, HandoverOK, SignalCode, ClearChild, Exit, Reply, BackToSelect
<1>22. ASSUME KillConfirmed PROVE RestartGuard'
  BY <1>22 DEF KillConfirmed, Stopped, HandoverOK, SignalCode, ClearChild, Exit, Reply, BackToSelect
<1>23. ASSUME KillUnconfirmed PROVE RestartGuard'
  BY <1>23 DEF KillUnconfirmed, Stopped, HandoverOK, SignalCode, ClearChild, Exit, Reply, BackToSelect
<1>24. ASSUME PromoteOK PROVE RestartGuard'
  BY <1>24 DEF PromoteOK, HandoverOK, SignalCode, ClearChild, Exit, Reply, BackToSelect
<1>25. ASSUME PromoteFailed PROVE RestartGuard'
  BY <1>25 DEF PromoteFailed, HandoverError, HandoverOK, SignalCode, ClearChild, Exit, Reply, BackToSelect
<1>26. ASSUME Terminated PROVE RestartGuard'
  BY <1>26 DEF Terminated, vars
<1>27. CASE UNCHANGED vars
  BY <1>27 DEF vars
<1> QED
  BY <1>1, <1>2, <1>3, <1>4, <1>5, <1>6, <1>7, <1>8, <1>9, <1>10, <1>11, <1>12, <1>13, <1>14,
     <1>15, <1>16, <1>17, <1>18, <1>19, <1>20, <1>21, <1>22, <1>23, <1>24, <1>25, <1>26, <1>27
     DEF Next, Select, Work

\* Every step to an exit leaves no postgres behind.
LEMMA BehindStep == ChildType /\ LoopKnows /\ OnlySupervised /\ ExitDueStopped /\ NoPostgresLeftBehind /\ [Next]_vars => NoPostgresLeftBehind'
<1> SUFFICES ASSUME ChildType, LoopKnows, OnlySupervised, ExitDueStopped, NoPostgresLeftBehind, [Next]_vars PROVE NoPostgresLeftBehind'
  OBVIOUS
<1> USE Basics DEF loopVars, childVars, restartVars, handlerVars, flagVars, exitVars, history, ExitDue, ChildType, LoopKnows, OnlySupervised, ExitDueStopped, NoPostgresLeftBehind
<1>1. ASSUME NEW p \in Children, ChildExit(p) PROVE NoPostgresLeftBehind'
  BY <1>1 DEF ChildExit
<1>2. ASSUME Signal PROVE NoPostgresLeftBehind'
  BY <1>2 DEF Signal, Listening
<1>3. ASSUME EarlySignal PROVE NoPostgresLeftBehind'
  BY <1>3 DEF EarlySignal, Exit
<1>4. ASSUME NEW c \in Clients, NEW k \in Kinds, HandlerBegin(c, k) PROVE NoPostgresLeftBehind'
  BY <1>4 DEF HandlerBegin
<1>5. ASSUME NEW c \in Clients, HandlerReturn(c) PROVE NoPostgresLeftBehind'
  BY <1>5 DEF HandlerReturn, Clears, MaintenanceAfter
<1>6. ASSUME OnSignal PROVE NoPostgresLeftBehind'
  BY <1>6 DEF OnSignal, Exit
<1>7. ASSUME OnChildDone PROVE NoPostgresLeftBehind'
  BY <1>7 DEF OnChildDone, ClearChild, Exit
<1>8. ASSUME OnRestartAt PROVE NoPostgresLeftBehind'
  BY <1>8 DEF OnRestartAt
<1>9. ASSUME OnExitRequested PROVE NoPostgresLeftBehind'
  BY <1>9 DEF OnExitRequested
<1>10. ASSUME NEW c \in Clients, OnRequest(c) PROVE NoPostgresLeftBehind'
  BY <1>10 DEF OnRequest, Refused, StopKinds
<1>11. ASSUME StartOK PROVE NoPostgresLeftBehind'
  BY <1>11 DEF StartOK, Launch, Reply, BackToSelect
<1>12. ASSUME StartFailed PROVE NoPostgresLeftBehind'
  BY <1>12 DEF StartFailed, Exit, Reply, BackToSelect
<1>13. ASSUME StartFatal PROVE NoPostgresLeftBehind'
  BY <1>13 DEF StartFatal, Exit
<1>14. ASSUME Ensured PROVE NoPostgresLeftBehind'
  BY <1>14 DEF Ensured, BackToSelect
<1>15. ASSUME RejoinOK PROVE NoPostgresLeftBehind'
  BY <1>15 DEF RejoinOK, Launch, Reply, BackToSelect
<1>16. ASSUME RejoinFailed PROVE NoPostgresLeftBehind'
  BY <1>16 DEF RejoinFailed, Reply, BackToSelect
<1>17. ASSUME CheckProceed PROVE NoPostgresLeftBehind'
  BY <1>17 DEF CheckProceed
<1>18. ASSUME CheckRefuse PROVE NoPostgresLeftBehind'
  BY <1>18 DEF CheckRefuse, HandoverError, HandoverOK, SignalCode, ClearChild, Exit, Reply, BackToSelect
<1>19. ASSUME StopExited PROVE NoPostgresLeftBehind'
  BY <1>19 DEF StopExited, Stopped, HandoverOK, SignalCode, ClearChild, Exit, Reply, BackToSelect
<1>20. ASSUME StopTimeout PROVE NoPostgresLeftBehind'
  BY <1>20 DEF StopTimeout
<1>21. ASSUME StopKillError PROVE NoPostgresLeftBehind'
  BY <1>21 DEF StopKillError, HandoverError, HandoverOK, SignalCode, ClearChild, Exit, Reply, BackToSelect
<1>22. ASSUME KillConfirmed PROVE NoPostgresLeftBehind'
  BY <1>22 DEF KillConfirmed, Stopped, HandoverOK, SignalCode, ClearChild, Exit, Reply, BackToSelect
<1>23. ASSUME KillUnconfirmed PROVE NoPostgresLeftBehind'
  BY <1>23 DEF KillUnconfirmed, Stopped, HandoverOK, SignalCode, ClearChild, Exit, Reply, BackToSelect
<1>24. ASSUME PromoteOK PROVE NoPostgresLeftBehind'
  BY <1>24 DEF PromoteOK, HandoverOK, SignalCode, ClearChild, Exit, Reply, BackToSelect
<1>25. ASSUME PromoteFailed PROVE NoPostgresLeftBehind'
  BY <1>25 DEF PromoteFailed, HandoverError, HandoverOK, SignalCode, ClearChild, Exit, Reply, BackToSelect
<1>26. ASSUME Terminated PROVE NoPostgresLeftBehind'
  BY <1>26 DEF Terminated, vars
<1>27. CASE UNCHANGED vars
  BY <1>27 DEF vars
<1> QED
  BY <1>1, <1>2, <1>3, <1>4, <1>5, <1>6, <1>7, <1>8, <1>9, <1>10, <1>11, <1>12, <1>13, <1>14,
     <1>15, <1>16, <1>17, <1>18, <1>19, <1>20, <1>21, <1>22, <1>23, <1>24, <1>25, <1>26, <1>27
     DEF Next, Select, Work

\* Every step leaves a flag set only while a handler that set it is at work.
LEMMA FlagsStep == HandlerType /\ FlagsNeverStick /\ [Next]_vars => FlagsNeverStick'
<1> SUFFICES ASSUME HandlerType, FlagsNeverStick, [Next]_vars PROVE FlagsNeverStick'
  OBVIOUS
<1> USE Basics DEF loopVars, childVars, restartVars, handlerVars, flagVars, exitVars, history, Kinds, HandlerType, FlagsNeverStick
<1>1. ASSUME NEW p \in Children, ChildExit(p) PROVE FlagsNeverStick'
  BY <1>1 DEF ChildExit
<1>2. ASSUME Signal PROVE FlagsNeverStick'
  BY <1>2 DEF Signal, Listening
<1>3. ASSUME EarlySignal PROVE FlagsNeverStick'
  BY <1>3 DEF EarlySignal, Exit
<1>4. ASSUME NEW c \in Clients, NEW k \in Kinds, HandlerBegin(c, k) PROVE FlagsNeverStick'
  BY <1>4 DEF HandlerBegin
<1>5. ASSUME NEW c \in Clients, HandlerReturn(c) PROVE FlagsNeverStick'
  BY <1>5 DEF HandlerReturn, Clears, MaintenanceAfter
<1>6. ASSUME OnSignal PROVE FlagsNeverStick'
  BY <1>6 DEF OnSignal, Exit
<1>7. ASSUME OnChildDone PROVE FlagsNeverStick'
  BY <1>7 DEF OnChildDone, ClearChild, Exit
<1>8. ASSUME OnRestartAt PROVE FlagsNeverStick'
  BY <1>8 DEF OnRestartAt
<1>9. ASSUME OnExitRequested PROVE FlagsNeverStick'
  BY <1>9 DEF OnExitRequested
<1>10. ASSUME NEW c \in Clients, OnRequest(c) PROVE FlagsNeverStick'
  BY <1>10 DEF OnRequest, Refused, StopKinds
<1>11. ASSUME StartOK PROVE FlagsNeverStick'
  BY <1>11 DEF StartOK, Launch, Reply, BackToSelect
<1>12. ASSUME StartFailed PROVE FlagsNeverStick'
  BY <1>12 DEF StartFailed, Exit, Reply, BackToSelect
<1>13. ASSUME StartFatal PROVE FlagsNeverStick'
  BY <1>13 DEF StartFatal, Exit
<1>14. ASSUME Ensured PROVE FlagsNeverStick'
  BY <1>14 DEF Ensured, BackToSelect
<1>15. ASSUME RejoinOK PROVE FlagsNeverStick'
  BY <1>15 DEF RejoinOK, Launch, Reply, BackToSelect
<1>16. ASSUME RejoinFailed PROVE FlagsNeverStick'
  BY <1>16 DEF RejoinFailed, Reply, BackToSelect
<1>17. ASSUME CheckProceed PROVE FlagsNeverStick'
  BY <1>17 DEF CheckProceed
<1>18. ASSUME CheckRefuse PROVE FlagsNeverStick'
  BY <1>18 DEF CheckRefuse, HandoverError, HandoverOK, SignalCode, ClearChild, Exit, Reply, BackToSelect
<1>19. ASSUME StopExited PROVE FlagsNeverStick'
  BY <1>19 DEF StopExited, Stopped, HandoverOK, SignalCode, ClearChild, Exit, Reply, BackToSelect
<1>20. ASSUME StopTimeout PROVE FlagsNeverStick'
  BY <1>20 DEF StopTimeout
<1>21. ASSUME StopKillError PROVE FlagsNeverStick'
  BY <1>21 DEF StopKillError, HandoverError, HandoverOK, SignalCode, ClearChild, Exit, Reply, BackToSelect
<1>22. ASSUME KillConfirmed PROVE FlagsNeverStick'
  BY <1>22 DEF KillConfirmed, Stopped, HandoverOK, SignalCode, ClearChild, Exit, Reply, BackToSelect
<1>23. ASSUME KillUnconfirmed PROVE FlagsNeverStick'
  BY <1>23 DEF KillUnconfirmed, Stopped, HandoverOK, SignalCode, ClearChild, Exit, Reply, BackToSelect
<1>24. ASSUME PromoteOK PROVE FlagsNeverStick'
  BY <1>24 DEF PromoteOK, HandoverOK, SignalCode, ClearChild, Exit, Reply, BackToSelect
<1>25. ASSUME PromoteFailed PROVE FlagsNeverStick'
  BY <1>25 DEF PromoteFailed, HandoverError, HandoverOK, SignalCode, ClearChild, Exit, Reply, BackToSelect
<1>26. ASSUME Terminated PROVE FlagsNeverStick'
  BY <1>26 DEF Terminated, vars
<1>27. CASE UNCHANGED vars
  BY <1>27 DEF vars
<1> QED
  BY <1>1, <1>2, <1>3, <1>4, <1>5, <1>6, <1>7, <1>8, <1>9, <1>10, <1>11, <1>12, <1>13, <1>14,
     <1>15, <1>16, <1>17, <1>18, <1>19, <1>20, <1>21, <1>22, <1>23, <1>24, <1>25, <1>26, <1>27
     DEF Next, Select, Work

\* Every step keeps the main goroutine at work for whom it took up.
LEMMA ServesStep == LoopType /\ HandlerType /\ LoopKnows /\ RequestInHand /\ LoopServes /\ [Next]_vars => LoopServes'
<1> SUFFICES ASSUME LoopType, HandlerType, LoopKnows, RequestInHand, LoopServes, [Next]_vars PROVE LoopServes'
  OBVIOUS
<1> USE Basics DEF loopVars, childVars, restartVars, handlerVars, flagVars, exitVars, history, Kinds, StopKinds, LoopType, HandlerType, LoopKnows, RequestInHand, LoopServes
<1>1. ASSUME NEW p \in Children, ChildExit(p) PROVE LoopServes'
  BY <1>1 DEF ChildExit
<1>2. ASSUME Signal PROVE LoopServes'
  BY <1>2 DEF Signal, Listening
<1>3. ASSUME EarlySignal PROVE LoopServes'
  BY <1>3 DEF EarlySignal, Exit
<1>4. ASSUME NEW c \in Clients, NEW k \in Kinds, HandlerBegin(c, k) PROVE LoopServes'
  BY <1>4 DEF HandlerBegin
<1>5. ASSUME NEW c \in Clients, HandlerReturn(c) PROVE LoopServes'
  BY <1>5 DEF HandlerReturn, Clears, MaintenanceAfter
<1>6. ASSUME OnSignal PROVE LoopServes'
  BY <1>6 DEF OnSignal, Exit
<1>7. ASSUME OnChildDone PROVE LoopServes'
  BY <1>7 DEF OnChildDone, ClearChild, Exit
<1>8. ASSUME OnRestartAt PROVE LoopServes'
  BY <1>8 DEF OnRestartAt
<1>9. ASSUME OnExitRequested PROVE LoopServes'
  BY <1>9 DEF OnExitRequested
<1>10. ASSUME NEW c \in Clients, OnRequest(c) PROVE LoopServes'
  BY <1>10 DEF OnRequest, Refused, StopKinds
<1>11. ASSUME StartOK PROVE LoopServes'
  BY <1>11 DEF StartOK, Launch, Reply, BackToSelect
<1>12. ASSUME StartFailed PROVE LoopServes'
  BY <1>12 DEF StartFailed, Exit, Reply, BackToSelect
<1>13. ASSUME StartFatal PROVE LoopServes'
  BY <1>13 DEF StartFatal, Exit
<1>14. ASSUME Ensured PROVE LoopServes'
  BY <1>14 DEF Ensured, BackToSelect
<1>15. ASSUME RejoinOK PROVE LoopServes'
  BY <1>15 DEF RejoinOK, Launch, Reply, BackToSelect
<1>16. ASSUME RejoinFailed PROVE LoopServes'
  BY <1>16 DEF RejoinFailed, Reply, BackToSelect
<1>17. ASSUME CheckProceed PROVE LoopServes'
  BY <1>17 DEF CheckProceed
<1>18. ASSUME CheckRefuse PROVE LoopServes'
  BY <1>18 DEF CheckRefuse, HandoverError, HandoverOK, SignalCode, ClearChild, Exit, Reply, BackToSelect
<1>19. ASSUME StopExited PROVE LoopServes'
  BY <1>19 DEF StopExited, Stopped, HandoverOK, SignalCode, ClearChild, Exit, Reply, BackToSelect
<1>20. ASSUME StopTimeout PROVE LoopServes'
  BY <1>20 DEF StopTimeout
<1>21. ASSUME StopKillError PROVE LoopServes'
  BY <1>21 DEF StopKillError, HandoverError, HandoverOK, SignalCode, ClearChild, Exit, Reply, BackToSelect
<1>22. ASSUME KillConfirmed PROVE LoopServes'
  BY <1>22 DEF KillConfirmed, Stopped, HandoverOK, SignalCode, ClearChild, Exit, Reply, BackToSelect
<1>23. ASSUME KillUnconfirmed PROVE LoopServes'
  BY <1>23 DEF KillUnconfirmed, Stopped, HandoverOK, SignalCode, ClearChild, Exit, Reply, BackToSelect
<1>24. ASSUME PromoteOK PROVE LoopServes'
  BY <1>24 DEF PromoteOK, HandoverOK, SignalCode, ClearChild, Exit, Reply, BackToSelect
<1>25. ASSUME PromoteFailed PROVE LoopServes'
  BY <1>25 DEF PromoteFailed, HandoverError, HandoverOK, SignalCode, ClearChild, Exit, Reply, BackToSelect
<1>26. ASSUME Terminated PROVE LoopServes'
  BY <1>26 DEF Terminated, vars
<1>27. CASE UNCHANGED vars
  BY <1>27 DEF vars
<1> QED
  BY <1>1, <1>2, <1>3, <1>4, <1>5, <1>6, <1>7, <1>8, <1>9, <1>10, <1>11, <1>12, <1>13, <1>14,
     <1>15, <1>16, <1>17, <1>18, <1>19, <1>20, <1>21, <1>22, <1>23, <1>24, <1>25, <1>26, <1>27
     DEF Next, Select, Work

\* Every step leaves postgres quiet after maintenance until it is started.
LEMMA QuietStep == HandlerType /\ LoopKnows /\ RestartGuard /\ RequestInHand /\ LoopServes /\ MaintenanceQuiet /\ [Next]_vars => MaintenanceQuiet'
<1> SUFFICES ASSUME HandlerType, LoopKnows, RestartGuard, RequestInHand, LoopServes, MaintenanceQuiet, [Next]_vars PROVE MaintenanceQuiet'
  OBVIOUS
<1> USE Basics DEF loopVars, childVars, restartVars, handlerVars, flagVars, exitVars, history, Quiet, MaintenanceDue, Kinds, StopKinds, HandlerType, LoopKnows, RestartGuard, RequestInHand, LoopServes, MaintenanceQuiet
<1>1. ASSUME NEW p \in Children, ChildExit(p) PROVE MaintenanceQuiet'
  BY <1>1 DEF ChildExit
<1>2. ASSUME Signal PROVE MaintenanceQuiet'
  BY <1>2 DEF Signal, Listening
<1>3. ASSUME EarlySignal PROVE MaintenanceQuiet'
  BY <1>3 DEF EarlySignal, Exit
<1>4. ASSUME NEW c \in Clients, NEW k \in Kinds, HandlerBegin(c, k) PROVE MaintenanceQuiet'
  BY <1>4 DEF HandlerBegin
<1>5. ASSUME NEW c \in Clients, HandlerReturn(c) PROVE MaintenanceQuiet'
  BY <1>5 DEF HandlerReturn, Clears, MaintenanceAfter
<1>6. ASSUME OnSignal PROVE MaintenanceQuiet'
  BY <1>6 DEF OnSignal, Exit
<1>7. ASSUME OnChildDone PROVE MaintenanceQuiet'
  BY <1>7 DEF OnChildDone, ClearChild, Exit
<1>8. ASSUME OnRestartAt PROVE MaintenanceQuiet'
  BY <1>8 DEF OnRestartAt
<1>9. ASSUME OnExitRequested PROVE MaintenanceQuiet'
  BY <1>9 DEF OnExitRequested
<1>10. ASSUME NEW c \in Clients, OnRequest(c) PROVE MaintenanceQuiet'
  BY <1>10 DEF OnRequest, Refused, StopKinds
<1>11. ASSUME StartOK PROVE MaintenanceQuiet'
  BY <1>11 DEF StartOK, Launch, Reply, BackToSelect
<1>12. ASSUME StartFailed PROVE MaintenanceQuiet'
  BY <1>12 DEF StartFailed, Exit, Reply, BackToSelect
<1>13. ASSUME StartFatal PROVE MaintenanceQuiet'
  BY <1>13 DEF StartFatal, Exit
<1>14. ASSUME Ensured PROVE MaintenanceQuiet'
  BY <1>14 DEF Ensured, BackToSelect
<1>15. ASSUME RejoinOK PROVE MaintenanceQuiet'
  BY <1>15 DEF RejoinOK, Launch, Reply, BackToSelect
<1>16. ASSUME RejoinFailed PROVE MaintenanceQuiet'
  BY <1>16 DEF RejoinFailed, Reply, BackToSelect
<1>17. ASSUME CheckProceed PROVE MaintenanceQuiet'
  BY <1>17 DEF CheckProceed
<1>18. ASSUME CheckRefuse PROVE MaintenanceQuiet'
  BY <1>18 DEF CheckRefuse, HandoverError, HandoverOK, SignalCode, ClearChild, Exit, Reply, BackToSelect
<1>19. ASSUME StopExited PROVE MaintenanceQuiet'
  BY <1>19 DEF StopExited, Stopped, HandoverOK, SignalCode, ClearChild, Exit, Reply, BackToSelect
<1>20. ASSUME StopTimeout PROVE MaintenanceQuiet'
  BY <1>20 DEF StopTimeout
<1>21. ASSUME StopKillError PROVE MaintenanceQuiet'
  BY <1>21 DEF StopKillError, HandoverError, HandoverOK, SignalCode, ClearChild, Exit, Reply, BackToSelect
<1>22. ASSUME KillConfirmed PROVE MaintenanceQuiet'
  BY <1>22 DEF KillConfirmed, Stopped, HandoverOK, SignalCode, ClearChild, Exit, Reply, BackToSelect
<1>23. ASSUME KillUnconfirmed PROVE MaintenanceQuiet'
  BY <1>23 DEF KillUnconfirmed, Stopped, HandoverOK, SignalCode, ClearChild, Exit, Reply, BackToSelect
<1>24. ASSUME PromoteOK PROVE MaintenanceQuiet'
  BY <1>24 DEF PromoteOK, HandoverOK, SignalCode, ClearChild, Exit, Reply, BackToSelect
<1>25. ASSUME PromoteFailed PROVE MaintenanceQuiet'
  BY <1>25 DEF PromoteFailed, HandoverError, HandoverOK, SignalCode, ClearChild, Exit, Reply, BackToSelect
<1>26. ASSUME Terminated PROVE MaintenanceQuiet'
  BY <1>26 DEF Terminated, vars
<1>27. CASE UNCHANGED vars
  BY <1>27 DEF vars
<1> QED
  BY <1>1, <1>2, <1>3, <1>4, <1>5, <1>6, <1>7, <1>8, <1>9, <1>10, <1>11, <1>12, <1>13, <1>14,
     <1>15, <1>16, <1>17, <1>18, <1>19, <1>20, <1>21, <1>22, <1>23, <1>24, <1>25, <1>26, <1>27
     DEF Next, Select, Work

\* Spec keeps the whole inductive invariant.
THEOREM MainLoopInvariant == Spec => []IInv
<1>1. IInv /\ [Next]_vars => IInv'
  BY LoopTypeStep, ChildTypeStep, FlagTypeStep, HandlerTypeStep, ExitTypeStep,
     KnowsStep, OnlyStep, RequestStep, DueStep, GuardStep, BehindStep,
     FlagsStep, ServesStep, QuietStep DEF IInv, TypeOK
<1> QED
  BY InitIInv, <1>1, PTL DEF Spec

\* main.go, state.go: every variable of the loop and the handlers keeps its type.
THEOREM TypeCorrect == Spec => []TypeOK
<1>1. IInv => TypeOK
  BY DEF IInv
<1> QED
  BY MainLoopInvariant, <1>1, PTL

\* handover.go:131-165 with main.go's starts: beside the processes that outlive an
\* unconfirmed SIGKILL, at most one postgres runs over one PGDATA.
THEOREM SinglePostgres == Spec => []AtMostOnePostgres
<1>1. IInv => AtMostOnePostgres
  BY DEF IInv, OnlySupervised, AtMostOnePostgres
<1> QED
  BY MainLoopInvariant, <1>1, PTL

\* The double-check of the restartAt case (main.go:288-298) never finds a child.
THEOREM RestartNeverRaces == Spec => []RestartGuard
<1>1. IInv => RestartGuard
  BY DEF IInv
<1> QED
  BY MainLoopInvariant, <1>1, PTL

\* pg-guard exits with no postgres behind, with the three named exceptions.
THEOREM CleanExit == Spec => []NoPostgresLeftBehind
<1>1. IInv => NoPostgresLeftBehind
  BY DEF IInv
<1> QED
  BY MainLoopInvariant, <1>1, PTL

\* state.go: an in-progress flag never outlives the handlers that set it.
THEOREM FlagsCleared == Spec => []FlagsNeverStick
<1>1. IInv => FlagsNeverStick
  BY DEF IInv
<1> QED
  BY MainLoopInvariant, <1>1, PTL

\* metrics_server.go:78: maintenance_active is not set over a running postgres.
THEOREM MaintenanceFlag == Spec => []MaintenanceFlagFollows
<1>1. IInv => MaintenanceFlagFollows
  BY DEF IInv, MaintenanceQuiet, MaintenanceFlagFollows, Quiet
<1> QED
  BY MainLoopInvariant, <1>1, PTL

-----------------------------------------------------------------------------
(* The refinement: every step of the main loop is a step of Supervision, or   *)
(* changes nothing that Supervision sees.                                     *)

AnswerBecomes(d, r) == Answer(d)' = r /\ \A c \in Clients \ {d} : Answer(c)' = Answer(c)
SameAnswers == \A c \in Clients : Answer(c)' = Answer(c)
SameWishes == \A c \in Clients : Wish(c)' = Wish(c)
SameNode == UNCHANGED <<currentChild, started>> /\ Owed' = Owed /\ Phase' = Phase

Step == [Abstract!Next]_(Abstract!vars)

\* What the main loop shows of a refusal.
LEMMA ShowsRefuse ==
  ASSUME NEW d \in Clients, Phase = "serving", Answer(d) = "pending", AnswerBecomes(d, "error"),
         SameWishes, SameNode
  PROVE  Step
BY DEF AnswerBecomes, SameAnswers, SameWishes, SameNode, Step, Abstract!Next,
       Abstract!Refuse

\* What the main loop shows of the answer to a stop that has happened.
LEMMA ShowsConclude ==
  ASSUME NEW d \in Clients, NEW r \in {"ok", "error"}, Phase = "serving", Answer(d) = "stopped",
         currentChild = 0, AnswerBecomes(d, r), SameWishes, SameNode
  PROVE  Step
BY DEF AnswerBecomes, SameAnswers, SameWishes, SameNode, Step, Abstract!Next,
       Abstract!Conclude

\* What the main loop shows of a stop that is granted.
LEMMA ShowsStop ==
  ASSUME NEW d \in Clients, NEW r \in {"stopped", "ok"}, Phase = "serving", Phase' = Phase,
         Answer(d) = "pending", Wish(d) = "stop", currentChild # 0, currentChild' = 0,
         AnswerBecomes(d, r), SameWishes, started' = started, Owed' = Owed
  PROVE  Step
BY DEF AnswerBecomes, SameAnswers, SameWishes, SameNode, Step, Abstract!Next,
       Abstract!Stop

\* What the main loop shows of a start that is granted.
LEMMA ShowsStart ==
  ASSUME NEW d \in Clients, Phase = "serving", Phase' = Phase, Answer(d) = "pending",
         Wish(d) = "start", currentChild = 0, ~Owed, Owed' = Owed, started' = started + 1,
         currentChild' = started + 1, AnswerBecomes(d, "ok"), SameWishes
  PROVE  Step
BY DEF AnswerBecomes, SameAnswers, SameWishes, SameNode, Step, Abstract!Next,
       Abstract!Start, Abstract!NewInstance

\* What the main loop shows of a start that is owed.
LEMMA ShowsOwedStart ==
  ASSUME Phase = "serving", Phase' = Phase, Owed, Owed' = FALSE, currentChild = 0,
         started' = started + 1, currentChild' = started + 1, SameAnswers, SameWishes
  PROVE  Step
BY DEF AnswerBecomes, SameAnswers, SameWishes, SameNode, Step, Abstract!Next,
       Abstract!OwedStart, Abstract!NewInstance

\* What the main loop shows of a termination signal.
LEMMA ShowsLeave ==
  ASSUME Phase = "serving", Phase' = "leaving", started' = started, Owed' = Owed,
         currentChild' = currentChild, SameAnswers, SameWishes
  PROVE  Step
BY DEF AnswerBecomes, SameAnswers, SameWishes, SameNode, Step, Abstract!Next,
       Abstract!Leave

\* What the main loop shows of an exit.
LEMMA ShowsEnd ==
  ASSUME Phase # "over", Phase' = "over", started' = started, Owed' \in {FALSE, Owed},
         currentChild' \in {0, currentChild}, Phase = "leaving" => currentChild' = 0,
         SameAnswers, SameWishes
  PROVE  Step
BY DEF AnswerBecomes, SameAnswers, SameWishes, SameNode, Step, Abstract!Next,
       Abstract!End

\* What the main loop shows of nothing.
LEMMA ShowsStutter ==
  ASSUME SameNode, SameAnswers, SameWishes
  PROVE  Step
BY DEF AnswerBecomes, SameAnswers, SameWishes, SameNode, Step, Abstract!vars

\* What an answer to the request in hand changes for the clients.
LEMMA ReplyAnswers ==
  ASSUME HandlerType, RequestInHand, NEW d \in Clients, who = d, NEW r \in {"ok", "error"}, Reply(r)
  PROVE  /\ Answer(d) = IF mpc = "promote" THEN "stopped" ELSE "pending"
         /\ AnswerBecomes(d, r) /\ SameWishes
<1> USE Basics DEF HandlerType, RequestInHand, Reply, BackToSelect
<1>1. Answer(d) = IF mpc = "promote" THEN "stopped" ELSE "pending"
  BY DEF Answer
<1>2. /\ hpc[d] = "waiting" /\ reply'[d] = r
      /\ \A c \in Clients \ {d} : reply'[c] = reply[c]
      /\ hpc' = hpc /\ hkind' = hkind /\ \A c \in Clients : c # who'
  OBVIOUS
<1>3. Answer(d)' = r
  BY <1>2 DEF Answer
<1>4. \A c \in Clients \ {d} : Answer(c)' = Answer(c)
  BY <1>2 DEF Answer
<1>5. SameWishes
  BY <1>2 DEF SameWishes, Wish
<1> QED
  BY <1>1, <1>3, <1>4, <1>5 DEF AnswerBecomes

\* The main loop begins where Supervision begins.
LEMMA InitRefines == Init => Abstract!Init
<1> SUFFICES ASSUME Init PROVE Abstract!Init
  OBVIOUS
<1>1. Owed = TRUE /\ Phase = "serving"
  BY DEF Init, Owed, Phase
<1>2. \A c \in Clients : Wish(c) = "none" /\ Answer(c) = "idle"
  BY DEF Init, Wish, Answer
<1> QED
  BY <1>1, <1>2 DEF Init, Abstract!Init

\* Every step of the main loop is a step of Supervision or a stutter.
LEMMA StepRefines == IInv /\ [Next]_vars => Step
<1> SUFFICES ASSUME IInv, [Next]_vars PROVE Step
  OBVIOUS
<1>0. /\ HandlerType /\ LoopKnows /\ RestartGuard /\ RequestInHand /\ LoopServes
      /\ who \in Clients \cup Internal /\ started \in Nat
  BY Basics DEF IInv, TypeOK, LoopType, ChildType
<1> USE <1>0, Basics DEF loopVars, childVars, restartVars, handlerVars, flagVars, exitVars, history,
        HandlerType, LoopKnows, RestartGuard, RequestInHand, LoopServes
<1>1. ASSUME NEW p \in Children, ChildExit(p) PROVE Step
  <2>1. SameWishes /\ SameAnswers
    BY <1>1 DEF ChildExit, SameWishes, SameAnswers, Wish, Answer
  <2>2. SameNode
    BY <1>1 DEF ChildExit, Owed, Phase, SameNode
  <2> QED
    BY <2>1, <2>2, ShowsStutter
<1>2. ASSUME Signal PROVE Step
  <2>1. SameWishes /\ SameAnswers
    BY <1>2 DEF Signal, Listening, SameWishes, SameAnswers, Wish, Answer
  <2>2. SameNode
    BY <1>2 DEF Signal, Listening, Owed, Phase, SameNode
  <2> QED
    BY <2>1, <2>2, ShowsStutter
<1>3. ASSUME EarlySignal PROVE Step
  <2>1. SameWishes /\ SameAnswers
    BY <1>3 DEF EarlySignal, Exit, SameWishes, SameAnswers, Wish, Answer
  <2>2. Phase # "over" /\ Phase' = "over" /\ Owed' \in {FALSE, Owed}
    BY <1>3 DEF EarlySignal, Exit, Owed, Phase
  <2>3. started' = started /\ currentChild' \in {0, currentChild}
       /\ (Phase = "leaving" => currentChild' = 0)
    BY <1>3 DEF EarlySignal, Exit, Phase
  <2> QED
    BY <2>1, <2>2, <2>3, ShowsEnd
<1>4. ASSUME NEW c \in Clients, NEW k \in Kinds, HandlerBegin(c, k) PROVE Step
  <2> DEFINE w == IF k \in StopKinds THEN "stop" ELSE "start"
  <2>1. Answer(c) = "idle" /\ AnswerBecomes(c, "pending")
    BY <1>4 DEF HandlerBegin, AnswerBecomes, Answer
  <2>2. Wish(c)' = w /\ \A d \in Clients \ {c} : Wish(d)' = Wish(d)
    BY <1>4 DEF HandlerBegin, Wish, Kinds, StopKinds
  <2>3. Phase # "over" /\ SameNode
    BY <1>4 DEF HandlerBegin, Phase, Owed, SameNode
  <2>4. w \in {"stop", "start"}
    OBVIOUS
  <2> HIDE DEF w
  <2>5. Abstract!Ask(c, w)
    BY <2>1, <2>2, <2>3 DEF Abstract!Ask, AnswerBecomes, SameNode
  <2> QED
    BY <2>4, <2>5 DEF Step, Abstract!Next
<1>5. ASSUME NEW c \in Clients, HandlerReturn(c) PROVE Step
  <2>1. Answer(c) \in {"ok", "error"} /\ AnswerBecomes(c, "idle")
    BY <1>5 DEF HandlerReturn, AnswerBecomes, Answer
  <2>2. Wish(c)' = "none" /\ \A d \in Clients \ {c} : Wish(d)' = Wish(d)
    BY <1>5 DEF HandlerReturn, Wish
  <2>3. Phase # "over" /\ SameNode
    BY <1>5 DEF HandlerReturn, Phase, Owed, SameNode
  <2>4. Abstract!Return(c)
    BY <2>1, <2>2, <2>3 DEF Abstract!Return, AnswerBecomes, SameNode
  <2> QED
    BY <2>4 DEF Step, Abstract!Next
<1>6. ASSUME OnSignal PROVE Step
  <2>1. CASE currentChild = 0
    <3>1. SameWishes /\ SameAnswers
      BY <1>6, <2>1 DEF OnSignal, Exit, SameWishes, SameAnswers, Wish, Answer
    <3>2. Phase # "over" /\ Phase' = "over" /\ Owed' \in {FALSE, Owed}
      BY <1>6, <2>1 DEF OnSignal, Exit, Owed, Phase
    <3>3. started' = started /\ currentChild' \in {0, currentChild}
         /\ (Phase = "leaving" => currentChild' = 0)
      BY <1>6, <2>1 DEF OnSignal, Exit, Phase
    <3> QED
      BY <3>1, <3>2, <3>3, ShowsEnd
  <2>2. CASE currentChild # 0
    <3>1. SameWishes /\ SameAnswers
      BY <1>6, <2>2 DEF OnSignal, SameWishes, SameAnswers, AnswerBecomes, Wish, Answer, Kinds, StopKinds
    <3>2. Phase = "serving" /\ Phase' = "leaving" /\ Owed' = Owed
          /\ started' = started /\ currentChild' = currentChild
      BY <1>6, <2>2 DEF OnSignal, Owed, Phase, SameNode
    <3> QED
      BY <1>6, <2>2, <3>1, <3>2, ShowsLeave
  <2> QED
    BY <1>6, <2>1, <2>2 DEF OnSignal
<1>7. ASSUME OnChildDone PROVE Step
  <2>1. SameWishes /\ SameAnswers
    BY <1>7 DEF OnChildDone, Exit, SameWishes, SameAnswers, Wish, Answer
  <2>2. Phase = "serving" /\ ~Owed /\ currentChild # 0 /\ currentChild' = 0 /\ started' = started
    BY <1>7 DEF OnChildDone, ClearChild, Phase, Owed
  <2>3. CASE restartPending'
    <3>1. Owed' = TRUE /\ Phase' = Phase
      BY <1>7, <2>3 DEF OnChildDone, Exit, Owed, Phase
    <3> QED
      BY <2>1, <2>2, <3>1 DEF Step, Abstract!Next, Abstract!Crash, SameWishes, SameAnswers
  <2>4. CASE ~restartPending'
    <3>1. Owed' = FALSE /\ Phase' = "over"
      BY <1>7, <2>4 DEF OnChildDone, Exit, Owed, Phase
    <3> QED
      BY <2>1, <2>2, <3>1, ShowsEnd
  <2> QED
    BY <2>3, <2>4
<1>8. ASSUME OnRestartAt PROVE Step
  <2>1. SameWishes /\ SameAnswers
    BY <1>8 DEF OnRestartAt, SameWishes, SameAnswers, Wish, Answer
  <2>2. SameNode
    BY <1>8 DEF OnRestartAt, Owed, Phase, SameNode
  <2> QED
    BY <2>1, <2>2, ShowsStutter
<1>9. ASSUME OnExitRequested PROVE Step
  <2>1. SameWishes /\ SameAnswers
    BY <1>9 DEF OnExitRequested, SameWishes, SameAnswers, Wish, Answer
  <2>2. Phase # "over" /\ Phase' = "over" /\ Owed' \in {FALSE, Owed}
    BY <1>9 DEF OnExitRequested, Owed, Phase
  <2>3. started' = started /\ currentChild' \in {0, currentChild}
       /\ (Phase = "leaving" => currentChild' = 0)
    BY <1>9 DEF OnExitRequested, Phase
  <2> QED
    BY <2>1, <2>2, <2>3, ShowsEnd
<1>10. ASSUME NEW c \in Clients, OnRequest(c) PROVE Step
  <2>1. CASE Refused(hkind[c])
    <3>1. Answer(c) = "pending" /\ AnswerBecomes(c, "error") /\ SameWishes
      BY <1>10, <2>1 DEF OnRequest, SameWishes, AnswerBecomes, Wish, Answer
    <3>2. Phase = "serving" /\ SameNode
      BY <1>10, <2>1 DEF OnRequest, Phase, Owed, SameNode
    <3> QED
      BY <3>1, <3>2, ShowsRefuse
  <2>2. CASE ~Refused(hkind[c])
    <3>1. SameWishes /\ SameAnswers
      BY <1>10, <2>2 DEF OnRequest, SameWishes, SameAnswers, Wish, Answer
    <3>2. SameNode
      BY <1>10, <2>2 DEF OnRequest, Phase, Owed, SameNode
    <3> QED
      BY <3>1, <3>2, ShowsStutter
  <2> QED
    BY <2>1, <2>2
<1>11. ASSUME StartOK PROVE Step
  <2>1. CASE who = "boot"
    <3>1. SameWishes /\ SameAnswers
      BY <1>11, <2>1 DEF StartOK, Launch, BackToSelect, SameWishes, SameAnswers, AnswerBecomes, Wish, Answer, Kinds, StopKinds
    <3>2. Phase = "serving" /\ Phase' = Phase /\ Owed /\ Owed' = FALSE
          /\ started' = started + 1 /\ currentChild = 0 /\ currentChild' = started + 1
      BY <1>11, <2>1 DEF StartOK, Launch, BackToSelect, Owed, Phase, SameNode
    <3> QED
      BY <1>11, <2>1, <3>1, <3>2, ShowsOwedStart
  <2>2. CASE who = "restart"
    <3>1. SameWishes /\ SameAnswers
      BY <1>11, <2>2 DEF StartOK, Launch, BackToSelect, SameWishes, SameAnswers, AnswerBecomes, Wish, Answer, Kinds, StopKinds
    <3>2. Phase = "serving" /\ Phase' = Phase /\ Owed /\ Owed' = FALSE
          /\ started' = started + 1 /\ currentChild = 0 /\ currentChild' = started + 1
      BY <1>11, <2>2 DEF StartOK, Launch, BackToSelect, Owed, Phase, SameNode
    <3> QED
      BY <1>11, <2>2, <3>1, <3>2, ShowsOwedStart
  <2>3. ASSUME NEW d \in Clients, who = d PROVE Step
    <3>0. Reply("ok")
      BY <1>11, <2>3 DEF StartOK, Launch
    <3>1. Answer(d) = "pending" /\ AnswerBecomes(d, "ok") /\ Wish(d) = "start"
          /\ SameWishes
      BY <1>11, <2>3, <3>0, ReplyAnswers DEF StartOK, Wish, StopKinds
    <3>2. Phase = "serving" /\ Phase' = Phase /\ ~Owed /\ Owed' = Owed
          /\ started' = started + 1 /\ currentChild = 0 /\ currentChild' = started + 1
      BY <1>11, <2>3 DEF StartOK, Launch, Reply, BackToSelect, Owed, Phase, SameNode
    <3> QED
      BY <1>11, <2>3, <3>1, <3>2, ShowsStart
  <2> QED
    BY <1>11, <2>1, <2>2, <2>3 DEF StartOK, LoopServes
<1>12. ASSUME StartFailed PROVE Step
  <2>1. CASE who = "boot"
    <3>1. SameWishes /\ SameAnswers
      BY <1>12, <2>1 DEF StartFailed, SameWishes, SameAnswers, Wish, Answer
    <3>2. Phase = "serving" /\ Phase' = Phase /\ Owed /\ Owed' = FALSE
          /\ started = 0 /\ UNCHANGED <<currentChild, started>>
      BY <1>12, <2>1 DEF StartFailed, Owed, Phase
    <3> QED
      BY <3>1, <3>2 DEF Step, Abstract!Next, Abstract!Forgo, SameWishes, SameAnswers
  <2>2. CASE who = "restart"
    <3>1. SameWishes /\ SameAnswers
      BY <1>12, <2>2 DEF StartFailed, Exit, SameWishes, SameAnswers, Wish, Answer
    <3>2. Phase # "over" /\ Phase' = "over" /\ Owed' \in {FALSE, Owed}
      BY <1>12, <2>2 DEF StartFailed, Exit, Owed, Phase
    <3>3. started' = started /\ currentChild' \in {0, currentChild}
         /\ (Phase = "leaving" => currentChild' = 0)
      BY <1>12, <2>2 DEF StartFailed, Exit, Phase
    <3> QED
      BY <3>1, <3>2, <3>3, ShowsEnd
  <2>3. ASSUME NEW d \in Clients, who = d PROVE Step
    <3>0. Reply("error")
      BY <1>12, <2>3 DEF StartFailed
    <3>1. Answer(d) = "pending" /\ AnswerBecomes(d, "error") /\ SameWishes
      BY <1>12, <2>3, <3>0, ReplyAnswers DEF StartFailed, Wish, StopKinds
    <3>2. Phase = "serving" /\ SameNode
      BY <1>12, <2>3 DEF StartFailed, Reply, BackToSelect, Owed, Phase, SameNode
    <3> QED
      BY <1>12, <2>3, <3>1, <3>2, ShowsRefuse
  <2> QED
    BY <1>12, <2>1, <2>2, <2>3 DEF StartFailed, LoopServes
<1>13. ASSUME StartFatal PROVE Step
  <2>1. SameWishes /\ SameAnswers
    BY <1>13 DEF StartFatal, Exit, SameWishes, SameAnswers, Wish, Answer
  <2>2. Phase # "over" /\ Phase' = "over" /\ Owed' \in {FALSE, Owed}
    BY <1>13 DEF StartFatal, Exit, Owed, Phase
  <2>3. started' = started /\ currentChild' \in {0, currentChild}
       /\ (Phase = "leaving" => currentChild' = 0)
    BY <1>13 DEF StartFatal, Exit, Phase
  <2> QED
    BY <2>1, <2>2, <2>3, ShowsEnd
<1>14. ASSUME Ensured PROVE Step
  <2>1. SameWishes /\ SameAnswers
    BY <1>14 DEF Ensured, BackToSelect, SameWishes, SameAnswers, Wish, Answer
  <2>2. SameNode
    BY <1>14 DEF Ensured, BackToSelect, Owed, Phase, SameNode
  <2> QED
    BY <2>1, <2>2, ShowsStutter
<1>15. ASSUME RejoinOK PROVE Step
  <2>1. ASSUME NEW d \in Clients, who = d PROVE Step
    <3>0. Reply("ok")
      BY <1>15, <2>1 DEF RejoinOK, Launch
    <3>1. Answer(d) = "pending" /\ AnswerBecomes(d, "ok") /\ Wish(d) = "start"
          /\ SameWishes
      BY <1>15, <2>1, <3>0, ReplyAnswers DEF RejoinOK, Wish, StopKinds
    <3>2. Phase = "serving" /\ Phase' = Phase /\ ~Owed /\ Owed' = Owed
          /\ started' = started + 1 /\ currentChild = 0 /\ currentChild' = started + 1
      BY <1>15, <2>1 DEF RejoinOK, Launch, Reply, BackToSelect, Owed, Phase, SameNode
    <3> QED
      BY <1>15, <2>1, <3>1, <3>2, ShowsStart
  <2> QED
    BY <1>15, <2>1 DEF RequestInHand, RejoinOK
<1>16. ASSUME RejoinFailed PROVE Step
  <2>1. ASSUME NEW d \in Clients, who = d PROVE Step
    <3>0. Reply("error")
      BY <1>16, <2>1 DEF RejoinFailed
    <3>1. Answer(d) = "pending" /\ AnswerBecomes(d, "error") /\ SameWishes
      BY <1>16, <2>1, <3>0, ReplyAnswers DEF RejoinFailed, Wish, StopKinds
    <3>2. Phase = "serving" /\ SameNode
      BY <1>16, <2>1 DEF RejoinFailed, Reply, BackToSelect, Owed, Phase, SameNode
    <3> QED
      BY <1>16, <2>1, <3>1, <3>2, ShowsRefuse
  <2> QED
    BY <1>16, <2>1 DEF RequestInHand, RejoinFailed
<1>17. ASSUME CheckProceed PROVE Step
  <2>1. SameWishes /\ SameAnswers
    BY <1>17 DEF CheckProceed, SameWishes, SameAnswers, Wish, Answer
  <2>2. SameNode
    BY <1>17 DEF CheckProceed, Owed, Phase, SameNode
  <2> QED
    BY <2>1, <2>2, ShowsStutter
<1>18. ASSUME CheckRefuse PROVE Step
  <2>1. ASSUME NEW d \in Clients, who = d PROVE Step
    <3>0. Reply("error")
      BY <1>18, <2>1 DEF CheckRefuse, HandoverError, HandoverOK, ClearChild, Exit
    <3>1. Answer(d) = "pending" /\ AnswerBecomes(d, "error") /\ SameWishes
      BY <1>18, <2>1, <3>0, ReplyAnswers DEF CheckRefuse, Wish, StopKinds
    <3>2. Phase = "serving" /\ SameNode
      BY <1>18, <2>1 DEF CheckRefuse, HandoverError, HandoverOK, ClearChild, Exit, Reply, BackToSelect, Owed, Phase, SameNode
    <3> QED
      BY <1>18, <2>1, <3>1, <3>2, ShowsRefuse
  <2>2. CASE who = "signal" /\ mpc' # "exited"
    <3>1. SameWishes /\ SameAnswers
      BY <1>18, <2>2 DEF CheckRefuse, HandoverError, HandoverOK, ClearChild, Exit, Reply, BackToSelect, SameWishes, SameAnswers, Wish, Answer
    <3>2. SameNode
      BY <1>18, <2>2 DEF CheckRefuse, HandoverError, HandoverOK, ClearChild, Exit, Reply, BackToSelect, Owed, Phase, SameNode
    <3> QED
      BY <3>1, <3>2, ShowsStutter
  <2>3. CASE who = "signal" /\ mpc' = "exited"
    <3>1. SameWishes /\ SameAnswers
      BY <1>18, <2>3 DEF CheckRefuse, HandoverError, HandoverOK, ClearChild, Exit, Reply, BackToSelect, SameWishes, SameAnswers, Wish, Answer
    <3>2. Phase # "over" /\ Phase' = "over" /\ Owed' \in {FALSE, Owed}
      BY <1>18, <2>3 DEF CheckRefuse, HandoverError, HandoverOK, ClearChild, Exit, Reply, BackToSelect, Owed, Phase
    <3>3. started' = started /\ currentChild' \in {0, currentChild}
         /\ (Phase = "leaving" => currentChild' = 0)
      BY <1>18, <2>3 DEF CheckRefuse, HandoverError, HandoverOK, ClearChild, Exit, Reply, BackToSelect, Phase
    <3> QED
      BY <3>1, <3>2, <3>3, ShowsEnd
  <2> QED
    BY <1>18, <2>1, <2>2, <2>3 DEF RequestInHand, CheckRefuse
<1>19. ASSUME StopExited PROVE Step
  <2>1. ASSUME NEW d \in Clients, who = d, handoff PROVE Step
    <3>1. Answer(d) = "pending" /\ AnswerBecomes(d, "stopped") /\ Wish(d) = "stop"
          /\ SameWishes
      BY <1>19, <2>1 DEF StopExited, Stopped, HandoverOK, ClearChild, Exit, Reply, BackToSelect, SameWishes, SameAnswers, AnswerBecomes, Wish, Answer, Kinds, StopKinds
    <3>2. Phase = "serving" /\ Phase' = Phase /\ Owed' = Owed /\ started' = started
          /\ currentChild # 0 /\ currentChild' = 0
      BY <1>19, <2>1 DEF StopExited, Stopped, HandoverOK, ClearChild, Exit, Reply, BackToSelect, Owed, Phase, SameNode
    <3> QED
      BY <1>19, <2>1, <3>1, <3>2, ShowsStop
  <2>2. ASSUME NEW d \in Clients, who = d, ~handoff PROVE Step
    <3>0. Reply("ok")
      BY <1>19, <2>2 DEF StopExited, Stopped, HandoverOK, ClearChild, Exit
    <3>1. Answer(d) = "pending" /\ AnswerBecomes(d, "ok") /\ Wish(d) = "stop"
          /\ SameWishes
      BY <1>19, <2>2, <3>0, ReplyAnswers DEF StopExited, Wish, StopKinds
    <3>2. Phase = "serving" /\ Phase' = Phase /\ Owed' = Owed /\ started' = started
          /\ currentChild # 0 /\ currentChild' = 0
      BY <1>19, <2>2 DEF StopExited, Stopped, HandoverOK, ClearChild, Exit, Reply, BackToSelect, Owed, Phase, SameNode
    <3> QED
      BY <1>19, <2>2, <3>1, <3>2, ShowsStop
  <2>3. CASE who = "signal" /\ handoff
    <3>1. SameWishes /\ SameAnswers
      BY <1>19, <2>3 DEF StopExited, Stopped, HandoverOK, ClearChild, Exit, Reply, BackToSelect, SameWishes, SameAnswers, Wish, Answer
    <3>2. Phase = "leaving" /\ Phase' = Phase /\ Owed' = Owed /\ started' = started
          /\ currentChild' = 0
      BY <1>19, <2>3 DEF StopExited, Stopped, HandoverOK, ClearChild, Exit, Reply, BackToSelect, Owed, Phase
    <3> QED
      BY <3>1, <3>2 DEF Step, Abstract!Next, Abstract!Withdraw, Abstract!vars, SameWishes, SameAnswers
  <2>4. CASE who = "signal" /\ ~handoff
    <3>1. SameWishes /\ SameAnswers
      BY <1>19, <2>4 DEF StopExited, Stopped, HandoverOK, ClearChild, Exit, Reply, BackToSelect, SameWishes, SameAnswers, Wish, Answer
    <3>2. Phase # "over" /\ Phase' = "over" /\ Owed' \in {FALSE, Owed}
      BY <1>19, <2>4 DEF StopExited, Stopped, HandoverOK, ClearChild, Exit, Reply, BackToSelect, Owed, Phase
    <3>3. started' = started /\ currentChild' \in {0, currentChild}
         /\ (Phase = "leaving" => currentChild' = 0)
      BY <1>19, <2>4 DEF StopExited, Stopped, HandoverOK, ClearChild, Exit, Reply, BackToSelect, Phase
    <3> QED
      BY <3>1, <3>2, <3>3, ShowsEnd
  <2> QED
    BY <1>19, <2>1, <2>2, <2>3, <2>4 DEF RequestInHand, StopExited
<1>20. ASSUME StopTimeout PROVE Step
  <2>1. SameWishes /\ SameAnswers
    BY <1>20 DEF StopTimeout, SameWishes, SameAnswers, Wish, Answer
  <2>2. SameNode
    BY <1>20 DEF StopTimeout, Owed, Phase, SameNode
  <2> QED
    BY <2>1, <2>2, ShowsStutter
<1>21. ASSUME StopKillError PROVE Step
  <2>1. ASSUME NEW d \in Clients, who = d PROVE Step
    <3>0. Reply("error")
      BY <1>21, <2>1 DEF StopKillError, HandoverError, HandoverOK, ClearChild, Exit
    <3>1. Answer(d) = "pending" /\ AnswerBecomes(d, "error") /\ SameWishes
      BY <1>21, <2>1, <3>0, ReplyAnswers DEF StopKillError, Wish, StopKinds
    <3>2. Phase = "serving" /\ SameNode
      BY <1>21, <2>1 DEF StopKillError, HandoverError, HandoverOK, ClearChild, Exit, Reply, BackToSelect, Owed, Phase, SameNode
    <3> QED
      BY <1>21, <2>1, <3>1, <3>2, ShowsRefuse
  <2>2. CASE who = "signal" /\ mpc' # "exited"
    <3>1. SameWishes /\ SameAnswers
      BY <1>21, <2>2 DEF StopKillError, HandoverError, HandoverOK, ClearChild, Exit, Reply, BackToSelect, SameWishes, SameAnswers, Wish, Answer
    <3>2. SameNode
      BY <1>21, <2>2 DEF StopKillError, HandoverError, HandoverOK, ClearChild, Exit, Reply, BackToSelect, Owed, Phase, SameNode
    <3> QED
      BY <3>1, <3>2, ShowsStutter
  <2>3. CASE who = "signal" /\ mpc' = "exited"
    <3>1. SameWishes /\ SameAnswers
      BY <1>21, <2>3 DEF StopKillError, HandoverError, HandoverOK, ClearChild, Exit, Reply, BackToSelect, SameWishes, SameAnswers, Wish, Answer
    <3>2. Phase # "over" /\ Phase' = "over" /\ Owed' \in {FALSE, Owed}
      BY <1>21, <2>3 DEF StopKillError, HandoverError, HandoverOK, ClearChild, Exit, Reply, BackToSelect, Owed, Phase
    <3>3. started' = started /\ currentChild' \in {0, currentChild}
         /\ (Phase = "leaving" => currentChild' = 0)
      BY <1>21, <2>3 DEF StopKillError, HandoverError, HandoverOK, ClearChild, Exit, Reply, BackToSelect, Phase
    <3> QED
      BY <3>1, <3>2, <3>3, ShowsEnd
  <2> QED
    BY <1>21, <2>1, <2>2, <2>3 DEF RequestInHand, StopKillError
<1>22. ASSUME KillConfirmed PROVE Step
  <2>1. ASSUME NEW d \in Clients, who = d, handoff PROVE Step
    <3>1. Answer(d) = "pending" /\ AnswerBecomes(d, "stopped") /\ Wish(d) = "stop"
          /\ SameWishes
      BY <1>22, <2>1 DEF KillConfirmed, Stopped, HandoverOK, ClearChild, Exit, Reply, BackToSelect, SameWishes, SameAnswers, AnswerBecomes, Wish, Answer, Kinds, StopKinds
    <3>2. Phase = "serving" /\ Phase' = Phase /\ Owed' = Owed /\ started' = started
          /\ currentChild # 0 /\ currentChild' = 0
      BY <1>22, <2>1 DEF KillConfirmed, Stopped, HandoverOK, ClearChild, Exit, Reply, BackToSelect, Owed, Phase, SameNode
    <3> QED
      BY <1>22, <2>1, <3>1, <3>2, ShowsStop
  <2>2. ASSUME NEW d \in Clients, who = d, ~handoff PROVE Step
    <3>0. Reply("ok")
      BY <1>22, <2>2 DEF KillConfirmed, Stopped, HandoverOK, ClearChild, Exit
    <3>1. Answer(d) = "pending" /\ AnswerBecomes(d, "ok") /\ Wish(d) = "stop"
          /\ SameWishes
      BY <1>22, <2>2, <3>0, ReplyAnswers DEF KillConfirmed, Wish, StopKinds
    <3>2. Phase = "serving" /\ Phase' = Phase /\ Owed' = Owed /\ started' = started
          /\ currentChild # 0 /\ currentChild' = 0
      BY <1>22, <2>2 DEF KillConfirmed, Stopped, HandoverOK, ClearChild, Exit, Reply, BackToSelect, Owed, Phase, SameNode
    <3> QED
      BY <1>22, <2>2, <3>1, <3>2, ShowsStop
  <2>3. CASE who = "signal" /\ handoff
    <3>1. SameWishes /\ SameAnswers
      BY <1>22, <2>3 DEF KillConfirmed, Stopped, HandoverOK, ClearChild, Exit, Reply, BackToSelect, SameWishes, SameAnswers, Wish, Answer
    <3>2. Phase = "leaving" /\ Phase' = Phase /\ Owed' = Owed /\ started' = started
          /\ currentChild' = 0
      BY <1>22, <2>3 DEF KillConfirmed, Stopped, HandoverOK, ClearChild, Exit, Reply, BackToSelect, Owed, Phase
    <3> QED
      BY <3>1, <3>2 DEF Step, Abstract!Next, Abstract!Withdraw, Abstract!vars, SameWishes, SameAnswers
  <2>4. CASE who = "signal" /\ ~handoff
    <3>1. SameWishes /\ SameAnswers
      BY <1>22, <2>4 DEF KillConfirmed, Stopped, HandoverOK, ClearChild, Exit, Reply, BackToSelect, SameWishes, SameAnswers, Wish, Answer
    <3>2. Phase # "over" /\ Phase' = "over" /\ Owed' \in {FALSE, Owed}
      BY <1>22, <2>4 DEF KillConfirmed, Stopped, HandoverOK, ClearChild, Exit, Reply, BackToSelect, Owed, Phase
    <3>3. started' = started /\ currentChild' \in {0, currentChild}
         /\ (Phase = "leaving" => currentChild' = 0)
      BY <1>22, <2>4 DEF KillConfirmed, Stopped, HandoverOK, ClearChild, Exit, Reply, BackToSelect, Phase
    <3> QED
      BY <3>1, <3>2, <3>3, ShowsEnd
  <2> QED
    BY <1>22, <2>1, <2>2, <2>3, <2>4 DEF RequestInHand, KillConfirmed
<1>23. ASSUME KillUnconfirmed PROVE Step
  <2>1. ASSUME NEW d \in Clients, who = d, handoff PROVE Step
    <3>1. Answer(d) = "pending" /\ AnswerBecomes(d, "stopped") /\ Wish(d) = "stop"
          /\ SameWishes
      BY <1>23, <2>1 DEF KillUnconfirmed, Stopped, HandoverOK, ClearChild, Exit, Reply, BackToSelect, SameWishes, SameAnswers, AnswerBecomes, Wish, Answer, Kinds, StopKinds
    <3>2. Phase = "serving" /\ Phase' = Phase /\ Owed' = Owed /\ started' = started
          /\ currentChild # 0 /\ currentChild' = 0
      BY <1>23, <2>1 DEF KillUnconfirmed, Stopped, HandoverOK, ClearChild, Exit, Reply, BackToSelect, Owed, Phase, SameNode
    <3> QED
      BY <1>23, <2>1, <3>1, <3>2, ShowsStop
  <2>2. ASSUME NEW d \in Clients, who = d, ~handoff PROVE Step
    <3>0. Reply("ok")
      BY <1>23, <2>2 DEF KillUnconfirmed, Stopped, HandoverOK, ClearChild, Exit
    <3>1. Answer(d) = "pending" /\ AnswerBecomes(d, "ok") /\ Wish(d) = "stop"
          /\ SameWishes
      BY <1>23, <2>2, <3>0, ReplyAnswers DEF KillUnconfirmed, Wish, StopKinds
    <3>2. Phase = "serving" /\ Phase' = Phase /\ Owed' = Owed /\ started' = started
          /\ currentChild # 0 /\ currentChild' = 0
      BY <1>23, <2>2 DEF KillUnconfirmed, Stopped, HandoverOK, ClearChild, Exit, Reply, BackToSelect, Owed, Phase, SameNode
    <3> QED
      BY <1>23, <2>2, <3>1, <3>2, ShowsStop
  <2>3. CASE who = "signal" /\ handoff
    <3>1. SameWishes /\ SameAnswers
      BY <1>23, <2>3 DEF KillUnconfirmed, Stopped, HandoverOK, ClearChild, Exit, Reply, BackToSelect, SameWishes, SameAnswers, Wish, Answer
    <3>2. Phase = "leaving" /\ Phase' = Phase /\ Owed' = Owed /\ started' = started
          /\ currentChild' = 0
      BY <1>23, <2>3 DEF KillUnconfirmed, Stopped, HandoverOK, ClearChild, Exit, Reply, BackToSelect, Owed, Phase
    <3> QED
      BY <3>1, <3>2 DEF Step, Abstract!Next, Abstract!Withdraw, Abstract!vars, SameWishes, SameAnswers
  <2>4. CASE who = "signal" /\ ~handoff
    <3>1. SameWishes /\ SameAnswers
      BY <1>23, <2>4 DEF KillUnconfirmed, Stopped, HandoverOK, ClearChild, Exit, Reply, BackToSelect, SameWishes, SameAnswers, Wish, Answer
    <3>2. Phase # "over" /\ Phase' = "over" /\ Owed' \in {FALSE, Owed}
      BY <1>23, <2>4 DEF KillUnconfirmed, Stopped, HandoverOK, ClearChild, Exit, Reply, BackToSelect, Owed, Phase
    <3>3. started' = started /\ currentChild' \in {0, currentChild}
         /\ (Phase = "leaving" => currentChild' = 0)
      BY <1>23, <2>4 DEF KillUnconfirmed, Stopped, HandoverOK, ClearChild, Exit, Reply, BackToSelect, Phase
    <3> QED
      BY <3>1, <3>2, <3>3, ShowsEnd
  <2> QED
    BY <1>23, <2>1, <2>2, <2>3, <2>4 DEF RequestInHand, KillUnconfirmed
<1>24. ASSUME PromoteOK PROVE Step
  <2>1. ASSUME NEW d \in Clients, who = d PROVE Step
    <3>0. Reply("ok")
      BY <1>24, <2>1 DEF PromoteOK, HandoverOK, ClearChild, Exit
    <3>1. Answer(d) = "stopped" /\ AnswerBecomes(d, "ok") /\ SameWishes
      BY <1>24, <2>1, <3>0, ReplyAnswers DEF PromoteOK, Wish, StopKinds
    <3>2. Phase = "serving" /\ currentChild = 0 /\ SameNode
      BY <1>24, <2>1 DEF PromoteOK, HandoverOK, ClearChild, Exit, Reply, BackToSelect, Owed, Phase, SameNode
    <3> QED
      BY <1>24, <2>1, <3>1, <3>2, ShowsConclude
  <2>2. CASE who = "signal"
    <3>1. SameWishes /\ SameAnswers
      BY <1>24, <2>2 DEF PromoteOK, HandoverOK, ClearChild, Exit, Reply, BackToSelect, SameWishes, SameAnswers, Wish, Answer
    <3>2. Phase # "over" /\ Phase' = "over" /\ Owed' \in {FALSE, Owed}
      BY <1>24, <2>2 DEF PromoteOK, HandoverOK, ClearChild, Exit, Reply, BackToSelect, Owed, Phase
    <3>3. started' = started /\ currentChild' \in {0, currentChild}
         /\ (Phase = "leaving" => currentChild' = 0)
      BY <1>24, <2>2 DEF PromoteOK, HandoverOK, ClearChild, Exit, Reply, BackToSelect, Phase
    <3> QED
      BY <3>1, <3>2, <3>3, ShowsEnd
  <2> QED
    BY <1>24, <2>1, <2>2 DEF RequestInHand, PromoteOK
<1>25. ASSUME PromoteFailed PROVE Step
  <2>1. ASSUME NEW d \in Clients, who = d PROVE Step
    <3>0. Reply("error")
      BY <1>25, <2>1 DEF PromoteFailed, HandoverError, HandoverOK, ClearChild, Exit
    <3>1. Answer(d) = "stopped" /\ AnswerBecomes(d, "error") /\ SameWishes
      BY <1>25, <2>1, <3>0, ReplyAnswers DEF PromoteFailed, Wish, StopKinds
    <3>2. Phase = "serving" /\ currentChild = 0 /\ SameNode
      BY <1>25, <2>1 DEF PromoteFailed, HandoverError, HandoverOK, ClearChild, Exit, Reply, BackToSelect, Owed, Phase, SameNode
    <3> QED
      BY <1>25, <2>1, <3>1, <3>2, ShowsConclude
  <2>2. CASE who = "signal" /\ mpc' # "exited"
    <3>1. SameWishes /\ SameAnswers
      BY <1>25, <2>2 DEF PromoteFailed, HandoverError, HandoverOK, ClearChild, Exit, Reply, BackToSelect, SameWishes, SameAnswers, Wish, Answer
    <3>2. SameNode
      BY <1>25, <2>2 DEF PromoteFailed, HandoverError, HandoverOK, ClearChild, Exit, Reply, BackToSelect, Owed, Phase, SameNode
    <3> QED
      BY <3>1, <3>2, ShowsStutter
  <2>3. CASE who = "signal" /\ mpc' = "exited"
    <3>1. SameWishes /\ SameAnswers
      BY <1>25, <2>3 DEF PromoteFailed, HandoverError, HandoverOK, ClearChild, Exit, Reply, BackToSelect, SameWishes, SameAnswers, Wish, Answer
    <3>2. Phase # "over" /\ Phase' = "over" /\ Owed' \in {FALSE, Owed}
      BY <1>25, <2>3 DEF PromoteFailed, HandoverError, HandoverOK, ClearChild, Exit, Reply, BackToSelect, Owed, Phase
    <3>3. started' = started /\ currentChild' \in {0, currentChild}
         /\ (Phase = "leaving" => currentChild' = 0)
      BY <1>25, <2>3 DEF PromoteFailed, HandoverError, HandoverOK, ClearChild, Exit, Reply, BackToSelect, Phase
    <3> QED
      BY <3>1, <3>2, <3>3, ShowsEnd
  <2> QED
    BY <1>25, <2>1, <2>2, <2>3 DEF RequestInHand, PromoteFailed
<1>26. ASSUME Terminated PROVE Step
  <2>1. SameWishes /\ SameAnswers
    BY <1>26 DEF Terminated, vars, SameWishes, SameAnswers, Wish, Answer
  <2>2. SameNode
    BY <1>26 DEF Terminated, vars, Owed, Phase, SameNode
  <2> QED
    BY <2>1, <2>2, ShowsStutter
<1>27. CASE UNCHANGED vars
  <2>1. SameWishes /\ SameAnswers
    BY <1>27 DEF vars, SameWishes, SameAnswers, Wish, Answer
  <2>2. SameNode
    BY <1>27 DEF vars, Owed, Phase, SameNode
  <2> QED
    BY <2>1, <2>2, ShowsStutter
<1> QED
  BY <1>1, <1>2, <1>3, <1>4, <1>5, <1>6, <1>7, <1>8, <1>9, <1>10, <1>11, <1>12, <1>13, <1>14,
     <1>15, <1>16, <1>17, <1>18, <1>19, <1>20, <1>21, <1>22, <1>23, <1>24, <1>25, <1>26, <1>27
     DEF Next, Select, Work

\* main.go's select loop with handover.go and the API handlers: what they do to
\* postgres and to requests is what the atomic steps of Supervision do.
THEOREM MainLoopImplementsSupervision == Spec => ImplementsSupervision
<1>1. Init => Abstract!Init
  BY InitRefines
<1>2. IInv /\ [Next]_vars => [Abstract!Next]_(Abstract!vars)
  BY StepRefines DEF Step
<1> QED
  BY MainLoopInvariant, <1>1, <1>2, PTL DEF Spec, ImplementsSupervision, Abstract!Spec
=============================================================================

------------------------------ MODULE MainLoop ------------------------------
(***************************************************************************)
(* One pg-guard process: the select loop of runInteractive (main.go) or,   *)
(* as a Windows service, its twin Execute (service_windows.go), the        *)
(* handover code it calls (handover.go), and the API handlers that run     *)
(* concurrently with it (api.go) and talk to it over handoverRequests and  *)
(* exitRequested (state.go).                                               *)
(*                                                                         *)
(* Postgres instances are numbered in the order they are started. What the *)
(* peer, the database or an external tool answers is a free choice, and so *)
(* is every duration: a timer may fire whenever the code waits for it. The *)
(* crash-restart budget is module RestartBudget; its verdict is free here. *)
(***************************************************************************)
EXTENDS Integers

CONSTANTS
  Clients,     \* API requests that can be in flight at the same time
  Configs,     \* configurations: [mode, policy, restart, service]
  MaxStarts    \* bound: postgres instances started in a behaviour

Modes    == {"switchover", "reboot"}                        \* PG_GUARD_SHUTDOWN_MODE
Policies == {"require-switchover", "best-effort", "force"}  \* PG_GUARD_SHUTDOWN_POLICY

Internal == {"boot", "loop", "signal", "restart"}   \* whom the loop works for, if not a client

ASSUME MainLoopAssumption ==
  /\ Configs \subseteq [mode : Modes, policy : Policies, restart : BOOLEAN, service : BOOLEAN]
  /\ MaxStarts \in Nat
  /\ Clients \cap Internal = {}

VARIABLES
  cfg,                 \* the configuration, fixed at startup
  mpc,                 \* where the main goroutine is
  who,                 \* on whose behalf: a client or a member of Internal
  kind,                \* kind of the request being served
  cw,                  \* the childWatcher a handover works on
  handoff,             \* the peer is to be promoted after the local stop
  forced,              \* the SIGTERM path is in its forced second attempt
  currentChild,        \* the supervised instance, 0 for nil
  alive,               \* instances whose process is running
  started,             \* number of instances started so far
  postgresRunning, restartPending, restartAt,
  sigCh,               \* SIGTERM/SIGINT buffered for the select loop
  hpc, hkind, reply,   \* per client: handler's control, request, result channel
  shutdownInProgress, switchoverInProgress, maintenanceActive,
  exitReq,             \* content of exitRequested (capacity 1)
  exitCode,
  asked,               \* history: pg-guard asked the running instance to stop
  lateStart,           \* history: the running instance was started with an exit due
  unconfirmed,         \* history: instances that run on, their SIGKILL not confirmed in time
  crossed              \* history: postgres was started with a maintenance reply under way,
                       \* and the flag that this sets has not been cleared since

loopVars    == <<mpc, who, kind, cw, handoff, forced>>
childVars   == <<currentChild, alive, started, postgresRunning, asked, lateStart>>
restartVars == <<restartPending, restartAt>>
handlerVars == <<hpc, hkind, reply>>
flagVars    == <<shutdownInProgress, switchoverInProgress, maintenanceActive>>
exitVars    == <<exitReq, exitCode>>
history     == <<unconfirmed, crossed>>
vars == <<cfg, loopVars, childVars, restartVars, sigCh, handlerVars, flagVars, exitVars, history>>

Children == 1..MaxStarts
NoExit   == -1
SwitchoverRestart == 78        \* exitCodeSwitchoverRestart
Kinds    == {"shutdown", "reboot", "switchover", "maintenance", "start", "rejoin"}
StopKinds == {"shutdown", "reboot", "switchover", "maintenance"}
LoopStates == {"starting", "ensuring", "select", "rejoining", "check", "stop", "killing",
               "promote", "exited"}

\* Mutant of Exit: the code is reported the way a shell reports a signal.
MutExit(code) ==
  /\ mpc' = "exited"
  /\ exitCode' = 128 + code
  /\ UNCHANGED <<exitReq, kind, cw, handoff, forced>>

\* stopServers and os.Exit.
Exit(code) ==
  /\ mpc' = "exited"
  /\ exitCode' = code
  /\ UNCHANGED <<exitReq, kind, cw, handoff, forced>>

\* The main goroutine is back in select, with nothing in hand.
BackToSelect ==
  /\ mpc' = "select" /\ who' = "loop" /\ kind' = "none" /\ cw' = 0
  /\ handoff' = FALSE /\ forced' = FALSE
  /\ UNCHANGED exitVars

\* Mutant of Reply: a path that returns without a send on req.result.
MutReply(r) == BackToSelect /\ UNCHANGED handlerVars

\* req.result <- r, then back to the select loop.
Reply(r) ==
  /\ reply' = [reply EXCEPT ![who] = r]
  /\ BackToSelect
  /\ UNCHANGED <<hpc, hkind>>

\* currentChild.Store(nil); postgresRunning.Store(false)
ClearChild ==
  /\ currentChild' = 0
  /\ postgresRunning' = FALSE
  /\ asked' = FALSE /\ lateStart' = FALSE
  /\ UNCHANGED <<alive, started>>

\* A shutdown or switchover has succeeded whose exit has not happened yet.
ExitDue ==
  \/ exitReq # NoExit
  \/ \E c \in Clients : hkind[c] \in {"shutdown", "reboot", "switchover"} /\ reply[c] = "ok"

\* A maintenance has succeeded that its handler has not recorded yet.
MaintenanceDue == \E c \in Clients : hkind[c] = "maintenance" /\ reply[c] = "ok"

\* sup.start succeeds: a new instance runs and is watched.
Launch ==
  /\ started < MaxStarts
  /\ started' = started + 1
  /\ alive' = alive \cup {started + 1}
  /\ currentChild' = started + 1
  /\ postgresRunning' = TRUE
  /\ asked' = FALSE /\ lateStart' = ExitDue
  /\ crossed' = (crossed \/ MaintenanceDue)
  /\ UNCHANGED unconfirmed

-----------------------------------------------------------------------------
(* The environment. *)

\* A postgres process ends: it crashed, was killed, or obeyed a stop request.
ChildExit(p) ==
  /\ p \in alive
  /\ alive' = alive \ {p} /\ unconfirmed' = unconfirmed \ {p}
  /\ UNCHANGED <<cfg, loopVars, currentChild, started, postgresRunning, asked, lateStart, restartVars,
                 sigCh, handlerVars, flagVars, exitVars, crossed>>

\* signal.Notify has run, or the service has reported Running.
Listening == mpc # "exited" /\ who # "boot"

\* SIGTERM/SIGINT: buffered, duplicates dropped. To a service, a Stop, Shutdown or
\* PreShutdown control.
Signal ==
  /\ Listening
  /\ sigCh' = TRUE
  /\ UNCHANGED <<cfg, loopVars, childVars, restartVars, handlerVars, flagVars, exitVars, history>>

\* SIGTERM/SIGINT before signal.Notify: the Go runtime ends the process. The
\* service control manager sends nothing to a service that is still starting.
EarlySignal ==
  /\ who = "boot" /\ mpc # "exited" /\ ~cfg.service
  /\ Exit(2)
  /\ UNCHANGED <<cfg, who, childVars, restartVars, sigCh, handlerVars, flagVars, history>>

-----------------------------------------------------------------------------
(* API handlers. *)

\* A handler sets its in-progress flag and blocks in handoverRequests <- req.
\* Switchover first wants postgres running and primary.
HandlerBegin(c, k) ==
  /\ mpc # "exited" /\ hpc[c] = "idle"
  /\ k = "switchover" => postgresRunning
  /\ k = "shutdown" => cfg.mode = "switchover"
  /\ k = "reboot" => cfg.mode = "reboot"
  /\ hpc' = [hpc EXCEPT ![c] = "sending"]
  /\ hkind' = [hkind EXCEPT ![c] = k]
  /\ shutdownInProgress' = (shutdownInProgress \/ k \in {"shutdown", "reboot", "maintenance"})
  /\ switchoverInProgress' = (switchoverInProgress \/ k = "switchover")
  /\ UNCHANGED <<cfg, loopVars, childVars, restartVars, sigCh, reply, maintenanceActive, exitVars,
                 history>>

\* Mutant of Clears: the flag is reset on the path of success only.
MutClears(c, kinds) == hkind[c] \in kinds /\ reply[c] = "ok"

\* The deferred reset of the flag that requests of these kinds set.
Clears(c, kinds) == hkind[c] \in kinds

\* Mutant of MaintenanceAfter: a rejoin does not end maintenance.
MutMaintenanceAfter(c) ==
  \/ maintenanceActive /\ ~(reply[c] = "ok" /\ hkind[c] = "start")
  \/ reply[c] = "ok" /\ hkind[c] = "maintenance"

\* maintenanceActive as the handler c leaves it.
MaintenanceAfter(c) ==
  \/ maintenanceActive /\ ~(reply[c] = "ok" /\ hkind[c] \in {"start", "rejoin"})
  \/ reply[c] = "ok" /\ hkind[c] = "maintenance"

\* A handler receives its result, records what follows from it, responds, and
\* its deferred statements clear its in-progress flag.
HandlerReturn(c) ==
  /\ mpc # "exited" /\ hpc[c] = "waiting" /\ reply[c] # "none"
  /\ LET ok == reply[c] = "ok"
         k  == hkind[c]
         exits == ok /\ k \in {"shutdown", "reboot", "switchover"}
     IN /\ exits => exitReq = NoExit
        /\ exitReq' = IF ~exits THEN exitReq
                      ELSE IF k = "shutdown" THEN 0 ELSE SwitchoverRestart
  /\ maintenanceActive' = MaintenanceAfter(c)
  /\ shutdownInProgress' =
       (shutdownInProgress /\ ~Clears(c, {"shutdown", "reboot", "maintenance"}))
  /\ switchoverInProgress' = (switchoverInProgress /\ ~Clears(c, {"switchover"}))
  /\ hpc' = [hpc EXCEPT ![c] = "idle"]
  /\ hkind' = [hkind EXCEPT ![c] = "none"]
  /\ reply' = [reply EXCEPT ![c] = "none"]
  /\ crossed' = (crossed /\ (maintenanceActive' \/ MaintenanceDue'))
  /\ UNCHANGED <<cfg, loopVars, childVars, restartVars, sigCh, exitCode, unconfirmed>>

-----------------------------------------------------------------------------
(* The cases of the select loop. *)

\* case <-sigCh: without a child the process exits with 0 at once.
OnSignal ==
  /\ mpc = "select" /\ sigCh
  /\ sigCh' = FALSE
  /\ who' = "signal"
  /\ IF currentChild = 0 THEN Exit(0)
     ELSE /\ mpc' = "check"
          /\ kind' = IF cfg.mode = "reboot" THEN "reboot" ELSE "shutdown"
          /\ cw' = currentChild
          /\ UNCHANGED <<handoff, forced, exitVars>>
  /\ UNCHANGED <<cfg, childVars, restartVars, handlerVars, flagVars, history>>

\* case <-childDone: an unexpected exit. Within the budget a restart is armed,
\* otherwise pg-guard exits with the child's code.
OnChildDone ==
  /\ mpc = "select" /\ currentChild # 0 /\ currentChild \notin alive
  /\ ClearChild
  /\ \/ /\ cfg.restart
        /\ restartPending' = TRUE /\ restartAt' = TRUE
        /\ UNCHANGED <<loopVars, exitVars>>
     \/ /\ \E code \in {0, 1} : Exit(code)
        /\ UNCHANGED <<who, restartVars>>
  /\ UNCHANGED <<cfg, sigCh, handlerVars, flagVars, history>>

\* Mutant of OnRestartAt: the timer case gives up without clearing restartPending.
MutOnRestartAt ==
  /\ mpc = "select" /\ restartAt
  /\ restartAt' = FALSE
  /\ UNCHANGED <<cfg, loopVars, restartPending, childVars, sigCh, handlerVars, flagVars, exitVars,
                 history>>

\* case <-restartAt: the backoff is over.
OnRestartAt ==
  /\ mpc = "select" /\ restartAt
  /\ restartAt' = FALSE /\ restartPending' = FALSE
  /\ IF currentChild # 0 THEN UNCHANGED <<mpc, who>>
     ELSE mpc' = "starting" /\ who' = "restart"
  /\ UNCHANGED <<cfg, kind, cw, handoff, forced, childVars, sigCh, handlerVars, flagVars, exitVars,
                 history>>

\* Mutants of Refused: start and rejoin do not look for a running child, or for
\* a pending restart.
MutRefusedChild(k) == IF k \in StopKinds THEN currentChild = 0 ELSE restartPending
MutRefusedRestart(k) == IF k \in StopKinds THEN currentChild = 0 ELSE currentChild # 0

\* handleHandoverRequest refuses at once: nothing to stop, or start and rejoin
\* find a child or a pending restart.
Refused(k) ==
  IF k \in StopKinds THEN currentChild = 0 ELSE restartPending \/ currentChild # 0

\* case req := <-handoverRequests
OnRequest(c) ==
  /\ mpc = "select" /\ hpc[c] = "sending"
  /\ hpc' = [hpc EXCEPT ![c] = "waiting"]
  /\ IF Refused(hkind[c])
     THEN reply' = [reply EXCEPT ![c] = "error"] /\ UNCHANGED loopVars
     ELSE /\ mpc' = CASE hkind[c] \in StopKinds -> "check"
                      [] hkind[c] = "rejoin"    -> "rejoining"
                      [] OTHER                  -> "starting"
          /\ who' = c /\ kind' = hkind[c] /\ cw' = currentChild
          /\ UNCHANGED <<reply, handoff, forced>>
  /\ UNCHANGED <<cfg, childVars, restartVars, sigCh, hkind, flagVars, exitVars, history>>

\* case code := <-exitRequested
OnExitRequested ==
  /\ mpc = "select" /\ exitReq # NoExit
  /\ mpc' = "exited" /\ exitCode' = exitReq /\ exitReq' = NoExit
  /\ UNCHANGED <<cfg, who, kind, cw, handoff, forced, childVars, restartVars, sigCh, handlerVars,
                 flagVars, history>>

-----------------------------------------------------------------------------
(* startPostgres and the rejoin request. *)

\* Bootstrap and rejoin decision passed and the process was launched.
StartOK ==
  /\ mpc = "starting"
  /\ Launch
  /\ \/ /\ who = "boot" /\ mpc' = "ensuring"
        /\ UNCHANGED <<who, kind, cw, handoff, forced, handlerVars, exitVars>>
     \/ who = "restart" /\ BackToSelect /\ UNCHANGED handlerVars
     \/ who \in Clients /\ Reply("ok")
  /\ UNCHANGED <<cfg, restartVars, sigCh, flagVars>>

\* Bootstrap or rejoin failed: postgres stays stopped; a crash-restart gives up.
StartFailed ==
  /\ mpc = "starting"
  /\ \/ /\ who = "boot" /\ mpc' = "ensuring"
        /\ UNCHANGED <<who, kind, cw, handoff, forced, handlerVars, exitVars>>
     \/ who = "restart" /\ Exit(1) /\ UNCHANGED <<who, handlerVars>>
     \/ who \in Clients /\ Reply("error")
  /\ UNCHANGED <<cfg, childVars, restartVars, sigCh, flagVars, history>>

\* The binary could not be executed: logFatal.
StartFatal ==
  /\ mpc = "starting"
  /\ Exit(1)
  /\ UNCHANGED <<cfg, who, childVars, restartVars, sigCh, handlerVars, flagVars, history>>

\* ensureRoleAndDatabaseBlocking returns, signal.Notify runs, the loop begins.
Ensured ==
  /\ mpc = "ensuring"
  /\ BackToSelect
  /\ UNCHANGED <<cfg, childVars, restartVars, sigCh, handlerVars, flagVars, history>>

\* rejoinAsStandby and sup.start.
RejoinOK ==
  /\ mpc = "rejoining"
  /\ Launch
  /\ Reply("ok")
  /\ UNCHANGED <<cfg, restartVars, sigCh, flagVars>>

RejoinFailed ==
  /\ mpc = "rejoining"
  /\ Reply("error")
  /\ UNCHANGED <<cfg, childVars, restartVars, sigCh, flagVars, history>>

-----------------------------------------------------------------------------
(* coordinateHandover, coordinateStandbyHandover, coordinateReboot.         *)

\* The exit code after a signal. waitForShutdown of a service drops the code that
\* handleTerminationSignal returns, and Execute reports 0.
SignalCode == IF cfg.mode = "reboot" /\ ~cfg.service THEN SwitchoverRestart ELSE 0

\* The handover returns nil: the caller clears the child; a signal ends pg-guard.
HandoverOK ==
  /\ ClearChild
  /\ IF who = "signal"
     THEN /\ Exit(SignalCode)
          /\ UNCHANGED <<who, handlerVars>>
     ELSE Reply("ok")

\* Mutants of HandoverError: the signal path exits without the forced stop, or
\* takes the refusal for an answer and carries on.
MutHandoverErrorExits ==
  \/ who \in Clients /\ Reply("error") /\ UNCHANGED childVars
  \/ who = "signal" /\ HandoverOK

MutHandoverErrorStays ==
  \/ who \in Clients /\ Reply("error") /\ UNCHANGED childVars
  \/ who = "signal" /\ BackToSelect /\ UNCHANGED <<childVars, handlerVars>>

\* The handover returns an error: a request gets it; the signal path makes one
\* forced attempt, then clears the child and exits whatever that returned.
HandoverError ==
  \/ who \in Clients /\ Reply("error") /\ UNCHANGED childVars
  \/ /\ who = "signal" /\ ~forced
     /\ mpc' = "stop" /\ forced' = TRUE /\ handoff' = FALSE
     /\ UNCHANGED <<who, kind, cw, childVars, handlerVars, exitVars>>
  \/ who = "signal" /\ forced /\ HandoverOK

\* Local role and peer status allow the stop, or the policy does not insist.
\* A role query that fails counts as primary. Only a primary that is not
\* rebooting hands over; "force" asks nobody. stopLocal then signals postgres.
CheckProceed ==
  /\ mpc = "check"
  /\ \E amPrimary \in BOOLEAN :
       handoff' = (amPrimary /\ kind # "reboot" /\ cfg.policy # "force")
  /\ mpc' = "stop"
  /\ asked' = (cw \in alive)
  /\ UNCHANGED <<cfg, who, kind, cw, forced, currentChild, alive, started, postgresRunning, lateStart,
                 restartVars, sigCh, handlerVars, flagVars, exitVars, history>>

\* require-switchover and the peer is not what it should be.
CheckRefuse ==
  /\ mpc = "check" /\ cfg.policy = "require-switchover"
  /\ HandoverError
  /\ UNCHANGED <<cfg, restartVars, sigCh, flagVars, history>>

\* Mutant of Stopped: stopLocal leaves it to its caller to clear the child.
MutStopped ==
  IF handoff
  THEN /\ mpc' = "promote"
       /\ UNCHANGED <<childVars, who, kind, cw, handoff, forced, handlerVars, exitVars>>
  ELSE HandoverOK

\* stopLocal has confirmed, or given up confirming, that the child is gone.
Stopped ==
  IF handoff
  THEN /\ ClearChild /\ mpc' = "promote"
       /\ UNCHANGED <<who, kind, cw, handoff, forced, handlerVars, exitVars>>
  ELSE HandoverOK

\* stopLocal: <-cw.done before PG_GUARD_SHUTDOWN_WAIT.
StopExited ==
  /\ mpc = "stop" /\ cw \notin alive
  /\ Stopped
  /\ UNCHANGED <<cfg, restartVars, sigCh, flagVars, history>>

\* stopLocal: the timeout fires and SIGKILL is sent.
StopTimeout ==
  /\ mpc = "stop"
  /\ mpc' = "killing"
  /\ UNCHANGED <<cfg, who, kind, cw, handoff, forced, childVars, restartVars, sigCh, handlerVars,
                 flagVars, exitVars, history>>

\* stopLocal: the timeout fires although the child has just exited; the kill
\* fails with "process already finished" and stopLocal returns that error.
StopKillError ==
  /\ mpc = "stop" /\ cw \notin alive
  /\ HandoverError
  /\ UNCHANGED <<cfg, restartVars, sigCh, flagVars, history>>

\* stopLocal: the kill is confirmed.
KillConfirmed ==
  /\ mpc = "killing" /\ cw \notin alive
  /\ Stopped
  /\ UNCHANGED <<cfg, restartVars, sigCh, flagVars, history>>

\* stopLocal: handoverKillConfirmTimeout passes first; it carries on regardless.
KillUnconfirmed ==
  /\ mpc = "killing" /\ cw \in alive
  /\ Stopped
  /\ unconfirmed' = unconfirmed \cup {cw}
  /\ UNCHANGED <<cfg, restartVars, sigCh, flagVars, crossed>>

\* requestPeerPromote succeeds and the peer confirms, or the policy is lenient.
PromoteOK ==
  /\ mpc = "promote"
  /\ HandoverOK
  /\ UNCHANGED <<cfg, restartVars, sigCh, flagVars, history>>

\* The promote request fails or is not confirmed within 10s.
PromoteFailed ==
  /\ mpc = "promote" /\ cfg.policy = "require-switchover"
  /\ HandoverError
  /\ UNCHANGED <<cfg, restartVars, sigCh, flagVars, history>>

-----------------------------------------------------------------------------
Init ==
  /\ cfg \in Configs
  /\ mpc = "starting" /\ who = "boot" /\ kind = "none"
  /\ cw = 0 /\ handoff = FALSE /\ forced = FALSE
  /\ currentChild = 0 /\ alive = {} /\ started = 0 /\ postgresRunning = FALSE
  /\ restartPending = FALSE /\ restartAt = FALSE
  /\ sigCh = FALSE
  /\ hpc = [c \in Clients |-> "idle"]
  /\ hkind = [c \in Clients |-> "none"]
  /\ reply = [c \in Clients |-> "none"]
  /\ shutdownInProgress = FALSE /\ switchoverInProgress = FALSE /\ maintenanceActive = FALSE
  /\ exitReq = NoExit /\ exitCode = NoExit
  /\ asked = FALSE /\ lateStart = FALSE /\ unconfirmed = {} /\ crossed = FALSE

Select == OnSignal \/ OnChildDone \/ OnRestartAt \/ OnExitRequested \/ \E c \in Clients : OnRequest(c)

Work == StartOK \/ StartFailed \/ StartFatal \/ Ensured \/ RejoinOK \/ RejoinFailed \/ CheckProceed
        \/ CheckRefuse \/ StopExited \/ StopTimeout \/ StopKillError \/ KillConfirmed
        \/ KillUnconfirmed \/ PromoteOK \/ PromoteFailed

\* After os.Exit nothing happens.
Terminated == mpc = "exited" /\ UNCHANGED vars

Next ==
  \/ \E p \in Children : ChildExit(p)
  \/ Signal \/ EarlySignal
  \/ \E c \in Clients, k \in Kinds : HandlerBegin(c, k)
  \/ \E c \in Clients : HandlerReturn(c)
  \/ Select \/ Work \/ Terminated

\* Every wait in Work has a deadline or ends with an external command, so the
\* main goroutine always gets through it. Go's select chooses uniformly among
\* the ready cases: a case that is ready over and over is eventually taken.
\* Handlers are goroutines. No client, signal or crash needs to happen.
Fairness ==
  /\ WF_vars(Work)
  /\ SF_vars(OnSignal) /\ SF_vars(OnChildDone) /\ SF_vars(OnRestartAt) /\ SF_vars(OnExitRequested)
  /\ \A c \in Clients : SF_vars(OnRequest(c)) /\ WF_vars(HandlerReturn(c))

Spec == Init /\ [][Next]_vars
FairSpec == Spec /\ Fairness

-----------------------------------------------------------------------------
LoopType ==
  /\ cfg \in Configs
  /\ mpc \in LoopStates
  /\ who \in Clients \cup Internal
  /\ kind \in Kinds \cup {"none"}

ChildType ==
  /\ cw \in Children \cup {0} /\ currentChild \in Children \cup {0}
  /\ alive \subseteq Children /\ unconfirmed \subseteq alive /\ started \in 0..MaxStarts

FlagType ==
  {handoff, forced, postgresRunning, restartPending, restartAt, sigCh, shutdownInProgress,
   switchoverInProgress, maintenanceActive, asked, lateStart, crossed} \subseteq BOOLEAN

HandlerType ==
  /\ hpc \in [Clients -> {"idle", "sending", "waiting"}]
  /\ hkind \in [Clients -> Kinds \cup {"none"}]
  /\ reply \in [Clients -> {"none", "ok", "error"}]

ExitType ==
  /\ exitReq \in {NoExit, 0, SwitchoverRestart}
  /\ exitCode \in {NoExit, 0, 1, 2, SwitchoverRestart}

TypeOK == LoopType /\ ChildType /\ FlagType /\ HandlerType /\ ExitType

\* state.go, restartPending: never two postgres processes over one PGDATA,
\* whatever mix of crash-restart, start, rejoin and handover happened -- but for
\* those that outlive a SIGKILL by more than handoverKillConfirmTimeout.
AtMostOnePostgres == \A p, q \in alive \ unconfirmed : p = q

\* main.go:288-294: while the restart timer is armed there is no child, so the
\* double-check in the restartAt case never finds one.
RestartGuard ==
  /\ restartPending = restartAt
  /\ restartAt => currentChild = 0

\* Every pg-guard exit leaves no postgres behind, with exactly three exceptions:
\* one that outlives an unconfirmed SIGKILL, one that was started between a
\* successful shutdown or switchover and its exit and not stopped since, and a
\* signal before signal.Notify. So the signal path's fallback (main.go:434-438)
\* always ends with a stop.
NoPostgresLeftBehind ==
  mpc = "exited" /\ ~ (alive \subseteq unconfirmed) => lateStart \/ who = "boot"

\* state.go, shutdownInProgress and switchoverInProgress: a flag that is set
\* stands for a handler that is still at work, however many handlers share it and
\* whichever way each of them ends; classifyPostgresLine would otherwise take
\* postgres's errors for shutdown noise from then on.
FlagsNeverStick ==
  /\ shutdownInProgress =>
       \E c \in Clients : hpc[c] # "idle" /\ hkind[c] \in {"shutdown", "reboot", "maintenance"}
  /\ switchoverInProgress => \E c \in Clients : hpc[c] # "idle" /\ hkind[c] = "switchover"

\* metrics_server.go:78: maintenance_active ends when postgres runs again. The
\* flag is stored by handlers that the main loop has already answered; with
\* postgres running it is set only while the handler of the start is on its way to
\* clear it, or if a start was served between a maintenance reply and its store, and
\* until the next start.
MaintenanceFlagFollows ==
  maintenanceActive /\ currentChild # 0 =>
    crossed \/ \E c \in Clients : hkind[c] \in {"start", "rejoin"} /\ reply[c] = "ok"

-----------------------------------------------------------------------------
(* The parts of the inductive invariant behind the invariants above.  *)

\* Only the supervised instance runs, beside those given up.
OnlySupervised == alive \subseteq {currentChild} \cup unconfirmed

\* What each place of the main goroutine knows of the child and the timer.
LoopKnows ==
  /\ mpc \in {"starting", "rejoining", "promote"} => currentChild = 0
  /\ mpc = "check" => currentChild = cw
  /\ mpc \in {"stop", "killing"} => currentChild \in {0, cw}
  /\ forced => mpc \in {"stop", "killing", "exited"} /\ ~handoff
  /\ restartAt => mpc \in {"select", "exited"}

\* The request in the main goroutine's hands is its client's, still unanswered.
RequestInHand ==
  /\ who \in Clients => /\ hpc[who] = "waiting" /\ hkind[who] = kind /\ reply[who] = "none"
                        /\ mpc \notin {"select", "ensuring"}
  /\ mpc = "rejoining" => who \in Clients /\ kind = "rejoin"
  /\ mpc = "starting" /\ who \in Clients => kind = "start"
  /\ mpc \in {"check", "stop", "killing", "promote"} => who \in Clients \cup {"signal"}
  /\ \A c \in Clients : hpc[c] # "waiting" => reply[c] = "none"
  /\ \A c \in Clients : hpc[c] # "idle" => hkind[c] \in Kinds

\* When an exit is due, postgres is stopped unless somebody started it since.
ExitDueStopped == ExitDue => currentChild = 0 \/ lateStart

\* For whom the main goroutine works at each place, and on what.
LoopServes ==
  /\ mpc = "select" => who = "loop"
  /\ mpc = "ensuring" => who = "boot"
  /\ mpc = "starting" => who \in Clients \cup {"boot", "restart"}
  /\ mpc \in {"check", "stop", "killing"} /\ who \in Clients =>
       currentChild = cw /\ cw # 0 /\ kind \in StopKinds
  /\ who = "boot" => /\ mpc \in {"starting", "ensuring", "exited"}
                     /\ ~maintenanceActive /\ \A c \in Clients : reply[c] = "none"
  /\ mpc = "starting" /\ who = "boot" => started = 0

\* Postgres is stopped and nothing but a request will start it.
Quiet == currentChild = 0 /\ ~restartPending /\ ~(mpc = "starting" /\ who = "restart")

\* What a maintenance that was answered, or recorded, leaves behind.
MaintenanceQuiet ==
  /\ MaintenanceDue => crossed \/ Quiet
  /\ maintenanceActive =>
       \/ crossed \/ Quiet
       \/ \E c \in Clients : hkind[c] \in {"start", "rejoin"} /\ reply[c] = "ok"

IInv == TypeOK /\ OnlySupervised /\ LoopKnows /\ RequestInHand /\ ExitDueStopped
        /\ RestartGuard /\ NoPostgresLeftBehind /\ FlagsNeverStick /\ LoopServes /\ MaintenanceQuiet

-----------------------------------------------------------------------------
\* main.go:434-438: a termination signal ends pg-guard, whatever the loop is
\* doing, whatever else is pending and however the peer behaves.
SignalTerminates == sigCh ~> mpc = "exited"

\* A handler that reached the main loop is answered, and one that waits for
\* the main loop is served, unless pg-guard exits.
HandlersReturn == \A c \in Clients : hpc[c] # "idle" ~> hpc[c] = "idle" \/ mpc = "exited"

\* README, Automatic Restart: after a crash within the budget postgres is
\* started again, or pg-guard exits.
CrashRestarts == restartPending ~> currentChild # 0 \/ mpc = "exited"

-----------------------------------------------------------------------------
(* The main loop implements Supervision. *)

\* A start is owed from the start of pg-guard, and from a crash, until it is done.
Owed == restartPending \/ (mpc = "starting" /\ who \in {"boot", "restart"})

Phase == IF mpc = "exited" THEN "over" ELSE IF who = "signal" THEN "leaving" ELSE "serving"

Wish(c) == IF hkind[c] = "none" THEN "none" ELSE IF hkind[c] \in StopKinds THEN "stop" ELSE "start"

\* A stop has had its effect once the peer is asked to promote.
Answer(c) ==
  IF hpc[c] = "idle" THEN "idle"
  ELSE IF reply[c] # "none" THEN reply[c]
  ELSE IF who = c /\ mpc = "promote" THEN "stopped" ELSE "pending"

Abstract == INSTANCE Supervision WITH
  child <- currentChild, launched <- started, owed <- Owed, phase <- Phase,
  wish <- [c \in Clients |-> Wish(c)], answer <- [c \in Clients |-> Answer(c)]

\* Requests, crashes, the restart timer, signals and the handover, interleaved in
\* any way, are seen from outside as the atomic steps of Supervision.
ImplementsSupervision == Abstract!Spec

-----------------------------------------------------------------------------
(* What comments and documentation say of the code, and it does not do. *)

\* ARCHITECTURE.md, Coordinated Shutdown: under require-switchover a refusal of
\* an API request "stops nothing ... postgres keeps running untouched": when
\* a stop request that reached the handover is answered with an error, the
\* child it found is still the supervised one.
RefusalStopsNothing ==
  [][\A c \in Clients : reply[c] = "none" /\ reply'[c] = "error" /\ mpc = "promote"
       => currentChild' # 0]_vars

\* README.md, Automatic Restart: a crash is an exit "other than pg-guard's own
\* coordinated shutdown/switchover/maintenance paths": the crash path never
\* takes up an instance that was running when pg-guard asked it to stop.
StopIsNotACrash ==
  [][mpc = "select" /\ currentChild # 0 /\ currentChild' = 0 => ~asked]_vars

\* main.go:442-446: in reboot mode the signal path returns the sentinel restart
\* code, so that the container comes back.
RebootSignalComesBack ==
  mpc = "exited" /\ who = "signal" /\ cfg.mode = "reboot" /\ ~cfg.service => exitCode = SwitchoverRestart

\* metrics_server.go:78: maintenance_active is true "until postgres is running
\* again": with no request in flight it does not say so of a running node.
MaintenanceFlagHonest ==
  mpc = "select" /\ (\A c \in Clients : hpc[c] = "idle") /\ maintenanceActive
    => currentChild = 0

\* metrics.go:240: the flag says "whether a coordinated shutdown is currently in
\* progress": it is set while the main loop serves a shutdown request.
ShutdownFlagHonest ==
  mpc \in {"check", "stop", "killing", "promote"} /\ kind \in {"shutdown", "reboot", "maintenance"}
    => shutdownInProgress
=============================================================================

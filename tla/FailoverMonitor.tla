-------------------------- MODULE FailoverMonitor --------------------------
(***************************************************************************)
(* The automatic-failover goroutine of one node (failover.go) with the     *)
(* deadlines it shares with the API (state.go, handleRebootNotice and      *)
(* handlePromote of api.go). One pass of the ticker loop takes several     *)
(* steps: between its queries the peer, the database and the API go on.    *)
(*                                                                         *)
(* Clock values are kept relative to now, as the code only ever compares   *)
(* them with now: an elapsed time counts up and saturates, a deadline      *)
(* counts down to 0. So behaviours are not bounded in time.                *)
(***************************************************************************)
EXTENDS Integers

CONSTANTS
  Interval,  \* failoverCheckInterval
  Timeout,   \* PG_GUARD_FAILOVER_TIMEOUT
  Grace      \* PG_GUARD_REBOOT_GRACE_PERIOD

ASSUME MonitorAssumption ==
  /\ Interval \in Nat \ {0}
  /\ Timeout \in Nat \ {0}
  /\ Grace \in Nat \ {0}

VARIABLES
  mpc,                  \* where the monitor is in its pass
  tickIn, tick,         \* the ticker: time to the next tick, a tick is waiting
  unhealthyFor,         \* time since unhealthySince, None for the zero time
  promoteIn,            \* time to failoverPromoteDeadline, None for 0
  suppressFor,          \* time to rebootSuppressUntil, 0 when unset or past
  role,                 \* of the local postgres
  postgresRunning,
  dbOK,                 \* the local database answers in time
  peerUp,               \* the peer's /health and /status answer
  heardFor,             \* history: time since a probe last succeeded, saturating
  noticeFor,            \* history: time to the end of the last notice's grace
  rebooting,            \* history: the peer that sent it: "no", "leaving", "gone", "back"
  cleared               \* history: the monitor found the peer healthy since the notice

timers  == <<unhealthyFor, promoteIn, suppressFor>>
local   == <<role, postgresRunning, dbOK>>
history == <<heardFor, noticeFor, rebooting, cleared>>
vars == <<mpc, tickIn, tick, timers, local, peerUp, history>>

None == -1
\* Mutant of Down: the remaining time is not floored at 0.
MutDown(d) == IF d # None THEN d - 1 ELSE d

\* A deadline comes nearer, an elapsed time grows.
Down(d) == IF d > 0 THEN d - 1 ELSE d
Up(d, top) == IF d \in 0..(top - 1) THEN d + 1 ELSE d

-----------------------------------------------------------------------------
(* Time and the environment. *)

\* The clock advances. Go's ticker buffers one tick and drops the others.
Elapse ==
  /\ tickIn' = IF tickIn = 1 THEN Interval ELSE tickIn - 1
  /\ tick' = (tick \/ tickIn = 1)
  /\ unhealthyFor' = Up(unhealthyFor, Timeout)
  /\ promoteIn' = Down(promoteIn)
  /\ suppressFor' = Down(suppressFor)
  /\ heardFor' = Up(heardFor, Timeout)
  /\ noticeFor' = Down(noticeFor)
  /\ UNCHANGED <<mpc, local, peerUp, rebooting, cleared>>

\* The peer's pg-guard goes away, for a planned reboot or not, or is cut off.
PeerDown ==
  /\ peerUp
  /\ peerUp' = FALSE
  /\ rebooting' = IF rebooting = "leaving" THEN "gone" ELSE rebooting
  /\ UNCHANGED <<mpc, tickIn, tick, timers, local, heardFor, noticeFor, cleared>>

PeerBack ==
  /\ ~peerUp
  /\ peerUp' = TRUE
  /\ rebooting' = IF rebooting = "gone" THEN "back" ELSE rebooting
  /\ UNCHANGED <<mpc, tickIn, tick, timers, local, heardFor, noticeFor, cleared>>

\* handleRebootNotice: the peer is up and about to stop (coordinateReboot).
RebootNotice ==
  /\ peerUp
  /\ suppressFor' = Grace
  /\ noticeFor' = Grace /\ rebooting' = "leaving" /\ cleared' = FALSE
  /\ UNCHANGED <<mpc, tickIn, tick, unhealthyFor, promoteIn, local, peerUp, heardFor>>

\* The main loop stops postgres, or starts it, after a rejoin as standby.
LocalStop ==
  /\ postgresRunning
  /\ postgresRunning' = FALSE
  /\ UNCHANGED <<mpc, tickIn, tick, timers, role, dbOK, peerUp, history>>

LocalStart ==
  /\ ~postgresRunning
  /\ postgresRunning' = TRUE
  /\ role' \in {role, "standby"}
  /\ UNCHANGED <<mpc, tickIn, tick, timers, dbOK, peerUp, history>>

\* Connections or queries begin to fail, or work again.
DatabaseChange ==
  /\ dbOK' = ~dbOK
  /\ UNCHANGED <<mpc, tickIn, tick, timers, role, postgresRunning, peerUp, history>>

\* handlePromote succeeds.
ManualPromote ==
  /\ postgresRunning /\ dbOK /\ role = "standby"
  /\ role' = "primary"
  /\ UNCHANGED <<mpc, tickIn, tick, timers, postgresRunning, dbOK, peerUp, history>>

-----------------------------------------------------------------------------
(* The monitor. *)

\* Mutant of Reset: failoverPromoteDeadline is left behind.
MutReset == unhealthyFor' = None /\ UNCHANGED promoteIn

\* unhealthySince = time.Time{}; failoverPromoteDeadline.Store(0)
Reset == unhealthyFor' = None /\ promoteIn' = None

\* for range ticker.C
TickStart ==
  /\ mpc = "idle" /\ tick
  /\ tick' = FALSE
  /\ mpc' = "role"
  /\ UNCHANGED <<tickIn, timers, local, peerUp, history>>

\* Postgres is not running, does not answer, or is primary: no countdown. (A
\* primary also refreshes the peer's replication grant, which is not modelled.)
NotStandby ==
  /\ mpc = "role"
  /\ ~postgresRunning \/ ~dbOK \/ role = "primary"
  /\ Reset
  /\ mpc' = "idle"
  /\ UNCHANGED <<tickIn, tick, suppressFor, local, peerUp, history>>

IsStandby ==
  /\ mpc = "role"
  /\ postgresRunning /\ dbOK /\ role = "standby"
  /\ mpc' = "health"
  /\ UNCHANGED <<tickIn, tick, timers, local, peerUp, history>>

\* peerHealthy, GET /health and then GET /status. An answer can be lost.
HealthOK ==
  /\ mpc = "health" /\ peerUp
  /\ mpc' = "status"
  /\ UNCHANGED <<tickIn, tick, timers, local, peerUp, history>>

StatusOK ==
  /\ mpc = "status" /\ peerUp
  /\ mpc' = "healthy"
  /\ heardFor' = 0
  /\ UNCHANGED <<tickIn, tick, timers, local, peerUp, noticeFor, rebooting, cleared>>

ProbeFailed ==
  /\ mpc \in {"health", "status"}
  /\ mpc' = "unhealthy"
  /\ UNCHANGED <<tickIn, tick, timers, local, peerUp, history>>

\* Mutant of PeerHealthy: a healthy peer does not end the countdown.
MutPeerHealthy ==
  /\ mpc = "healthy"
  /\ suppressFor' = 0
  /\ mpc' = "idle"
  /\ cleared' = TRUE
  /\ UNCHANGED <<tickIn, tick, unhealthyFor, promoteIn, local, peerUp, heardFor, noticeFor, rebooting>>

\* The peer is healthy: no countdown, and a reboot notice has done its work.
PeerHealthy ==
  /\ mpc = "healthy"
  /\ Reset
  /\ suppressFor' = 0
  /\ mpc' = "idle"
  /\ cleared' = TRUE
  /\ UNCHANGED <<tickIn, tick, local, peerUp, heardFor, noticeFor, rebooting>>

\* First unhealthy pass: the countdown starts.
CountdownStart ==
  /\ mpc = "unhealthy" /\ unhealthyFor = None
  /\ unhealthyFor' = 0 /\ promoteIn' = Timeout
  /\ mpc' = "idle"
  /\ UNCHANGED <<tickIn, tick, suppressFor, local, peerUp, history>>

\* Mutant of Withhold: a pass without promotion starts the countdown anew.
MutWithhold ==
  /\ mpc = "unhealthy" /\ unhealthyFor # None
  /\ unhealthyFor < Timeout \/ suppressFor > 0
  /\ Reset
  /\ mpc' = "idle"
  /\ UNCHANGED <<tickIn, tick, suppressFor, local, peerUp, history>>

\* The timeout has not passed, or a reboot notice withholds the promotion.
Withhold ==
  /\ mpc = "unhealthy" /\ unhealthyFor # None
  /\ unhealthyFor < Timeout \/ suppressFor > 0
  /\ mpc' = "idle"
  /\ UNCHANGED <<tickIn, tick, timers, local, peerUp, history>>

\* Mutant of Decide: rebootSuppressActive is not consulted.
MutDecide ==
  /\ mpc = "unhealthy" /\ unhealthyFor # None
  /\ unhealthyFor >= Timeout
  /\ mpc' = "promote"
  /\ UNCHANGED <<tickIn, tick, timers, local, peerUp, history>>

\* The decision to promote.
Decide ==
  /\ mpc = "unhealthy" /\ unhealthyFor # None
  /\ unhealthyFor >= Timeout /\ suppressFor = 0
  /\ mpc' = "promote"
  /\ UNCHANGED <<tickIn, tick, timers, local, peerUp, history>>

\* pg_promote() returns true.
PromoteOK ==
  /\ mpc = "promote"
  /\ postgresRunning /\ dbOK /\ role = "standby"
  /\ role' = "primary"
  /\ mpc' = "ensure"
  /\ UNCHANGED <<tickIn, tick, timers, postgresRunning, dbOK, peerUp, history>>

\* pg_promote() fails, or its answer is lost; it may have taken effect all the same.
PromoteFailed ==
  /\ mpc = "promote"
  /\ ~postgresRunning \/ ~dbOK \/ role = "primary"
  /\ role' \in IF postgresRunning THEN {role, "primary"} ELSE {role}
  /\ mpc' = "idle"
  /\ UNCHANGED <<tickIn, tick, timers, postgresRunning, dbOK, peerUp, history>>

\* ensureRoleAndDatabaseBlocking returns; the countdown is over.
Ensured ==
  /\ mpc = "ensure"
  /\ Reset
  /\ mpc' = "idle"
  /\ UNCHANGED <<tickIn, tick, suppressFor, local, peerUp, history>>

-----------------------------------------------------------------------------
Init ==
  /\ mpc = "idle" /\ tickIn = Interval /\ tick = FALSE
  /\ unhealthyFor = None /\ promoteIn = None /\ suppressFor = 0
  /\ role \in {"standby", "primary"} /\ postgresRunning \in BOOLEAN /\ dbOK \in BOOLEAN
  /\ peerUp \in BOOLEAN
  /\ heardFor = Timeout /\ noticeFor = 0 /\ rebooting = "no" /\ cleared = FALSE

Environment == PeerDown \/ PeerBack \/ RebootNotice \/ LocalStop \/ LocalStart \/ DatabaseChange
               \/ ManualPromote

Monitor == TickStart \/ NotStandby \/ IsStandby \/ HealthOK \/ StatusOK \/ ProbeFailed
           \/ PeerHealthy \/ CountdownStart \/ Withhold \/ Decide \/ PromoteOK \/ PromoteFailed
           \/ Ensured

Next == Elapse \/ Environment \/ Monitor

\* Time passes and the monitor's goroutine runs: each of its calls is bounded
\* by a timeout. Nothing is assumed of the peer, the database or the operator.
Fairness == WF_vars(Elapse) /\ WF_vars(Monitor)

Spec == Init /\ [][Next]_vars
FairSpec == Spec /\ Fairness

-----------------------------------------------------------------------------
TypeOK ==
  /\ mpc \in {"idle", "role", "health", "status", "healthy", "unhealthy", "promote", "ensure"}
  /\ tickIn \in 1..Interval /\ tick \in BOOLEAN
  /\ unhealthyFor \in 0..Timeout \cup {None}
  /\ promoteIn \in 0..Timeout \cup {None}
  /\ suppressFor \in 0..Grace
  /\ role \in {"standby", "primary"}
  /\ postgresRunning \in BOOLEAN /\ dbOK \in BOOLEAN /\ peerUp \in BOOLEAN
  /\ heardFor \in 0..Timeout /\ noticeFor \in 0..Grace
  /\ rebooting \in {"no", "leaving", "gone", "back"} /\ cleared \in BOOLEAN

\* failover.go:2-3: the monitor promotes only if it has not reached the peer for
\* the whole of PG_GUARD_FAILOVER_TIMEOUT: any single probe that succeeded, even
\* while postgres was stopped or failing in between, restarts the wait.
PromotesOnlyAfterTimeout == [][mpc # "promote" /\ mpc' = "promote" => heardFor >= Timeout]_vars

\* state.go:66-74: the countdown that /status and /metrics show runs out exactly
\* when the monitor's own timeout does, and stops whenever the monitor's does.
CountdownHonest ==
  IF unhealthyFor = None THEN promoteIn = None ELSE promoteIn = Timeout - unhealthyFor

\* state.go:59-64: a reboot notice withholds the decision to promote for the
\* whole grace period, unless the monitor found the peer healthy after it.
NoticeWithholds == [][mpc # "promote" /\ mpc' = "promote" => noticeFor = 0 \/ cleared]_vars

\* A lost peer is always replaced: when the peer stays away and the local
\* database stays well, this node becomes primary, whatever notices, failed
\* queries and restarts came before.
LostPeerIsReplaced ==
  <>[](~peerUp /\ postgresRunning /\ dbOK) => <>[](role = "primary")

-----------------------------------------------------------------------------
(* The inductive invariant behind the safety properties. *)

\* No probe has succeeded since the countdown started, except the one at hand.
SilentSince ==
  unhealthyFor # None /\ mpc # "healthy" => heardFor >= unhealthyFor

\* The notice in force is the one the monitor sees, until it is cleared.
NoticeSeen == cleared \/ suppressFor = noticeFor

IInv == TypeOK /\ CountdownHonest /\ SilentSince /\ NoticeSeen

-----------------------------------------------------------------------------
\* README.md:586-595: after the notice the peer's monitor "withholds promotion for
\* PG_GUARD_REBOOT_GRACE_PERIOD", for the rebooting node to come back to. What
\* the code does: a tick while the peer is still stopping finds it healthy and
\* drops the notice before the reboot has even begun (failover.go:88-100).
GraceIsKept ==
  [][mpc # "promote" /\ mpc' = "promote" => noticeFor = 0 \/ rebooting = "back"]_vars
=============================================================================

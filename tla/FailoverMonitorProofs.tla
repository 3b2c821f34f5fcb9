------------------------ MODULE FailoverMonitorProofs ------------------------
(***************************************************************************)
(* The failover monitor for every interval, timeout and grace period. The  *)
(* inductive invariant ties the monitor's timers to the history: the       *)
(* countdown shown is the one it acts on (CountdownHonest), no probe has   *)
(* succeeded since it began (SilentSince), and an uncleared notice is in   *)
(* force (NoticeSeen).                                                     *)
(***************************************************************************)
EXTENDS FailoverMonitor, TLAPS

\* The ends of the timers' ranges.
LEMMA Ranges ==
  /\ Interval \in 1..Interval
  /\ 0 \in 0..Timeout /\ Timeout \in 0..Timeout
  /\ 0 \in 0..Grace /\ Grace \in 0..Grace
BY MonitorAssumption

\* The monitor starts with no countdown and no notice.
LEMMA InitIInv == Init => IInv
<1> SUFFICES ASSUME Init PROVE IInv
  OBVIOUS
<1> USE MonitorAssumption DEF Init, None
<1>1. TypeOK
  BY Ranges, Zenon DEF TypeOK
<1>2. CountdownHonest /\ SilentSince /\ NoticeSeen
  BY DEF CountdownHonest, SilentSince, NoticeSeen
<1> QED
  BY <1>1, <1>2 DEF IInv

\* Time passing keeps the types.
LEMMA ElapseType == TypeOK /\ Elapse => TypeOK'
<1> SUFFICES ASSUME TypeOK, Elapse PROVE TypeOK'
  OBVIOUS
<1> USE MonitorAssumption DEF TypeOK, Elapse, local
<1>1. tickIn' \in 1..Interval /\ tick' \in BOOLEAN
  OBVIOUS
<1>2. unhealthyFor' \in 0..Timeout \cup {None} /\ heardFor' \in 0..Timeout
  BY DEF Up, None
<1>3. promoteIn' \in 0..Timeout \cup {None} /\ suppressFor' \in 0..Grace /\ noticeFor' \in 0..Grace
  BY DEF Down, None
<1> QED
  BY <1>1, <1>2, <1>3

\* The peer, the main loop, the database and the API keep the types.
LEMMA EnvironmentType == TypeOK /\ Environment => TypeOK'
<1> SUFFICES ASSUME TypeOK, Environment PROVE TypeOK'
  OBVIOUS
<1> USE MonitorAssumption DEF TypeOK, timers, local, history
<1>1. CASE PeerDown
  BY <1>1 DEF PeerDown
<1>2. CASE PeerBack
  BY <1>2 DEF PeerBack
<1>3. CASE RebootNotice
  BY <1>3, Ranges, Zenon DEF RebootNotice
<1>4. CASE LocalStop
  BY <1>4 DEF LocalStop
<1>5. CASE LocalStart
  BY <1>5 DEF LocalStart
<1>6. CASE DatabaseChange
  BY <1>6 DEF DatabaseChange
<1>7. CASE ManualPromote
  BY <1>7 DEF ManualPromote
<1> QED
  BY <1>1, <1>2, <1>3, <1>4, <1>5, <1>6, <1>7 DEF Environment

\* The monitor keeps the types.
LEMMA MonitorType == TypeOK /\ Monitor => TypeOK'
<1> SUFFICES ASSUME TypeOK, Monitor PROVE TypeOK'
  OBVIOUS
<1> USE DEF TypeOK, timers, local, history
<1>1. CASE TickStart \/ IsStandby \/ HealthOK
  BY <1>1 DEF TickStart, IsStandby, HealthOK
<1>2. CASE StatusOK
  BY <1>2, Ranges DEF StatusOK
<1>3. CASE ProbeFailed \/ Withhold \/ Decide
  BY <1>3 DEF ProbeFailed, Withhold, Decide
<1>4. CASE NotStandby \/ Ensured
  BY <1>4 DEF NotStandby, Ensured, Reset
<1>5. CASE PeerHealthy
  BY <1>5, Ranges DEF PeerHealthy, Reset
<1>6. CASE CountdownStart
  BY <1>6, Ranges DEF CountdownStart
<1>7. CASE PromoteOK \/ PromoteFailed
  BY <1>7 DEF PromoteOK, PromoteFailed
<1> QED
  BY <1>1, <1>2, <1>3, <1>4, <1>5, <1>6, <1>7 DEF Monitor

\* The environment changes no timer, except that a notice renews the suppression.
LEMMA EnvironmentTimers ==
  ASSUME IInv, Environment
  PROVE  CountdownHonest' /\ SilentSince' /\ NoticeSeen'
<1>1. UNCHANGED <<mpc, unhealthyFor, promoteIn, heardFor>>
  BY DEF Environment, PeerDown, PeerBack, RebootNotice, LocalStop, LocalStart, DatabaseChange,
         ManualPromote, timers, history
<1>2. \/ UNCHANGED <<suppressFor, noticeFor, cleared>>
      \/ suppressFor' = Grace /\ noticeFor' = Grace
  BY DEF Environment, PeerDown, PeerBack, RebootNotice, LocalStop, LocalStart, DatabaseChange,
         ManualPromote, timers, history
<1> QED
  BY <1>1, <1>2 DEF IInv, CountdownHonest, SilentSince, NoticeSeen

\* All timers advance together.
LEMMA ElapseTimers ==
  ASSUME IInv, Elapse
  PROVE  CountdownHonest' /\ SilentSince' /\ NoticeSeen'
<1> USE MonitorAssumption DEF IInv, TypeOK, Elapse
<1>1. CountdownHonest'
  BY DEF CountdownHonest, Up, Down, None
<1>2. SilentSince'
  BY DEF SilentSince, Up, None
<1>3. NoticeSeen'
  BY DEF NoticeSeen
<1> QED
  BY <1>1, <1>2, <1>3

\* The monitor starts, keeps or ends both countdowns at once, and drops a notice
\* only after a successful probe.
LEMMA MonitorTimers ==
  ASSUME IInv, Monitor
  PROVE  CountdownHonest' /\ SilentSince' /\ NoticeSeen'
<1> USE MonitorAssumption DEF IInv, TypeOK, timers, local, history, CountdownHonest, SilentSince,
                              NoticeSeen, None
<1>1. CASE TickStart \/ IsStandby \/ HealthOK \/ StatusOK
  BY <1>1 DEF TickStart, IsStandby, HealthOK, StatusOK
<1>2. CASE ProbeFailed \/ Withhold \/ Decide
  BY <1>2 DEF ProbeFailed, Withhold, Decide
<1>3. CASE NotStandby \/ PeerHealthy \/ Ensured
  BY <1>3 DEF NotStandby, PeerHealthy, Ensured, Reset
<1>4. CASE CountdownStart
  BY <1>4 DEF CountdownStart
<1>5. CASE PromoteOK \/ PromoteFailed
  BY <1>5 DEF PromoteOK, PromoteFailed
<1> QED
  BY <1>1, <1>2, <1>3, <1>4, <1>5 DEF Monitor

\* Every step keeps the inductive invariant.
LEMMA StepIInv == IInv /\ [Next]_vars => IInv'
<1> SUFFICES ASSUME IInv, [Next]_vars PROVE IInv'
  OBVIOUS
<1>1. CASE Elapse
  BY <1>1, ElapseType, ElapseTimers DEF IInv
<1>2. CASE Environment
  BY <1>2, EnvironmentType, EnvironmentTimers DEF IInv
<1>3. CASE Monitor
  BY <1>3, MonitorType, MonitorTimers DEF IInv
<1>4. CASE UNCHANGED vars
  BY <1>4 DEF vars, timers, local, history, IInv, TypeOK, CountdownHonest, SilentSince, NoticeSeen
<1> QED
  BY <1>1, <1>2, <1>3, <1>4 DEF Next

\* Spec keeps the inductive invariant.
THEOREM MonitorInvariant == Spec => []IInv
BY InitIInv, StepIInv, PTL DEF Spec

\* The monitor's variables keep their types.
THEOREM TypeCorrect == Spec => []TypeOK
<1>1. IInv => TypeOK
  BY DEF IInv
<1> QED
  BY MonitorInvariant, <1>1, PTL

\* The countdown reported by /status and /metrics is the monitor's own.
THEOREM CountdownCorrect == Spec => []CountdownHonest
<1>1. IInv => CountdownHonest
  BY DEF IInv
<1> QED
  BY MonitorInvariant, <1>1, PTL

\* Only Decide, with the timeout past and no suppression, begins a promotion.
LEMMA OnlyDecide ==
  ASSUME [Next]_vars, mpc # "promote", mpc' = "promote"
  PROVE  unhealthyFor # None /\ unhealthyFor >= Timeout /\ suppressFor = 0 /\ mpc = "unhealthy"
BY DEF Next, Environment, Monitor, Elapse, PeerDown, PeerBack, RebootNotice, LocalStop, LocalStart,
       DatabaseChange, ManualPromote, TickStart, NotStandby, IsStandby, HealthOK, StatusOK,
       ProbeFailed, PeerHealthy, CountdownStart, Withhold, Decide, PromoteOK, PromoteFailed,
       Ensured, vars

\* No automatic promotion within PG_GUARD_FAILOVER_TIMEOUT of a successful probe.
THEOREM TimeoutRespected == Spec => PromotesOnlyAfterTimeout
<1>1. IInv /\ [Next]_vars => [mpc # "promote" /\ mpc' = "promote" => heardFor >= Timeout]_vars
  <2> SUFFICES ASSUME IInv, [Next]_vars, mpc # "promote", mpc' = "promote"
               PROVE  heardFor >= Timeout
    OBVIOUS
  <2>1. unhealthyFor # None /\ unhealthyFor >= Timeout /\ mpc = "unhealthy"
    BY OnlyDecide
  <2> QED
    BY <2>1, MonitorAssumption DEF IInv, TypeOK, SilentSince, None
<1> QED
  BY MonitorInvariant, <1>1, PTL DEF Spec, PromotesOnlyAfterTimeout

\* No decision to promote within the grace period of a notice still in force.
THEOREM NoticeRespected == Spec => NoticeWithholds
<1>1. IInv /\ [Next]_vars => [mpc # "promote" /\ mpc' = "promote" => noticeFor = 0 \/ cleared]_vars
  <2> SUFFICES ASSUME IInv, [Next]_vars, mpc # "promote", mpc' = "promote"
               PROVE  noticeFor = 0 \/ cleared
    OBVIOUS
  <2>1. suppressFor = 0
    BY OnlyDecide
  <2> QED
    BY <2>1 DEF IInv, NoticeSeen
<1> QED
  BY MonitorInvariant, <1>1, PTL DEF Spec, NoticeWithholds
=============================================================================

---------------------------- MODULE ClusterProofs ----------------------------
(***************************************************************************)
(* For every shutdown policy and any number of initdb runs: the two nodes  *)
(* split only by decisions that overlap or that an answer misled, and the  *)
(* first database survives whatever is not a clone that was cut short.     *)
(***************************************************************************)
EXTENDS Cluster, TLAPS

LEMMA Basics ==
  /\ MaxInitdb \in Nat
  /\ Nodes = {0, 1} /\ Peer(0) = 1 /\ Peer(1) = 0
BY ClusterAssumption DEF Nodes, Peer

\* Both nodes are off over empty data directories.
LEMMA InitIInv == Init => IInv
<1> SUFFICES ASSUME Init PROVE IInv
  OBVIOUS
<1> USE Basics DEF Init
<1>1. TypeOK
  <2>1. /\ pc \in [Nodes -> {"off", "bootstrap", "await", "cloning", "decide", "rejoin", "start",
                         "loop", "stopping", "asked"}]
        /\ pg \in [Nodes -> {"down", "standby", "primary"}]
        /\ data \in [Nodes -> {"empty", "primary", "standby"}]
    OBVIOUS
  <2>2. content \in [Nodes -> 0..MaxInitdb] /\ initdbs \in 0..MaxInitdb
    OBVIOUS
  <2>3. /\ origin \in [Nodes -> {"bootstrap", "startup", "request"}]
        /\ how \in [Nodes -> {"none", "started", "promoted"}]
    OBVIOUS
  <2>4. armed \in [Nodes -> BOOLEAN] /\ overlapped \in BOOLEAN /\ misled \in BOOLEAN /\ broken \in BOOLEAN
    OBVIOUS
  <2> QED
    BY <2>1, <2>2, <2>3, <2>4 DEF TypeOK
<1>2. NodeKnows /\ OneDatabase
  BY DEF NodeKnows, OneDatabase
<1>3. ~Committed(0)
  BY DEF Committed, Pending
<1> QED
  BY <1>1, <1>2, <1>3 DEF IInv, OneCommitted, BothCommitted

\* Every step keeps the types.
LEMMA TypeStep == TypeOK /\ [Next]_vars => TypeOK'
<1> SUFFICES ASSUME TypeOK, [Next]_vars PROVE TypeOK'
  OBVIOUS
<1> USE Basics DEF At, Note, NoteDecision, MayExit, TypeOK
<1>1. ASSUME NEW n \in Nodes, GuardStart(n) PROVE TypeOK'
  BY <1>1 DEF GuardStart, Begin
<1>2. ASSUME NEW n \in Nodes, BootstrapAsPrimary(n) PROVE TypeOK'
  BY <1>2 DEF BootstrapAsPrimary
<1>3. ASSUME NEW n \in Nodes, BootstrapAsStandby(n) PROVE TypeOK'
  BY <1>3 DEF BootstrapAsStandby
<1>4. ASSUME NEW n \in Nodes, BootstrapClone(n) PROVE TypeOK'
  BY <1>4 DEF BootstrapClone
<1>5. ASSUME NEW n \in Nodes, BootstrapGivesUp(n) PROVE TypeOK'
  BY <1>5 DEF BootstrapGivesUp
<1>6. ASSUME NEW n \in Nodes, DecideStandby(n) PROVE TypeOK'
  BY <1>6 DEF DecideStandby
<1>7. ASSUME NEW n \in Nodes, DecideStart(n) PROVE TypeOK'
  BY <1>7 DEF DecideStart
<1>8. ASSUME NEW n \in Nodes, DecideRejoin(n) PROVE TypeOK'
  BY <1>8 DEF DecideRejoin
<1>9. ASSUME NEW n \in Nodes, DecideGivesUp(n) PROVE TypeOK'
  BY <1>9 DEF DecideGivesUp
<1>10. ASSUME NEW n \in Nodes, RewindOK(n) PROVE TypeOK'
  BY <1>10 DEF RewindOK
<1>11. ASSUME NEW n \in Nodes, RewindFailed(n) PROVE TypeOK'
  BY <1>11 DEF RewindFailed
<1>12. ASSUME NEW n \in Nodes, CloneOK(n) PROVE TypeOK'
  BY <1>12 DEF CloneOK
<1>13. ASSUME NEW n \in Nodes, CloneFailed(n) PROVE TypeOK'
  BY <1>13 DEF CloneFailed
<1>14. ASSUME NEW n \in Nodes, StartPostgres(n) PROVE TypeOK'
  BY <1>14 DEF StartPostgres
<1>15. ASSUME NEW n \in Nodes, StartOnNothing(n) PROVE TypeOK'
  BY <1>15 DEF StartOnNothing
<1>16. ASSUME NEW n \in Nodes, FailoverDecides(n) PROVE TypeOK'
  BY <1>16 DEF FailoverDecides
<1>17. ASSUME NEW n \in Nodes, ManualPromote(n) PROVE TypeOK'
  BY <1>17 DEF ManualPromote
<1>18. ASSUME NEW n \in Nodes, PromoteOK(n) PROVE TypeOK'
  BY <1>18 DEF PromoteOK
<1>19. ASSUME NEW n \in Nodes, PromoteFailed(n) PROVE TypeOK'
  BY <1>19 DEF PromoteFailed
<1>20. ASSUME NEW n \in Nodes, HandoverCheck(n) PROVE TypeOK'
  BY <1>20 DEF HandoverCheck
<1>21. ASSUME NEW n \in Nodes, HandoverAsk(n) PROVE TypeOK'
  BY <1>21 DEF HandoverAsk
<1>22. ASSUME NEW n \in Nodes, HandoverEnds(n) PROVE TypeOK'
  BY <1>22 DEF HandoverEnds
<1>23. ASSUME NEW n \in Nodes, StopLocal(n) PROVE TypeOK'
  BY <1>23 DEF StopLocal
<1>24. ASSUME NEW n \in Nodes, PostgresCrash(n) PROVE TypeOK'
  BY <1>24 DEF PostgresCrash, Begin
<1>25. ASSUME NEW n \in Nodes, NodeCrash(n) PROVE TypeOK'
  BY <1>25 DEF NodeCrash
<1>26. ASSUME NEW n \in Nodes, OperatorStart(n) PROVE TypeOK'
  BY <1>26 DEF OperatorStart, Begin
<1>27. ASSUME NEW n \in Nodes, OperatorRejoin(n) PROVE TypeOK'
  BY <1>27 DEF OperatorRejoin
<1>28. CASE UNCHANGED vars
  BY <1>28 DEF vars
<1> QED
  BY <1>1, <1>2, <1>3, <1>4, <1>5, <1>6, <1>7, <1>8, <1>9, <1>10, <1>11, <1>12, <1>13, <1>14,
     <1>15, <1>16, <1>17, <1>18, <1>19, <1>20, <1>21, <1>22, <1>23, <1>24, <1>25, <1>26, <1>27,
     <1>28 DEF Next, Startup, Running, Adversity

\* Every step keeps what a node knows.
LEMMA KnowsStep == TypeOK /\ NodeKnows /\ [Next]_vars => NodeKnows'
<1> SUFFICES ASSUME TypeOK, NodeKnows, [Next]_vars PROVE NodeKnows'
  OBVIOUS
<1> USE Basics DEF At, MayExit, TypeOK, NodeKnows
<1>1. ASSUME NEW n \in Nodes, GuardStart(n) PROVE NodeKnows'
  BY <1>1 DEF GuardStart, Begin
<1>2. ASSUME NEW n \in Nodes, BootstrapAsPrimary(n) PROVE NodeKnows'
  BY <1>2 DEF BootstrapAsPrimary
<1>3. ASSUME NEW n \in Nodes, BootstrapAsStandby(n) PROVE NodeKnows'
  BY <1>3 DEF BootstrapAsStandby
<1>4. ASSUME NEW n \in Nodes, BootstrapClone(n) PROVE NodeKnows'
  BY <1>4 DEF BootstrapClone
<1>5. ASSUME NEW n \in Nodes, BootstrapGivesUp(n) PROVE NodeKnows'
  <2>1. pc'[n] = "off" => ~armed'[n]
    BY <1>5, Zenon DEF TypeOK, MayExit, BootstrapGivesUp
  <2>2. \A m \in Nodes \ {n} : armed'[m] = armed[m] /\ pc'[m] = pc[m]
    BY <1>5 DEF BootstrapGivesUp
  <2>3. /\ pg[n] = "down" /\ UNCHANGED <<pg, data, origin>>
        /\ pc'[n] \notin {"rejoin", "bootstrap"}
    BY <1>5 DEF BootstrapGivesUp
  <2> QED
    BY <2>1, <2>2, <2>3
<1>6. ASSUME NEW n \in Nodes, DecideStandby(n) PROVE NodeKnows'
  BY <1>6 DEF DecideStandby
<1>7. ASSUME NEW n \in Nodes, DecideStart(n) PROVE NodeKnows'
  BY <1>7 DEF DecideStart
<1>8. ASSUME NEW n \in Nodes, DecideRejoin(n) PROVE NodeKnows'
  BY <1>8 DEF DecideRejoin
<1>9. ASSUME NEW n \in Nodes, DecideGivesUp(n) PROVE NodeKnows'
  <2>1. pc'[n] = "off" => ~armed'[n]
    BY <1>9, Zenon DEF TypeOK, MayExit, DecideGivesUp
  <2>2. \A m \in Nodes \ {n} : armed'[m] = armed[m] /\ pc'[m] = pc[m]
    BY <1>9 DEF DecideGivesUp
  <2>3. /\ pg[n] = "down" /\ UNCHANGED <<pg, data, origin>>
        /\ pc'[n] \notin {"rejoin", "bootstrap"}
    BY <1>9 DEF DecideGivesUp
  <2> QED
    BY <2>1, <2>2, <2>3
<1>10. ASSUME NEW n \in Nodes, RewindOK(n) PROVE NodeKnows'
  BY <1>10 DEF RewindOK
<1>11. ASSUME NEW n \in Nodes, RewindFailed(n) PROVE NodeKnows'
  BY <1>11 DEF RewindFailed
<1>12. ASSUME NEW n \in Nodes, CloneOK(n) PROVE NodeKnows'
  BY <1>12 DEF CloneOK
<1>13. ASSUME NEW n \in Nodes, CloneFailed(n) PROVE NodeKnows'
  <2>1. pc'[n] = "off" => ~armed'[n]
    BY <1>13, Zenon DEF TypeOK, MayExit, CloneFailed
  <2>2. \A m \in Nodes \ {n} : armed'[m] = armed[m] /\ pc'[m] = pc[m]
    BY <1>13 DEF CloneFailed
  <2>3. /\ pg[n] = "down" /\ UNCHANGED <<pg, data, origin>>
        /\ pc'[n] \notin {"rejoin", "bootstrap"}
    BY <1>13 DEF CloneFailed
  <2> QED
    BY <2>1, <2>2, <2>3
<1>14. ASSUME NEW n \in Nodes, StartPostgres(n) PROVE NodeKnows'
  BY <1>14 DEF StartPostgres
<1>15. ASSUME NEW n \in Nodes, StartOnNothing(n) PROVE NodeKnows'
  <2>1. pc'[n] = "off" => ~armed'[n]
    BY <1>15, Zenon DEF TypeOK, MayExit, StartOnNothing
  <2>2. \A m \in Nodes \ {n} : armed'[m] = armed[m] /\ pc'[m] = pc[m] /\ pg'[m] = pg[m]
    BY <1>15 DEF StartOnNothing
  <2>3. /\ pg'[n] = "down" /\ UNCHANGED <<data, origin>>
        /\ pc'[n] # "rejoin" /\ (pc'[n] = "bootstrap" => data[n] = "empty")
    BY <1>15 DEF StartOnNothing
  <2> QED
    BY <2>1, <2>2, <2>3
<1>16. ASSUME NEW n \in Nodes, FailoverDecides(n) PROVE NodeKnows'
  BY <1>16 DEF FailoverDecides
<1>17. ASSUME NEW n \in Nodes, ManualPromote(n) PROVE NodeKnows'
  BY <1>17 DEF ManualPromote
<1>18. ASSUME NEW n \in Nodes, PromoteOK(n) PROVE NodeKnows'
  BY <1>18 DEF PromoteOK
<1>19. ASSUME NEW n \in Nodes, PromoteFailed(n) PROVE NodeKnows'
  BY <1>19 DEF PromoteFailed
<1>20. ASSUME NEW n \in Nodes, HandoverCheck(n) PROVE NodeKnows'
  BY <1>20 DEF HandoverCheck
<1>21. ASSUME NEW n \in Nodes, HandoverAsk(n) PROVE NodeKnows'
  BY <1>21 DEF HandoverAsk
<1>22. ASSUME NEW n \in Nodes, HandoverEnds(n) PROVE NodeKnows'
  <2>1. pc'[n] = "off" => ~armed'[n]
    BY <1>22, Zenon DEF TypeOK, MayExit, HandoverEnds
  <2>2. \A m \in Nodes \ {n} : armed'[m] = armed[m] /\ pc'[m] = pc[m] /\ pg'[m] = pg[m]
    BY <1>22 DEF HandoverEnds
  <2>3. /\ pg'[n] = "down" /\ UNCHANGED <<data, origin>>
        /\ pc'[n] # "rejoin" /\ (pc'[n] = "bootstrap" => data[n] = "empty")
    BY <1>22 DEF HandoverEnds
  <2> QED
    BY <2>1, <2>2, <2>3
<1>23. ASSUME NEW n \in Nodes, StopLocal(n) PROVE NodeKnows'
  <2>1. pc'[n] = "off" => ~armed'[n]
    BY <1>23, Zenon DEF TypeOK, MayExit, StopLocal
  <2>2. \A m \in Nodes \ {n} : armed'[m] = armed[m] /\ pc'[m] = pc[m] /\ pg'[m] = pg[m]
    BY <1>23 DEF StopLocal
  <2>3. /\ pg'[n] = "down" /\ UNCHANGED <<data, origin>>
        /\ pc'[n] # "rejoin" /\ (pc'[n] = "bootstrap" => data[n] = "empty")
    BY <1>23 DEF StopLocal
  <2> QED
    BY <2>1, <2>2, <2>3
<1>24. ASSUME NEW n \in Nodes, PostgresCrash(n) PROVE NodeKnows'
  <2>1. pc'[n] = "off" => ~armed'[n]
    BY <1>24, Zenon DEF TypeOK, MayExit, PostgresCrash, Begin
  <2>2. \A m \in Nodes \ {n} : armed'[m] = armed[m] /\ pc'[m] = pc[m] /\ pg'[m] = pg[m]
    BY <1>24 DEF PostgresCrash, Begin
  <2>3. /\ pg'[n] = "down" /\ UNCHANGED <<data, origin>>
        /\ pc'[n] # "rejoin" /\ (pc'[n] = "bootstrap" => data[n] = "empty")
    BY <1>24 DEF PostgresCrash, Begin
  <2> QED
    BY <2>1, <2>2, <2>3
<1>25. ASSUME NEW n \in Nodes, NodeCrash(n) PROVE NodeKnows'
  BY <1>25 DEF NodeCrash
<1>26. ASSUME NEW n \in Nodes, OperatorStart(n) PROVE NodeKnows'
  BY <1>26 DEF OperatorStart, Begin
<1>27. ASSUME NEW n \in Nodes, OperatorRejoin(n) PROVE NodeKnows'
  BY <1>27 DEF OperatorRejoin
<1>28. CASE UNCHANGED vars
  BY <1>28 DEF vars
<1> QED
  BY <1>1, <1>2, <1>3, <1>4, <1>5, <1>6, <1>7, <1>8, <1>9, <1>10, <1>11, <1>12, <1>13, <1>14,
     <1>15, <1>16, <1>17, <1>18, <1>19, <1>20, <1>21, <1>22, <1>23, <1>24, <1>25, <1>26, <1>27,
     <1>28 DEF Next, Startup, Running, Adversity

\* A node that gives up leaves at most the nodes committed that were.
LEMMA GivesUp ==
  ASSUME OneCommitted, Note(FALSE) \/ UNCHANGED <<overlapped, misled>>,
         \A m \in Nodes : Committed(m)' => Committed(m)
  PROVE  OneCommitted'
<1>1. BothCommitted' => BothCommitted
  BY DEF BothCommitted
<1>2. CASE Note(FALSE)
  BY <1>1, <1>2, Zenon DEF OneCommitted, Note
<1>3. CASE UNCHANGED <<overlapped, misled>>
  BY <1>1, <1>3, Zenon DEF OneCommitted
<1> QED
  BY <1>2, <1>3

\* A decision that is taken beside one that is pending overlaps with it.
LEMMA Overlaps ==
  ASSUME NEW blind, Note(blind), NEW n \in Nodes,
         Committed(n)' => Pending(n) /\ pg'[n] # "primary"
  PROVE  OneCommitted'
<1>1. BothCommitted' => \E m \in Nodes : Pending(m) /\ pg'[m] # "primary"
  BY DEF BothCommitted
<1> QED
  BY <1>1, Zenon DEF OneCommitted, Note

\* A decision on an answer that is not "primary" does not see a peer that is primary,
\* or overlaps with one that is about to be.
LEMMA Decides ==
  ASSUME TypeOK, NEW n \in Nodes, NEW answer, answer # "primary", NoteDecision(n, answer),
         pg' = pg, Committed(Peer(n))' => Committed(Peer(n))
  PROVE  OneCommitted'
<1>1. Peer(n) \in Nodes
  BY Basics
<1>2. CASE pg[Peer(n)] = "primary"
  <2>1. Note(TRUE)
    BY <1>2, Zenon DEF NoteDecision
  <2> QED
    BY <2>1, Zenon DEF OneCommitted, Note
<1>3. CASE pg[Peer(n)] # "primary"
  BY <1>1, <1>3, Overlaps DEF NoteDecision, Committed
<1> QED
  BY <1>2, <1>3

\* Every step leaves one node committed, or one decided without seeing the other.
LEMMA CommittedStep == TypeOK /\ NodeKnows /\ OneCommitted /\ [Next]_vars => OneCommitted'
<1> SUFFICES ASSUME TypeOK, NodeKnows, OneCommitted, [Next]_vars PROVE OneCommitted'
  OBVIOUS
<1> USE Basics DEF At, MayExit, TypeOK, NodeKnows, Committed, Pending
<1>1. ASSUME NEW n \in Nodes, GuardStart(n) PROVE OneCommitted'
  <2>1. \A m \in Nodes : Committed(m)' => Committed(m)
    BY <1>1 DEF GuardStart, Begin
  <2> QED
    BY <1>1, <2>1, GivesUp DEF GuardStart
<1>2. ASSUME NEW n \in Nodes, BootstrapAsPrimary(n) PROVE OneCommitted'
  <2>1. \A m \in Nodes : Committed(m)' => Committed(m)
    BY <1>2 DEF BootstrapAsPrimary
  <2> QED
    BY <1>2, <2>1, GivesUp DEF BootstrapAsPrimary
<1>3. ASSUME NEW n \in Nodes, BootstrapAsStandby(n) PROVE OneCommitted'
  <2>1. \A m \in Nodes : Committed(m)' => Committed(m)
    BY <1>3 DEF BootstrapAsStandby
  <2> QED
    BY <1>3, <2>1, GivesUp DEF BootstrapAsStandby
<1>4. ASSUME NEW n \in Nodes, BootstrapClone(n) PROVE OneCommitted'
  <2>1. \A m \in Nodes : Committed(m)' => Committed(m)
    BY <1>4 DEF BootstrapClone
  <2> QED
    BY <1>4, <2>1, GivesUp DEF BootstrapClone
<1>5. ASSUME NEW n \in Nodes, BootstrapGivesUp(n) PROVE OneCommitted'
  <2>1. \A m \in Nodes : Committed(m)' => Committed(m)
    BY <1>5 DEF BootstrapGivesUp
  <2> QED
    BY <1>5, <2>1, GivesUp DEF BootstrapGivesUp
<1>6. ASSUME NEW n \in Nodes, DecideStandby(n) PROVE OneCommitted'
  <2>1. \A m \in Nodes : Committed(m)' => Committed(m)
    BY <1>6 DEF DecideStandby
  <2> QED
    BY <1>6, <2>1, GivesUp DEF DecideStandby
<1>7. ASSUME NEW n \in Nodes, DecideStart(n) PROVE OneCommitted'
  <2>1. PICK s \in {"standby", "unknown"} : NoteDecision(n, s)
    BY <1>7 DEF DecideStart
  <2>2. pg' = pg /\ (Committed(Peer(n))' => Committed(Peer(n)))
    BY <1>7 DEF DecideStart
  <2> QED
    BY <2>1, <2>2, Decides
<1>8. ASSUME NEW n \in Nodes, DecideRejoin(n) PROVE OneCommitted'
  <2>1. \A m \in Nodes : Committed(m)' => Committed(m)
    BY <1>8 DEF DecideRejoin
  <2> QED
    BY <1>8, <2>1, GivesUp DEF DecideRejoin
<1>9. ASSUME NEW n \in Nodes, DecideGivesUp(n) PROVE OneCommitted'
  <2>1. \A m \in Nodes : Committed(m)' => Committed(m)
    BY <1>9 DEF DecideGivesUp
  <2> QED
    BY <1>9, <2>1, GivesUp DEF DecideGivesUp
<1>10. ASSUME NEW n \in Nodes, RewindOK(n) PROVE OneCommitted'
  <2>1. \A m \in Nodes : Committed(m)' => Committed(m)
    BY <1>10 DEF RewindOK
  <2> QED
    BY <1>10, <2>1, GivesUp DEF RewindOK
<1>11. ASSUME NEW n \in Nodes, RewindFailed(n) PROVE OneCommitted'
  <2>1. \A m \in Nodes : Committed(m)' => Committed(m)
    BY <1>11 DEF RewindFailed
  <2> QED
    BY <1>11, <2>1, GivesUp DEF RewindFailed
<1>12. ASSUME NEW n \in Nodes, CloneOK(n) PROVE OneCommitted'
  <2>1. \A m \in Nodes : Committed(m)' => Committed(m)
    BY <1>12 DEF CloneOK
  <2> QED
    BY <1>12, <2>1, GivesUp DEF CloneOK
<1>13. ASSUME NEW n \in Nodes, CloneFailed(n) PROVE OneCommitted'
  <2>1. \A m \in Nodes : Committed(m)' => Committed(m)
    BY <1>13 DEF CloneFailed
  <2> QED
    BY <1>13, <2>1, GivesUp DEF CloneFailed
<1>14. ASSUME NEW n \in Nodes, StartPostgres(n) PROVE OneCommitted'
  <2>1. \A m \in Nodes : Committed(m)' => Committed(m)
    BY <1>14 DEF StartPostgres
  <2> QED
    BY <1>14, <2>1, GivesUp DEF StartPostgres
<1>15. ASSUME NEW n \in Nodes, StartOnNothing(n) PROVE OneCommitted'
  <2>1. \A m \in Nodes : Committed(m)' => Committed(m)
    BY <1>15 DEF StartOnNothing
  <2> QED
    BY <1>15, <2>1, GivesUp DEF StartOnNothing
<1>16. ASSUME NEW n \in Nodes, FailoverDecides(n) PROVE OneCommitted'
  <2>1. pg' = pg /\ (Committed(Peer(n))' => Committed(Peer(n)))
    BY <1>16 DEF FailoverDecides
  <2> QED
    BY <1>16, <2>1, Decides DEF FailoverDecides
<1>17. ASSUME NEW n \in Nodes, ManualPromote(n) PROVE OneCommitted'
  <2>1. PICK s \in Status(Peer(n)) \ {"primary"} : NoteDecision(n, s)
    BY <1>17 DEF ManualPromote
  <2>2. pg' = pg /\ (Committed(Peer(n))' => Committed(Peer(n)))
    BY <1>17 DEF ManualPromote
  <2> QED
    BY <2>1, <2>2, Decides
<1>18. ASSUME NEW n \in Nodes, PromoteOK(n) PROVE OneCommitted'
  <2>1. \A m \in Nodes : Committed(m)' => Committed(m)
    BY <1>18 DEF PromoteOK
  <2> QED
    BY <1>18, <2>1, GivesUp DEF PromoteOK
<1>19. ASSUME NEW n \in Nodes, PromoteFailed(n) PROVE OneCommitted'
  <2>1. \A m \in Nodes : Committed(m)' => Committed(m)
    BY <1>19 DEF PromoteFailed
  <2> QED
    BY <1>19, <2>1, GivesUp DEF PromoteFailed
<1>20. ASSUME NEW n \in Nodes, HandoverCheck(n) PROVE OneCommitted'
  <2>1. \A m \in Nodes : Committed(m)' => Committed(m)
    BY <1>20 DEF HandoverCheck
  <2> QED
    BY <1>20, <2>1, GivesUp DEF HandoverCheck
<1>21. ASSUME NEW n \in Nodes, HandoverAsk(n) PROVE OneCommitted'
  <2>1. Committed(n)' => Pending(n) /\ pg'[n] # "primary"
    BY <1>21 DEF HandoverAsk
  <2> QED
    BY <1>21, <2>1, Overlaps DEF HandoverAsk
<1>22. ASSUME NEW n \in Nodes, HandoverEnds(n) PROVE OneCommitted'
  <2>1. \A m \in Nodes : Committed(m)' => Committed(m)
    BY <1>22 DEF HandoverEnds
  <2> QED
    BY <1>22, <2>1, GivesUp DEF HandoverEnds
<1>23. ASSUME NEW n \in Nodes, StopLocal(n) PROVE OneCommitted'
  <2>1. \A m \in Nodes : Committed(m)' => Committed(m)
    BY <1>23 DEF StopLocal
  <2> QED
    BY <1>23, <2>1, GivesUp DEF StopLocal
<1>24. ASSUME NEW n \in Nodes, PostgresCrash(n) PROVE OneCommitted'
  <2>1. \A m \in Nodes : Committed(m)' => Committed(m)
    BY <1>24 DEF PostgresCrash, Begin
  <2> QED
    BY <1>24, <2>1, GivesUp DEF PostgresCrash
<1>25. ASSUME NEW n \in Nodes, NodeCrash(n) PROVE OneCommitted'
  <2>1. \A m \in Nodes : Committed(m)' => Committed(m)
    BY <1>25 DEF NodeCrash
  <2> QED
    BY <1>25, <2>1, GivesUp DEF NodeCrash
<1>26. ASSUME NEW n \in Nodes, OperatorStart(n) PROVE OneCommitted'
  <2>1. \A m \in Nodes : Committed(m)' => Committed(m)
    BY <1>26 DEF OperatorStart, Begin
  <2> QED
    BY <1>26, <2>1, GivesUp DEF OperatorStart
<1>27. ASSUME NEW n \in Nodes, OperatorRejoin(n) PROVE OneCommitted'
  <2>1. \A m \in Nodes : Committed(m)' => Committed(m)
    BY <1>27 DEF OperatorRejoin
  <2> QED
    BY <1>27, <2>1, GivesUp DEF OperatorRejoin
<1>28. CASE UNCHANGED vars
  BY <1>28, GivesUp DEF vars
<1> QED
  BY <1>1, <1>2, <1>3, <1>4, <1>5, <1>6, <1>7, <1>8, <1>9, <1>10, <1>11, <1>12, <1>13, <1>14,
     <1>15, <1>16, <1>17, <1>18, <1>19, <1>20, <1>21, <1>22, <1>23, <1>24, <1>25, <1>26, <1>27,
     <1>28 DEF Next, Startup, Running, Adversity

\* Every step keeps the one database, or cuts a clone short.
LEMMA DatabaseStep == TypeOK /\ NodeKnows /\ OneDatabase /\ [Next]_vars => OneDatabase'
<1> SUFFICES ASSUME TypeOK, NodeKnows, OneDatabase, [Next]_vars PROVE OneDatabase'
  OBVIOUS
<1> USE Basics DEF At, MayExit, CutShort, TypeOK, NodeKnows, OneDatabase
<1>1. ASSUME NEW n \in Nodes, GuardStart(n) PROVE OneDatabase'
  BY <1>1 DEF GuardStart, Begin
<1>2. ASSUME NEW n \in Nodes, BootstrapAsPrimary(n) PROVE OneDatabase'
  BY <1>2 DEF BootstrapAsPrimary
<1>3. ASSUME NEW n \in Nodes, BootstrapAsStandby(n) PROVE OneDatabase'
  BY <1>3 DEF BootstrapAsStandby
<1>4. ASSUME NEW n \in Nodes, BootstrapClone(n) PROVE OneDatabase'
  BY <1>4 DEF BootstrapClone
<1>5. ASSUME NEW n \in Nodes, BootstrapGivesUp(n) PROVE OneDatabase'
  BY <1>5 DEF BootstrapGivesUp
<1>6. ASSUME NEW n \in Nodes, DecideStandby(n) PROVE OneDatabase'
  BY <1>6 DEF DecideStandby
<1>7. ASSUME NEW n \in Nodes, DecideStart(n) PROVE OneDatabase'
  BY <1>7 DEF DecideStart
<1>8. ASSUME NEW n \in Nodes, DecideRejoin(n) PROVE OneDatabase'
  BY <1>8 DEF DecideRejoin
<1>9. ASSUME NEW n \in Nodes, DecideGivesUp(n) PROVE OneDatabase'
  BY <1>9 DEF DecideGivesUp
<1>10. ASSUME NEW n \in Nodes, RewindOK(n) PROVE OneDatabase'
  BY <1>10 DEF RewindOK
<1>11. ASSUME NEW n \in Nodes, RewindFailed(n) PROVE OneDatabase'
  BY <1>11 DEF RewindFailed
<1>12. ASSUME NEW n \in Nodes, CloneOK(n) PROVE OneDatabase'
  <2>1. content[Peer(n)] \in Int /\ Peer(n) \in Nodes /\ Peer(n) # n
    OBVIOUS
  <2>2. /\ data[Peer(n)] # "empty" /\ pc[Peer(n)] # "cloning" /\ pc[n] = "cloning"
        /\ data' = [data EXCEPT ![n] = "standby"]
        /\ content' = [content EXCEPT ![n] = content[Peer(n)]]
        /\ UNCHANGED <<origin, initdbs>> /\ (content[Peer(n)] = 1 \/ broken' = broken)
    BY <1>12 DEF CloneOK
  <2>3. pc' = [pc EXCEPT ![n] = "start"]
    BY <1>12 DEF CloneOK
  <2>4. CASE content[Peer(n)] = 1
    <3>1. \A m \in Nodes : content'[m] = 1 /\ data'[m] # "empty"
      BY <2>1, <2>2, <2>4
    <3>2. initdbs # 0
      BY <2>2
    <3> QED
      BY <2>2, <3>1, <3>2
  <2>5. CASE content[Peer(n)] # 1
    BY <2>1, <2>2, <2>3, <2>5
  <2> QED
    BY <2>4, <2>5
<1>13. ASSUME NEW n \in Nodes, CloneFailed(n) PROVE OneDatabase'
  BY <1>13 DEF CloneFailed
<1>14. ASSUME NEW n \in Nodes, StartPostgres(n) PROVE OneDatabase'
  BY <1>14 DEF StartPostgres
<1>15. ASSUME NEW n \in Nodes, StartOnNothing(n) PROVE OneDatabase'
  BY <1>15 DEF StartOnNothing
<1>16. ASSUME NEW n \in Nodes, FailoverDecides(n) PROVE OneDatabase'
  BY <1>16 DEF FailoverDecides
<1>17. ASSUME NEW n \in Nodes, ManualPromote(n) PROVE OneDatabase'
  BY <1>17 DEF ManualPromote
<1>18. ASSUME NEW n \in Nodes, PromoteOK(n) PROVE OneDatabase'
  BY <1>18 DEF PromoteOK
<1>19. ASSUME NEW n \in Nodes, PromoteFailed(n) PROVE OneDatabase'
  BY <1>19 DEF PromoteFailed
<1>20. ASSUME NEW n \in Nodes, HandoverCheck(n) PROVE OneDatabase'
  BY <1>20 DEF HandoverCheck
<1>21. ASSUME NEW n \in Nodes, HandoverAsk(n) PROVE OneDatabase'
  BY <1>21 DEF HandoverAsk
<1>22. ASSUME NEW n \in Nodes, HandoverEnds(n) PROVE OneDatabase'
  BY <1>22 DEF HandoverEnds
<1>23. ASSUME NEW n \in Nodes, StopLocal(n) PROVE OneDatabase'
  BY <1>23 DEF StopLocal
<1>24. ASSUME NEW n \in Nodes, PostgresCrash(n) PROVE OneDatabase'
  BY <1>24 DEF PostgresCrash, Begin
<1>25. ASSUME NEW n \in Nodes, NodeCrash(n) PROVE OneDatabase'
  <2>1. UNCHANGED <<data, content, origin, initdbs>>
    BY <1>25 DEF NodeCrash
  <2>2. \A m \in Nodes \ {n} : pc'[m] = pc[m]
    BY <1>25 DEF NodeCrash
  <2>3. ~broken' => ~broken /\ (pc[n] = "cloning" => ~CutShort(n))
    BY <1>25, Zenon DEF NodeCrash
  <2>4. CASE broken'
    BY <2>1, <2>4
  <2>5. CASE ~broken'
    BY <2>1, <2>2, <2>3, <2>5
  <2> QED
    BY <2>4, <2>5
<1>26. ASSUME NEW n \in Nodes, OperatorStart(n) PROVE OneDatabase'
  BY <1>26 DEF OperatorStart, Begin
<1>27. ASSUME NEW n \in Nodes, OperatorRejoin(n) PROVE OneDatabase'
  BY <1>27 DEF OperatorRejoin
<1>28. CASE UNCHANGED vars
  BY <1>28 DEF vars
<1> QED
  BY <1>1, <1>2, <1>3, <1>4, <1>5, <1>6, <1>7, <1>8, <1>9, <1>10, <1>11, <1>12, <1>13, <1>14,
     <1>15, <1>16, <1>17, <1>18, <1>19, <1>20, <1>21, <1>22, <1>23, <1>24, <1>25, <1>26, <1>27,
     <1>28 DEF Next, Startup, Running, Adversity

\* Spec keeps the whole inductive invariant.
THEOREM ClusterInvariant == Spec => []IInv
<1>1. IInv /\ [Next]_vars => IInv'
  BY TypeStep, KnowsStep, CommittedStep, DatabaseStep DEF IInv
<1> QED
  BY InitIInv, <1>1, PTL DEF Spec

\* The nodes' states keep their types.
THEOREM TypeCorrect == Spec => []TypeOK
<1>1. IInv => TypeOK
  BY DEF IInv
<1> QED
  BY ClusterInvariant, <1>1, PTL

\* failover.go, main.go, api.go: a decision to start as primary or to promote never
\* makes a second primary, unless it overlapped with the other node's decision or the
\* answer it went by hid the primary.
THEOREM SplitOnlyUnseen == Spec => []SplitBrainIsUnseen
<1>1. IInv => SplitBrainIsUnseen
  BY Basics DEF IInv, OneCommitted, BothCommitted, Committed, SplitBrainIsUnseen, TwoPrimaries
<1> QED
  BY ClusterInvariant, <1>1, PTL

\* bootstrap.go, rewind.go: the first database is on a node, or on its way to one,
\* unless a clone was cut short after PGDATA was wiped.
THEOREM FirstDatabaseSurvives == Spec => []DataSurvives
<1>1. IInv => DataSurvives
  BY Basics DEF IInv, TypeOK, OneDatabase, DataSurvives
<1> QED
  BY ClusterInvariant, <1>1, PTL
==============================================================================

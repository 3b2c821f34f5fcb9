------------------------------ MODULE Cluster ------------------------------
(***************************************************************************)
(* The two nodes of a cluster: how each decides, from what the other's     *)
(* /status says, to bootstrap, clone, rejoin, start, promote or hand over  *)
(* (startPostgres and rejoinAtStartupIfNeeded of main.go, bootstrap.go,    *)
(* rewind.go, handlePromote of api.go, failover.go, coordinateHandover).   *)
(* Every decision and the act it leads to are separate steps. A node can   *)
(* be lost at any moment and come back. Any question may go unanswered,    *)
(* and an answer need not show the role: a database that is slow or        *)
(* refuses the query hides it.                                             *)
(***************************************************************************)
EXTENDS Integers

CONSTANTS
  Policy,       \* PG_GUARD_SHUTDOWN_POLICY of both nodes
  MaxInitdb     \* bound: number of initdb runs

ASSUME ClusterAssumption ==
  /\ Policy \in {"require-switchover", "best-effort", "force"}
  /\ MaxInitdb \in Nat

Nodes == {0, 1}             \* the ordinals -0 and -1 of the host names
Peer(n) == 1 - n

VARIABLES
  pc,           \* where the main goroutine is
  pg,           \* postgres: "down", or accepting connections in a role
  data,         \* PGDATA: "empty" (no PG_VERSION), "primary", or "standby" (standby.signal)
  content,      \* the database in PGDATA: number of the initdb that made it, 0 for none
  origin,       \* what a clone is for: "bootstrap", "startup" or "request"
  armed,        \* a promotion is decided or requested, pg_promote() not called yet
  initdbs,      \* number of initdb runs so far
  overlapped,   \* history: both nodes are primary or have decided to become it, and
                \* the second decided when the first was not primary yet
  misled,       \* history: likewise, when the first was primary and the second was
                \* told something else
  broken,       \* history: a clone of -0 was cut short after PGDATA was wiped, or one of
                \* -1 with -0 wiped, and they have not both had the database since
  how           \* history: how a node became primary, "started" or "promoted"
vars == <<pc, pg, data, content, origin, armed, initdbs, overlapped, misled, broken, how>>

\* What fetchPeerStatus may get from GET /status of n. The role is "unknown" unless
\* the ping and isInRecovery succeed, and whoever asks waits 2s for an answer that
\* may take the queries' 3s (timeouts.go).
Status(n) == IF pc[n] = "off" THEN {"error"} ELSE {"unknown", "error"} \cup ({pg[n]} \ {"down"})

\* The node has decided to become primary and not done so yet.
Pending(n)   == armed[n] \/ (pc[n] = "start" /\ data[n] = "primary")
Committed(n) == pg[n] = "primary" \/ Pending(n)
BothCommitted == \A n \in Nodes : Committed(n)

\* A decision is taken, or a node gives up being primary or becoming it.
Note(blind) ==
  /\ overlapped' = (BothCommitted' /\ (overlapped \/ \E n \in Nodes : Pending(n) /\ pg'[n] # "primary"))
  /\ misled' = (BothCommitted' /\ (misled \/ blind))

\* n decides on an answer that does not show the primary there is.
NoteDecision(n, answer) == Note(pg[Peer(n)] = "primary" /\ answer # "primary")

\* A step that may end the process, and a promotion in flight with it.
MayExit(n) ==
  /\ armed' = [armed EXCEPT ![n] = @ /\ pc'[n] # "off"]
  /\ Note(FALSE)

\* startPostgres begins: bootstrap if PGDATA was never initialised.
Begin(n) == IF data[n] = "empty" THEN "bootstrap" ELSE "decide"

At(n, place, next) == pc[n] = place /\ pc' = [pc EXCEPT ![n] = next]

-----------------------------------------------------------------------------
(* Start of pg-guard: the listeners come first, then startPostgres. *)

GuardStart(n) ==
  /\ At(n, "off", Begin(n))
  /\ UNCHANGED <<pg, data, content, armed, origin, initdbs, overlapped, misled, broken, how>>

\* Mutant of BootstrapAsPrimary: -1 runs initdb as well when it sees no primary.
MutBootstrapAsPrimary(n) ==
  /\ initdbs < MaxInitdb
  /\ \E s \in Status(Peer(n)) : s # "primary"
  /\ At(n, "bootstrap", "decide")
  /\ initdbs' = initdbs + 1
  /\ data' = [data EXCEPT ![n] = "primary"]
  /\ content' = [content EXCEPT ![n] = initdbs + 1]
  /\ UNCHANGED <<pg, origin, armed, overlapped, misled, broken, how>>

\* runBootstrap on -0: the brief wait ends with no primary seen, initdb runs;
\* startPostgres goes on to the rejoin check.
BootstrapAsPrimary(n) ==
  /\ n = 0 /\ initdbs < MaxInitdb
  /\ \E s \in Status(Peer(n)) : s # "primary"
  /\ At(n, "bootstrap", "decide")
  /\ initdbs' = initdbs + 1
  /\ data' = [data EXCEPT ![n] = "primary"]
  /\ content' = [content EXCEPT ![n] = initdbs + 1]
  /\ UNCHANGED <<pg, origin, armed, overlapped, misled, broken, how>>

\* runBootstrap goes to bootstrapAsStandbyWithRetry: -1 always, -0 if it sees a primary.
BootstrapAsStandby(n) ==
  /\ n = 1 \/ "primary" \in Status(Peer(n))
  /\ At(n, "bootstrap", "await")
  /\ UNCHANGED <<pg, data, content, origin, armed, initdbs, overlapped, misled, broken, how>>

\* bootstrapAsStandbyWithRetry: the peer reports primary, runBasebackup begins.
BootstrapClone(n) ==
  /\ "primary" \in Status(Peer(n))
  /\ At(n, "await", "cloning")
  /\ origin' = [origin EXCEPT ![n] = "bootstrap"]
  /\ UNCHANGED <<pg, data, content, armed, initdbs, overlapped, misled, broken, how>>

\* bootstrapAsStandbyWithRetry sees no primary for 120s, or initdb fails: postgres is
\* not started, and pg-guard exits if this was a crash-restart (main.go:303-306).
BootstrapGivesUp(n) ==
  /\ \E s \in Status(Peer(n)) : s # "primary"
  /\ \E next \in {"loop", "off"} : At(n, "await", next) \/ (n = 0 /\ At(n, "bootstrap", next))
  /\ UNCHANGED <<pg, data, content, origin, initdbs, broken, how>>
  /\ MayExit(n)

-----------------------------------------------------------------------------
(* rejoinAtStartupIfNeeded. *)

\* Already a standby: nothing to ask.
DecideStandby(n) ==
  /\ data[n] = "standby"
  /\ At(n, "decide", "start")
  /\ UNCHANGED <<pg, data, content, armed, origin, initdbs, overlapped, misled, broken, how>>

\* The peer answers and does not say "primary": start with what is there.
DecideStart(n) ==
  /\ data[n] # "standby"
  /\ At(n, "decide", "start")
  /\ UNCHANGED <<pg, data, content, armed, origin, initdbs, broken, how>>
  /\ \E s \in Status(Peer(n)) \cap {"standby", "unknown"} : NoteDecision(n, s)

\* The peer says "primary": rejoinAsStandby.
DecideRejoin(n) ==
  /\ data[n] # "standby"
  /\ "primary" \in Status(Peer(n))
  /\ At(n, "decide", "rejoin")
  /\ origin' = [origin EXCEPT ![n] = "startup"]
  /\ UNCHANGED <<pg, data, content, armed, initdbs, overlapped, misled, broken, how>>

\* No answer for 30s: postgres is not started; a crash-restart ends pg-guard.
DecideGivesUp(n) ==
  /\ data[n] # "standby"
  /\ "error" \in Status(Peer(n))
  /\ \E next \in {"loop", "off"} : At(n, "decide", next)
  /\ UNCHANGED <<pg, data, content, origin, initdbs, broken, how>>
  /\ MayExit(n)

\* pg_rewind works between copies of one database, from a running primary.
RewindOK(n) ==
  /\ pg[Peer(n)] = "primary" /\ content[Peer(n)] = content[n] /\ data[n] # "empty"
  /\ At(n, "rejoin", "start")
  /\ data' = [data EXCEPT ![n] = "standby"]
  /\ UNCHANGED <<pg, content, armed, origin, initdbs, overlapped, misled, broken, how>>

\* pg_rewind fails: runBasebackup clears PGDATA first.
RewindFailed(n) ==
  /\ At(n, "rejoin", "cloning")
  /\ data' = [data EXCEPT ![n] = "empty"]
  /\ content' = [content EXCEPT ![n] = 0]
  /\ UNCHANGED <<pg, armed, origin, initdbs, overlapped, misled, broken, how>>

\* pg_basebackup -R from the peer's running postgres.
CloneOK(n) ==
  /\ pg[Peer(n)] # "down"
  /\ At(n, "cloning", "start")
  /\ data' = [data EXCEPT ![n] = "standby"]
  /\ content' = [content EXCEPT ![n] = content[Peer(n)]]
  /\ broken' = (broken /\ content[Peer(n)] # 1)
  /\ UNCHANGED <<pg, armed, origin, initdbs, overlapped, misled, how>>

\* The clone that ends here has wiped PGDATA: -0 will run initdb when it sees no
\* primary, and -1 is in want of a database if -0 has none.
CutShort(n) == origin[n] # "bootstrap" /\ (n = 0 \/ content[0] # 1)

\* pg_basebackup fails: bootstrap and startup rejoin try again until their
\* deadline (a crash-restart ends pg-guard then); a request fails.
CloneFailed(n) ==
  /\ \E next \in {"loop"} \cup CASE origin[n] = "bootstrap" -> {"await", "off"}
                                [] origin[n] = "startup"   -> {"decide", "off"}
                                [] OTHER                   -> {} :
       At(n, "cloning", next)
  /\ broken' = (broken \/ CutShort(n))
  /\ UNCHANGED <<pg, data, content, origin, initdbs, how>>
  /\ MayExit(n)

\* Mutant of StartPostgres: postgres is taken to run over an empty PGDATA.
MutStartPostgres(n) ==
  /\ At(n, "start", "loop")
  /\ pg' = [pg EXCEPT ![n] = data[n]]
  /\ how' = [how EXCEPT ![n] = IF data[n] = "primary" THEN "started" ELSE how[n]]
  /\ UNCHANGED <<data, content, armed, origin, initdbs, overlapped, misled, broken>>

\* sup.start: the role follows from standby.signal.
StartPostgres(n) ==
  /\ data[n] # "empty"
  /\ At(n, "start", "loop")
  /\ pg' = [pg EXCEPT ![n] = data[n]]
  /\ how' = [how EXCEPT ![n] = IF data[n] = "primary" THEN "started" ELSE how[n]]
  /\ UNCHANGED <<data, content, armed, origin, initdbs, overlapped, misled, broken>>

\* sup.start over an empty PGDATA: postgres exits at once, a crash like any other.
StartOnNothing(n) ==
  /\ data[n] = "empty"
  /\ \E next \in {"bootstrap", "off"} : At(n, "start", next)
  /\ UNCHANGED <<pg, data, content, origin, initdbs, broken, how>>
  /\ MayExit(n)

-----------------------------------------------------------------------------
(* Promotion. *)

\* The failover monitor's timeout has passed with no answer from the peer: its
\* pg-guard is away, or its database keeps /status waiting (peerHealthy).
FailoverDecides(n) ==
  /\ pc[n] # "off" /\ pg[n] = "standby" /\ ~armed[n]
  /\ "error" \in Status(Peer(n))
  /\ armed' = [armed EXCEPT ![n] = TRUE]
  /\ UNCHANGED <<pc, pg, data, content, origin, initdbs, broken, how>>
  /\ NoteDecision(n, "error")

\* Mutant of ManualPromote: the role in the peer's answer is not looked at.
MutManualPromote(n) ==
  /\ pc[n] # "off" /\ ~armed[n]
  /\ armed' = [armed EXCEPT ![n] = TRUE]
  /\ UNCHANGED <<pc, pg, data, content, origin, initdbs, broken, how>>
  /\ \E s \in Status(Peer(n)) : NoteDecision(n, s)

\* POST /api/promote without force: refused only if the peer says "primary".
ManualPromote(n) ==
  /\ pc[n] # "off" /\ ~armed[n]
  /\ armed' = [armed EXCEPT ![n] = TRUE]
  /\ UNCHANGED <<pc, pg, data, content, origin, initdbs, broken, how>>
  /\ \E s \in Status(Peer(n)) \ {"primary"} : NoteDecision(n, s)

\* SELECT pg_promote(): postgres removes standby.signal.
PromoteOK(n) ==
  /\ armed[n] /\ pg[n] = "standby"
  /\ armed' = [armed EXCEPT ![n] = FALSE]
  /\ pg' = [pg EXCEPT ![n] = "primary"]
  /\ data' = [data EXCEPT ![n] = "primary"]
  /\ how' = [how EXCEPT ![n] = "promoted"]
  /\ UNCHANGED <<pc, content, origin, initdbs, overlapped, misled, broken>>

PromoteFailed(n) ==
  /\ armed[n]
  /\ armed' = [armed EXCEPT ![n] = FALSE]
  /\ UNCHANGED <<pc, pg, data, content, origin, initdbs, broken, how>>
  /\ Note(FALSE)

-----------------------------------------------------------------------------
(* Handover. *)

\* coordinateHandover finds its postgres primary, or cannot tell and takes it for
\* one. require-switchover hands over only to a standby.
HandoverCheck(n) ==
  /\ pg[n] # "down" /\ Policy # "force"
  /\ Policy = "require-switchover" => "standby" \in Status(Peer(n))
  /\ At(n, "loop", "stopping")
  /\ UNCHANGED <<pg, data, content, armed, origin, initdbs, overlapped, misled, broken, how>>

\* stopLocal, then requestPeerPromote: the peer's handler is told to force.
HandoverAsk(n) ==
  /\ At(n, "stopping", "asked")
  /\ pg' = [pg EXCEPT ![n] = "down"]
  /\ armed' = [armed EXCEPT ![Peer(n)] = @ \/ pc[Peer(n)] # "off"]
  /\ UNCHANGED <<data, content, origin, initdbs, broken, how>>
  /\ Note(FALSE)

\* The peer confirms, or does not in time; the process exits or stays.
HandoverEnds(n) ==
  /\ \E next \in {"loop", "off"} : At(n, "asked", next)
  /\ UNCHANGED <<pg, data, content, origin, initdbs, broken, how>>
  /\ MayExit(n)

\* A stop that promotes nobody: a standby's stop, reboot mode, force.
StopLocal(n) ==
  /\ pg[n] # "down"
  /\ \E next \in {"loop", "off"} : At(n, "loop", next)
  /\ pg' = [pg EXCEPT ![n] = "down"]
  /\ UNCHANGED <<data, content, origin, initdbs, broken, how>>
  /\ MayExit(n)

-----------------------------------------------------------------------------
(* Failures and the operator. *)

\* Postgres crashes; pg-guard restarts it, or exits with the budget exhausted.
PostgresCrash(n) ==
  /\ pg[n] # "down"
  /\ \E next \in {Begin(n), "off"} : At(n, "loop", next)
  /\ pg' = [pg EXCEPT ![n] = "down"]
  /\ UNCHANGED <<data, content, origin, initdbs, broken, how>>
  /\ MayExit(n)

\* The host or the container is lost.
NodeCrash(n) ==
  /\ pc[n] # "off"
  /\ pc' = [pc EXCEPT ![n] = "off"]
  /\ pg' = [pg EXCEPT ![n] = "down"]
  /\ armed' = [armed EXCEPT ![n] = FALSE]
  /\ broken' = (broken \/ (pc[n] = "cloning" /\ CutShort(n)))
  /\ UNCHANGED <<data, content, origin, initdbs, how>>
  /\ Note(FALSE)

\* POST /api/start and POST /api/rejoin, with postgres stopped.
OperatorStart(n) ==
  /\ pg[n] = "down"
  /\ At(n, "loop", Begin(n))
  /\ UNCHANGED <<pg, data, content, armed, origin, initdbs, overlapped, misled, broken, how>>

OperatorRejoin(n) ==
  /\ pg[n] = "down"
  /\ At(n, "loop", "rejoin")
  /\ origin' = [origin EXCEPT ![n] = "request"]
  /\ UNCHANGED <<pg, data, content, armed, initdbs, overlapped, misled, broken, how>>

-----------------------------------------------------------------------------
Init ==
  /\ pc = [n \in Nodes |-> "off"]
  /\ pg = [n \in Nodes |-> "down"]
  /\ data = [n \in Nodes |-> "empty"]
  /\ content = [n \in Nodes |-> 0]
  /\ origin = [n \in Nodes |-> "bootstrap"]
  /\ armed = [n \in Nodes |-> FALSE]
  /\ initdbs = 0 /\ overlapped = FALSE /\ misled = FALSE /\ broken = FALSE
  /\ how = [n \in Nodes |-> "none"]

Startup(n) ==
  \/ GuardStart(n) \/ BootstrapAsPrimary(n) \/ BootstrapAsStandby(n) \/ BootstrapClone(n)
  \/ BootstrapGivesUp(n)
  \/ DecideStandby(n) \/ DecideStart(n) \/ DecideRejoin(n) \/ DecideGivesUp(n)
  \/ RewindOK(n) \/ RewindFailed(n) \/ CloneOK(n) \/ CloneFailed(n)
  \/ StartPostgres(n) \/ StartOnNothing(n)

Running(n) ==
  \/ FailoverDecides(n) \/ ManualPromote(n) \/ PromoteOK(n) \/ PromoteFailed(n)
  \/ HandoverCheck(n) \/ HandoverAsk(n) \/ HandoverEnds(n) \/ StopLocal(n)

Adversity(n) == PostgresCrash(n) \/ NodeCrash(n) \/ OperatorStart(n) \/ OperatorRejoin(n)

Next == \E n \in Nodes : Startup(n) \/ Running(n) \/ Adversity(n)

Spec == Init /\ [][Next]_vars

-----------------------------------------------------------------------------
TypeOK ==
  /\ pc \in [Nodes -> {"off", "bootstrap", "await", "cloning", "decide", "rejoin", "start", "loop",
                       "stopping", "asked"}]
  /\ pg \in [Nodes -> {"down", "standby", "primary"}]
  /\ data \in [Nodes -> {"empty", "primary", "standby"}]
  /\ content \in [Nodes -> 0..MaxInitdb]
  /\ origin \in [Nodes -> {"bootstrap", "startup", "request"}]
  /\ armed \in [Nodes -> BOOLEAN]
  /\ initdbs \in 0..MaxInitdb
  /\ overlapped \in BOOLEAN /\ misled \in BOOLEAN /\ broken \in BOOLEAN
  /\ how \in [Nodes -> {"none", "started", "promoted"}]

TwoPrimaries == \A n \in Nodes : pg[n] = "primary"

\* A second primary comes only from a decision that could not see the first. Either
\* the first was not primary yet (two decisions overlap), or its answer hid its role
\* (metrics_server.go:158-168, peer.go:27); and neither has stopped or given up since.
\* No decision on an answer "primary", and no leftover of an earlier overlap or wrong
\* answer, makes a second one, through any crashes, clones and handovers.
SplitBrainIsUnseen == TwoPrimaries => overlapped \/ misled

\* The database of the first initdb is on some node for ever. It is in danger only
\* while a clone runs or after one was cut short, runBasebackup having wiped PGDATA
\* (rewind.go:83-94): one of -0, or of -1 with -0 wiped, and until both have it again.
DataSurvives ==
  initdbs > 0 => broken \/ \E n \in Nodes : content[n] = 1 \/ pc[n] = "cloning"

-----------------------------------------------------------------------------
(* The parts of the inductive invariant behind the invariants above. *)

\* Where postgres can run, and what a node that is away cannot do.
NodeKnows ==
  \A n \in Nodes :
    /\ pg[n] # "down" => pc[n] \in {"loop", "stopping"} /\ data[n] # "empty"
    /\ pc[n] = "off" => ~armed[n]
    /\ pc[n] = "bootstrap" => data[n] = "empty"
    /\ pc[n] = "rejoin" => origin[n] # "bootstrap"

\* Only one node is primary or has decided to become it, unless the second decided
\* without seeing the first.
OneCommitted == BothCommitted => overlapped \/ misled

\* Short of such a clone there is no other database, and -0 is without it only while
\* it clones to rejoin.
OneDatabase ==
  /\ initdbs = 0 => \A n \in Nodes : data[n] = "empty"
  /\ broken \/
       /\ \A n \in Nodes : content[n] = IF data[n] = "empty" THEN 0 ELSE 1
       /\ initdbs > 0 /\ data[0] = "empty" => pc[0] = "cloning" /\ origin[0] # "bootstrap"

IInv == TypeOK /\ NodeKnows /\ OneCommitted /\ OneDatabase

-----------------------------------------------------------------------------
(* What comments say of the code, and it does not do. *)

\* main.go:384-401: two nodes restarted together must not both start as primary;
\* "only an inconclusive result keeps retrying". A peer whose postgres is not up
\* yet answers with role "unknown", and that passes for a definitive "no": no answer
\* has to hide a primary that runs.
RestartNeverSplits == ~(TwoPrimaries /\ ~misled /\ \A n \in Nodes : how[n] = "started")

\* bootstrap.go:47-48: initdb on -0 is "a tiebreak for the case where nothing else
\* exists": it never runs while the peer has a database.
BootstrapIsFirst == [][initdbs' # initdbs => \A n \in Nodes : content[n] = 0]_vars
=============================================================================

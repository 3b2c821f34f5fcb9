----------------------------- MODULE NodeSetup -----------------------------
(***************************************************************************)
(* pg_hba.conf, the replication role and the database of one node: initdb  *)
(* and writeBootstrapHBA, ensureRoleAndDatabase and its callers            *)
(* (bootstrap.go, failover.go), and `pg-guard -set-password`               *)
(* (setpassword.go), a process of its own. They all rewrite pg_hba.conf    *)
(* with hbaUpsertLine, which reads the file, truncates it and writes it    *)
(* back, without a lock and without a temporary file.                      *)
(*                                                                         *)
(* The file is reduced to three parts: initdb's own lines, the replication *)
(* grant and the application line. A line that another write left junk     *)
(* behind is "garbled". The role differs from the superuser, and the       *)
(* configured password is the one in force.                                *)
(***************************************************************************)
EXTENDS Integers

CONSTANTS
  Addrs,       \* addresses the peer's host name resolves to over time
  Setups,      \* callers of ensureRoleAndDatabaseBlocking: startup, promote, start, rejoin
  Auth,        \* authentication of bootstrapAsPrimary: "scram" with POSTGRES_PASSWORD set
  MaxCalls,    \* bound: runs of -set-password and of ensureRoleAndDatabaseBlocking
  MaxEvents    \* bound: stops, crashes, re-clones, moves of the peer, calls that fail

Down == "down"          \* the peer is away, its name does not resolve
Monitor == "monitor"    \* the failover monitor's refresh as primary
Cli == "cli"            \* pg-guard -set-password
Writers == Setups \cup {Monitor, Cli}

ASSUME SetupAssumption ==
  /\ Auth \in {"trust", "scram"}
  /\ MaxCalls \in Nat /\ MaxEvents \in Nat
  /\ Setups \cap {Monitor, Cli} = {}
  /\ Addrs \cap {Down, "none", "name", "garbled"} = {}

VARIABLES
  peer,        \* the peer's present address, or Down
  boot,        \* bootstrapAsPrimary: "initdb", "hba", "done"
  up, primary, \* postgres accepts connections; it is not in recovery
  file,        \* pg_hba.conf
  loaded,      \* the rules postgres has in effect
  role,        \* the replication role exists (the database follows the same code)
  pc,          \* per writer: where it is
  conn,        \* per writer: its connection to postgres works
  want,        \* per writer: the address it resolved
  seen,        \* per writer: the file as it read it
  calls,       \* such runs so far
  events,      \* such events so far
  hardened,    \* history: -set-password wrote or found its line with nobody else amid an upsert
  \* history, each until postgres has loaded a file that is Sound again:
  raced,       \* two upserts, or an upsert and a re-clone, overlapped
  torn,        \* a crash or an error came between truncation and write
  cut,         \* bootstrap ended between initdb and writeBootstrapHBA
  lost         \* a reload failed, and nothing has loaded the file since
node    == <<peer, boot, up, primary, role>>
writers == <<pc, conn, want, seen>>
history == <<hardened, raced, torn, cut>>
counts  == <<calls, events>>
vars == <<node, file, loaded, writers, counts, history, lost>>

Files == [base : BOOLEAN, repl : Addrs \cup {"none", "name", "garbled"},
          app : {"none", "trust", "scram", "garbled"}]
Empty == [base |-> FALSE, repl |-> "none", app |-> "none"]
Initdb == [Empty EXCEPT !.base = TRUE]

\* Postgres takes a file with at least one line and no line it cannot parse.
Loadable(f) == f # Empty /\ f.repl # "garbled" /\ f.app # "garbled"

\* A file that admits the local postgres tools and the applications.
Whole(f) == f.base /\ f.app \in {"trust", "scram"}

\* Writers between the ReadFile and the WriteFile of hbaUpsertLine.
InUpsert == {w \in Writers : pc[w] \in {"truncate", "write"}}

\* The file is whole, and nobody holds a copy of it to write back.
Sound == InUpsert = {} /\ Whole(file) /\ Loadable(file)

\* Postgres loads the file: if it is sound, what went wrong before is over.
NoteLoad ==
  /\ raced' = (raced /\ ~Sound)
  /\ torn' = (torn /\ ~Sound)
  /\ cut' = (cut /\ ~Sound)
  /\ UNCHANGED hardened

\* 127.0.0.1 is admitted by initdb's lines or the application line, the Unix
\* socket by initdb's lines only.
Admitted(w) == up /\ (loaded.base \/ (w # Cli /\ loaded.app # "none"))

\* Writer w goes on to place. Its address and its copy of the file are forgotten
\* behind the write, its connection is closed at its end.
Goto(w, place) ==
  /\ pc' = [pc EXCEPT ![w] = place]
  /\ conn' = IF place = "idle" THEN [conn EXCEPT ![w] = FALSE] ELSE conn
  /\ want' = IF place \in {"reload", "create", "idle"} THEN [want EXCEPT ![w] = "none"] ELSE want
  /\ seen' = IF place \in {"reload", "create", "idle"} THEN [seen EXCEPT ![w] = Empty] ELSE seen

\* One more such event, within the bound.
Event == events < MaxEvents /\ events' = events + 1

\* After the upsert: ensureRoleAndDatabase goes on, -set-password returns.
AfterUpsert(w) == IF w = Cli THEN "idle" ELSE "create"

-----------------------------------------------------------------------------
(* bootstrapAsPrimary. *)

\* writeBootstrapHBA appends the grant and the application line. An address
\* that cannot be resolved leaves a grant for the host name.
BootstrapHBA ==
  /\ boot = "hba"
  /\ boot' = "done"
  /\ file' = [file EXCEPT !.repl = IF peer = Down THEN "name" ELSE peer, !.app = Auth]
  /\ UNCHANGED <<peer, up, primary, role, loaded, writers, counts, history, lost>>

\* initdb has run, so PG_VERSION exists; a crash or an error then keeps the
\* rest of the bootstrap from ever running.
BootstrapCut ==
  /\ Event
  /\ boot = "hba"
  /\ boot' = "done" /\ cut' = TRUE
  /\ UNCHANGED <<peer, up, primary, role, file, loaded, writers, calls, hardened, raced, torn,
                 lost>>

RunInitdb ==
  /\ boot = "initdb"
  /\ boot' = "hba"
  /\ file' = Initdb
  /\ UNCHANGED <<peer, up, primary, role, loaded, writers, counts, history, lost>>

-----------------------------------------------------------------------------
(* Postgres, the peer and events. *)

\* Postgres reads pg_hba.conf at its start and refuses to start without it.
PostgresUp ==
  /\ boot = "done" /\ ~up /\ Loadable(file)
  /\ up' = TRUE /\ loaded' = file /\ lost' = FALSE
  /\ NoteLoad
  /\ UNCHANGED <<peer, boot, primary, role, file, writers, counts>>

PostgresDown ==
  /\ Event
  /\ up
  /\ up' = FALSE /\ loaded' = Empty /\ lost' = FALSE
  /\ conn' = [w \in Writers |-> FALSE]
  /\ UNCHANGED <<peer, boot, primary, role, file, pc, want, seen, calls, history>>

Promoted ==
  /\ up /\ ~primary
  /\ primary' = TRUE
  /\ UNCHANGED <<peer, boot, up, role, file, loaded, writers, counts, history, lost>>

\* rejoinAsStandby: pg_rewind and pg_basebackup bring the peer's pg_hba.conf,
\* with a grant for whoever was its peer. The copy is sound unless a writer is
\* about to write over it.
Rejoined ==
  /\ Event
  /\ boot = "done" /\ ~up
  /\ primary' = FALSE
  /\ \E a \in Addrs \cup {"name"}, m \in {"trust", "scram"} :
       file' = [base |-> TRUE, repl |-> a, app |-> m]
  /\ role' = TRUE
  /\ hardened' = FALSE
  /\ raced' = (InUpsert # {})
  /\ torn' = (torn /\ InUpsert # {})
  /\ cut' = (cut /\ InUpsert # {})
  /\ UNCHANGED <<peer, boot, up, loaded, writers, calls, lost>>

PeerMoves ==
  /\ Event
  /\ peer' \in (Addrs \cup {Down}) \ {peer}
  /\ UNCHANGED <<boot, up, primary, role, file, loaded, writers, calls, history, lost>>

\* The container dies, with everything in it.
Crash ==
  /\ Event
  /\ boot = "done"
  /\ up' = FALSE /\ loaded' = Empty /\ lost' = FALSE
  /\ pc' = [w \in Writers |-> "idle"]
  /\ conn' = [w \in Writers |-> FALSE]
  /\ want' = [w \in Writers |-> "none"]
  /\ seen' = [w \in Writers |-> Empty]
  /\ torn' = (torn \/ \E w \in Writers : pc[w] = "write")
  /\ UNCHANGED <<peer, boot, primary, role, file, calls, hardened, raced, cut>>

\* The operator interrupts -set-password.
CliKilled ==
  /\ Event
  /\ pc[Cli] # "idle"
  /\ Goto(Cli, "idle")
  /\ torn' = (torn \/ pc[Cli] = "write")
  /\ lost' = (lost \/ (pc[Cli] = "reload" /\ up /\ loaded # file))
  /\ UNCHANGED <<node, file, loaded, calls, hardened, raced, cut>>

-----------------------------------------------------------------------------
(* ensureRoleAndDatabase and runSetPassword. *)

\* The monitor's refresh runs as primary, if the peer is reachable.
Begin(w) ==
  /\ pc[w] = "idle" /\ boot = "done"
  /\ IF w = Monitor THEN up /\ primary /\ peer # Down /\ UNCHANGED calls
     ELSE calls < MaxCalls /\ calls' = calls + 1
  /\ Goto(w, "connect")
  /\ UNCHANGED <<node, file, loaded, events, history, lost>>

\* On a standby there is nothing to ensure. -set-password alters the roles of a
\* primary, and fails if the replication role is missing.
EndsEarly(w) == IF w = Cli THEN primary /\ ~role ELSE ~primary

\* The address of the peer, if its name resolves.
Resolved(w) == IF w = Cli \/ peer = Down THEN "none" ELSE peer

\* Mutant of Connect: the error of the lookup is not looked at.
MutConnect(w) ==
  /\ pc[w] = "connect" /\ Admitted(w)
  /\ IF EndsEarly(w)
     THEN Goto(w, "idle")
     ELSE /\ pc' = [pc EXCEPT ![w] = "read"]
          /\ conn' = [conn EXCEPT ![w] = TRUE]
          /\ want' = [want EXCEPT ![w] = IF w = Cli THEN "none" ELSE peer]
          /\ UNCHANGED seen
  /\ UNCHANGED <<node, file, loaded, counts, history, lost>>

\* Connected. A peer's name that does not resolve is only a warning, and
\* ensureRoleAndDatabase goes on with the role.
Connect(w) ==
  /\ pc[w] = "connect" /\ Admitted(w)
  /\ IF EndsEarly(w)
     THEN Goto(w, "idle")
     ELSE /\ pc' = [pc EXCEPT ![w] = IF w # Cli /\ peer = Down THEN "create" ELSE "read"]
          /\ conn' = [conn EXCEPT ![w] = TRUE]
          /\ want' = [want EXCEPT ![w] = Resolved(w)]
          /\ UNCHANGED seen
  /\ UNCHANGED <<node, file, loaded, counts, history, lost>>

\* No connection: ensureRoleAndDatabaseBlocking keeps trying until its deadline.
ConnectFails(w) ==
  /\ pc[w] = "connect" /\ ~Admitted(w)
  /\ Goto(w, "idle")
  /\ UNCHANGED <<node, file, loaded, counts, history, lost>>

\* Mutant of UpToDate: any grant will do.
MutUpToDate(f, w) == IF w = Cli THEN f.app = "scram" ELSE f.repl # "none"

\* The line w wants is in f.
UpToDate(f, w) == IF w = Cli THEN f.app = "scram" ELSE f.repl = want[w]

\* Mutant of Upserted: the application line goes back to the configured mode.
MutUpserted(f, w) ==
  IF w = Cli THEN [f EXCEPT !.app = "scram"] ELSE [f EXCEPT !.repl = want[w], !.app = Auth]

\* f without the lines that start with w's prefix, and with the line w wants.
Upserted(f, w) ==
  IF w = Cli THEN [f EXCEPT !.app = "scram"] ELSE [f EXCEPT !.repl = want[w]]

\* SHOW hba_file and ReadFile. Up to date: no write and no reload.
Read(w) ==
  /\ pc[w] = "read"
  /\ IF ~conn[w] THEN Goto(w, AfterUpsert(w)) /\ UNCHANGED <<hardened, raced>>
     ELSE IF UpToDate(file, w)
     THEN /\ Goto(w, AfterUpsert(w))
          /\ hardened' = (hardened \/ (w = Cli /\ InUpsert = {}))
          /\ UNCHANGED raced
     ELSE /\ pc' = [pc EXCEPT ![w] = "truncate"]
          /\ seen' = [seen EXCEPT ![w] = file]
          /\ raced' = (raced \/ InUpsert # {})
          /\ UNCHANGED <<conn, want, hardened>>
  /\ UNCHANGED <<node, file, loaded, counts, torn, cut, lost>>

\* os.WriteFile opens the file with O_TRUNC.
Truncate(w) ==
  /\ pc[w] = "truncate"
  /\ file' = Empty
  /\ Goto(w, "write")
  /\ UNCHANGED <<node, loaded, counts, history, lost>>

\* f with junk behind the line that w wrote last.
Junk(f, w) == IF w = Cli THEN [f EXCEPT !.app = "garbled"] ELSE [f EXCEPT !.repl = "garbled"]

\* Mutant of Written: only the wanted line is written back.
MutWritten(w) == {Upserted(Empty, w)}

\* What os.WriteFile leaves. If somebody has written since the truncation, the
\* rest of the longer content stays behind the shorter one.
Written(w) ==
  LET new == Upserted(seen[w], w)
  IN IF file = Empty THEN {new} ELSE {new, Junk(new, w), Junk(file, w)}

Write(w) ==
  /\ pc[w] = "write"
  /\ file' \in Written(w)
  /\ hardened' = (hardened \/ (w = Cli /\ InUpsert = {Cli}))
  /\ Goto(w, "reload")
  /\ UNCHANGED <<node, loaded, counts, raced, torn, cut, lost>>

\* The write fails, the disk being full: the file stays truncated.
WriteFails(w) ==
  /\ Event
  /\ pc[w] = "write"
  /\ torn' = TRUE
  /\ Goto(w, AfterUpsert(w))
  /\ UNCHANGED <<node, file, loaded, calls, hardened, raced, cut, lost>>

\* Mutant of Reload: the reload is forgotten.
MutReload(w) ==
  /\ pc[w] = "reload" /\ conn[w]
  /\ Goto(w, AfterUpsert(w))
  /\ UNCHANGED <<node, file, loaded, counts, history, lost>>

\* pg_reload_conf(): postgres keeps its rules if it cannot take the file.
Reload(w) ==
  /\ pc[w] = "reload" /\ conn[w]
  /\ loaded' = IF Loadable(file) THEN file ELSE loaded
  /\ lost' = (lost /\ loaded' # file)
  /\ Goto(w, AfterUpsert(w))
  /\ NoteLoad
  /\ UNCHANGED <<node, file, counts>>

\* The connection is gone or the deadline has passed.
ReloadFails(w) ==
  /\ pc[w] = "reload"
  /\ IF conn[w] THEN Event ELSE UNCHANGED events
  /\ lost' = (lost \/ (up /\ loaded # file))
  /\ Goto(w, AfterUpsert(w))
  /\ UNCHANGED <<node, file, loaded, calls, history>>

\* CREATE ROLE, CREATE DATABASE, CHECKPOINT: what fails is only a warning.
Create(w) ==
  /\ pc[w] = "create"
  /\ role' \in {role, role \/ (conn[w] /\ primary)}
  /\ Goto(w, "idle")
  /\ UNCHANGED <<peer, boot, up, primary, file, loaded, counts, history, lost>>

-----------------------------------------------------------------------------
Init ==
  /\ peer \in Addrs \cup {Down}
  /\ boot = "initdb" /\ up = FALSE /\ primary = TRUE
  /\ file = Empty /\ loaded = Empty /\ role = FALSE
  /\ pc = [w \in Writers |-> "idle"]
  /\ conn = [w \in Writers |-> FALSE]
  /\ want = [w \in Writers |-> "none"]
  /\ seen = [w \in Writers |-> Empty]
  /\ calls = 0 /\ events = 0
  /\ hardened = FALSE /\ raced = FALSE /\ torn = FALSE /\ cut = FALSE /\ lost = FALSE

Step(w) == Connect(w) \/ ConnectFails(w) \/ Read(w) \/ Truncate(w) \/ Write(w)
           \/ WriteFails(w) \/ Reload(w) \/ ReloadFails(w) \/ Create(w)

Environment == RunInitdb \/ BootstrapHBA \/ BootstrapCut \/ PostgresUp \/ PostgresDown \/ Promoted
               \/ Rejoined \/ PeerMoves \/ Crash \/ CliKilled

Next == Environment \/ \E w \in Writers : Begin(w) \/ Step(w)

\* Every step of a writer has a deadline. The monitor's ticker keeps firing.
\* Nobody needs to run -set-password, start or promote.
Fairness ==
  /\ \A w \in Writers : WF_vars(Step(w))
  /\ WF_vars(Begin(Monitor))

Spec == Init /\ [][Next]_vars
FairSpec == Spec /\ Fairness

-----------------------------------------------------------------------------
TypeOK ==
  /\ peer \in Addrs \cup {Down}
  /\ boot \in {"initdb", "hba", "done"}
  /\ {up, primary, role, hardened, raced, torn, cut, lost} \subseteq BOOLEAN
  /\ file \in Files /\ loaded \in Files
  /\ pc \in [Writers -> {"idle", "connect", "read", "truncate", "write", "reload", "create"}]
  /\ conn \in [Writers -> BOOLEAN]
  /\ want \in [Writers -> Addrs \cup {"none"}]
  /\ seen \in [Writers -> Files]
  /\ calls \in 0..MaxCalls /\ events \in 0..MaxEvents

\* docker/README.md, Setting a password later, "Never downgrades back to trust":
\* once -set-password has put its line in place with nobody else between a read
\* and a write of the file, no race, crash or failed write of any writer brings
\* trust back; only a re-clone replaces the file.
HardenedStays == hardened => file.app # "trust"

\* While no writer is between its write and its reload, the rules in effect are
\* those of the file, unless a reload failed (ensureReplicationHBA and
\* ensureAppHBA do not reload a file that is up to date) or writers collided, and
\* postgres has not loaded a sound file since.
RulesInEffect ==
  up /\ ~lost /\ ~raced /\ ~torn /\ (\A w \in Writers : pc[w] \notin {"write", "reload"})
    => loaded = file

\* hbaUpsertLine keeps every line it does not own: whatever the order of the
\* writers, initdb's lines and the application line are in the file or in the
\* hands of the writer that has truncated it, unless two upserts overlapped, one
\* was cut short, or the bootstrap was, and it has not been sound since.
FileIntact ==
  boot = "done" /\ ~raced /\ ~torn /\ ~cut =>
    \/ Whole(file)
    \/ \E w \in Writers : pc[w] = "write" /\ Whole(seen[w])

\* failover.go:49-72: the monitor's refresh points the grant at the peer with no
\* operator's help: if postgres stays up as primary, and the peer keeps the
\* address a, then postgres ends up with a grant for a, whatever stale addresses
\* other writers still hold, unless a reload was lost or the file cannot be loaded.
Settled(a) ==
  up /\ primary /\ peer = a /\ Admitted(Monitor) /\ ~lost /\ ~torn /\ file.app # "garbled"
GrantHeals == \A a \in Addrs : <>[]Settled(a) => <>[](loaded.repl = a)

-----------------------------------------------------------------------------
(* The parts of the inductive invariant behind the invariants above. *)

\* Nothing runs before bootstrapAsPrimary is through.
BootFirst ==
  /\ boot # "done" => ~up /\ ~hardened /\ \A w \in Writers : pc[w] = "idle"
  /\ boot = "hba" => file = Initdb

\* Who wants the grant has an address; without a race, an upsert is alone and
\* the file that it truncated stays empty.
UpsertKnows ==
  /\ \A w \in Writers \ {Cli} : pc[w] \in {"read", "truncate", "write"} => want[w] \in Addrs
  /\ ~raced => /\ \A v, w \in InUpsert : v = w
               /\ \A w \in Writers : pc[w] = "write" => file = Empty

\* Once -set-password is safe, nobody holds a copy with trust.
NobodyHoldsTrust == hardened => \A w \in InUpsert : seen[w].app # "trust"

\* Without a race or a cut-off write, postgres can load the file, or the copy of
\* the writer that has truncated it.
CopiesGood ==
  ~raced /\ ~torn =>
    /\ \A w \in InUpsert : Loadable(seen[w]) /\ (cut \/ Whole(seen[w]))
    /\ boot = "done" /\ (\A w \in Writers : pc[w] # "write") => Loadable(file)

IInv == TypeOK /\ BootFirst /\ UpsertKnows /\ HardenedStays /\ NobodyHoldsTrust /\ CopiesGood
        /\ RulesInEffect /\ FileIntact

-----------------------------------------------------------------------------
(* What comments and documentation say of the code, and it does not do. *)

\* setpassword.go:1-4, "an explicit, immediately-applied way to set or rotate"
\* the password: when -set-password ends well, trust is no longer in effect. A
\* second run after one whose reload failed finds the file up to date, does not
\* reload, and reports success.
SetPasswordTakesEffect ==
  [][pc[Cli] = "read" /\ conn[Cli] /\ UpToDate(file, Cli) => loaded.app # "trust"]_vars

\* bootstrap.go:343-344, "never downgrades back to trust": an upsert of the grant
\* that read the file before -set-password wrote it does.
NeverDowngrades ==
  [][file.app = "scram" /\ ~hardened /\ boot = "done" => file'.app # "trust" \/ ~up]_vars

\* failover.go:66-68: "the very next tick after the peer becomes resolvable again
\* fixes it with no operator intervention needed": not after a failed reload.
NextTickFixesIt ==
  \A a \in Addrs : <>[](up /\ primary /\ peer = a /\ ~raced /\ ~torn) => <>[](loaded.repl = a)
=============================================================================

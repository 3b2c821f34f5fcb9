------------------------------- MODULE Reaper -------------------------------
(***************************************************************************)
(* Child processes of one pg-guard process on Linux: the kernel's process  *)
(* table, the single reaper goroutine of reaper_linux.go, and the call     *)
(* sites that spawn a child and want its exit status:                      *)
(*                                                                         *)
(*   Watched  supervisor.start: trackChild, then watchChild's goroutine    *)
(*            receives the code and closes the broadcast channel;          *)
(*   Logged   runLoggedCommand: trackChild, both output streams are read   *)
(*            to EOF, only then is the code received;                      *)
(*   Direct   the two commands of runBackupPipe: cmd.Start and cmd.Wait    *)
(*            without the reaper's knowledge.                              *)
(*                                                                         *)
(* A member of these sets is one call in flight; it may be made again once *)
(* it has returned. A pid is reused as soon as its zombie is collected.    *)
(***************************************************************************)
EXTENDS Integers

CONSTANTS
  Pids,      \* process ids the kernel may hand out
  Watched,   \* calls of supervisor.start + watchChild
  Logged,    \* calls of runLoggedCommand
  Direct,    \* commands waited for with cmd.Wait
  Statuses   \* wait statuses a process may end with, [exit, sig]

Tracked == Watched \cup Logged
Calls   == Tracked \cup Direct

NoPid    == "no pid"
Orphan   == "orphan"              \* a process reparented to PID 1
NoCall   == "no call"
TheReaper == "reaper"
Unlocked == "unlocked"
NoCode   == -1
ECHILD   == -2                    \* wait: no child processes
NoStatus == [exit |-> -1, sig |-> -1]

\* The exit code reap() reports for a wait status: 128+signal for a signaled
\* process, its own exit status otherwise.
ExitCode(s) == IF s.sig > 0 THEN 128 + s.sig ELSE s.exit

ASSUME CallsAssumption ==
  /\ Watched \cap Logged = {}
  /\ Tracked \cap Direct = {}
  /\ Orphan \notin Calls /\ NoCall \notin Calls
  /\ TheReaper \notin Calls /\ Unlocked \notin Calls
  /\ NoPid \notin Pids

ASSUME StatusAssumption ==
  /\ Statuses \subseteq [exit : Int, sig : Nat]
  /\ \A s \in Statuses : ExitCode(s) \in Nat

VARIABLES
  pstate,    \* kernel: "free", "running" or "zombie", per pid
  powner,    \* the call that spawned the process, Orphan, or NoCall
  pstatus,   \* wait status of a zombie
  sigchld,   \* kernel: SIGCHLD pending (pending signals coalesce)
  sigCh,     \* the reaper's signal channel (capacity 1) is non-empty
  rpc,       \* the reaper goroutine: "idle", "lock" or "reap"
  mu,        \* holder of reaper.mu
  waiters,   \* reaper.waiters: pid -> call, NoCall where there is no entry
  chan,      \* content of the call's buffered exit channel, or NoCode
  cpc,       \* control state of each call
  cpid,      \* the pid a call spawned
  result,    \* exit code the call reports to its caller
  exitOf     \* history: how the call's own process really ended

kernelVars == <<pstate, powner, pstatus, sigchld>>
reaperVars == <<sigCh, rpc, waiters>>
callVars   == <<chan, cpc, cpid, result, exitOf>>
vars       == <<kernelVars, reaperVars, mu, callVars>>

CallStates == {"idle", "registering", "streaming", "waiting", "done"}

-----------------------------------------------------------------------------
(* The kernel. *)

\* fork/exec on behalf of call c gives pid p.
Fork(c, p) ==
  /\ pstate[p] = "free"
  /\ pstate' = [pstate EXCEPT ![p] = "running"]
  /\ powner' = [powner EXCEPT ![p] = c]
  /\ cpid'   = [cpid EXCEPT ![c] = p]
  /\ exitOf' = [exitOf EXCEPT ![c] = NoStatus]
  /\ UNCHANGED <<pstatus, sigchld>>

\* A process whose own parent died is reparented to pg-guard.
Reparent(p) ==
  /\ pstate[p] = "free"
  /\ pstate' = [pstate EXCEPT ![p] = "running"]
  /\ powner' = [powner EXCEPT ![p] = Orphan]
  /\ UNCHANGED <<pstatus, sigchld, reaperVars, mu, callVars>>

ProcessExit(p, s) ==
  /\ pstate[p] = "running"
  /\ pstate'  = [pstate EXCEPT ![p] = "zombie"]
  /\ pstatus' = [pstatus EXCEPT ![p] = s]
  /\ sigchld' = TRUE
  /\ exitOf'  = IF powner[p] \in Calls THEN [exitOf EXCEPT ![powner[p]] = s] ELSE exitOf
  /\ UNCHANGED <<powner, reaperVars, mu, chan, cpc, cpid, result>>

\* wait4 hands out the status of zombie p and frees its pid.
Collect(p) ==
  /\ pstate' = [pstate EXCEPT ![p] = "free"]
  /\ powner' = [powner EXCEPT ![p] = NoCall]
  /\ pstatus' = [pstatus EXCEPT ![p] = NoStatus]
  /\ UNCHANGED sigchld

\* The Go runtime forwards SIGCHLD with a non-blocking send: with a signal
\* already buffered the new one is dropped.
DeliverSignal ==
  /\ sigchld
  /\ sigchld' = FALSE
  /\ sigCh' = TRUE
  /\ UNCHANGED <<pstate, powner, pstatus, rpc, waiters, mu, callVars>>

-----------------------------------------------------------------------------
(* The reaper goroutine. *)

ReaperWake ==
  /\ rpc = "idle" /\ sigCh
  /\ sigCh' = FALSE
  /\ rpc' = "lock"
  /\ UNCHANGED <<kernelVars, waiters, mu, callVars>>

ReaperLock ==
  /\ rpc = "lock" /\ mu = Unlocked
  /\ rpc' = "reap"
  /\ mu' = TheReaper
  /\ UNCHANGED <<kernelVars, sigCh, waiters, callVars>>

\* Mutant of ReapOne: delete(r.waiters, pid) is forgotten.
MutReapOne(p) ==
  /\ rpc = "reap" /\ pstate[p] = "zombie"
  /\ Collect(p)
  /\ chan' = IF waiters[p] # NoCall /\ chan[waiters[p]] = NoCode
             THEN [chan EXCEPT ![waiters[p]] = ExitCode(pstatus[p])]
             ELSE chan
  /\ UNCHANGED <<sigCh, rpc, waiters, mu, cpc, cpid, result, exitOf>>

\* One round of reap()'s loop: collect some zombie; a registered waiter gets
\* its code with a non-blocking send, anything else is an orphan.
ReapOne(p) ==
  /\ rpc = "reap" /\ pstate[p] = "zombie"
  /\ Collect(p)
  /\ waiters' = [waiters EXCEPT ![p] = NoCall]
  /\ chan' = IF waiters[p] # NoCall /\ chan[waiters[p]] = NoCode
             THEN [chan EXCEPT ![waiters[p]] = ExitCode(pstatus[p])]
             ELSE chan
  /\ UNCHANGED <<sigCh, rpc, mu, cpc, cpid, result, exitOf>>

\* Mutant of ReapDone: reap() collects a single child per signal.
MutReapDone ==
  /\ rpc = "reap"
  /\ rpc' = "idle"
  /\ mu' = Unlocked
  /\ UNCHANGED <<kernelVars, sigCh, waiters, callVars>>

\* Wait4 reports that nothing is left to collect.
ReapDone ==
  /\ rpc = "reap" /\ \A p \in Pids : pstate[p] # "zombie"
  /\ rpc' = "idle"
  /\ mu' = Unlocked
  /\ UNCHANGED <<kernelVars, sigCh, waiters, callVars>>

-----------------------------------------------------------------------------
(* The calls. *)

Callable(c) == cpc[c] \in {"idle", "done"}

\* Mutant of TrackStart: the lock is taken only for the registration.
MutTrackStart(c, p) ==
  /\ Callable(c) /\ mu = Unlocked
  /\ Fork(c, p)
  /\ cpc' = [cpc EXCEPT ![c] = "registering"]
  /\ result' = [result EXCEPT ![c] = NoCode]
  /\ UNCHANGED <<reaperVars, mu, chan>>

\* trackChild, first half: under the lock, cmd.Start.
TrackStart(c, p) ==
  /\ Callable(c) /\ mu = Unlocked
  /\ mu' = c
  /\ Fork(c, p)
  /\ cpc' = [cpc EXCEPT ![c] = "registering"]
  /\ result' = [result EXCEPT ![c] = NoCode]
  /\ UNCHANGED <<reaperVars, chan>>

\* trackChild, second half: a fresh channel enters waiters, the lock is freed.
TrackRegister(c) ==
  /\ cpc[c] = "registering"
  /\ waiters' = [waiters EXCEPT ![cpid[c]] = c]
  /\ chan' = [chan EXCEPT ![c] = NoCode]
  /\ mu' = Unlocked
  /\ cpc' = [cpc EXCEPT ![c] = IF c \in Logged THEN "streaming" ELSE "waiting"]
  /\ UNCHANGED <<kernelVars, sigCh, rpc, cpid, result, exitOf>>

\* runLoggedCommand: wg.Wait returns once both pipes are at EOF; a child may
\* close them before it exits.
StreamsEOF(c) ==
  /\ cpc[c] = "streaming"
  /\ cpc' = [cpc EXCEPT ![c] = "waiting"]
  /\ UNCHANGED <<kernelVars, reaperVars, mu, chan, cpid, result, exitOf>>

\* <-exited: runLoggedCommand returns, watchChild's goroutine closes done.
ReceiveExit(c) ==
  /\ c \in Tracked /\ cpc[c] = "waiting" /\ chan[c] # NoCode
  /\ result' = [result EXCEPT ![c] = chan[c]]
  /\ chan' = [chan EXCEPT ![c] = NoCode]
  /\ cpc' = [cpc EXCEPT ![c] = "done"]
  /\ UNCHANGED <<kernelVars, reaperVars, mu, cpid, exitOf>>

\* Mutant of DirectStart: it takes the reaper's lock and keeps it.
MutDirectStart(c, p) ==
  /\ Callable(c) /\ mu = Unlocked
  /\ mu' = c
  /\ Fork(c, p)
  /\ cpc' = [cpc EXCEPT ![c] = "waiting"]
  /\ result' = [result EXCEPT ![c] = NoCode]
  /\ UNCHANGED <<reaperVars, chan>>

\* runBackupPipe: cmd.Start, without the lock and without a waiter.
DirectStart(c, p) ==
  /\ Callable(c)
  /\ Fork(c, p)
  /\ cpc' = [cpc EXCEPT ![c] = "waiting"]
  /\ result' = [result EXCEPT ![c] = NoCode]
  /\ UNCHANGED <<reaperVars, mu, chan>>

\* runBackupPipe: cmd.Wait on the process's own pidfd. It returns the status
\* if the zombie is still there, ECHILD once somebody else collected it.
DirectWait(c) ==
  /\ c \in Direct /\ cpc[c] = "waiting"
  /\ \/ /\ powner[cpid[c]] = c /\ pstate[cpid[c]] = "zombie"
        /\ result' = [result EXCEPT ![c] = ExitCode(pstatus[cpid[c]])]
        /\ Collect(cpid[c])
     \/ /\ powner[cpid[c]] # c
        /\ result' = [result EXCEPT ![c] = ECHILD]
        /\ UNCHANGED kernelVars
  /\ cpc' = [cpc EXCEPT ![c] = "done"]
  /\ UNCHANGED <<reaperVars, mu, chan, cpid, exitOf>>

-----------------------------------------------------------------------------
Init ==
  /\ pstate = [p \in Pids |-> "free"]
  /\ powner = [p \in Pids |-> NoCall]
  /\ pstatus = [p \in Pids |-> NoStatus]
  /\ sigchld = FALSE
  /\ sigCh = FALSE
  /\ rpc = "lock"                     \* startReaper's goroutine reaps once first
  /\ mu = Unlocked
  /\ waiters = [p \in Pids |-> NoCall]
  /\ chan = [c \in Calls |-> NoCode]
  /\ cpc = [c \in Calls |-> "idle"]
  /\ cpid = [c \in Calls |-> NoPid]
  /\ result = [c \in Calls |-> NoCode]
  /\ exitOf = [c \in Calls |-> NoStatus]

Next ==
  \/ \E p \in Pids : Reparent(p) \/ ReapOne(p)
  \/ \E p \in Pids, s \in Statuses : ProcessExit(p, s)
  \/ DeliverSignal \/ ReaperWake \/ ReaperLock \/ ReapDone
  \/ \E c \in Tracked, p \in Pids : TrackStart(c, p)
  \/ \E c \in Direct, p \in Pids : DirectStart(c, p)
  \/ \E c \in Calls : TrackRegister(c) \/ StreamsEOF(c) \/ ReceiveExit(c) \/ DirectWait(c)

\* The Go scheduler runs every goroutine that can run. The reaper competes
\* for mu with trackChild; sync.Mutex's starvation mode hands the lock to a
\* waiter that has waited long, hence strong fairness on ReaperLock. Pipes of
\* a dead process reach EOF. Nothing is assumed of processes: none need exit.
Fairness ==
  /\ WF_vars(DeliverSignal)
  /\ WF_vars(ReaperWake)
  /\ SF_vars(ReaperLock)
  /\ WF_vars(ReapDone)
  /\ \A p \in Pids : WF_vars(ReapOne(p))
  /\ \A c \in Tracked :
       /\ WF_vars(TrackRegister(c))
       /\ WF_vars(exitOf[c] # NoStatus /\ StreamsEOF(c))
       /\ WF_vars(ReceiveExit(c))

Spec == Init /\ [][Next]_vars
FairSpec == Spec /\ Fairness

-----------------------------------------------------------------------------
TypeOK ==
  /\ pstate \in [Pids -> {"free", "running", "zombie"}]
  /\ powner \in [Pids -> Calls \cup {Orphan, NoCall}]
  /\ pstatus \in [Pids -> Statuses \cup {NoStatus}]
  /\ sigchld \in BOOLEAN /\ sigCh \in BOOLEAN
  /\ rpc \in {"idle", "lock", "reap"}
  /\ mu \in Tracked \cup {TheReaper, Unlocked}
  /\ waiters \in [Pids -> Tracked \cup {NoCall}]
  /\ chan \in [Calls -> Nat \cup {NoCode}]
  /\ cpc \in [Calls -> CallStates]
  /\ cpid \in [Calls -> Pids \cup {NoPid}]
  /\ result \in [Calls -> Nat \cup {NoCode, ECHILD}]
  /\ exitOf \in [Calls -> Statuses \cup {NoStatus}]

\* What a call made through trackChild reports is the exit status of the very
\* process it started: never another process's (pids are reused), never an
\* ECHILD, and never before that process ended (reaper_linux.go, trackChild).
TrackedResultIsTrue ==
  \A c \in Tracked : cpc[c] = "done" =>
    /\ exitOf[c] # NoStatus
    /\ result[c] = ExitCode(exitOf[c])

\* While a tracked call waits, its exit status is in exactly one place: still
\* with its own process, whose pid maps to this call, or already in its own
\* channel. A child that dies between cmd.Start and the registration is no
\* exception, and the non-blocking send in reap() never finds a full channel.
NoLostExit ==
  \A c \in Tracked : cpc[c] \in {"streaming", "waiting"} =>
    \/ /\ powner[cpid[c]] = c
       /\ waiters[cpid[c]] = c
       /\ chan[c] = NoCode
    \/ /\ exitOf[c] # NoStatus
       /\ chan[c] = ExitCode(exitOf[c])
       /\ \A p \in Pids : powner[p] # c /\ waiters[p] # c

\* reaper.waiters never keeps an entry for a pid that has been collected: a
\* process that is given the same pid later cannot be taken for the old one.
NoStaleWaiter ==
  \A p \in Pids : waiters[p] # NoCall =>
    /\ pstate[p] # "free"
    /\ powner[p] = waiters[p]

-----------------------------------------------------------------------------
(* The parts of the inductive invariant behind the three invariants above.  *)

\* reaper.mu is held by the reaper exactly while it reaps, and otherwise only
\* by a trackChild between cmd.Start and the registration.
LockDiscipline ==
  /\ mu = TheReaper <=> rpc = "reap"
  /\ \A c \in Tracked : mu = c <=> cpc[c] = "registering"
  /\ \A c \in Direct : cpc[c] # "registering"

\* A pid is free exactly when no process has it.
FreePids == \A p \in Pids : pstate[p] = "free" <=> powner[p] = NoCall

\* Until it is collected, the process of a call is the one the call knows.
OneProcessPerCall ==
  \A p \in Pids : powner[p] \in Calls =>
    /\ cpid[powner[p]] = p
    /\ cpc[powner[p]] \in {"registering", "streaming", "waiting"}

\* A zombie holds the status its process ended with.
ZombieStatus ==
  \A p \in Pids : pstate[p] = "zombie" =>
    /\ pstatus[p] \in Statuses
    /\ powner[p] \in Calls => exitOf[powner[p]] = pstatus[p]

\* Between cmd.Start and the registration the process is not collected.
RegisteringOwns ==
  \A c \in Calls :
    /\ cpc[c] # "idle" => cpid[c] \in Pids
    /\ cpc[c] = "registering" => powner[cpid[c]] = c

ProcessTable == FreePids /\ OneProcessPerCall /\ ZombieStatus /\ RegisteringOwns

IInv == TypeOK /\ LockDiscipline /\ ProcessTable
        /\ NoStaleWaiter /\ NoLostExit /\ TrackedResultIsTrue

\* A process that still runs has not ended in the books of its call either.
RunningNotEnded ==
  \A p \in Pids : pstate[p] = "running" /\ powner[p] \in Calls => exitOf[powner[p]] = NoStatus

-----------------------------------------------------------------------------
(* The reaper implements one mailbox per tracked call. *)

Child(c) == IF cpc[c] = "idle" THEN "none"
            ELSE IF cpc[c] = "done" THEN "taken"
            ELSE IF exitOf[c] = NoStatus THEN "running" ELSE "ended"

Code(c) == IF exitOf[c] = NoStatus THEN NoCode ELSE ExitCode(exitOf[c])

Mailboxes == INSTANCE ExitMailbox WITH
  Calls <- Tracked, Codes <- {ExitCode(s) : s \in Statuses}, Empty <- NoCode,
  child <- [c \in Tracked |-> Child(c)], code <- [c \in Tracked |-> Code(c)],
  report <- [c \in Tracked |-> result[c]]

\* trackChild, "returning a channel that receives its exit code exactly once":
\* processes, reused pids, coalesced signals and the reaper's rounds amount, for
\* the calls made through trackChild, to one mailbox each: nobody else's code, no
\* code before the end, and none taken twice.
ImplementsMailboxes == Mailboxes!Spec

-----------------------------------------------------------------------------
\* startReaper: no zombie stays, although SIGCHLDs coalesce in the kernel and
\* in the one-element channel and the reaper may be busy when one arrives.
ZombiesAreReaped == \A p \in Pids : pstate[p] = "zombie" ~> pstate[p] # "zombie"

\* Once the process of a tracked call has ended, the call returns.
TrackedCallReturns ==
  \A c \in Tracked : exitOf[c] # NoStatus ~> cpc[c] = "done"

\* reaper_linux.go:5-10: the reaper "is the only place that ever calls wait()
\* on any child", so no call site can lose its exit status to it. The commands
\* of runBackupPipe are waited for directly and must then also be told the
\* truth about their process.
EveryResultIsTrue ==
  \A c \in Calls : cpc[c] = "done" => result[c] = ExitCode(exitOf[c])
=============================================================================

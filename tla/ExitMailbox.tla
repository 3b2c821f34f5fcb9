---------------------------- MODULE ExitMailbox ----------------------------
(***************************************************************************)
(* What trackChild promises a call site, without processes, pids, SIGCHLD, *)
(* the reaper and its lock: each call that starts a child has a mailbox of *)
(* its own. The child ends once, its exit code enters that mailbox and no  *)
(* other, and the call takes it out once, after the end. What it took      *)
(* stays what it reports until it starts another child.                    *)
(***************************************************************************)
CONSTANTS
  Calls,   \* call sites with a child of their own
  Codes,   \* the exit codes a child may end with
  Empty    \* no code

VARIABLES
  child,   \* per call: "none", "running", "ended", or "taken" once its code is
  code,    \* per call: the code its child ended with
  report   \* per call: what it reports
vars == <<child, code, report>>

Init ==
  /\ child = [c \in Calls |-> "none"]
  /\ code = [c \in Calls |-> Empty]
  /\ report = [c \in Calls |-> Empty]

Begin(c) ==
  /\ child[c] \in {"none", "taken"}
  /\ child' = [child EXCEPT ![c] = "running"]
  /\ code' = [code EXCEPT ![c] = Empty]
  /\ report' = [report EXCEPT ![c] = Empty]

End(c, k) ==
  /\ child[c] = "running"
  /\ child' = [child EXCEPT ![c] = "ended"]
  /\ code' = [code EXCEPT ![c] = k]
  /\ UNCHANGED report

Take(c) ==
  /\ child[c] = "ended"
  /\ child' = [child EXCEPT ![c] = "taken"]
  /\ report' = [report EXCEPT ![c] = code[c]]
  /\ UNCHANGED code

Next == \E c \in Calls : Begin(c) \/ Take(c) \/ \E k \in Codes : End(c, k)

Spec == Init /\ [][Next]_vars
=============================================================================

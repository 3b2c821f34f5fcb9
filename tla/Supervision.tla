---------------------------- MODULE Supervision ----------------------------
(***************************************************************************)
(* What pg-guard promises about the one postgres it supervises, without    *)
(* the select loop, the channels, the timers and the handover.             *)
(*                                                                         *)
(* A request is answered once. Its effect happens at one moment between    *)
(* the asking and the answer: a stop that is granted stopped a running     *)
(* instance, a start that is granted started one, and a refusal changed    *)
(* nothing, except that a stop can be reported as failed after it happened *)
(* (the peer did not take over). A postgres that is down comes back only   *)
(* for a granted start or as the restart owed for a crash, never both, and *)
(* never after a termination signal has been taken up; pg-guard then ends  *)
(* with no instance supervised.                                            *)
(***************************************************************************)
EXTENDS Naturals

CONSTANT Clients

VARIABLES
  child,      \* the supervised instance, 0 for none
  launched,   \* instances started so far
  owed,       \* pg-guard owes a start: the first one, or one for a crash
  phase,      \* "serving", "leaving" (a termination signal was taken up), "over"
  wish,       \* per client: "stop", "start" or "none"
  answer      \* per client: "idle", "pending", "stopped" (not answered yet), "ok", "error"
vars == <<child, launched, owed, phase, wish, answer>>

Init ==
  /\ child = 0 /\ launched = 0 /\ owed = TRUE /\ phase = "serving"
  /\ wish = [c \in Clients |-> "none"]
  /\ answer = [c \in Clients |-> "idle"]

NewInstance == launched' = launched + 1 /\ child' = launched + 1

-----------------------------------------------------------------------------
(* Requests. *)

Ask(c, w) ==
  /\ phase # "over" /\ answer[c] = "idle"
  /\ wish' = [wish EXCEPT ![c] = w]
  /\ answer' = [answer EXCEPT ![c] = "pending"]
  /\ UNCHANGED <<child, launched, owed, phase>>

Refuse(c) ==
  /\ phase = "serving" /\ answer[c] = "pending"
  /\ answer' = [answer EXCEPT ![c] = "error"]
  /\ UNCHANGED <<child, launched, owed, phase, wish>>

Stop(c) ==
  /\ phase = "serving" /\ answer[c] = "pending" /\ wish[c] = "stop"
  /\ child # 0 /\ child' = 0
  /\ \E a \in {"stopped", "ok"} : answer' = [answer EXCEPT ![c] = a]
  /\ UNCHANGED <<launched, owed, phase, wish>>

Conclude(c) ==
  /\ phase = "serving" /\ answer[c] = "stopped" /\ child = 0
  /\ \E a \in {"ok", "error"} : answer' = [answer EXCEPT ![c] = a]
  /\ UNCHANGED <<child, launched, owed, phase, wish>>

Start(c) ==
  /\ phase = "serving" /\ answer[c] = "pending" /\ wish[c] = "start"
  /\ child = 0 /\ ~owed
  /\ NewInstance
  /\ answer' = [answer EXCEPT ![c] = "ok"]
  /\ UNCHANGED <<owed, phase, wish>>

Return(c) ==
  /\ phase # "over" /\ answer[c] \in {"ok", "error"}
  /\ wish' = [wish EXCEPT ![c] = "none"]
  /\ answer' = [answer EXCEPT ![c] = "idle"]
  /\ UNCHANGED <<child, launched, owed, phase>>

-----------------------------------------------------------------------------
(* What happens without a request. *)

\* The supervised instance dies; the restart that is owed has not begun.
Crash ==
  /\ phase = "serving" /\ child # 0 /\ ~owed
  /\ child' = 0 /\ owed' = TRUE
  /\ UNCHANGED <<launched, phase, wish, answer>>

OwedStart ==
  /\ phase = "serving" /\ owed /\ child = 0
  /\ NewInstance /\ owed' = FALSE
  /\ UNCHANGED <<phase, wish, answer>>

\* Only the first start may be given up without an end of pg-guard.
Forgo ==
  /\ phase = "serving" /\ owed /\ launched = 0
  /\ owed' = FALSE
  /\ UNCHANGED <<child, launched, phase, wish, answer>>

Leave ==
  /\ phase = "serving" /\ phase' = "leaving"
  /\ UNCHANGED <<child, launched, owed, wish, answer>>

Withdraw ==
  /\ phase = "leaving" /\ child # 0 /\ child' = 0
  /\ UNCHANGED <<launched, owed, phase, wish, answer>>

\* A signal ends with no instance; a budget that is exhausted or an exit that was
\* asked for ends as things are.
End ==
  /\ phase # "over" /\ phase' = "over"
  /\ child' \in {0, child} /\ owed' \in {FALSE, owed}
  /\ phase = "leaving" => child' = 0
  /\ UNCHANGED <<launched, wish, answer>>

Next ==
  \/ \E c \in Clients : \/ \E w \in {"stop", "start"} : Ask(c, w)
                        \/ Refuse(c) \/ Stop(c) \/ Conclude(c) \/ Start(c) \/ Return(c)
  \/ Crash \/ OwedStart \/ Forgo \/ Leave \/ Withdraw \/ End

Spec == Init /\ [][Next]_vars
=============================================================================

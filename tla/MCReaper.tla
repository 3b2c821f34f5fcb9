------------------------------ MODULE MCReaper ------------------------------
(* Instances of Reaper for TLC. *)
EXTENDS Reaper

\* Every process ends by a SIGKILL (Go's ExitStatus is -1 then), or exits with 0.
\* One status is enough to see a mix-up: an exit code that is delivered to the
\* wrong call can arrive while that call's own process runs.
KilledOnly == {[exit |-> -1, sig |-> 9]}
OkOnly == {[exit |-> 0, sig |-> 0]}
=============================================================================

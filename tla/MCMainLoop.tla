---------------------------- MODULE MCMainLoop ----------------------------
(* Instances of MainLoop for TLC. *)
EXTENDS MainLoop, TLC

\* Every configuration of the Linux build, and the service under the two modes.
AllConfigs ==
  [mode : Modes, policy : Policies, restart : BOOLEAN, service : {FALSE}]
    \cup [mode : Modes, policy : {"require-switchover"}, restart : {TRUE}, service : {TRUE}]
DefaultConfig ==
  {[mode |-> "switchover", policy |-> "require-switchover", restart |-> TRUE, service |-> FALSE]}
ClientSymmetry == Permutations(Clients)
=============================================================================

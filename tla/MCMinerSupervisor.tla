------------------------- MODULE MCMinerSupervisor -------------------------
(***************************************************************************)
(* Small instances of MinerSupervisor for TLC.                             *)
(***************************************************************************)
EXTENDS MinerSupervisor

(***************************************************************************)
(* State constraint: children that exit and failures share a budget of     *)
(* two. A failure of the cleanup after another failure fits in, and so     *)
(* does a failure while a death is dealt with.                             *)
(***************************************************************************)
TwoMishaps == exits + faults <= 2

=============================================================================

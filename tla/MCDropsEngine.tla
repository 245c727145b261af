---------------------------- MODULE MCDropsEngine ----------------------------
(***************************************************************************)
(* Small instances of DropsEngine for TLC.                                 *)
(***************************************************************************)
EXTENDS DropsEngine

=============================================================================

---------------------------- MODULE MCStatusCache ----------------------------
(***************************************************************************)
(* Instances of StatusCache for TLC.                                       *)
(***************************************************************************)
EXTENDS StatusCache, TLC

CONSTANTS w1, w2

=============================================================================

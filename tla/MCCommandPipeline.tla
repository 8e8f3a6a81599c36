-------------------------- MODULE MCCommandPipeline --------------------------
(***************************************************************************)
(* Instances of CommandPipeline for TLC.                                   *)
(***************************************************************************)
EXTENDS CommandPipeline, TLC

CONSTANTS w1, w2

Symmetry == Permutations(Workers)

=============================================================================

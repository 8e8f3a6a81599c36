---------------------------- MODULE MCPoolShutdown ----------------------------
(* PoolShutdown for TLC.                                                     *)
EXTENDS PoolShutdown

CONSTANT w1

MCWorkers == {w1}
=============================================================================

---------------------------- MODULE MCEventStream ----------------------------
(* EventStream for TLC: two events of different sizes.                       *)
EXTENDS EventStream

CONSTANTS e1, e2, eos

MCEvents == {e1, e2}
MCEndings == {eos}
MCPayloadSize == [f \in Frames |-> IF f = e2 THEN 2 ELSE 1]
=============================================================================

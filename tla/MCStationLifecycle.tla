-------------------------- MODULE MCStationLifecycle --------------------------
(***************************************************************************)
(* Instances of StationLifecycle for TLC.                                  *)
(***************************************************************************)
EXTENDS StationLifecycle, TLC

CONSTANTS a, b, w1, w2, home, away

\* A token that covers every slug, for good.
FullScope == {Slugs}

\* A token that may be narrowed to no slug at all while the server is down.
AnyScope == {Slugs, {}}

Symmetry == Permutations(Workers)

=============================================================================

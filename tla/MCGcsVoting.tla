----------------------------- MODULE MCGcsVoting -----------------------------
(***************************************************************************)
(* Instances of GcsVoting for TLC: one ground station and two drones.      *)
(***************************************************************************)
EXTENDS GcsVoting, TLC

CONSTANTS gcs, d1, d2

DronePair == {d1, d2}
AnyDrones == Permutations(Drones)
=============================================================================

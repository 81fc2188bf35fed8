---------------------------- MODULE MCTaskEngine ----------------------------
(***************************************************************************)
(* Instances of TaskEngine for TLC: one drone, and the ground station.     *)
(* The drones are interchangeable wherever Self is not one of them.        *)
(***************************************************************************)
EXTENDS TaskEngine, TLC

CONSTANTS gcs, d1, d2

DronePair == {d1, d2}
OtherDrones == Permutations(Drones \ {Self})
=============================================================================

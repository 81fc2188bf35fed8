----------------------------- MODULE MCVehicle -----------------------------
(***************************************************************************)
(* One of two drones, on a line with two missions on opposite sides of its *)
(* start.                                                                  *)
(***************************************************************************)
EXTENDS Vehicle, TLC

CONSTANTS gcs, d1, d2

DronePair == {d1, d2}
BothSides == (1 :> 2) @@ (2 :> -1)
=============================================================================

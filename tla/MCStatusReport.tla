--------------------------- MODULE MCStatusReport ---------------------------
(***************************************************************************)
(* One drone with its heartbeat.                                           *)
(***************************************************************************)
EXTENDS StatusReport

CONSTANTS gcs, d1

OneDrone == {d1}
=============================================================================

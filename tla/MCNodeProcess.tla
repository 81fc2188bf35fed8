--------------------------- MODULE MCNodeProcess ---------------------------
(***************************************************************************)
(* The environments of the NodeProcess runs: a drone and a ground station, *)
(* and from the drone one variable at a time moved to the limits of its    *)
(* field and past them.                                                    *)
(***************************************************************************)
EXTENDS NodeProcess

Drone ==
  [NODE_TYPE |-> "", ROLE |-> "", NODE_IP |-> "",
   DRONE_ID |-> Number(1), ROS_DOMAIN_ID |-> Absent, INITIAL_BATTERY |-> Absent,
   FAULT_SILENT_CONSENSUS |-> Absent, TCP_PORT |-> Absent]

GroundStation ==
  [Drone EXCEPT !.NODE_TYPE = "GCS", !.ROLE = "PILOT", !.DRONE_ID = Absent,
                !.NODE_IP = "10.0.0.2"]

\* The numbers around the limits of each numeric field.
Limits ==
  [DRONE_ID |-> {0, 255, 256}, ROS_DOMAIN_ID |-> {232, 233}, INITIAL_BATTERY |-> {0, 100, 101},
   FAULT_SILENT_CONSENSUS |-> {0, 1, 2}, TCP_PORT |-> {0, 65535, 65536}]

\* Texts that std::stoul reads as a number but that are not just one: "-1", the
\* negative number that wraps to 1, "0x", "1x", and numbers too long for it.
LooseTexts ==
  {[Number(1) EXCEPT !.negative = TRUE],
   [Number(UlongModulus - 1) EXCEPT !.negative = TRUE],
   [Number(0) EXCEPT !.trailing = TRUE],
   [Number(1) EXCEPT !.trailing = TRUE],
   Number(UlongModulus),
   [Number(UlongModulus) EXCEPT !.negative = TRUE]}

Deviations ==
  {[Drone EXCEPT ![f] = Word, !.NODE_IP = ip] : f \in DOMAIN Limits, ip \in {"", "10.0.0.2"}}
  \cup UNION {{[Drone EXCEPT ![f] = Number(n), !.NODE_IP = ip] : n \in Limits[f]} :
               f \in DOMAIN Limits, ip \in {"", "10.0.0.2"}}
  \cup UNION {{[Drone EXCEPT ![f] = text, !.NODE_IP = "10.0.0.2"] : text \in LooseTexts} :
               f \in DOMAIN Limits}
  \cup {[Drone EXCEPT !.NODE_TYPE = t] : t \in {"DRONE", "BASE"}}
  \cup {[Drone EXCEPT !.ROLE = r] : r \in {"SCOUT", "STRIKER", "PILOT"}}

MCEnvironments == {Drone, GroundStation} \cup Deviations
=============================================================================

---------------------------- MODULE MissionCommit ----------------------------
(***************************************************************************)
(* What the voting on missions promises to the swarm, without queues,      *)
(* threads or timers: the ground station proposes one mission at a time to *)
(* the drones it hears, and a mission's order goes out at most once and    *)
(* only after every one of them has agreed.  A round may be cancelled at   *)
(* any moment (a refusal, a time-out), an order is never taken back.       *)
(***************************************************************************)
EXTENDS Naturals

CONSTANTS Drones, Missions

VARIABLES
  round,       \* state of each mission's round
  electorate,  \* the drones asked in the latest round
  agreed       \* pairs <<drone, mission>> of agreements given

vars == <<round, electorate, agreed>>

RoundStates == {"unused", "voting", "ordered", "cancelled"}

TypeOK ==
  /\ round \in [Missions -> RoundStates]
  /\ electorate \subseteq Drones
  /\ agreed \subseteq Drones \X Missions

Init ==
  /\ round = [m \in Missions |-> "unused"]
  /\ electorate = {}
  /\ agreed = {}

Propose(m, voters) ==
  /\ round[m] = "unused"
  /\ \A n \in Missions : round[n] # "voting"
  /\ round' = [round EXCEPT ![m] = "voting"]
  /\ electorate' = voters
  /\ UNCHANGED agreed

Agree(d, m) ==
  /\ round[m] # "unused"
  /\ agreed' = agreed \cup {<<d, m>>}
  /\ UNCHANGED <<round, electorate>>

SendOrder(m) ==
  /\ round[m] = "voting"
  /\ \A d \in electorate : <<d, m>> \in agreed
  /\ round' = [round EXCEPT ![m] = "ordered"]
  /\ UNCHANGED <<electorate, agreed>>

Cancel(m) ==
  /\ round[m] = "voting"
  /\ round' = [round EXCEPT ![m] = "cancelled"]
  /\ UNCHANGED <<electorate, agreed>>

Next ==
  \E m \in Missions :
    \/ \E voters \in SUBSET Drones : Propose(m, voters)
    \/ \E d \in Drones : Agree(d, m)
    \/ SendOrder(m)
    \/ Cancel(m)

Spec == Init /\ [][Next]_vars
=============================================================================

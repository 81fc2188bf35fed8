------------------------------ MODULE GcsVoting ------------------------------
(***************************************************************************)
(* A mission's vote from end to end: the ground station's main thread      *)
(* (gcs_loop and GcsController), its Task Engine (TaskEngine with          *)
(* Self = Gcs), the drones that answer proposals, and the DDS topic        *)
(* "consensus" between them, which is RELIABLE, keeps the order of one     *)
(* writer and, being TRANSIENT_LOCAL, replays a drone's retained votes to  *)
(* a ground station that has been restarted.                               *)
(*                                                                         *)
(* A drone is reduced to its answer (ACK, NACK, or none under the fault    *)
(* injection); how its own engine comes to it is TaskEngine's VoteOnProposal. *)
(* The run of the process is counted in `epoch`, which no message carries. *)
(***************************************************************************)
EXTENDS TaskEngine

CONSTANTS
  PeersGetLost,  \* whether drones may fall silent and return
  TornReads,     \* whether last_consensus_result() may race with its writer
  MaxEpochs      \* bound: starts of the ground station's process

ASSUME GcsAssumption == Self = Gcs

ASSUME EnvironmentAssumption ==
  /\ PeersGetLost \in BOOLEAN
  /\ TornReads \in BOOLEAN
  /\ MaxEpochs \in Nat

VARIABLES
  main_pc,        \* the main thread's position in propose_task
  gcs_state,      \* GcsController::state_
  active_tx,      \* active_transaction_id_ (and the task_id of pending_order_)
  voters,         \* `voters` of the latest propose_task
  known, online,  \* drones in the peer table, and those with status ONLINE
  proposals,      \* proposals published so far, with their epochs
  heard,          \* how many of them each drone has received
  answer,         \* what each drone answers
  cast,           \* votes published by each drone, with the epoch they answer
  delivered,      \* how many of them have reached this ground station
  orders,         \* task ids of the orders published since the start
  epoch           \* which start of the ground station's process this is

controllerVars == <<main_pc, gcs_state, active_tx, voters, orders>>
peerVars == <<known, online>>
droneVars == <<heard, answer, cast>>
gcsVars == <<vars, controllerVars, peerVars, droneVars, proposals, delivered, epoch>>

-----------------------------------------------------------------------------
(* The main thread: gcs_loop and GcsController *)

\* propose_task up to its request: the voters are the drones ONLINE now.
\* discovery_deadline is 8 s after the start and a turn of the engine is 20 ms,
\* so the engine has long started its first task by then.
BeginProposal ==
  /\ active_task_type # "INIT"
  /\ main_pc = "loop"
  /\ gcs_state = "IDLE"
  /\ next_tx \in TxIds
  /\ active_tx' = next_tx
  /\ next_tx' = next_tx + 1
  /\ voters' = online
  /\ main_pc' = "request"
  /\ UNCHANGED <<engineVars, command_queue, pending_request, battery_low, peer_offline,
                 arrivals, gcs_state, orders, peerVars, droneVars, proposals, delivered, epoch>>

SubmitRequest ==
  /\ main_pc = "request"
  /\ LeaveRequest(active_tx, voters)
  /\ main_pc' = "publish"
  /\ UNCHANGED <<engineVars, command_queue, battery_low, envVars, gcs_state, active_tx, voters,
                 orders, peerVars, droneVars, proposals, delivered, epoch>>

PublishProposal ==
  /\ main_pc = "publish"
  /\ proposals' = Append(proposals, [tx |-> active_tx, epoch |-> epoch])
  /\ gcs_state' = "VOTING"
  /\ main_pc' = "loop"
  /\ UNCHANGED <<vars, active_tx, voters, orders, peerVars, droneVars, delivered, epoch>>

\* The values last_consensus_result() can return: while the engine is writing
\* the new outcome, a copy may take any field from before or after the write.
Written ==
  LET t == Head(task_queue)
  IN  [valid |-> TRUE, tx |-> t.tx, result |-> t.result, timed_out |-> t.timed_out]

OutcomeCopies ==
  IF TornReads /\ pc = "record"
    THEN [valid : {outcome.valid, Written.valid}, tx : {outcome.tx, Written.tx},
          result : {outcome.result, Written.result},
          timed_out : {outcome.timed_out, Written.timed_out}]
    ELSE {outcome}

CommittedOrNot(copy) == copy.result # "PENDING"   \* faulty variant: any result counts
Committed(copy) == copy.result = "COMMITTED"

ForAnyRound(copy) == copy.valid   \* faulty variant: an earlier round's outcome will do
ForThisRound(copy) == copy.valid /\ copy.tx = active_tx

\* GcsController::step with gcs_loop's reaction: publish the order or cancel.
\* consume_result follows within the same turn, so the state is IDLE again.
ReadOutcome(copy) ==
  /\ main_pc = "loop"
  /\ gcs_state = "VOTING"
  /\ ForThisRound(copy)
  /\ copy.result # "PENDING"
  /\ \/ Committed(copy) /\ orders' = Append(orders, active_tx)
     \/ ~Committed(copy) /\ UNCHANGED orders
  /\ gcs_state' = "IDLE"
  /\ UNCHANGED <<vars, main_pc, active_tx, voters, peerVars, droneVars, proposals, delivered,
                 epoch>>

MainThread ==
  \/ BeginProposal
  \/ SubmitRequest
  \/ PublishProposal
  \/ \E copy \in OutcomeCopies : ReadOutcome(copy)

-----------------------------------------------------------------------------
(* The drones and the network *)

\* A drone receives the next proposal and answers it.
AnswerProposal(d) ==
  /\ heard[d] < Len(proposals)
  /\ heard' = [heard EXCEPT ![d] = @ + 1]
  /\ LET p == proposals[heard[d] + 1]
     IN  cast' = IF answer[d] = "NONE" THEN cast
                 ELSE [cast EXCEPT ![d] = Append(@, [tx |-> p.tx, vote |-> answer[d],
                                                     epoch |-> p.epoch])]
  /\ UNCHANGED <<vars, controllerVars, peerVars, answer, proposals, delivered, epoch>>

\* The next vote of a drone reaches the ground station's add_command.
DeliverVote(d) ==
  /\ delivered[d] < Len(cast[d])
  /\ LET v == cast[d][delivered[d] + 1]
     IN  AddCommand([type |-> "CONSENSUS", sender |-> d, tx |-> v.tx, vote |-> v.vote])
  /\ delivered' = [delivered EXCEPT ![d] = @ + 1]
  /\ UNCHANGED <<controllerVars, peerVars, droneVars, proposals, epoch>>

\* Faulty variant: the record of a new peer is not kept.
PeerAppearsUnrecorded(d) ==
  /\ d \notin online
  /\ online' = online \cup {d}
  /\ UNCHANGED known

\* The peer table's view: on_heartbeat of a new or returning drone, and
\* refresh_status of one that fell silent.
PeerAppears(d) ==
  /\ d \notin online
  /\ known' = known \cup {d}
  /\ online' = online \cup {d}

PeerFallsSilent(d) ==
  /\ PeersGetLost
  /\ d \in online
  /\ online' = online \ {d}
  /\ UNCHANGED known

UpdatePeers(d) ==
  /\ PeerAppears(d) \/ PeerFallsSilent(d)
  /\ peer_offline' = (known' # online')
  /\ UNCHANGED <<engineVars, command_queue, pending_request, battery_low, next_tx, arrivals,
                 controllerVars, droneVars, proposals, delivered, epoch>>

\* The process dies and starts again: everything it held is gone, including
\* the transaction counter.  Of the proposals a drone has not received yet it
\* still gets all or none; the votes drones published stay on offer.
Restart(lost) ==
  /\ epoch < MaxEpochs
  /\ epoch' = epoch + 1
  /\ task_queue' = <<>> /\ active_task_started' = FALSE /\ active_task_type' = "INIT"
  /\ in_emergency' = FALSE /\ outcome' = NoOutcome /\ pc' = "apply"
  /\ command_queue' = <<>> /\ pending_request' = NoRequest
  /\ peer_offline' = FALSE /\ next_tx' = 1 /\ arrivals' = 0
  /\ main_pc' = "loop" /\ gcs_state' = "IDLE" /\ active_tx' = 0 /\ voters' = {}
  /\ orders' = <<>> /\ known' = {} /\ online' = {}
  /\ delivered' = [d \in Drones |-> 0]
  /\ heard' = [d \in Drones |-> IF d \in lost THEN Len(proposals) ELSE heard[d]]
  /\ UNCHANGED <<sent_votes, battery_low, answer, cast, proposals>>

Surroundings ==
  \/ \E d \in Drones : AnswerProposal(d) \/ DeliverVote(d) \/ UpdatePeers(d)
  \/ \E lost \in SUBSET Drones : Restart(lost)

-----------------------------------------------------------------------------
\* The deployments set INITIAL_BATTERY for drones only.
GcsInit ==
  /\ Init
  /\ battery_low = FALSE
  /\ main_pc = "loop"
  /\ gcs_state = "IDLE"
  /\ active_tx = 0
  /\ voters = {}
  /\ known = {} /\ online = {}
  /\ proposals = <<>>
  /\ heard = [d \in Drones |-> 0]
  /\ answer \in [Drones -> {"ACK", "NACK", "NONE"}]
  /\ cast = [d \in Drones |-> <<>>]
  /\ delivered = [d \in Drones |-> 0]
  /\ orders = <<>>
  /\ epoch = 1

GcsEngine ==
  /\ EngineStep
  /\ UNCHANGED <<controllerVars, peerVars, droneVars, proposals, delivered, epoch>>

GcsNext == GcsEngine \/ MainThread \/ Surroundings

GcsSpec == GcsInit /\ [][GcsNext]_gcsVars

\* The two threads of the process that keep running until stop().
GcsFairSpec == GcsSpec /\ WF_gcsVars(GcsEngine) /\ WF_gcsVars(MainThread)

-----------------------------------------------------------------------------
(* Properties *)

GcsTypeOK ==
  /\ TypeOK
  /\ main_pc \in {"loop", "request", "publish"}
  /\ gcs_state \in {"IDLE", "VOTING"}
  /\ active_tx \in Nat
  /\ voters \subseteq Drones
  /\ known \subseteq Drones
  /\ online \subseteq known
  /\ peer_offline = (known # online)
  /\ proposals \in Seq([tx : TxIds, epoch : Nat])
  /\ heard \in [Drones -> Nat]
  /\ answer \in [Drones -> {"ACK", "NACK", "NONE"}]
  /\ cast \in [Drones -> Seq([tx : TxIds, vote : {"ACK", "NACK"}, epoch : Nat])]
  /\ delivered \in [Drones -> Nat]
  /\ orders \in Seq(TxIds)
  /\ epoch \in Nat

HasCast(d, vote, tx) ==
  \E i \in DOMAIN cast[d] : cast[d][i] = [tx |-> tx, vote |-> vote, epoch |-> epoch]

\* An order goes out only for a round in which every drone that was asked has
\* answered this very proposal with ACK.
OrderNeedsUnanimity ==
  [][orders' # orders /\ epoch' = epoch
       => \A d \in voters : HasCast(d, "ACK", active_tx)]_gcsVars

\* A drone that refuses (battery low) or keeps silent (fault injection) is never
\* overruled, also when the votes that are counted were cast for a proposal of
\* an earlier run of the ground station.
NoRefuserOrdered ==
  [][Len(orders') > Len(orders) => \A d \in voters : answer[d] = "ACK"]_gcsVars

\* Once a round has ended in the recorded outcome, nothing that the controller
\* later does contradicts it: an order in the air never belongs to a
\* transaction whose recorded outcome is ABORTED.
NoOrderForAborted ==
  \A i \in DOMAIN orders : ~(outcome.valid /\ outcome.tx = orders[i] /\ outcome.result = "ABORTED")

\* The controller's round and the engine's task stay in step: while no peer
\* has been lost, a controller that waits has its round somewhere.
Waiting == main_pc = "loop" /\ gcs_state = "VOTING"
RoundIsAlive ==
  Waiting =>
    \/ pending_request.present /\ pending_request.tx = active_tx
    \/ task_queue # <<>> /\ Head(task_queue).type = "CONSENSUS" /\ Head(task_queue).tx = active_tx
    \/ outcome.valid /\ outcome.tx = active_tx

\* A vote ends "within 5 seconds" (consensus_task.hpp:14-17): a controller that
\* waits for a result eventually gets one.
VotingEnds == Waiting ~> ~Waiting

-----------------------------------------------------------------------------
(* The abstract view of the votes: missions are numbered within an epoch. *)

RoundOf(tx) ==
  CASE tx \in {orders[i] : i \in DOMAIN orders} -> "ordered"
    [] tx = active_tx /\ (gcs_state = "VOTING" \/ main_pc # "loop") -> "voting"
    [] tx >= next_tx -> "unused"
    [] OTHER -> "cancelled"

Commit == INSTANCE MissionCommit WITH
            Missions <- TxIds,
            round <- [tx \in TxIds |-> RoundOf(tx)],
            electorate <- voters,
            agreed <- {a \in Drones \X TxIds : HasCast(a[1], "ACK", a[2])}

\* The voting protocol implements MissionCommit: one round at a time, an order
\* at most once and only on the agreement of everybody asked.
CommitSpec == Commit!Spec
=============================================================================

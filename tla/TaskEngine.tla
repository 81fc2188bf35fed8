----------------------------- MODULE TaskEngine -----------------------------
(***************************************************************************)
(* The Task Engine of one node (SwarmManager, Thread 3) and the operations *)
(* through which the other threads reach it: add_command (DDS callback     *)
(* threads), request_consensus (the GCS main thread) and the peer table's  *)
(* verdict that somebody has gone silent (Thread 1 and DDS callbacks).     *)
(*                                                                         *)
(* One turn of task_engine_step is split at every point where another      *)
(* thread can slip in between: the request mutex, the peer mutex, each     *)
(* pop_command, and the unlocked write of last_consensus_outcome_.  pc     *)
(* names the next of those points.                                         *)
(*                                                                         *)
(* Time.  A task measures `now - start_`; the model counts in `age` the    *)
(* turns a task has been run since on_enter and lets its timer fire at any *)
(* age between MinRounds and MaxRounds, so every length of a turn and of a *)
(* flight is covered.  Positions and velocities are abstracted away.       *)
(***************************************************************************)
EXTENDS Integers, Sequences

CONSTANTS
  Self,             \* config_.drone_id of this node
  Gcs,              \* drone_id of the ground control station
  Drones,           \* drone_ids of the drones
  Role,             \* config_.role, meaningful on a drone
  SilentConsensus,  \* config_.fault_silent_consensus
  MaxTx,            \* bound: transaction and task ids are 1..MaxTx
  MaxRounds,        \* bound: turns before a running task's timer must fire
  MaxArrivals,      \* bound: commands the network ever delivers
  MaxPending        \* bound: length of command_queue_

DroneRoles == {"SCOUT", "STRIKER"}

ASSUME NodesAssumption ==
  /\ Gcs \notin Drones
  /\ Self \in Drones \cup {Gcs}

ASSUME ConfigAssumption ==
  /\ Role \in DroneRoles
  /\ SilentConsensus \in BOOLEAN

ASSUME BoundsAssumption ==
  /\ MaxTx \in Nat
  /\ MaxRounds \in Nat \ {0}
  /\ MaxArrivals \in Nat
  /\ MaxPending \in Nat

VARIABLES
  task_queue,           \* task_queue_, the active task is its head
  active_task_started,  \* active_task_started_
  active_task_type,     \* active_task_type_
  in_emergency,         \* in_emergency_
  command_queue,        \* command_queue_
  pending_request,      \* pending_consensus_request_
  outcome,              \* last_consensus_outcome_
  sent_votes,           \* votes published by vote_on_proposal
  battery_low,          \* own_state_.battery < CRITICAL_BATTERY_PERCENTAGE
  peer_offline,         \* peer_table_.offline_peer_count() > 0
  next_tx,              \* GcsController::next_transaction_id_
  arrivals,             \* number of add_command calls so far
  pc                    \* the engine thread's position in task_engine_step

queueVars == <<task_queue, active_task_started, active_task_type>>
engineVars == <<queueVars, in_emergency, outcome, sent_votes, pc>>
envVars == <<peer_offline, next_tx, arrivals>>
vars == <<engineVars, command_queue, pending_request, battery_low, envVars>>

-----------------------------------------------------------------------------
(* Messages and tasks *)

IsDrone == Self \in Drones

TxIds == 1 .. MaxTx
Votes == {"PENDING", "ACK", "NACK"}
Results == {"PENDING", "COMMITTED", "ABORTED"}
MissionTypes == {"SCOUT_SEARCH", "GO_TO_TARGET"}
QueuedTypes == {"IDLE", "CONSENSUS", "FAIL_SAFE", "LANDING"} \cup MissionTypes
TaskTypes == {"INIT"} \cup QueuedTypes

\* A Consensus message whose vote is PENDING is the GCS's proposal, one whose
\* vote is ACK or NACK is a drone's vote.
Proposal == [type : {"CONSENSUS"}, sender : {Gcs}, tx : TxIds, vote : {"PENDING"}]
VoteMsg == [type : {"CONSENSUS"}, sender : Drones, tx : TxIds, vote : {"ACK", "NACK"}]
Order == [type : {"TASK_ALLOCATION"}, tx : TxIds, target_role : DroneRoles]
Command == Proposal \cup VoteMsg \cup Order

\* The ballots a ConsensusTask can hold: one vote per expected voter.
Ballots == UNION {[V -> Votes] : V \in SUBSET Drones}

\* One element of task_queue_.  entered counts the on_enter calls the object
\* has had; tx is the transaction or task id it was created for; votes,
\* result and timed_out are ConsensusTask's.
Task == [type : QueuedTypes, entered : Nat, age : Nat, tx : Nat,
         votes : Ballots, result : Results, timed_out : BOOLEAN]

NewTask(type, tx, votes) ==
  [type |-> type, entered |-> 0, age |-> 0, tx |-> tx,
   votes |-> votes, result |-> "PENDING", timed_out |-> FALSE]

NoBallot == [d \in {} |-> "PENDING"]
IdleTask == NewTask("IDLE", 0, NoBallot)
FailSafeTask == NewTask("FAIL_SAFE", 0, NoBallot)
LandingTask == NewTask("LANDING", 0, NoBallot)

\* Faulty variant: the task forgets which transaction it counts votes for.
ConsensusTaskWithoutId(tx, voters) == NewTask("CONSENSUS", 0, [d \in voters |-> "PENDING"])

ConsensusTask(tx, voters) == NewTask("CONSENSUS", tx, [d \in voters |-> "PENDING"])

\* TaskAllocationEngine: an order concerns a drone of its role, and creates the
\* mission of that role.
ConcernsThisNode(order) == IsDrone /\ order.target_role = Role

\* Faulty variant: the role is not translated to a kind of task.
MissionTaskUntranslated(order) == NewTask(order.target_role, order.tx, NoBallot)

MissionTask(order) ==
  NewTask(IF order.target_role = "SCOUT" THEN "SCOUT_SEARCH" ELSE "GO_TO_TARGET",
          order.tx, NoBallot)

NoRequest == [present |-> FALSE, tx |-> 0, voters |-> {}]
NoOutcome == [valid |-> FALSE, tx |-> 0, result |-> "PENDING", timed_out |-> FALSE]

-----------------------------------------------------------------------------
(* ConsensusTask and the timers *)

\* Faulty variant: the first ACK decides.
EvaluateFirstAck(votes) ==
  IF \E d \in DOMAIN votes : votes[d] = "NACK" THEN "ABORTED"
  ELSE IF \E d \in DOMAIN votes : votes[d] = "ACK" THEN "COMMITTED"
  ELSE "PENDING"

\* One NACK aborts; ACKs from all expected voters (possibly none) commit.
Evaluate(votes) ==
  IF \E d \in DOMAIN votes : votes[d] = "NACK" THEN "ABORTED"
  ELSE IF \A d \in DOMAIN votes : votes[d] = "ACK" THEN "COMMITTED"
  ELSE "PENDING"

OnEnter(t) ==
  [t EXCEPT !.entered = @ + 1,
            !.age = 0,
            !.result = IF t.type = "CONSENSUS" THEN Evaluate(t.votes) ELSE @,
            !.timed_out = FALSE]

\* ConsensusTask::on_vote: late votes and strangers' votes change nothing.
OnVote(t, sender, vote) ==
  IF t.result = "PENDING" /\ sender \in DOMAIN t.votes
    THEN LET votes == [t.votes EXCEPT ![sender] = vote]
         IN  [t EXCEPT !.votes = votes,
                       !.result = IF vote = "NACK" THEN "ABORTED" ELSE Evaluate(votes)]
    ELSE t

\* In the turn of on_enter the elapsed time is zero, so the timers of these
\* tasks cannot fire yet; a landing or a flight may already be over.
MinRounds(type) == IF type \in {"CONSENSUS", "FAIL_SAFE", "SCOUT_SEARCH"} THEN 1 ELSE 0

\* Whether the task's timer or flight is over in this turn.
TimerChoices(t) ==
  {over \in BOOLEAN :
     /\ over => t.type # "IDLE" /\ t.age >= MinRounds(t.type)
     /\ ~over => t.type = "IDLE" \/ t.age < MaxRounds}

\* Task::run of the active task.
Run(t, over) ==
  IF t.type = "IDLE" \/ t.result # "PENDING" THEN t
  ELSE IF over /\ t.type = "CONSENSUS"
    THEN [t EXCEPT !.result = "ABORTED", !.timed_out = TRUE]
  ELSE [t EXCEPT !.age = @ + 1]

\* Faulty variant: only a committed vote ends the task.
IsFinishedIfCommitted(t, over) ==
  \/ t.type = "CONSENSUS" /\ t.result = "COMMITTED"
  \/ t.type \notin {"CONSENSUS", "IDLE"} /\ over

\* is_finished of the task t that was just run.
IsFinished(t, over) ==
  \/ t.type = "CONSENSUS" /\ t.result # "PENDING"
  \/ t.type \notin {"CONSENSUS", "IDLE"} /\ over

-----------------------------------------------------------------------------
(* The queue helpers of SwarmManager *)

\* The queue q after the active task has become t.
WithHead(q, t) == [q EXCEPT ![1] = t]

\* Faulty variant: record_task_type is not called.
StartActiveTaskUnrecorded(q) ==
  /\ task_queue' = IF q = <<>> THEN q ELSE WithHead(q, OnEnter(Head(q)))
  /\ active_task_started' = (q # <<>>)
  /\ UNCHANGED active_task_type

\* start_active_task on queue q, with record_task_type.
StartActiveTask(q) ==
  IF q = <<>>
    THEN /\ task_queue' = q
         /\ active_task_started' = FALSE
         /\ UNCHANGED active_task_type
    ELSE /\ task_queue' = WithHead(q, OnEnter(Head(q)))
         /\ active_task_started' = TRUE
         /\ active_task_type' = Head(q).type

\* Faulty variant: active_task_started_ is not consulted.
PrepareQueueAnyway(q, started) == StartActiveTask(IF q = <<>> THEN <<IdleTask>> ELSE q)

\* prepare_queue on queue q: an empty queue falls back to IdleTask, and a head
\* that was not started is started.
PrepareQueue(q, started) ==
  IF q # <<>> /\ started
    THEN /\ task_queue' = q
         /\ active_task_started' = TRUE
         /\ UNCHANGED active_task_type
    ELSE StartActiveTask(IF q = <<>> THEN <<IdleTask>> ELSE q)

IdleHeadNever == FALSE   \* faulty variant: a waiting IdleTask is not displaced
IdleHead == task_queue # <<>> /\ Head(task_queue).type = "IDLE"

Emergency == battery_low \/ peer_offline

\* place_emergency_tasks acts on the edge, not on the level.
EmergencyHolds == Emergency   \* faulty variant: it acts in every turn
EmergencyBegins == Emergency /\ ~in_emergency

EmergencyTasksReversed == <<LandingTask, FailSafeTask>>   \* faulty variants: the
EmergencyTasksLandOnly == <<LandingTask>>                 \* order, the assessment
EmergencyTasks == <<FailSafeTask, LandingTask>>

\* vote_on_proposal decides by the battery alone.
OwnVoteInEmergency == IF Emergency THEN "NACK" ELSE "ACK"   \* faulty variant
OwnVote == IF battery_low THEN "NACK" ELSE "ACK"

-----------------------------------------------------------------------------
(* Thread 3: task_engine_step *)

\* apply_pending_consensus_request: a waiting request takes the whole queue.
ApplyPendingRequest ==
  /\ pc = "apply"
  /\ pc' = "emergency"
  /\ IF pending_request.present
       THEN /\ task_queue' = <<ConsensusTask(pending_request.tx, pending_request.voters)>>
            /\ active_task_started' = FALSE
            /\ pending_request' = NoRequest
            /\ UNCHANGED active_task_type
       ELSE UNCHANGED <<queueVars, pending_request>>
  /\ UNCHANGED <<in_emergency, outcome, sent_votes, command_queue, battery_low, envVars>>

\* check_emergency, place_emergency_tasks and the first prepare_queue.
CheckEmergency ==
  /\ pc = "emergency"
  /\ pc' = "commands"
  /\ in_emergency' = Emergency
  /\ IF EmergencyBegins
       THEN PrepareQueue(EmergencyTasks, FALSE)
       ELSE PrepareQueue(task_queue, active_task_started)
  /\ UNCHANGED <<outcome, sent_votes, command_queue, pending_request, battery_low, envVars>>

\* pop_command succeeds: the command at the head is consumed.
PopCommand(c) ==
  /\ pc = "commands"
  /\ command_queue # <<>>
  /\ c = Head(command_queue)
  /\ command_queue' = Tail(command_queue)
  /\ UNCHANGED <<pc, in_emergency, outcome, pending_request, battery_low, envVars>>

IsProposal(c) == c.type = "CONSENSUS" /\ c.sender # Self /\ c.vote = "PENDING"
IsVote(c) == c.type = "CONSENSUS" /\ c.sender # Self /\ c.vote # "PENDING"

\* vote_on_proposal: the vote that is published, unless the fault injection
\* silences the drone.
VoteOnProposal(c) ==
  IF SilentConsensus THEN {}
  ELSE {[type |-> "CONSENSUS", sender |-> Self, tx |-> c.tx, vote |-> OwnVote]}

\* A consensus message that is not another node's vote: the node's own
\* publication, heard back, is dropped; a drone answers a proposal.
HearProposal(c) ==
  /\ PopCommand(c)
  /\ c.type = "CONSENSUS" /\ ~IsVote(c)
  /\ sent_votes' = sent_votes \cup (IF IsProposal(c) /\ IsDrone THEN VoteOnProposal(c) ELSE {})
  /\ UNCHANGED queueVars

\* Faulty variant: a vote on an earlier transaction counts too.
CountVoteOfAnyRound(c) ==
  /\ PopCommand(c)
  /\ IsVote(c)
  /\ task_queue' =
       IF task_queue # <<>> /\ Head(task_queue).type = "CONSENSUS"
         THEN WithHead(task_queue, OnVote(Head(task_queue), c.sender, c.vote))
         ELSE task_queue
  /\ UNCHANGED <<active_task_started, active_task_type, sent_votes>>

\* A vote reaches the ConsensusTask at the head if the transaction matches.
CountVote(c) ==
  /\ PopCommand(c)
  /\ IsVote(c)
  /\ task_queue' =
       IF /\ task_queue # <<>>
          /\ Head(task_queue).type = "CONSENSUS"
          /\ Head(task_queue).tx = c.tx
         THEN WithHead(task_queue, OnVote(Head(task_queue), c.sender, c.vote))
         ELSE task_queue
  /\ UNCHANGED <<active_task_started, active_task_type, sent_votes>>

\* An order for this node's role displaces an idle head and is appended.
TakeOrder(c) ==
  /\ PopCommand(c)
  /\ c.type = "TASK_ALLOCATION"
  /\ IF ~ConcernsThisNode(c)
       THEN UNCHANGED <<task_queue, active_task_started>>
       ELSE IF IdleHead
         THEN /\ task_queue' = Append(Tail(task_queue), MissionTask(c))
              /\ active_task_started' = FALSE
         ELSE /\ task_queue' = Append(task_queue, MissionTask(c))
              /\ UNCHANGED active_task_started
  /\ UNCHANGED <<active_task_type, sent_votes>>

ProcessCommand ==
  \E c \in Command : HearProposal(c) \/ CountVote(c) \/ TakeOrder(c)

\* on_exit and pop_front of the active task, whose queue is q, then the next
\* task is started.
RetireActive(q) ==
  /\ StartActiveTask(Tail(q))
  /\ pc' = "apply"

\* pop_command found nothing: the second prepare_queue.
EndCommands ==
  /\ pc = "commands"
  /\ command_queue = <<>>
  /\ pc' = "run"
  /\ PrepareQueue(task_queue, active_task_started)
  /\ UNCHANGED <<in_emergency, outcome, sent_votes, command_queue, pending_request,
                 battery_low, envVars>>

\* run and is_finished of the active task, whose timer or flight is over or
\* not.  A finished ConsensusTask stays at the head until its result has been
\* written, any other finished task is retired at once.
RunActive(over) ==
  LET t == Run(Head(task_queue), over)
      ran == WithHead(task_queue, t)
  IN  \/ /\ ~IsFinished(t, over)
         /\ task_queue' = ran
         /\ pc' = "apply"
         /\ UNCHANGED <<active_task_started, active_task_type>>
      \/ /\ IsFinished(t, over) /\ t.type = "CONSENSUS"
         /\ task_queue' = ran
         /\ pc' = "record"
         /\ UNCHANGED <<active_task_started, active_task_type>>
      \/ /\ IsFinished(t, over) /\ t.type # "CONSENSUS"
         /\ RetireActive(ran)

RunActiveTask ==
  /\ pc = "run"
  /\ \E over \in TimerChoices(Head(task_queue)) : RunActive(over)
  /\ UNCHANGED <<in_emergency, outcome, sent_votes, command_queue, pending_request,
                 battery_low, envVars>>

\* The rest of the step for a finished ConsensusTask: its result is stored
\* without a lock, it is popped, and an abort cancels the whole queue.
RecordOutcome ==
  /\ pc = "record"
  /\ LET t == Head(task_queue)
     IN  /\ outcome' = [valid |-> TRUE, tx |-> t.tx, result |-> t.result,
                        timed_out |-> t.timed_out]
         /\ RetireActive(IF t.result = "ABORTED" THEN <<t>> ELSE task_queue)
  /\ UNCHANGED <<in_emergency, sent_votes, command_queue, pending_request, battery_low, envVars>>

EngineStep ==
  \/ ApplyPendingRequest
  \/ CheckEmergency
  \/ ProcessCommand
  \/ EndCommands
  \/ RunActiveTask
  \/ RecordOutcome

-----------------------------------------------------------------------------
(* The other threads *)

\* add_command, from a DDS callback.
AddCommand(c) ==
  /\ arrivals < MaxArrivals
  /\ Len(command_queue) < MaxPending
  /\ command_queue' = Append(command_queue, c)
  /\ arrivals' = arrivals + 1
  /\ UNCHANGED <<engineVars, pending_request, battery_low, peer_offline, next_tx>>

\* request_consensus, from the GCS main thread: it overwrites whatever waits.
LeaveRequest(tx, voters) ==
  pending_request' = [present |-> TRUE, tx |-> tx, voters |-> voters]

\* A round of GcsController::propose_task, always under a fresh id.
RequestConsensus(voters) ==
  /\ ~IsDrone
  /\ next_tx \in TxIds
  /\ LeaveRequest(next_tx, voters)
  /\ next_tx' = next_tx + 1
  /\ UNCHANGED <<engineVars, command_queue, battery_low, peer_offline, arrivals>>

\* A known peer falls silent, or the last silent one is heard again.
PeerStatusChanges ==
  /\ peer_offline' = ~peer_offline
  /\ UNCHANGED <<engineVars, command_queue, pending_request, battery_low, next_tx, arrivals>>

OtherThreads ==
  \/ \E c \in Command : AddCommand(c)
  \/ \E voters \in SUBSET Drones : RequestConsensus(voters)
  \/ PeerStatusChanges

-----------------------------------------------------------------------------
Init ==
  /\ task_queue = <<>>
  /\ active_task_started = FALSE
  /\ active_task_type = "INIT"
  /\ in_emergency = FALSE
  /\ command_queue = <<>>
  /\ pending_request = NoRequest
  /\ outcome = NoOutcome
  /\ sent_votes = {}
  /\ battery_low \in BOOLEAN
  /\ peer_offline = FALSE
  /\ next_tx = 1
  /\ arrivals = 0
  /\ pc = "apply"

Next == EngineStep \/ OtherThreads

\* task_engine_loop runs until stop(): the thread never blocks for good.
Fairness == WF_vars(EngineStep)

Spec == Init /\ [][Next]_vars
FairSpec == Spec /\ Fairness

-----------------------------------------------------------------------------
(* Properties *)

\* Types of all variables; request and outcome are swarm_manager.hpp:206-349.
TypeOK ==
  /\ task_queue \in Seq(Task)
  /\ active_task_started \in BOOLEAN
  /\ active_task_type \in TaskTypes
  /\ in_emergency \in BOOLEAN
  /\ command_queue \in Seq(Command)
  /\ pending_request \in [present : BOOLEAN, tx : Nat, voters : SUBSET Drones]
  /\ outcome \in [valid : BOOLEAN, tx : Nat, result : Results, timed_out : BOOLEAN]
  /\ sent_votes \subseteq VoteMsg
  /\ battery_low \in BOOLEAN
  /\ peer_offline \in BOOLEAN
  /\ next_tx \in Nat
  /\ arrivals \in Nat
  /\ pc \in {"apply", "emergency", "commands", "run", "record"}

\* Every task that has reached the head and been started has had on_enter
\* exactly once, and no task behind it has: the flag is never left over from a
\* task that was cleared, displaced or popped (swarm_manager.hpp:320-322).
EnteredOnce ==
  /\ active_task_started => task_queue # <<>>
  /\ \A i \in DOMAIN task_queue :
       task_queue[i].entered = IF i = 1 /\ active_task_started THEN 1 ELSE 0

\* IdleTask never finishes, so a task queued behind it would wait for ever:
\* an idle node's queue holds nothing else.
IdleAlone ==
  \A i \in DOMAIN task_queue : task_queue[i].type = "IDLE" => Len(task_queue) = 1

\* The emergency sequence is whole and in front: FailSafe is always the head
\* and followed by Landing, and Landing is the head or right behind FailSafe.
EmergencySequenceFirst ==
  \A i \in DOMAIN task_queue :
    /\ task_queue[i].type = "FAIL_SAFE" =>
         /\ i = 1
         /\ Len(task_queue) > 1
         /\ task_queue[2].type = "LANDING"
    /\ task_queue[i].type = "LANDING" =>
         i = 1 \/ (i = 2 /\ task_queue[1].type = "FAIL_SAFE")

\* current_task_type(), which other threads read, names the task that runs.
ReportedTypeIsActive ==
  active_task_started => active_task_type = Head(task_queue).type

Active(type) == active_task_started /\ Head(task_queue).type = type

\* The vehicle starts to land only straight out of a FailSafe assessment.
LandingOnlyAfterFailSafe ==
  [][Active("LANDING")' /\ ~Active("LANDING") => Active("FAIL_SAFE")]_vars

\* A drone's vote on a transaction never changes once it is published.
OneVotePerTransaction ==
  \A v, w \in sent_votes : v.tx = w.tx => v = w

\* Whatever the order of votes, time-outs and turns, a result is recorded only
\* once decided: COMMITTED exactly when every expected voter's vote is an ACK,
\* and ABORTED without a time-out only for a NACK.
OutcomeFollowsVotes ==
  [][outcome' # outcome =>
       LET votes == Head(task_queue).votes
           ayes == {d \in DOMAIN votes : votes[d] = "ACK"}
           noes == {d \in DOMAIN votes : votes[d] = "NACK"}
       IN  /\ outcome'.result \in {"COMMITTED", "ABORTED"}
           /\ outcome'.result = "COMMITTED" <=> ayes = DOMAIN votes
           /\ outcome'.timed_out <=> ayes # DOMAIN votes /\ noes = {}]_vars

Queued(tx) == \E i \in DOMAIN task_queue :
                task_queue[i].type \in MissionTypes /\ task_queue[i].tx = tx

\* An accepted order leaves the queue: flown to its end, or cleared by an
\* emergency; it is never stuck behind a task that does not finish.
MissionLeavesQueue == \A tx \in TxIds : Queued(tx) ~> ~Queued(tx)

\* Every emergency is answered to its end: FailSafe and Landing are completed
\* unless the cause goes away first, however commands and turns interleave.
EmergencyLands ==
  in_emergency ~> \/ ~in_emergency
                  \/ \A i \in DOMAIN task_queue : task_queue[i].type \notin {"FAIL_SAFE", "LANDING"}

(* What the comments promise and the code does not do *)

\* "Whatever we are doing we drop it and go to the safe sequence: first stop
\* and assess, then land, then wait idle" (swarm_manager.cpp:443-444).  Orders
\* are still accepted in an emergency and are flown after the landing.
NoMissionInEmergency ==
  in_emergency => \A type \in MissionTypes : ~Active(type)
=============================================================================

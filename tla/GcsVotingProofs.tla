--------------------------- MODULE GcsVotingProofs ---------------------------
(***************************************************************************)
(* Theorems about a mission's vote from end to end: any number of drones   *)
(* and missions, drones that fall silent and return, and, except where a   *)
(* theorem says otherwise, restarts of the ground station.                 *)
(*                                                                         *)
(* A transaction number travels from the main thread through the request   *)
(* slot and the task at the head of the queue to the recorded outcome.     *)
(* VotingInv says that it is in one of these places at a time, that the    *)
(* numbers in later places are smaller than those in earlier ones, and     *)
(* that each ACK on its way was given by its drone.  It rests on IInv of   *)
(* TaskEngineProofs, which makes a recorded result the verdict of the      *)
(* votes.                                                                  *)
(***************************************************************************)
EXTENDS GcsVoting, TaskEngineProofs

\* A drone has really agreed.  Only while the ground station is never started
\* again does a vote count only for the proposal it was cast for.
Agreed(d, tx) ==
  /\ answer[d] = "ACK"
  /\ MaxEpochs <= 1 => HasCast(d, "ACK", tx)

\* A round that propose_task has not handed over to the engine's queue yet.
Upcoming == main_pc = "request" \/ pending_request.present

\* A round that the controller is in.
InRound == main_pc # "loop" \/ gcs_state = "VOTING"

\* What a ConsensusTask for tx that holds these votes may be.
BallotOf(tx, votes) ==
  /\ tx \in outcome.tx + 1 .. active_tx
  /\ Upcoming => tx # active_tx
  /\ tx = active_tx => DOMAIN votes = voters
  /\ \A d \in DOMAIN votes : votes[d] = "ACK" => Agreed(d, tx)

\* Only the head of the queue is ever a ConsensusTask.
TasksInv ==
  \A i \in 1 .. Len(task_queue) :
    task_queue[i].type = "CONSENSUS" =>
      i = 1 /\ BallotOf(task_queue[i].tx, task_queue[i].votes)

RoundInv ==
  /\ active_tx \in 0 .. MaxTx
  /\ next_tx = active_tx + 1
  /\ main_pc # "loop" => gcs_state = "IDLE"
  /\ InRound => active_tx # 0
  /\ outcome.tx \in 0 .. active_tx
  /\ Upcoming => outcome.tx # active_tx
  /\ pending_request.present =>
       /\ pending_request.tx = active_tx
       /\ pending_request.voters = voters
       /\ main_pc # "request" /\ InRound
  /\ outcome.valid /\ outcome.tx = active_tx /\ outcome.result = "COMMITTED" =>
       \A d \in voters : Agreed(d, active_tx)

\* An ACK that has been published, or has come as far as the command queue.
DronesInv ==
  /\ \A d \in Drones : \A i \in 1 .. Len(cast[d]) :
       /\ cast[d][i].vote = answer[d]
       /\ MaxEpochs <= 1 => cast[d][i].epoch = epoch
  /\ \A i \in 1 .. Len(command_queue) :
       command_queue[i].type = "CONSENSUS" /\ command_queue[i].vote = "ACK" =>
         Agreed(command_queue[i].sender, command_queue[i].tx)

ProposalsInv ==
  /\ epoch # 0
  /\ MaxEpochs <= 1 =>
       \A i \in 1 .. Len(proposals) : /\ proposals[i].epoch = epoch
                                      /\ proposals[i].tx <= active_tx

VotingInv ==
  /\ IInv
  /\ GcsTypeOK
  /\ RoundInv
  /\ TasksInv
  /\ DronesInv
  /\ ProposalsInv

\* While copies of the outcome are whole: orders are for outcomes that were
\* committed.
OrdersInv ==
  /\ \A i \in 1 .. Len(orders) :
       /\ orders[i] <= outcome.tx
       /\ orders[i] = outcome.tx => outcome.result = "COMMITTED"
  /\ InRound => \A i \in 1 .. Len(orders) : orders[i] # active_tx

\* While no peer is lost: the ground station is never in an emergency, and a
\* round that has been handed over is somewhere.
AliveInv ==
  /\ known = online
  /\ ~battery_low
  /\ main_pc = "publish" \/ Waiting =>
       \/ pending_request.present
       \/ task_queue # <<>> /\ task_queue[1].type = "CONSENSUS" /\ task_queue[1].tx = active_tx
       \/ outcome.valid /\ outcome.tx = active_tx

-----------------------------------------------------------------------------
(* What the engine's helpers do to the ConsensusTasks of a queue *)

\* Every ConsensusTask of r is, up to its result, the one of q in its place.
Descends(r, q) ==
  \A i \in 1 .. Len(r) : r[i].type = "CONSENSUS" =>
    /\ i \in 1 .. Len(q)
    /\ q[i].type = "CONSENSUS" /\ r[i].tx = q[i].tx /\ r[i].votes = q[i].votes

\* Replacing the head by a later state of the same task.
LEMMA WithHeadDescends ==
  ASSUME NEW q \in Seq(Task), q # <<>>,
         NEW t \in Task, t.type = q[1].type, t.tx = q[1].tx, t.votes = q[1].votes
  PROVE  Descends(WithHead(q, t), q) /\ Descends(q, WithHead(q, t))
<1>1. /\ Len(WithHead(q, t)) = Len(q)
      /\ WithHead(q, t)[1] = t
      /\ \A i \in 1 .. Len(q) : i # 1 => WithHead(q, t)[i] = q[i]
  BY WithHeadType
<1> QED BY <1>1 DEF Descends

\* on_enter and run leave a task's transaction and its votes alone.
LEMMA SameBallot ==
  ASSUME NEW t \in Task, NEW over \in BOOLEAN
  PROVE  /\ OnEnter(t).tx = t.tx /\ OnEnter(t).votes = t.votes
         /\ Run(t, over).tx = t.tx /\ Run(t, over).votes = t.votes
  BY DEF OnEnter, Run, Task

LEMMA StartDescends ==
  ASSUME NEW q \in Seq(Task), StartActiveTask(q)
  PROVE  Descends(task_queue', q) /\ Descends(q, task_queue')
<1>1. CASE q = <<>>
  BY <1>1 DEF StartActiveTask, Descends
<1>2. CASE q # <<>>
  <2>1. q[1] \in Task /\ Head(q) = q[1]
    BY <1>2, HeadIsFirst
  <2>2. task_queue' = WithHead(q, OnEnter(q[1]))
    BY <1>2, <2>1 DEF StartActiveTask
  <2> QED BY <1>2, <2>1, <2>2, OnEnterType, SameBallot, WithHeadDescends
<1> QED BY <1>1, <1>2

\* IdleTask, put into an empty queue, is no ConsensusTask.
LEMMA PrepareDescends ==
  ASSUME NEW q \in Seq(Task), NEW started, PrepareQueue(q, started)
  PROVE  Descends(task_queue', q) /\ Descends(q, task_queue')
<1>1. CASE q # <<>> /\ started
  BY <1>1 DEF PrepareQueue, Descends
<1>2. CASE q # <<>> /\ ~started
  BY <1>2, StartDescends DEF PrepareQueue
<1>3. CASE q = <<>>
  <2>1. StartActiveTask(<<IdleTask>>)
    BY <1>3 DEF PrepareQueue
  <2>2. Descends(task_queue', <<IdleTask>>)
    BY <2>1, FreshQueueShapes, StartDescends
  <2>3. IdleTask.type = "IDLE"
    BY DEF IdleTask, NewTask
  <2> QED BY <1>3, <2>2, <2>3 DEF Descends
<1> QED BY <1>1, <1>2, <1>3

\* While only a head is a ConsensusTask, none is left when the head has gone.
LEMMA RetireLeavesNone ==
  ASSUME NEW q \in Seq(Task), q # <<>>,
         \A i \in 1 .. Len(q) : q[i].type = "CONSENSUS" => i = 1,
         RetireActive(q)
  PROVE  \A i \in 1 .. Len(task_queue') : task_queue'[i].type # "CONSENSUS"
<1>1. /\ Tail(q) \in Seq(Task) /\ Len(Tail(q)) = Len(q) - 1
      /\ \A i \in 1 .. Len(Tail(q)) : Tail(q)[i] = q[i + 1]
  BY HeadTailProperties
<1>2. Len(q) \in Nat
  BY LenProperties
<1>3. \A i \in 1 .. Len(Tail(q)) : Tail(q)[i].type # "CONSENSUS"
  BY <1>1, <1>2
<1>4. Descends(task_queue', Tail(q))
  BY <1>1, StartDescends DEF RetireActive
<1> QED BY <1>3, <1>4 DEF Descends

-----------------------------------------------------------------------------
(* The steps of the engine, as far as votes are concerned *)

\* The request becomes the ConsensusTask of an otherwise empty queue.
TakesRequest ==
  /\ pending_request.present
  /\ task_queue' = <<ConsensusTask(pending_request.tx, pending_request.voters)>>
  /\ pending_request' = NoRequest
  /\ UNCHANGED <<outcome, command_queue>>

\* Nothing but an emergency removes a ConsensusTask before its outcome.
KeepsBallots ==
  /\ Descends(task_queue', task_queue)
  /\ Emergency \/ Descends(task_queue, task_queue')
  /\ \/ command_queue' = command_queue
     \/ command_queue # <<>> /\ command_queue' = Tail(command_queue)
  /\ UNCHANGED <<outcome, pending_request>>

CountsVote ==
  LET c == command_queue[1]
      t == task_queue[1]
  IN  /\ command_queue # <<>> /\ command_queue' = Tail(command_queue)
      /\ c.type = "CONSENSUS" /\ c.sender \in DOMAIN t.votes /\ c.vote \in {"ACK", "NACK"}
      /\ task_queue # <<>> /\ t.type = "CONSENSUS" /\ t.tx = c.tx
      /\ \E u \in Task :
           /\ u.type = "CONSENSUS" /\ u.tx = t.tx
           /\ u.votes = [t.votes EXCEPT ![c.sender] = c.vote]
           /\ task_queue' = WithHead(task_queue, u)
      /\ UNCHANGED <<outcome, pending_request>>

\* The head's ballots come into the outcome, and no ConsensusTask is left.
Records ==
  LET t == task_queue[1]
  IN  /\ task_queue # <<>> /\ t.type = "CONSENSUS" /\ Tallied(t)
      /\ outcome' = [valid |-> TRUE, tx |-> t.tx, result |-> t.result, timed_out |-> t.timed_out]
      /\ \A i \in 1 .. Len(task_queue') : task_queue'[i].type # "CONSENSUS"
      /\ UNCHANGED <<pending_request, command_queue>>

\* A vote that reaches the ConsensusTask it is for.
LEMMA CountVoteCases ==
  ASSUME IInv, NEW c \in Command, CountVote(c)
  PROVE  KeepsBallots \/ CountsVote
<1>1. /\ task_queue \in Seq(Task) /\ command_queue \in Seq(Command)
      /\ command_queue # <<>> /\ c = Head(command_queue) /\ command_queue' = Tail(command_queue)
      /\ UNCHANGED <<outcome, pending_request>>
  BY DEF IInv, TypeOK, CountVote, PopCommand
<1>2. c = command_queue[1]
  BY <1>1
<1>3. c.type = "CONSENSUS" /\ c.sender \in Drones /\ c.vote \in {"ACK", "NACK"}
  BY DEF CountVote, IsVote, Command, Proposal, VoteMsg, Order
<1> DEFINE t == task_queue[1]
           u == OnVote(t, c.sender, c.vote)
<1>4. CASE /\ task_queue # <<>> /\ t.type = "CONSENSUS" /\ t.tx = c.tx
           /\ t.result = "PENDING" /\ c.sender \in DOMAIN t.votes
  <2>1. t \in Task /\ Head(task_queue) = t
    BY <1>1, <1>4, HeadIsFirst
  <2>2. task_queue' = WithHead(task_queue, u)
    BY <1>4, <2>1 DEF CountVote
  <2>3. u \in Task /\ u.type = t.type
    BY <1>3, <2>1, OnVoteType
  <2>4. u.tx = t.tx /\ u.votes = [t.votes EXCEPT ![c.sender] = c.vote]
    BY <1>4, <2>1 DEF OnVote, Task
  <2> HIDE DEF t, u
  <2>5. CountsVote
    BY <1>1, <1>2, <1>3, <1>4, <2>2, <2>3, <2>4 DEF CountsVote, t
  <2> QED BY <2>5
<1>5. CASE ~(/\ task_queue # <<>> /\ t.type = "CONSENSUS" /\ t.tx = c.tx
             /\ t.result = "PENDING" /\ c.sender \in DOMAIN t.votes)
  <2>1. \/ task_queue' = task_queue
        \/ task_queue # <<>> /\ task_queue' = WithHead(task_queue, t)
    <3>1. task_queue # <<>> => t \in Task /\ Head(task_queue) = t
      BY <1>1, HeadIsFirst
    <3>2. t.type = "CONSENSUS" /\ t.tx = c.tx /\ task_queue # <<>> => u = t
      BY <1>5 DEF OnVote
    <3> QED BY <3>1, <3>2 DEF CountVote
  <2>2. Descends(task_queue', task_queue) /\ Descends(task_queue, task_queue')
    <3>1. CASE task_queue' = task_queue
      BY <3>1 DEF Descends
    <3>2. CASE task_queue # <<>> /\ task_queue' = WithHead(task_queue, t)
      BY <1>1, <3>2, HeadIsFirst, WithHeadDescends
    <3> QED BY <2>1, <3>1, <3>2
  <2> QED BY <1>1, <2>2 DEF KeepsBallots
<1> QED BY <1>4, <1>5

LEMMA RunKeepsBallots ==
  ASSUME IInv, TasksInv, RunActiveTask
  PROVE  KeepsBallots
<1>1. /\ active_task_started = TRUE /\ task_queue \in Seq(Task)
      /\ Installed(task_queue, TRUE, active_task_type) /\ task_queue # <<>>
  BY DEF IInv, TypeOK, PcInv, RunActiveTask, Installed
<1>2. Head(task_queue) = task_queue[1] /\ task_queue[1] \in Task /\ Len(task_queue) \in Nat \ {0}
  BY <1>1, HeadIsFirst
<1>3. PICK over \in TimerChoices(task_queue[1]) : RunActive(over)
  BY <1>2 DEF RunActiveTask
<1> DEFINE t == Run(task_queue[1], over)
           ran == WithHead(task_queue, t)
<1>4. over \in BOOLEAN
  BY DEF TimerChoices
<1>5. /\ t \in Task /\ t.type = task_queue[1].type
      /\ t.tx = task_queue[1].tx /\ t.votes = task_queue[1].votes
  BY <1>2, <1>4, RunType, SameBallot
<1>6. \/ task_queue' = ran
      \/ t.type # "CONSENSUS" /\ RetireActive(ran)
  BY <1>2, <1>3 DEF RunActive
<1> HIDE DEF t
<1>7. Descends(ran, task_queue) /\ Descends(task_queue, ran)
  BY <1>1, <1>5, WithHeadDescends
<1>8. Descends(task_queue', task_queue) /\ Descends(task_queue, task_queue')
  <2>1. CASE task_queue' = ran
    BY <1>7, <2>1
  <2>2. CASE t.type # "CONSENSUS" /\ RetireActive(ran)
    <3>1. ran \in Seq(Task) /\ ran # <<>>
      BY <1>1, <1>5, WithHeadType
    <3>2. \A i \in 1 .. Len(task_queue) : task_queue[i].type # "CONSENSUS"
      BY <1>5, <2>2 DEF TasksInv
    <3>3. \A i \in 1 .. Len(ran) : ran[i].type # "CONSENSUS"
      BY <1>7, <3>2 DEF Descends
    <3>4. \A i \in 1 .. Len(task_queue') : task_queue'[i].type # "CONSENSUS"
      BY <2>2, <3>1, <3>3, RetireLeavesNone
    <3> QED BY <3>2, <3>4 DEF Descends
  <2> QED BY <1>6, <2>1, <2>2
<1> QED BY <1>8 DEF RunActiveTask, KeepsBallots

LEMMA RecordOutcomeRecords ==
  ASSUME IInv, TasksInv, RecordOutcome
  PROVE  Records
<1>1. /\ task_queue \in Seq(Task) /\ task_queue # <<>> /\ active_task_started = TRUE
      /\ task_queue[1].type = "CONSENSUS" /\ Tallied(task_queue[1])
  BY DEF IInv, TypeOK, PcInv, RecordOutcome, Installed
<1> DEFINE t == task_queue[1]
<1>2. Head(task_queue) = t /\ t \in Task
  BY <1>1, HeadIsFirst
<1>3. RetireActive(<<t>>) \/ RetireActive(task_queue)
  BY <1>2 DEF RecordOutcome
<1>4. \A i \in 1 .. Len(task_queue') : task_queue'[i].type # "CONSENSUS"
  <2>1. CASE RetireActive(<<t>>)
    <3>1. <<t>> \in Seq(Task) /\ <<t>> # <<>> /\ Len(<<t>>) = 1
      BY <1>2
    <3>2. \A i \in 1 .. Len(<<t>>) : i = 1
      BY <3>1
    <3> HIDE DEF t
    <3> DEFINE q == <<t>>
    <3>3. /\ q \in Seq(Task) /\ q # <<>> /\ RetireActive(q)
          /\ \A i \in 1 .. Len(q) : q[i].type = "CONSENSUS" => i = 1
      BY <2>1, <3>1, <3>2
    <3> HIDE DEF q
    <3> QED BY <3>3, RetireLeavesNone
  <2>2. CASE RetireActive(task_queue)
    BY <1>1, <2>2, RetireLeavesNone DEF TasksInv
  <2> QED BY <1>3, <2>1, <2>2
<1> QED BY <1>1, <1>2, <1>4 DEF RecordOutcome, Records

\* On the ground station an engine step does one of four things to the votes.
LEMMA EngineCases ==
  ASSUME IInv, TasksInv, EngineStep
  PROVE  TakesRequest \/ KeepsBallots \/ CountsVote \/ Records
<1>1. /\ task_queue \in Seq(Task) /\ command_queue \in Seq(Command)
  BY DEF IInv, TypeOK
<1>2. CASE ApplyPendingRequest
  BY <1>2 DEF ApplyPendingRequest, TakesRequest, KeepsBallots, Descends, queueVars
<1>3. CASE CheckEmergency
  <2>1. CASE EmergencyBegins
    <3>1. PrepareQueue(EmergencyTasks, FALSE)
      BY <1>3, <2>1 DEF CheckEmergency
    <3>2. Descends(task_queue', EmergencyTasks)
      BY <3>1, FreshQueueShapes, PrepareDescends
    <3>3. \A i \in 1 .. Len(EmergencyTasks) : EmergencyTasks[i].type # "CONSENSUS"
      BY DEF EmergencyTasks, FailSafeTask, LandingTask, NewTask
    <3>4. Descends(task_queue', task_queue)
      BY <3>2, <3>3 DEF Descends
    <3> QED BY <1>3, <2>1, <3>4 DEF CheckEmergency, EmergencyBegins, KeepsBallots
  <2>2. CASE ~EmergencyBegins
    <3>1. PrepareQueue(task_queue, active_task_started)
      BY <1>3, <2>2 DEF CheckEmergency
    <3> QED BY <1>1, <1>3, <3>1, PrepareDescends DEF CheckEmergency, KeepsBallots
  <2> QED BY <2>1, <2>2
<1>4. CASE ProcessCommand
  <2>1. PICK c \in Command : HearProposal(c) \/ CountVote(c) \/ TakeOrder(c)
    BY <1>4 DEF ProcessCommand
  <2>2. CASE HearProposal(c)
    BY <2>2 DEF HearProposal, PopCommand, KeepsBallots, Descends, queueVars
  <2>3. CASE CountVote(c)
    BY <2>3, CountVoteCases
  <2>4. CASE TakeOrder(c)
    <3>1. ~ConcernsThisNode(c)
      BY GcsAssumption, NodesAssumption DEF ConcernsThisNode, IsDrone
    <3> QED BY <2>4, <3>1 DEF TakeOrder, PopCommand, KeepsBallots, Descends
  <2> QED BY <2>1, <2>2, <2>3, <2>4
<1>5. CASE EndCommands
  <2>1. PrepareQueue(task_queue, active_task_started)
    BY <1>5 DEF EndCommands
  <2> QED BY <1>1, <1>5, <2>1, PrepareDescends DEF EndCommands, KeepsBallots
<1>6. CASE RunActiveTask
  BY <1>6, RunKeepsBallots
<1>7. CASE RecordOutcome
  BY <1>7, RecordOutcomeRecords
<1> QED BY <1>2, <1>3, <1>4, <1>5, <1>6, <1>7 DEF EngineStep

-----------------------------------------------------------------------------
(* VotingInv is inductive: the engine *)

\* What a step that only the engine or a callback takes leaves as it was.
LEMMA AgreedStays ==
  ASSUME UNCHANGED <<answer, cast, epoch>>, NEW d, NEW tx
  PROVE  Agreed(d, tx)' <=> Agreed(d, tx)
  BY DEF Agreed, HasCast

LEMMA EngineKeepsIInv == IInv /\ EngineStep => IInv'
  BY NextIInv DEF Next

LEMMA EngineFrame ==
  ASSUME EngineStep
  PROVE  UNCHANGED <<battery_low, envVars>>
  BY DEF EngineStep, ApplyPendingRequest, CheckEmergency, ProcessCommand, HearProposal, CountVote,
         TakeOrder, PopCommand, EndCommands, RunActiveTask, RecordOutcome, envVars

\* GcsTypeOK apart from the engine's variables.
LEMMA TypesOfOthersStay ==
  ASSUME GcsTypeOK, IInv', UNCHANGED <<controllerVars, peerVars, droneVars, proposals, delivered,
                                       epoch, peer_offline>>
  PROVE  GcsTypeOK'
<1>1. TypeOK'
  BY DEF IInv
<1>2. peer_offline' = (known' # online')
  BY DEF GcsTypeOK, peerVars
<1> QED BY <1>1, <1>2 DEF GcsTypeOK, controllerVars, peerVars, droneVars

\* An ACK that leaves the command queue is gone, those behind it are as before.
LEMMA PoppedVotes ==
  ASSUME DronesInv, command_queue \in Seq(Command), UNCHANGED <<answer, cast, epoch>>,
         \/ command_queue' = command_queue
         \/ command_queue # <<>> /\ command_queue' = Tail(command_queue)
  PROVE  DronesInv'
<1>1. \A i \in 1 .. Len(command_queue') :
        \E j \in 1 .. Len(command_queue) : command_queue'[i] = command_queue[j]
  <2>1. CASE command_queue' = command_queue
    BY <2>1
  <2>2. CASE command_queue # <<>> /\ command_queue' = Tail(command_queue)
    <3>1. /\ Len(Tail(command_queue)) = Len(command_queue) - 1
          /\ \A i \in 1 .. Len(Tail(command_queue)) :
               Tail(command_queue)[i] = command_queue[i + 1]
      BY <2>2, HeadTailProperties
    <3>2. Len(command_queue) \in Nat
      BY LenProperties
    <3>3. \A i \in 1 .. Len(Tail(command_queue)) : i + 1 \in 1 .. Len(command_queue)
      BY <3>1, <3>2
    <3> QED BY <2>2, <3>1, <3>3
  <2> QED BY <2>1, <2>2
<1>2. \A d, tx : Agreed(d, tx)' <=> Agreed(d, tx)
  BY AgreedStays
<1> QED BY <1>1, <1>2 DEF DronesInv

LEMMA EngineKeepsTasks ==
  ASSUME VotingInv, GcsEngine
  PROVE  TasksInv' /\ RoundInv'
<1>1. /\ IInv /\ TasksInv /\ RoundInv /\ DronesInv /\ EngineStep
      /\ task_queue \in Seq(Task)
      /\ UNCHANGED <<main_pc, gcs_state, active_tx, voters, next_tx>>
  BY EngineFrame DEF VotingInv, IInv, TypeOK, GcsEngine, controllerVars, envVars
<1>2. \A d, tx : Agreed(d, tx)' <=> Agreed(d, tx)
  BY AgreedStays DEF GcsEngine, droneVars
<1>3. active_tx \in Nat /\ outcome.tx \in 0 .. active_tx
  BY <1>1 DEF RoundInv
<1>4. CASE TakesRequest
  <2> DEFINE t == ConsensusTask(active_tx, voters)
  <2>1. /\ task_queue' = <<t>> /\ outcome' = outcome /\ ~pending_request'.present
        /\ main_pc # "request" /\ outcome.tx # active_tx
    BY <1>1, <1>4 DEF TakesRequest, RoundInv, Upcoming, NoRequest
  <2>2. t.tx = active_tx /\ t.votes = [d \in voters |-> "PENDING"]
    BY DEF ConsensusTask, NewTask
  <2>3. ~Upcoming'
    BY <1>1, <2>1 DEF Upcoming
  <2>4. \A tx, votes :
          tx = active_tx /\ votes = [d \in voters |-> "PENDING"] => BallotOf(tx, votes)'
    BY <1>1, <1>3, <2>1, <2>3 DEF BallotOf
  <2> HIDE DEF t
  <2>5. TasksInv'
    BY <2>1, <2>2, <2>4 DEF TasksInv
  <2>6. RoundInv'
    BY <1>1, <1>2, <2>1, <2>3 DEF RoundInv, InRound
  <2> QED BY <2>5, <2>6
<1>5. CASE KeepsBallots
  <2>1. UNCHANGED <<outcome, pending_request>>
    BY <1>5 DEF KeepsBallots
  <2>2. \A tx, votes : BallotOf(tx, votes)' <=> BallotOf(tx, votes)
    BY <1>1, <1>2, <2>1 DEF BallotOf, Upcoming
  <2>3. TasksInv'
    BY <1>1, <1>5, <2>2 DEF KeepsBallots, Descends, TasksInv
  <2>4. RoundInv'
    BY <1>1, <1>2, <2>1 DEF RoundInv, InRound, Upcoming
  <2> QED BY <2>3, <2>4
<1>6. CASE CountsVote
  <2> DEFINE c == command_queue[1]
             t == task_queue[1]
  <2>1. /\ UNCHANGED <<outcome, pending_request>>
        /\ command_queue # <<>>
        /\ c.type = "CONSENSUS" /\ c.sender \in DOMAIN t.votes /\ c.vote \in {"ACK", "NACK"}
        /\ task_queue # <<>> /\ t.type = "CONSENSUS" /\ t.tx = c.tx
    BY <1>6 DEF CountsVote
  <2>2. PICK u \in Task : /\ u.type = "CONSENSUS" /\ u.tx = t.tx
                          /\ u.votes = [t.votes EXCEPT ![c.sender] = c.vote]
                          /\ task_queue' = WithHead(task_queue, u)
    BY <1>6 DEF CountsVote
  <2>3. \A tx, votes : BallotOf(tx, votes)' <=> BallotOf(tx, votes)
    BY <1>1, <1>2, <2>1 DEF BallotOf, Upcoming
  <2>4. 1 \in 1 .. Len(command_queue) /\ 1 \in 1 .. Len(task_queue)
    BY <1>1, <2>1, EmptySeq DEF IInv, TypeOK
  <2>5. c.vote = "ACK" => Agreed(c.sender, c.tx)
    BY <1>1, <2>1, <2>4 DEF DronesInv
  <2>6. BallotOf(t.tx, t.votes)
    BY <1>1, <2>1, <2>4 DEF TasksInv
  <2>7. \E V : t.votes \in [V -> Votes]
    <3>1. t \in Task
      BY <1>1, <2>1, HeadIsFirst
    <3> QED BY <3>1 DEF Task, Ballots
  <2> HIDE DEF c, t
  <2>8. BallotOf(u.tx, u.votes)
    <3>1. DOMAIN u.votes = DOMAIN t.votes
      BY <2>2
    <3>2. \A d \in DOMAIN t.votes :
            u.votes[d] = IF d = c.sender THEN c.vote ELSE t.votes[d]
      BY <2>2, <2>7
    <3> QED BY <2>1, <2>2, <2>5, <2>6, <3>1, <3>2 DEF BallotOf
  <2>9. /\ Len(task_queue') = Len(task_queue)
        /\ task_queue'[1] = u
        /\ \A i \in 1 .. Len(task_queue) : i # 1 => task_queue'[i] = task_queue[i]
    <3>1. task_queue \in Seq(Task) /\ task_queue # <<>> /\ task_queue' = WithHead(task_queue, u)
      BY <1>1, <2>1, <2>2
    <3> QED BY <3>1, WithHeadType
  <2>10. TasksInv'
    <3>1. \A i \in 1 .. Len(task_queue) : task_queue'[i].type = "CONSENSUS" => i = 1
      BY <1>1, <2>9 DEF TasksInv
    <3>2. BallotOf(u.tx, u.votes)'
      BY <2>3, <2>8
    <3> QED BY <2>9, <3>1, <3>2 DEF TasksInv
  <2>11. RoundInv'
    BY <1>1, <1>2, <2>1 DEF RoundInv, InRound, Upcoming
  <2> QED BY <2>10, <2>11
<1>7. CASE Records
  <2> DEFINE t == task_queue[1]
  <2>1. /\ task_queue # <<>> /\ t.type = "CONSENSUS" /\ Tallied(t)
        /\ outcome'.tx = t.tx /\ outcome'.result = t.result
        /\ UNCHANGED pending_request
    BY <1>7 DEF Records
  <2>2. BallotOf(t.tx, t.votes)
    <3>1. 1 \in 1 .. Len(task_queue)
      BY <1>1, <2>1, EmptySeq
    <3> QED BY <1>1, <2>1, <3>1 DEF TasksInv
  <2>3. t.tx \in 0 .. active_tx /\ (Upcoming => t.tx # active_tx)
    BY <1>3, <2>2 DEF BallotOf
  <2>4. ASSUME t.tx = active_tx, t.result = "COMMITTED"
        PROVE  \A d \in voters : Agreed(d, active_tx)
    <3>1. Evaluate(t.votes) = "COMMITTED"
      BY <2>1, <2>4 DEF Tallied
    <3>2. \A d \in DOMAIN t.votes : t.votes[d] = "ACK"
      BY <3>1 DEF Evaluate
    <3> QED BY <2>2, <2>4, <3>2 DEF BallotOf
  <2> HIDE DEF t
  <2>5. RoundInv'
    BY <1>1, <1>2, <2>1, <2>3, <2>4 DEF RoundInv, InRound, Upcoming
  <2>6. TasksInv'
    BY <1>7 DEF Records, TasksInv
  <2> QED BY <2>5, <2>6
<1> QED BY <1>1, <1>4, <1>5, <1>6, <1>7, EngineCases

LEMMA EngineKeepsVotingInv == VotingInv /\ GcsEngine => VotingInv'
<1> SUFFICES ASSUME VotingInv, GcsEngine PROVE VotingInv'
  OBVIOUS
<1>1. /\ EngineStep /\ UNCHANGED peer_offline
      /\ UNCHANGED <<controllerVars, peerVars, droneVars, proposals, delivered, epoch>>
  BY EngineFrame DEF GcsEngine, envVars
<1>2. IInv'
  BY <1>1, EngineKeepsIInv DEF VotingInv
<1>3. GcsTypeOK'
  BY <1>1, <1>2, TypesOfOthersStay DEF VotingInv
<1>4. DronesInv'
  <2>1. command_queue \in Seq(Command)
    BY DEF VotingInv, IInv, TypeOK
  <2>2. \/ command_queue' = command_queue
        \/ command_queue # <<>> /\ command_queue' = Tail(command_queue)
    BY <1>1, EngineCases
    DEF VotingInv, TakesRequest, KeepsBallots, CountsVote, Records
  <2> QED BY <1>1, <2>1, <2>2, PoppedVotes DEF VotingInv, droneVars
<1>5. ProposalsInv'
  BY <1>1 DEF VotingInv, ProposalsInv, controllerVars
<1> QED BY <1>2, <1>3, <1>4, <1>5, EngineKeepsTasks DEF VotingInv

-----------------------------------------------------------------------------
(* VotingInv is inductive: the main thread *)

\* A step that leaves the engine alone and types as they are keeps IInv.
LEMMA OthersKeepIInv ==
  ASSUME IInv, TypeOK', UNCHANGED engineVars
  PROVE  IInv'
  BY DEF IInv, PcInv, engineVars, queueVars

\* What the lemmas below need to know of VotingInv's types.
LEMMA VotingTypes ==
  ASSUME VotingInv
  PROVE  /\ TypeOK /\ GcsTypeOK /\ MaxTx \in Nat
         /\ active_tx \in 0 .. MaxTx /\ outcome.tx \in 0 .. active_tx
         /\ InRound => active_tx \in TxIds
         /\ epoch \in Nat \ {0}
         /\ \A i \in 1 .. Len(task_queue) : task_queue[i].tx \in Nat
<1>1. \A i \in 1 .. Len(task_queue) : task_queue[i] \in Task
  BY ElementOfSeq DEF VotingInv, IInv, TypeOK
<1>2. TypeOK /\ GcsTypeOK /\ RoundInv /\ epoch \in Nat \ {0} /\ MaxTx \in Nat
  BY BoundsAssumption DEF VotingInv, IInv, ProposalsInv, GcsTypeOK
<1>3. /\ active_tx \in 0 .. MaxTx /\ outcome.tx \in 0 .. active_tx
      /\ InRound => active_tx \in TxIds
  BY <1>2 DEF RoundInv, TxIds
<1>4. \A i \in 1 .. Len(task_queue) : task_queue[i].tx \in Nat
  BY <1>1 DEF Task
<1> QED BY <1>2, <1>3, <1>4

LEMMA BeginProposalKeeps == VotingInv /\ BeginProposal => VotingInv'
<1> SUFFICES ASSUME VotingInv, BeginProposal PROVE VotingInv'
  OBVIOUS
<1>1. /\ main_pc = "loop" /\ gcs_state = "IDLE" /\ next_tx \in TxIds
      /\ active_tx' = next_tx /\ next_tx' = next_tx + 1 /\ voters' = online
      /\ main_pc' = "request"
      /\ UNCHANGED <<engineVars, command_queue, pending_request, battery_low, peer_offline,
                     arrivals, gcs_state, orders, peerVars, droneVars, proposals, delivered,
                     epoch>>
  BY DEF BeginProposal
<1>2. UNCHANGED <<task_queue, outcome, pending_request, command_queue, answer, cast, epoch,
                  proposals>>
  BY <1>1 DEF engineVars, queueVars, droneVars
<1>3. \A d, tx : Agreed(d, tx)' <=> Agreed(d, tx)
  BY <1>2, AgreedStays
<1>4. /\ active_tx \in 0 .. MaxTx /\ outcome.tx \in 0 .. active_tx /\ MaxTx \in Nat
      /\ \A i \in 1 .. Len(task_queue) : task_queue[i].tx \in Nat
  BY VotingTypes
<1>5. /\ RoundInv /\ TasksInv /\ DronesInv /\ ProposalsInv /\ GcsTypeOK /\ IInv
      /\ ~InRound /\ ~pending_request.present
  BY <1>1 DEF VotingInv, RoundInv, InRound
<1>6. active_tx' = active_tx + 1 /\ active_tx' \in 1 .. MaxTx
  BY <1>1, <1>4, <1>5 DEF RoundInv, TxIds
<1>7. TypeOK' /\ IInv'
  <2>1. TypeOK'
    BY <1>1, <1>6, <1>4 DEF VotingInv, IInv, TypeOK, engineVars, queueVars
  <2> QED BY <1>1, <1>5, <2>1, OthersKeepIInv
<1>8. GcsTypeOK'
  <2>1. peer_offline' = (known' # online')
    BY <1>1, <1>5 DEF GcsTypeOK, peerVars
  <2>2. active_tx' \in Nat /\ voters' \subseteq Drones
    BY <1>1, <1>4, <1>5, <1>6 DEF GcsTypeOK
  <2> QED BY <1>1, <1>5, <1>7, <2>1, <2>2 DEF GcsTypeOK, peerVars, droneVars
<1>9. RoundInv'
  BY <1>1, <1>2, <1>4, <1>5, <1>6 DEF RoundInv, InRound, Upcoming
<1>10. TasksInv'
  <2>1. ASSUME NEW tx \in Nat, NEW votes, BallotOf(tx, votes) PROVE BallotOf(tx, votes)'
    BY <1>2, <1>3, <1>4, <1>6, <2>1 DEF BallotOf
  <2> QED BY <1>2, <1>4, <1>5, <2>1 DEF TasksInv
<1>11. DronesInv'
  BY <1>2, <1>3, <1>5 DEF DronesInv
<1>12. ProposalsInv'
  <2>1. \A i \in 1 .. Len(proposals) : proposals[i].tx \in Nat
    <3>1. proposals \in Seq([tx : TxIds, epoch : Nat])
      BY <1>5 DEF GcsTypeOK
    <3>2. \A i \in 1 .. Len(proposals) : proposals[i] \in [tx : TxIds, epoch : Nat]
      BY <3>1, ElementOfSeq
    <3> QED BY <1>4, <3>2 DEF TxIds
  <2> QED BY <1>2, <1>4, <1>5, <1>6, <2>1 DEF ProposalsInv
<1> QED BY <1>7, <1>8, <1>9, <1>10, <1>11, <1>12 DEF VotingInv

LEMMA SubmitRequestKeeps == VotingInv /\ SubmitRequest => VotingInv'
<1> SUFFICES ASSUME VotingInv, SubmitRequest PROVE VotingInv'
  OBVIOUS
<1>1. /\ main_pc = "request" /\ main_pc' = "publish"
      /\ pending_request' = [present |-> TRUE, tx |-> active_tx, voters |-> voters]
      /\ UNCHANGED <<engineVars, command_queue, battery_low, envVars, gcs_state, active_tx, voters,
                     orders, peerVars, droneVars, proposals, delivered, epoch>>
  BY DEF SubmitRequest, LeaveRequest
<1>2. UNCHANGED <<task_queue, outcome, command_queue, answer, cast, epoch, proposals>>
  BY <1>1 DEF engineVars, queueVars, droneVars
<1>3. \A d, tx : Agreed(d, tx)' <=> Agreed(d, tx)
  BY <1>2, AgreedStays
<1>4. /\ RoundInv /\ TasksInv /\ DronesInv /\ ProposalsInv /\ GcsTypeOK /\ IInv
      /\ Upcoming /\ Upcoming'
  BY <1>1 DEF VotingInv, Upcoming
<1>5. TypeOK' /\ IInv'
  <2>1. TypeOK'
    <3>1. active_tx \in Nat /\ voters \in SUBSET Drones
      BY <1>4 DEF GcsTypeOK
    <3>2. pending_request' \in [present : BOOLEAN, tx : Nat, voters : SUBSET Drones]
      BY <1>1, <3>1
    <3> QED BY <1>1, <1>4, <3>2 DEF IInv, TypeOK, engineVars, queueVars, envVars
  <2> QED BY <1>1, <1>4, <2>1, OthersKeepIInv
<1>6. GcsTypeOK'
  <2>1. peer_offline' = (known' # online')
    BY <1>1, <1>4 DEF GcsTypeOK, peerVars, envVars
  <2> QED BY <1>1, <1>4, <1>5, <2>1 DEF GcsTypeOK, peerVars, droneVars
<1>7. RoundInv'
  BY <1>1, <1>2, <1>3, <1>4 DEF RoundInv, InRound, envVars
<1>8. TasksInv'
  <2>1. \A tx, votes : BallotOf(tx, votes)' <=> BallotOf(tx, votes)
    BY <1>1, <1>2, <1>3, <1>4 DEF BallotOf
  <2> QED BY <1>2, <1>4, <2>1 DEF TasksInv
<1>9. DronesInv' /\ ProposalsInv'
  BY <1>1, <1>2, <1>3, <1>4 DEF DronesInv, ProposalsInv
<1> QED BY <1>5, <1>6, <1>7, <1>8, <1>9 DEF VotingInv

LEMMA PublishProposalKeeps == VotingInv /\ PublishProposal => VotingInv'
<1> SUFFICES ASSUME VotingInv, PublishProposal PROVE VotingInv'
  OBVIOUS
<1> DEFINE p == [tx |-> active_tx, epoch |-> epoch]
<1>1. /\ main_pc = "publish" /\ main_pc' = "loop" /\ gcs_state' = "VOTING"
      /\ proposals' = Append(proposals, p)
      /\ UNCHANGED <<vars, active_tx, voters, orders, peerVars, droneVars, delivered, epoch>>
  BY DEF PublishProposal
<1>2. UNCHANGED <<task_queue, outcome, command_queue, pending_request, next_tx, answer, cast,
                  epoch, active_tx, voters>>
  BY <1>1 DEF vars, engineVars, queueVars, envVars, droneVars
<1>3. \A d, tx : Agreed(d, tx)' <=> Agreed(d, tx)
  BY <1>2, AgreedStays
<1>4. /\ RoundInv /\ TasksInv /\ DronesInv /\ ProposalsInv /\ GcsTypeOK /\ IInv
      /\ Upcoming' <=> Upcoming
  BY <1>1, <1>2 DEF VotingInv, Upcoming
<1>5. active_tx \in TxIds /\ active_tx \in Nat /\ epoch \in Nat
  BY <1>1, VotingTypes DEF InRound, GcsTypeOK
<1>6. IInv' /\ TypeOK'
  BY <1>1, <1>4, NextIInv DEF IInv
<1>7. /\ proposals' \in Seq([tx : TxIds, epoch : Nat])
      /\ Len(proposals') = Len(proposals) + 1
      /\ Len(proposals) \in Nat
      /\ proposals'[Len(proposals) + 1] = p
      /\ \A i \in 1 .. Len(proposals) : proposals'[i] = proposals[i]
  <2>1. p \in [tx : TxIds, epoch : Nat]
    BY <1>5
  <2>2. proposals \in Seq([tx : TxIds, epoch : Nat])
    BY <1>4 DEF GcsTypeOK
  <2> HIDE DEF p
  <2> QED BY <1>1, <2>1, <2>2, AppendProperties, LenProperties
<1>8. GcsTypeOK'
  <2>1. peer_offline' = (known' # online')
    BY <1>1, <1>4 DEF GcsTypeOK, peerVars, vars, envVars
  <2> QED BY <1>1, <1>4, <1>6, <1>7, <2>1 DEF GcsTypeOK, peerVars, droneVars
<1>9. RoundInv'
  BY <1>1, <1>2, <1>3, <1>4, <1>5 DEF RoundInv, InRound, Upcoming
<1>10. TasksInv'
  <2>1. \A tx, votes : BallotOf(tx, votes)' <=> BallotOf(tx, votes)
    BY <1>1, <1>2, <1>3, <1>4 DEF BallotOf
  <2> QED BY <1>2, <1>4, <2>1 DEF TasksInv
<1>11. DronesInv'
  BY <1>2, <1>3, <1>4 DEF DronesInv
<1>12. ProposalsInv'
  BY <1>2, <1>4, <1>5, <1>7 DEF ProposalsInv
<1> QED BY <1>6, <1>8, <1>9, <1>10, <1>11, <1>12 DEF VotingInv

\* Also a torn copy names its round only when that round has left the request
\* slot, so the controller never closes a round before the engine has taken it.
LEMMA OutcomeMeansTaken ==
  ASSUME VotingInv, NEW copy \in OutcomeCopies, ReadOutcome(copy)
  PROVE  ~Upcoming
<1>1. copy.tx = active_tx
  BY DEF ReadOutcome, ForThisRound
<1>2. CASE copy.tx = outcome.tx
  BY <1>1, <1>2 DEF VotingInv, RoundInv
<1>3. CASE copy.tx # outcome.tx
  <2>1. pc = "record" /\ copy.tx = Written.tx
    BY <1>3 DEF OutcomeCopies
  <2>2. /\ task_queue \in Seq(Task) /\ task_queue # <<>> /\ task_queue[1].type = "CONSENSUS"
        /\ TasksInv
    BY <2>1 DEF VotingInv, IInv, TypeOK, PcInv, Installed
  <2>3. Head(task_queue) = task_queue[1] /\ 1 \in 1 .. Len(task_queue)
    BY <2>2, HeadIsFirst
  <2>4. BallotOf(active_tx, task_queue[1].votes)
    BY <1>1, <2>1, <2>2, <2>3 DEF TasksInv, Written
  <2> QED BY <2>4 DEF BallotOf
<1> QED BY <1>2, <1>3

LEMMA ReadOutcomeKeeps ==
  ASSUME VotingInv, NEW copy \in OutcomeCopies, ReadOutcome(copy)
  PROVE  VotingInv'
<1>1. /\ main_pc = "loop" /\ gcs_state = "VOTING" /\ gcs_state' = "IDLE"
      /\ orders' = orders \/ orders' = Append(orders, active_tx)
      /\ UNCHANGED <<vars, main_pc, active_tx, voters, peerVars, droneVars, proposals, delivered,
                     epoch>>
  BY DEF ReadOutcome
<1>2. UNCHANGED <<task_queue, outcome, command_queue, pending_request, next_tx, answer, cast,
                  epoch, active_tx, voters, main_pc, proposals>>
  BY <1>1 DEF vars, engineVars, queueVars, envVars, droneVars
<1>3. \A d, tx : Agreed(d, tx)' <=> Agreed(d, tx)
  BY <1>2, AgreedStays
<1>4. /\ RoundInv /\ TasksInv /\ DronesInv /\ ProposalsInv /\ GcsTypeOK /\ IInv
      /\ ~Upcoming /\ ~Upcoming'
  BY <1>2, OutcomeMeansTaken DEF VotingInv, Upcoming
<1>5. IInv' /\ TypeOK'
  BY <1>1, <1>4, NextIInv DEF IInv
<1>6. orders' \in Seq(TxIds)
  <2>1. active_tx \in TxIds /\ orders \in Seq(TxIds)
    BY <1>1, <1>4, VotingTypes DEF InRound, GcsTypeOK
  <2> QED BY <1>1, <2>1, AppendProperties
<1>7. GcsTypeOK'
  <2>1. peer_offline' = (known' # online')
    BY <1>1, <1>4 DEF GcsTypeOK, peerVars, vars, envVars
  <2> QED BY <1>1, <1>4, <1>5, <1>6, <2>1 DEF GcsTypeOK, peerVars, droneVars
<1>8. RoundInv'
  BY <1>1, <1>2, <1>3, <1>4 DEF RoundInv, InRound, Upcoming
<1>9. TasksInv'
  <2>1. \A tx, votes : BallotOf(tx, votes)' <=> BallotOf(tx, votes)
    BY <1>1, <1>2, <1>3, <1>4 DEF BallotOf
  <2> QED BY <1>2, <1>4, <2>1 DEF TasksInv
<1>10. DronesInv' /\ ProposalsInv'
  BY <1>2, <1>3, <1>4 DEF DronesInv, ProposalsInv
<1> QED BY <1>5, <1>7, <1>8, <1>9, <1>10 DEF VotingInv

-----------------------------------------------------------------------------
(* VotingInv is inductive: the drones, the network and restarts *)

VoteRecord == [tx : TxIds, vote : {"ACK", "NACK"}, epoch : Nat]

\* What a drone's answer adds to the votes it has published.
LEMMA CastGrows ==
  ASSUME VotingInv, NEW d \in Drones, AnswerProposal(d)
  PROVE  /\ cast' \in [Drones -> Seq(VoteRecord)]
         /\ \A e \in Drones :
              /\ Len(cast[e]) \in Nat /\ Len(cast'[e]) \in Nat /\ Len(cast[e]) <= Len(cast'[e])
              /\ \A i \in 1 .. Len(cast[e]) : cast'[e][i] = cast[e][i]
              /\ \A i \in 1 .. Len(cast'[e]) : i > Len(cast[e]) =>
                   \E p \in 1 .. Len(proposals) :
                     cast'[e][i] = [tx |-> proposals[p].tx, vote |-> answer[e],
                                    epoch |-> proposals[p].epoch]
<1> DEFINE k == heard[d] + 1
           v == [tx |-> proposals[k].tx, vote |-> answer[d], epoch |-> proposals[k].epoch]
<1>1. /\ heard \in [Drones -> Nat] /\ answer \in [Drones -> {"ACK", "NACK", "NONE"}]
      /\ cast \in [Drones -> Seq(VoteRecord)]
      /\ proposals \in Seq([tx : TxIds, epoch : Nat])
  BY DEF VotingInv, GcsTypeOK, VoteRecord
<1>2. Len(proposals) \in Nat
  BY <1>1, LenProperties
<1>3. k \in 1 .. Len(proposals)
  BY <1>1, <1>2 DEF AnswerProposal
<1>4. proposals[k] \in [tx : TxIds, epoch : Nat]
  BY <1>1, <1>3, ElementOfSeq
<1>5. \/ answer[d] = "NONE" /\ cast' = cast
      \/ answer[d] # "NONE" /\ cast' = [cast EXCEPT ![d] = Append(cast[d], v)]
  BY DEF AnswerProposal
<1>6. answer[d] # "NONE" => v \in VoteRecord
  BY <1>1, <1>4 DEF VoteRecord
<1>7. \A e \in Drones : Len(cast[e]) \in Nat
  BY <1>1, LenProperties
<1>8. CASE answer[d] = "NONE" /\ cast' = cast
  BY <1>1, <1>7, <1>8
<1>9. CASE answer[d] # "NONE" /\ cast' = [cast EXCEPT ![d] = Append(cast[d], v)]
  <2>1. cast[d] \in Seq(VoteRecord)
    BY <1>1
  <2>2. v = [tx |-> proposals[k].tx, vote |-> answer[d], epoch |-> proposals[k].epoch]
    OBVIOUS
  <2> HIDE DEF v, k
  <2>3. /\ Append(cast[d], v) \in Seq(VoteRecord)
        /\ Len(Append(cast[d], v)) = Len(cast[d]) + 1
        /\ \A i \in 1 .. Len(cast[d]) : Append(cast[d], v)[i] = cast[d][i]
        /\ Append(cast[d], v)[Len(cast[d]) + 1] = v
    BY <1>6, <1>9, <2>1, AppendProperties
  <2>4. cast' \in [Drones -> Seq(VoteRecord)]
    BY <1>1, <1>9, <2>3
  <2>5. cast'[d] = Append(cast[d], v) /\ \A e \in Drones : e # d => cast'[e] = cast[e]
    BY <1>1, <1>9
  <2>6. \A i \in 1 .. Len(cast'[d]) : i > Len(cast[d]) => cast'[d][i] = v
    BY <1>7, <2>3, <2>5
  <2>7. ASSUME NEW e \in Drones
        PROVE  /\ Len(cast[e]) \in Nat /\ Len(cast'[e]) \in Nat /\ Len(cast[e]) <= Len(cast'[e])
               /\ \A i \in 1 .. Len(cast[e]) : cast'[e][i] = cast[e][i]
    <3>1. CASE e = d
      BY <1>7, <2>3, <2>5, <3>1
    <3>2. CASE e # d
      BY <1>7, <2>5, <3>2
    <3> QED BY <3>1, <3>2
  <2>8. ASSUME NEW e \in Drones, NEW i \in 1 .. Len(cast'[e]), i > Len(cast[e])
        PROVE  \E p \in 1 .. Len(proposals) :
                 cast'[e][i] = [tx |-> proposals[p].tx, vote |-> answer[e],
                                epoch |-> proposals[p].epoch]
    <3>1. e = d
      BY <1>7, <2>5, <2>8
    <3>2. cast'[e][i] = v
      BY <2>6, <2>8, <3>1
    <3> QED BY <1>3, <2>2, <3>1, <3>2
  <2> QED BY <2>4, <2>7, <2>8
<1> QED BY <1>5, <1>8, <1>9

LEMMA AnswerProposalKeeps ==
  ASSUME VotingInv, NEW d \in Drones, AnswerProposal(d)
  PROVE  VotingInv'
<1>1. UNCHANGED <<vars, controllerVars, peerVars, answer, proposals, delivered, epoch>>
  BY DEF AnswerProposal
<1>2. UNCHANGED <<task_queue, outcome, command_queue, pending_request, next_tx, answer,
                  epoch, active_tx, voters, main_pc, gcs_state, proposals, orders>>
  BY <1>1 DEF vars, engineVars, queueVars, envVars, controllerVars
<1>3. /\ RoundInv /\ TasksInv /\ DronesInv /\ ProposalsInv /\ GcsTypeOK /\ IInv
  BY DEF VotingInv
<1>4. cast \in [Drones -> Seq(VoteRecord)]
  BY <1>3 DEF GcsTypeOK, VoteRecord
<1>5. ASSUME NEW e \in Drones, NEW tx, Agreed(e, tx) PROVE Agreed(e, tx)'
  <2>1. SUFFICES ASSUME MaxEpochs <= 1 PROVE HasCast(e, "ACK", tx)'
    BY <1>2, <1>5, <2>1 DEF Agreed
  <2>2. /\ DOMAIN cast[e] = 1 .. Len(cast[e]) /\ DOMAIN cast'[e] = 1 .. Len(cast'[e])
    BY <1>4, CastGrows, LenProperties
  <2>3. PICK i \in 1 .. Len(cast[e]) :
          cast[e][i] = [tx |-> tx, vote |-> "ACK", epoch |-> epoch]
    BY <1>5, <2>1, <2>2 DEF Agreed, HasCast
  <2>4. i \in 1 .. Len(cast'[e]) /\ cast'[e][i] = cast[e][i]
    BY CastGrows
  <2> QED BY <1>2, <2>2, <2>3, <2>4 DEF HasCast
<1>6. IInv' /\ TypeOK'
  BY <1>1, <1>3, NextIInv DEF IInv
<1>7. GcsTypeOK'
  <2>1. peer_offline' = (known' # online')
    BY <1>1, <1>3 DEF GcsTypeOK, peerVars, vars, envVars
  <2>2. heard' \in [Drones -> Nat]
    BY <1>3 DEF AnswerProposal, GcsTypeOK
  <2>3. cast' \in [Drones -> Seq([tx : TxIds, vote : {"ACK", "NACK"}, epoch : Nat])]
    BY CastGrows DEF VoteRecord
  <2> QED BY <1>1, <1>3, <1>6, <2>1, <2>2, <2>3 DEF GcsTypeOK, peerVars, controllerVars
<1>8. RoundInv'
  <2>1. voters \subseteq Drones
    BY <1>3 DEF GcsTypeOK
  <2> QED BY <1>2, <1>3, <1>5, <2>1 DEF RoundInv, InRound, Upcoming
<1>9. TasksInv'
  <2>1. ASSUME NEW i \in 1 .. Len(task_queue)
        PROVE  DOMAIN task_queue[i].votes \subseteq Drones
    <3>1. task_queue[i] \in Task
      BY <1>3, ElementOfSeq DEF IInv, TypeOK
    <3>2. PICK V \in SUBSET Drones : task_queue[i].votes \in [V -> Votes]
      BY <3>1 DEF Task, Ballots
    <3> QED BY <3>2
  <2>2. ASSUME NEW tx, NEW votes, DOMAIN votes \subseteq Drones, BallotOf(tx, votes)
        PROVE  BallotOf(tx, votes)'
    BY <1>2, <1>5, <2>2 DEF BallotOf, Upcoming
  <2> QED BY <1>2, <1>3, <2>1, <2>2 DEF TasksInv
<1>10. DronesInv'
  <2>1. ASSUME NEW e \in Drones, NEW i \in 1 .. Len(cast'[e])
        PROVE  /\ cast'[e][i].vote = answer[e]
               /\ MaxEpochs <= 1 => cast'[e][i].epoch = epoch
    <3>1. CASE i <= Len(cast[e])
      <4>1. i \in 1 .. Len(cast[e]) /\ cast'[e][i] = cast[e][i]
        BY <3>1, CastGrows
      <4> QED BY <1>3, <4>1 DEF DronesInv
    <3>2. CASE ~(i <= Len(cast[e]))
      <4>1. i > Len(cast[e])
        BY <3>2, CastGrows
      <4>2. PICK p \in 1 .. Len(proposals) :
              cast'[e][i] = [tx |-> proposals[p].tx, vote |-> answer[e],
                             epoch |-> proposals[p].epoch]
        BY <4>1, CastGrows
      <4> QED BY <1>3, <4>2 DEF ProposalsInv
    <3> QED BY <3>1, <3>2
  <2>2. ASSUME NEW i \in 1 .. Len(command_queue),
               command_queue[i].type = "CONSENSUS", command_queue[i].vote = "ACK"
        PROVE  Agreed(command_queue[i].sender, command_queue[i].tx)'
    <3>1. command_queue[i] \in Command
      BY <1>3, ElementOfSeq DEF IInv, TypeOK
    <3>2. command_queue[i].sender \in Drones
      BY <2>2, <3>1 DEF Command, Proposal, VoteMsg, Order
    <3> QED BY <1>2, <1>3, <1>5, <2>2, <3>2 DEF DronesInv
  <2> QED BY <1>2, <2>1, <2>2 DEF DronesInv
<1>11. ProposalsInv'
  BY <1>2, <1>3 DEF ProposalsInv
<1> QED BY <1>6, <1>7, <1>8, <1>9, <1>10, <1>11 DEF VotingInv

LEMMA DeliverVoteKeeps ==
  ASSUME VotingInv, NEW d \in Drones, DeliverVote(d)
  PROVE  VotingInv'
<1> DEFINE k == delivered[d] + 1
           v == cast[d][k]
           c == [type |-> "CONSENSUS", sender |-> d, tx |-> v.tx, vote |-> v.vote]
<1>0. /\ AddCommand(c) /\ delivered[d] < Len(cast[d])
      /\ UNCHANGED <<controllerVars, peerVars, droneVars, proposals, epoch>>
      /\ delivered' = [delivered EXCEPT ![d] = k]
  BY DEF DeliverVote
<1>1. /\ command_queue' = Append(command_queue, c)
      /\ UNCHANGED <<engineVars, pending_request, battery_low, peer_offline, next_tx>>
      /\ UNCHANGED <<controllerVars, peerVars, droneVars, proposals, epoch>>
  BY <1>0 DEF AddCommand
<1>2. UNCHANGED <<task_queue, outcome, pending_request, next_tx, answer, cast,
                  epoch, active_tx, voters, main_pc, gcs_state, proposals, orders>>
  BY <1>1 DEF engineVars, queueVars, controllerVars, droneVars
<1>3. \A e, tx : Agreed(e, tx)' <=> Agreed(e, tx)
  BY <1>2, AgreedStays
<1>4. /\ RoundInv /\ TasksInv /\ DronesInv /\ ProposalsInv /\ GcsTypeOK /\ IInv
      /\ command_queue \in Seq(Command)
  BY DEF VotingInv, IInv, TypeOK
<1>5. /\ delivered \in [Drones -> Nat] /\ cast[d] \in Seq(VoteRecord)
      /\ answer[d] \in {"ACK", "NACK", "NONE"}
  BY <1>4 DEF GcsTypeOK, VoteRecord
<1>6. k \in Nat /\ k \in 1 .. Len(cast[d]) /\ DOMAIN cast[d] = 1 .. Len(cast[d])
  BY <1>0, <1>5, LenProperties
<1>7. v \in VoteRecord
  BY <1>5, <1>6, ElementOfSeq
<1>8. v.vote = answer[d] /\ (MaxEpochs <= 1 => v.epoch = epoch)
  BY <1>4, <1>6 DEF DronesInv
<1>9. c.vote = "ACK" => Agreed(d, v.tx)
  <2>1. SUFFICES ASSUME v.vote = "ACK", MaxEpochs <= 1 PROVE HasCast(d, "ACK", v.tx)
    BY <1>8 DEF Agreed
  <2>2. v = [tx |-> v.tx, vote |-> "ACK", epoch |-> epoch]
    BY <1>7, <1>8, <2>1 DEF VoteRecord
  <2> QED BY <1>6, <2>2 DEF HasCast
<1>10. c \in Command /\ c.sender = d /\ c.tx = v.tx
  BY <1>7 DEF Command, VoteMsg, VoteRecord
<1> HIDE DEF c, v, k
<1>11. /\ command_queue' \in Seq(Command)
       /\ Len(command_queue) \in Nat
       /\ Len(command_queue') = Len(command_queue) + 1
       /\ command_queue'[Len(command_queue) + 1] = c
       /\ \A i \in 1 .. Len(command_queue) : command_queue'[i] = command_queue[i]
  BY <1>1, <1>4, <1>10, AppendProperties, LenProperties
<1>12. IInv' /\ TypeOK'
  BY <1>0, <1>4, <1>10, NextIInv DEF Next, OtherThreads, IInv
<1>13. GcsTypeOK'
  <2>1. peer_offline' = (known' # online')
    BY <1>1, <1>4 DEF GcsTypeOK, peerVars
  <2>2. delivered' \in [Drones -> Nat]
    BY <1>0, <1>5, <1>6
  <2> QED BY <1>1, <1>4, <1>12, <2>1, <2>2 DEF GcsTypeOK, peerVars, droneVars, controllerVars
<1>14. RoundInv'
  BY <1>2, <1>3, <1>4 DEF RoundInv, InRound, Upcoming
<1>15. TasksInv'
  <2>1. \A tx, votes : BallotOf(tx, votes)' <=> BallotOf(tx, votes)
    BY <1>2, <1>3, <1>4 DEF BallotOf, Upcoming
  <2> QED BY <1>2, <1>4, <2>1 DEF TasksInv
<1>16. DronesInv'
  <2>1. ASSUME NEW i \in 1 .. Len(command_queue'),
               command_queue'[i].type = "CONSENSUS", command_queue'[i].vote = "ACK"
        PROVE  Agreed(command_queue'[i].sender, command_queue'[i].tx)
    <3>1. CASE i \in 1 .. Len(command_queue)
      BY <1>4, <1>11, <2>1, <3>1 DEF DronesInv
    <3>2. CASE i = Len(command_queue) + 1
      BY <1>9, <1>10, <1>11, <2>1, <3>2
    <3> QED BY <1>11, <3>1, <3>2
  <2> QED BY <1>2, <1>3, <1>4, <2>1 DEF DronesInv
<1>17. ProposalsInv'
  BY <1>2, <1>4 DEF ProposalsInv
<1> QED BY <1>12, <1>13, <1>14, <1>15, <1>16, <1>17 DEF VotingInv

LEMMA UpdatePeersKeeps ==
  ASSUME VotingInv, NEW d \in Drones, UpdatePeers(d)
  PROVE  VotingInv'
<1>1. /\ peer_offline' = (known' # online')
      /\ UNCHANGED <<engineVars, command_queue, pending_request, battery_low, next_tx, arrivals,
                     controllerVars, droneVars, proposals, delivered, epoch>>
  BY DEF UpdatePeers
<1>2. UNCHANGED <<task_queue, outcome, pending_request, command_queue, next_tx, answer, cast,
                  epoch, active_tx, voters, main_pc, gcs_state, proposals, orders>>
  BY <1>1 DEF engineVars, queueVars, controllerVars, droneVars
<1>3. \A e, tx : Agreed(e, tx)' <=> Agreed(e, tx)
  BY <1>2, AgreedStays
<1>4. /\ RoundInv /\ TasksInv /\ DronesInv /\ ProposalsInv /\ GcsTypeOK /\ IInv
  BY DEF VotingInv
<1>5. known' \subseteq Drones /\ online' \subseteq known'
  BY <1>4 DEF UpdatePeers, PeerAppears, PeerFallsSilent, GcsTypeOK
<1>6. TypeOK' /\ IInv'
  <2>1. peer_offline' \in BOOLEAN
    BY <1>1
  <2>2. TypeOK'
    BY <1>1, <1>4, <2>1 DEF IInv, TypeOK, engineVars, queueVars
  <2> QED BY <1>1, <1>4, <2>2, OthersKeepIInv
<1>7. GcsTypeOK'
  BY <1>1, <1>4, <1>5, <1>6 DEF GcsTypeOK, droneVars, controllerVars
<1>8. RoundInv'
  BY <1>2, <1>3, <1>4 DEF RoundInv, InRound, Upcoming
<1>9. TasksInv'
  <2>1. \A tx, votes : BallotOf(tx, votes)' <=> BallotOf(tx, votes)
    BY <1>2, <1>3, <1>4 DEF BallotOf, Upcoming
  <2> QED BY <1>2, <1>4, <2>1 DEF TasksInv
<1>10. DronesInv' /\ ProposalsInv'
  BY <1>2, <1>3, <1>4 DEF DronesInv, ProposalsInv
<1> QED BY <1>6, <1>7, <1>8, <1>9, <1>10 DEF VotingInv

\* The process starts anew.  That proposals and votes may then be of an earlier
\* start is why Agreed asks less once MaxEpochs exceeds one.
LEMMA RestartKeeps ==
  ASSUME VotingInv, NEW lost \in SUBSET Drones, Restart(lost)
  PROVE  VotingInv'
<1>1. /\ task_queue' = <<>> /\ active_task_started' = FALSE /\ active_task_type' = "INIT"
      /\ in_emergency' = FALSE /\ outcome' = NoOutcome /\ pc' = "apply"
      /\ command_queue' = <<>> /\ pending_request' = NoRequest
      /\ peer_offline' = FALSE /\ next_tx' = 1 /\ arrivals' = 0
      /\ main_pc' = "loop" /\ gcs_state' = "IDLE" /\ active_tx' = 0 /\ voters' = {}
      /\ orders' = <<>> /\ known' = {} /\ online' = {}
      /\ delivered' = [d \in Drones |-> 0]
      /\ heard' = [d \in Drones |-> IF d \in lost THEN Len(proposals) ELSE heard[d]]
      /\ epoch < MaxEpochs /\ epoch' = epoch + 1
      /\ UNCHANGED <<sent_votes, battery_low, answer, cast, proposals>>
  BY DEF Restart
<1>2. /\ DronesInv /\ GcsTypeOK /\ TypeOK /\ MaxTx \in Nat /\ epoch \in Nat \ {0}
  BY VotingTypes DEF VotingInv
<1>3. epoch' \in Nat \ {0} /\ ~(MaxEpochs <= 1)
  BY <1>1, <1>2, EnvironmentAssumption
<1>4. TypeOK'
  <2>1. /\ task_queue' \in Seq(Task) /\ command_queue' \in Seq(Command)
        /\ active_task_type' \in TaskTypes
    BY <1>1 DEF TaskTypes
  <2>2. /\ pending_request' \in [present : BOOLEAN, tx : Nat, voters : SUBSET Drones]
        /\ outcome' \in [valid : BOOLEAN, tx : Nat, result : Results, timed_out : BOOLEAN]
    BY <1>1, NothingTypes
  <2>3. sent_votes' \subseteq VoteMsg /\ battery_low' \in BOOLEAN
    BY <1>1, <1>2 DEF TypeOK
  <2> QED BY <1>1, <2>1, <2>2, <2>3 DEF TypeOK
<1>5. IInv'
  BY <1>1, <1>4 DEF IInv, Installed, Shape, PcInv
<1>6. GcsTypeOK'
  <2>1. heard' \in [Drones -> Nat]
    <3>1. Len(proposals) \in Nat /\ heard \in [Drones -> Nat]
      BY <1>2, LenProperties DEF GcsTypeOK
    <3> QED BY <1>1, <3>1
  <2>2. /\ orders' \in Seq(TxIds) /\ delivered' \in [Drones -> Nat] /\ active_tx' \in Nat
    BY <1>1
  <2> QED BY <1>1, <1>2, <1>3, <1>4, <2>1, <2>2 DEF GcsTypeOK
<1>7. RoundInv'
  BY <1>1, <1>2 DEF RoundInv, InRound, Upcoming, NoRequest, NoOutcome
<1>8. TasksInv' /\ ProposalsInv'
  BY <1>1, <1>3 DEF TasksInv, ProposalsInv
<1>9. DronesInv'
  BY <1>1, <1>2, <1>3 DEF DronesInv
<1> QED BY <1>5, <1>6, <1>7, <1>8, <1>9 DEF VotingInv

LEMMA InitVotingInv == GcsInit => VotingInv
<1> SUFFICES ASSUME GcsInit PROVE VotingInv
  OBVIOUS
<1>1. /\ IInv /\ TypeOK /\ MaxTx \in Nat
  BY InitIInv, BoundsAssumption DEF GcsInit, IInv
<1>2. /\ cast \in [Drones -> Seq([tx : TxIds, vote : {"ACK", "NACK"}, epoch : Nat])]
      /\ proposals \in Seq([tx : TxIds, epoch : Nat]) /\ orders \in Seq(TxIds)
  BY DEF GcsInit
<1>3. GcsTypeOK
  BY <1>1, <1>2 DEF GcsInit, Init, GcsTypeOK
<1>4. RoundInv
  BY <1>1 DEF GcsInit, Init, RoundInv, InRound, Upcoming, NoRequest, NoOutcome
<1>5. TasksInv /\ ProposalsInv /\ DronesInv
  BY DEF GcsInit, Init, TasksInv, ProposalsInv, DronesInv
<1> QED BY <1>1, <1>3, <1>4, <1>5 DEF VotingInv

LEMMA NextVotingInv == VotingInv /\ [GcsNext]_gcsVars => VotingInv'
<1> SUFFICES ASSUME VotingInv, [GcsNext]_gcsVars PROVE VotingInv'
  OBVIOUS
<1>1. CASE GcsEngine
  BY <1>1, EngineKeepsVotingInv
<1>2. CASE MainThread
  BY <1>2, BeginProposalKeeps, SubmitRequestKeeps, PublishProposalKeeps, ReadOutcomeKeeps
  DEF MainThread
<1>3. CASE Surroundings
  BY <1>3, AnswerProposalKeeps, DeliverVoteKeeps, UpdatePeersKeeps, RestartKeeps
  DEF Surroundings
<1>4. CASE UNCHANGED gcsVars
  <2>1. UNCHANGED <<vars, controllerVars, peerVars, droneVars, proposals, delivered, epoch>>
    BY <1>4 DEF gcsVars
  <2>2. UNCHANGED <<task_queue, outcome, command_queue, pending_request, next_tx, peer_offline,
                    answer, cast, epoch, active_tx, voters, main_pc, gcs_state, proposals>>
    BY <2>1 DEF vars, engineVars, queueVars, envVars, controllerVars, droneVars
  <2>3. IInv'
    BY <2>1, NextIInv DEF VotingInv
  <2>4. GcsTypeOK'
    BY <2>1, <2>2, <2>3, TypesOfOthersStay DEF VotingInv
  <2>5. \A d, tx : Agreed(d, tx)' <=> Agreed(d, tx)
    BY <2>2, AgreedStays
  <2>6. RoundInv'
    BY <2>2, <2>5 DEF VotingInv, RoundInv, InRound, Upcoming
  <2>7. TasksInv'
    <3>1. \A tx, votes : BallotOf(tx, votes)' <=> BallotOf(tx, votes)
      BY <2>2, <2>5 DEF BallotOf, Upcoming
    <3> QED BY <2>2, <3>1 DEF VotingInv, TasksInv
  <2>8. DronesInv' /\ ProposalsInv'
    BY <2>2, <2>5 DEF VotingInv, DronesInv, ProposalsInv
  <2> QED BY <2>3, <2>4, <2>6, <2>7, <2>8 DEF VotingInv
<1> QED BY <1>1, <1>2, <1>3, <1>4 DEF GcsNext

-----------------------------------------------------------------------------
(* What holds in every state of a vote *)

\* VotingInv holds throughout, whether or not copies of the outcome are torn,
\* peers are lost, or the ground station is restarted.
THEOREM VotingInvariance == GcsSpec => []VotingInv
<1>1. GcsInit => VotingInv
  BY InitVotingInv
<1>2. VotingInv /\ [GcsNext]_gcsVars => VotingInv'
  BY NextVotingInv
<1> QED BY <1>1, <1>2, PTL DEF GcsSpec

\* The controller's, the drones' and the network's variables keep their types,
\* ids stay within 1..MaxTx, and peer_offline is what the peer table implies.
THEOREM GcsTypeCorrect == GcsSpec => []GcsTypeOK
<1>1. VotingInv => GcsTypeOK
  BY DEF VotingInv
<1> QED BY <1>1, VotingInvariance, PTL

-----------------------------------------------------------------------------
(* Orders, while copies of the outcome are whole *)

\* Everything but the engine, propose_task, the reading of an outcome and a
\* restart leaves the orders and the round alone.
BesidesOrders ==
  \/ SubmitRequest
  \/ PublishProposal
  \/ \E d \in Drones : AnswerProposal(d) \/ DeliverVote(d) \/ UpdatePeers(d)
  \/ UNCHANGED gcsVars

LEMMA BesidesOrdersFrame ==
  ASSUME BesidesOrders
  PROVE  /\ UNCHANGED <<orders, outcome, active_tx, next_tx, voters, epoch>>
         /\ InRound' <=> InRound
<1>1. CASE SubmitRequest
  BY <1>1 DEF SubmitRequest, engineVars, envVars, InRound
<1>2. CASE PublishProposal
  BY <1>2 DEF PublishProposal, vars, engineVars, envVars, InRound
<1>3. ASSUME NEW d \in Drones, AnswerProposal(d) \/ DeliverVote(d) \/ UpdatePeers(d)
      PROVE  UNCHANGED <<orders, outcome, active_tx, next_tx, voters, epoch, main_pc, gcs_state>>
  BY <1>3 DEF AnswerProposal, DeliverVote, AddCommand, UpdatePeers, vars, engineVars, envVars,
              controllerVars
<1>4. CASE UNCHANGED gcsVars
  BY <1>4 DEF gcsVars, vars, engineVars, envVars, controllerVars, InRound
<1> QED BY <1>1, <1>2, <1>3, <1>4 DEF BesidesOrders, InRound

LEMMA StepCases ==
  ASSUME [GcsNext]_gcsVars
  PROVE  \/ GcsEngine
         \/ BeginProposal
         \/ \E copy \in OutcomeCopies : ReadOutcome(copy)
         \/ \E lost \in SUBSET Drones : Restart(lost)
         \/ BesidesOrders
  BY DEF GcsNext, MainThread, Surroundings, BesidesOrders

\* Without a race an outcome that is read is the one that was written.
LEMMA WholeCopy ==
  ASSUME ~TornReads, NEW copy \in OutcomeCopies, ReadOutcome(copy)
  PROVE  /\ outcome.valid /\ outcome.tx = active_tx /\ outcome.result # "PENDING"
         /\ \/ outcome.result = "COMMITTED" /\ orders' = Append(orders, active_tx)
            \/ outcome.result # "COMMITTED" /\ orders' = orders
         /\ ~InRound'
         /\ InRound
         /\ UNCHANGED <<outcome, active_tx, next_tx, voters, cast, epoch>>
<1>1. copy = outcome
  BY DEF OutcomeCopies
<1> QED BY <1>1 DEF ReadOutcome, ForThisRound, Committed, InRound, vars, engineVars, envVars,
                    droneVars

\* An outcome that the engine records is of a later round than the last one.
LEMMA OutcomeGrows ==
  ASSUME VotingInv, GcsEngine
  PROVE  \/ outcome' = outcome
         \/ outcome'.tx \in outcome.tx + 1 .. active_tx
<1>1. IInv /\ TasksInv /\ EngineStep /\ task_queue \in Seq(Task)
  BY DEF VotingInv, IInv, TypeOK, GcsEngine
<1>2. CASE Records
  <2>1. /\ task_queue # <<>> /\ task_queue[1].type = "CONSENSUS"
        /\ outcome'.tx = task_queue[1].tx
    BY <1>2 DEF Records
  <2>2. 1 \in 1 .. Len(task_queue)
    BY <1>1, <2>1, EmptySeq
  <2> QED BY <1>1, <2>1, <2>2 DEF TasksInv, BallotOf
<1>3. CASE ~Records
  BY <1>1, <1>3, EngineCases DEF TakesRequest, KeepsBallots, CountsVote
<1> QED BY <1>2, <1>3

LEMMA NextOrdersInv ==
  ~TornReads => (VotingInv /\ OrdersInv /\ [GcsNext]_gcsVars => OrdersInv')
<1> SUFFICES ASSUME ~TornReads, VotingInv, OrdersInv, [GcsNext]_gcsVars PROVE OrdersInv'
  OBVIOUS
<1>1. /\ active_tx \in Nat /\ outcome.tx \in 0 .. active_tx
      /\ orders \in Seq(TxIds) /\ Len(orders) \in Nat
      /\ \A i \in 1 .. Len(orders) : orders[i] \in Nat
  <2>1. orders \in Seq(TxIds) /\ MaxTx \in Nat
    BY VotingTypes DEF GcsTypeOK
  <2>2. \A i \in 1 .. Len(orders) : orders[i] \in TxIds
    BY <2>1, ElementOfSeq
  <2> QED BY <2>1, <2>2, VotingTypes, LenProperties DEF TxIds
<1>2. CASE GcsEngine
  <2>1. UNCHANGED <<orders, main_pc, gcs_state, active_tx>>
    BY <1>2 DEF GcsEngine, controllerVars
  <2> QED BY <1>1, <1>2, <2>1, OutcomeGrows DEF OrdersInv, InRound
<1>3. CASE BeginProposal
  <2>1. active_tx' = active_tx + 1 /\ UNCHANGED <<orders, outcome>>
    BY <1>3 DEF BeginProposal, VotingInv, RoundInv, engineVars
  <2> QED BY <1>1, <2>1 DEF OrdersInv
<1>4. ASSUME NEW copy \in OutcomeCopies, ReadOutcome(copy) PROVE OrdersInv'
  <2>1. CASE outcome.result = "COMMITTED" /\ orders' = Append(orders, active_tx)
    <3>1. active_tx \in TxIds
      BY <1>4, WholeCopy, VotingTypes
    <3>2. /\ Len(orders') = Len(orders) + 1 /\ orders'[Len(orders) + 1] = active_tx
          /\ \A i \in 1 .. Len(orders) : orders'[i] = orders[i]
      BY <1>1, <2>1, <3>1, AppendProperties
    <3>3. \A i \in 1 .. Len(orders') : i \in 1 .. Len(orders) \/ i = Len(orders) + 1
      BY <1>1, <3>2
    <3> QED BY <1>1, <1>4, <2>1, <3>2, <3>3, WholeCopy DEF OrdersInv
  <2>2. CASE orders' = orders
    BY <1>4, <2>2, WholeCopy DEF OrdersInv
  <2> QED BY <1>4, <2>1, <2>2, WholeCopy
<1>5. CASE \E lost \in SUBSET Drones : Restart(lost)
  BY <1>5 DEF Restart, OrdersInv
<1>6. CASE BesidesOrders
  BY <1>6, BesidesOrdersFrame DEF OrdersInv
<1> QED BY <1>2, <1>3, <1>4, <1>5, <1>6, StepCases

LEMMA OrdersInvariance == ~TornReads => (GcsSpec => [](VotingInv /\ OrdersInv))
<1> SUFFICES ASSUME ~TornReads PROVE GcsSpec => [](VotingInv /\ OrdersInv)
  OBVIOUS
<1>1. GcsInit => OrdersInv
  BY DEF GcsInit, OrdersInv, InRound
<1>2. VotingInv /\ OrdersInv /\ [GcsNext]_gcsVars => OrdersInv'
  BY NextOrdersInv
<1> QED BY <1>1, <1>2, VotingInvariance, PTL DEF GcsSpec

\* Once a round's outcome is recorded the controller never contradicts it: no
\* order is in the air for a transaction whose outcome is ABORTED (step and
\* gcs_loop), however many peers are lost or starts there are.  With torn reads
\* it is false: the race that the run GcsTornRead shows orders such a mission too.
THEOREM OrdersAreForCommitted == ~TornReads => (GcsSpec => []NoOrderForAborted)
<1> SUFFICES ASSUME ~TornReads PROVE GcsSpec => []NoOrderForAborted
  OBVIOUS
<1>1. VotingInv /\ OrdersInv => NoOrderForAborted
  <2> SUFFICES ASSUME VotingInv, OrdersInv, NEW i \in DOMAIN orders
               PROVE  ~(outcome.valid /\ outcome.tx = orders[i] /\ outcome.result = "ABORTED")
    BY DEF NoOrderForAborted
  <2>1. i \in 1 .. Len(orders)
    BY LenProperties DEF VotingInv, GcsTypeOK
  <2> QED BY <2>1 DEF OrdersInv
<1> QED BY <1>1, OrdersInvariance, PTL

\* The steps that change the orders: one is added for a round that everybody
\* asked has agreed to, or the process starts anew.
LEMMA OrderMeansAgreement ==
  ASSUME ~TornReads, VotingInv, [GcsNext]_gcsVars, orders' # orders
  PROVE  \/ orders' = <<>> /\ epoch' # epoch
         \/ \A d \in voters : Agreed(d, active_tx)
<1>1. CASE GcsEngine
  BY <1>1 DEF GcsEngine, controllerVars
<1>2. CASE BeginProposal
  BY <1>2 DEF BeginProposal
<1>3. ASSUME NEW copy \in OutcomeCopies, ReadOutcome(copy)
      PROVE  \A d \in voters : Agreed(d, active_tx)
  BY <1>3, WholeCopy DEF VotingInv, RoundInv
<1>4. ASSUME NEW lost \in SUBSET Drones, Restart(lost)
      PROVE  orders' = <<>> /\ epoch' # epoch
  <2>1. epoch \in Nat /\ epoch' = epoch + 1 /\ orders' = <<>>
    BY <1>4, VotingTypes DEF Restart
  <2> QED BY <2>1
<1>5. CASE BesidesOrders
  BY <1>5, BesidesOrdersFrame
<1> QED BY <1>1, <1>2, <1>3, <1>4, <1>5, StepCases

\* A drone that refuses or keeps silent is never overruled, also when votes of
\* an earlier start of the ground station are counted (on_vote, evaluate, step).
THEOREM RefusersAreNotOrdered == ~TornReads => (GcsSpec => NoRefuserOrdered)
<1> SUFFICES ASSUME ~TornReads PROVE GcsSpec => NoRefuserOrdered
  OBVIOUS
<1> DEFINE Consent == Len(orders') > Len(orders) => \A d \in voters : answer[d] = "ACK"
<1>1. VotingInv /\ [GcsNext]_gcsVars => [Consent]_gcsVars
  <2> SUFFICES ASSUME VotingInv, [GcsNext]_gcsVars, Len(orders') > Len(orders)
               PROVE  \A d \in voters : answer[d] = "ACK"
    OBVIOUS
  <2>1. Len(orders) \in Nat
    BY LenProperties DEF VotingInv, GcsTypeOK
  <2>2. orders' # orders /\ orders' # <<>>
    BY <2>1
  <2> QED BY <2>2, OrderMeansAgreement DEF Agreed
<1> QED BY <1>1, VotingInvariance, PTL DEF GcsSpec, NoRefuserOrdered

\* An order goes out only for a proposal that every drone asked has answered
\* with ACK (evaluate, step).  No vote names the start of the ground station it
\* answers, so this needs a ground station that is started once; the run
\* GcsRestartSafe shows what remains after a restart, the run GcsTornRead what
\* a race does.
THEOREM OrdersAreUnanimous ==
  ~TornReads /\ MaxEpochs <= 1 => (GcsSpec => OrderNeedsUnanimity)
<1> SUFFICES ASSUME ~TornReads, MaxEpochs <= 1 PROVE GcsSpec => OrderNeedsUnanimity
  OBVIOUS
<1> DEFINE Unanimous ==
      orders' # orders /\ epoch' = epoch => \A d \in voters : HasCast(d, "ACK", active_tx)
<1>1. VotingInv /\ [GcsNext]_gcsVars => [Unanimous]_gcsVars
  <2> SUFFICES ASSUME VotingInv, [GcsNext]_gcsVars, orders' # orders, epoch' = epoch
               PROVE  \A d \in voters : HasCast(d, "ACK", active_tx)
    OBVIOUS
  <2> QED BY OrderMeansAgreement DEF Agreed
<1> QED BY <1>1, VotingInvariance, PTL DEF GcsSpec, OrderNeedsUnanimity

-----------------------------------------------------------------------------
(* A round is never lost, while no peer is *)

\* The three places a handed-over round can be in.
Somewhere ==
  \/ pending_request.present
  \/ task_queue # <<>> /\ task_queue[1].type = "CONSENSUS" /\ task_queue[1].tx = active_tx
  \/ outcome.valid /\ outcome.tx = active_tx

\* An engine that is not in an emergency moves the round on and does not drop it.
LEMMA EngineKeepsRound ==
  ASSUME VotingInv, GcsEngine, ~Emergency, Somewhere
  PROVE  Somewhere'
<1>1. /\ IInv /\ TasksInv /\ RoundInv /\ EngineStep /\ active_tx' = active_tx
      /\ task_queue \in Seq(Task) /\ IInv' /\ task_queue' \in Seq(Task)
  BY EngineKeepsVotingInv DEF VotingInv, IInv, TypeOK, GcsEngine, controllerVars
<1>2. CASE TakesRequest
  <2> DEFINE t == ConsensusTask(active_tx, voters)
  <2>1. task_queue' = <<t>>
    BY <1>1, <1>2 DEF TakesRequest, RoundInv
  <2>2. t.type = "CONSENSUS" /\ t.tx = active_tx
    BY DEF ConsensusTask, NewTask
  <2> HIDE DEF t
  <2> QED BY <1>1, <2>1, <2>2 DEF Somewhere
<1>3. CASE KeepsBallots
  <2>1. ASSUME task_queue # <<>>, task_queue[1].type = "CONSENSUS", task_queue[1].tx = active_tx
        PROVE  /\ task_queue' # <<>> /\ task_queue'[1].type = "CONSENSUS"
               /\ task_queue'[1].tx = active_tx
    <3>1. 1 \in 1 .. Len(task_queue)
      BY <1>1, <2>1, HeadIsFirst
    <3>2. /\ 1 \in 1 .. Len(task_queue') /\ task_queue'[1].type = "CONSENSUS"
          /\ task_queue'[1].tx = active_tx
      BY <1>3, <2>1, <3>1 DEF KeepsBallots, Descends
    <3>3. task_queue' # <<>>
      BY <3>2
    <3> QED BY <3>2, <3>3
  <2> QED BY <1>1, <1>3, <2>1 DEF KeepsBallots, Somewhere
<1>4. CASE CountsVote
  <2>1. PICK u \in Task : /\ u.type = "CONSENSUS" /\ u.tx = task_queue[1].tx
                          /\ task_queue' = WithHead(task_queue, u)
                          /\ task_queue # <<>>
    BY <1>4 DEF CountsVote
  <2>2. task_queue' # <<>> /\ task_queue'[1] = u
    BY <1>1, <2>1, WithHeadType
  <2> QED BY <1>1, <1>4, <2>1, <2>2 DEF CountsVote, Somewhere
<1>5. CASE Records
  <2>1. 1 \in 1 .. Len(task_queue)
    BY <1>1, <1>5, HeadIsFirst DEF Records
  <2>2. /\ task_queue[1].tx \in outcome.tx + 1 .. active_tx
        /\ outcome.tx \in 0 .. active_tx /\ active_tx \in Nat
    BY <1>1, <1>5, <2>1 DEF Records, TasksInv, BallotOf, RoundInv
  <2>3. outcome.tx # active_tx
    BY <2>2
  <2> QED BY <1>1, <1>5, <2>3 DEF Records, Somewhere
<1> QED BY <1>1, <1>2, <1>3, <1>4, <1>5, EngineCases

LEMMA NextAliveInv ==
  ~PeersGetLost => (VotingInv /\ AliveInv /\ [GcsNext]_gcsVars => AliveInv')
<1> SUFFICES ASSUME ~PeersGetLost, VotingInv, AliveInv, [GcsNext]_gcsVars PROVE AliveInv'
  OBVIOUS
<1>1. known = online /\ ~battery_low /\ (main_pc = "publish" \/ Waiting => Somewhere)
  BY DEF AliveInv, Somewhere
<1>2. AliveInv' <=> /\ known' = online' /\ ~battery_low'
                    /\ (main_pc = "publish" \/ Waiting)' => Somewhere'
  BY DEF AliveInv, Somewhere
<1>3. CASE GcsEngine
  <2>1. UNCHANGED <<known, online, battery_low, main_pc, gcs_state>>
    BY <1>3, EngineFrame DEF GcsEngine, peerVars, controllerVars
  <2>2. ~Emergency
    BY <1>1 DEF Emergency, VotingInv, GcsTypeOK
  <2> QED BY <1>1, <1>2, <1>3, <2>1, <2>2, EngineKeepsRound DEF Waiting
<1>4. CASE MainThread
  <2>1. UNCHANGED <<known, online, battery_low>>
    BY <1>4 DEF MainThread, BeginProposal, SubmitRequest, PublishProposal, ReadOutcome, vars,
                peerVars
  <2>2. CASE BeginProposal
    BY <1>1, <1>2, <2>1, <2>2 DEF BeginProposal, Waiting
  <2>3. CASE SubmitRequest
    BY <1>1, <1>2, <2>1, <2>3 DEF SubmitRequest, LeaveRequest, Somewhere
  <2>4. CASE PublishProposal
    <3>1. Somewhere' <=> Somewhere
      BY <2>4 DEF PublishProposal, Somewhere, vars, engineVars, queueVars
    <3> QED BY <1>1, <1>2, <2>1, <2>4, <3>1 DEF PublishProposal
  <2>5. ASSUME NEW copy \in OutcomeCopies, ReadOutcome(copy) PROVE AliveInv'
    BY <1>1, <1>2, <2>1, <2>5 DEF ReadOutcome, Waiting
  <2> QED BY <1>4, <2>2, <2>3, <2>4, <2>5 DEF MainThread
<1>5. ASSUME NEW d \in Drones, AnswerProposal(d) \/ DeliverVote(d) \/ UpdatePeers(d)
      PROVE  AliveInv'
  <2>1. UNCHANGED <<task_queue, pending_request, outcome, active_tx, main_pc, gcs_state,
                    battery_low>>
    BY <1>5 DEF AnswerProposal, DeliverVote, AddCommand, UpdatePeers, vars, engineVars,
                queueVars, controllerVars
  <2>2. known' = online'
    BY <1>1, <1>5 DEF AnswerProposal, DeliverVote, UpdatePeers, PeerAppears, PeerFallsSilent,
                      peerVars
  <2> QED BY <1>1, <1>2, <2>1, <2>2 DEF Somewhere, Waiting
<1>6. ASSUME NEW lost \in SUBSET Drones, Restart(lost) PROVE AliveInv'
  BY <1>1, <1>2, <1>6 DEF Restart, Waiting
<1>7. CASE UNCHANGED gcsVars
  <2>1. UNCHANGED <<task_queue, pending_request, outcome, active_tx, main_pc, gcs_state,
                    battery_low, known, online>>
    BY <1>7 DEF gcsVars, vars, engineVars, queueVars, controllerVars, peerVars
  <2> QED BY <1>1, <1>2, <2>1 DEF Somewhere, Waiting
<1> QED BY <1>3, <1>4, <1>5, <1>6, <1>7 DEF GcsNext, Surroundings

\* While no peer falls silent, a controller that waits has its round in the
\* request slot, at the head of the engine's queue or in the recorded outcome:
\* nothing in the engine drops it (apply_pending_consensus_request,
\* prepare_queue, process_pending_commands, the retirement of a ConsensusTask).
\* A silent peer does: the run GcsVotingStuck.
THEOREM RoundsAreAlive == ~PeersGetLost => (GcsSpec => []RoundIsAlive)
<1> SUFFICES ASSUME ~PeersGetLost PROVE GcsSpec => []RoundIsAlive
  OBVIOUS
<1>1. GcsInit => AliveInv
  BY DEF GcsInit, AliveInv, Waiting
<1>2. VotingInv /\ AliveInv /\ [GcsNext]_gcsVars => AliveInv'
  BY NextAliveInv
<1>3. VotingInv /\ AliveInv => RoundIsAlive
  <2> SUFFICES ASSUME VotingInv, AliveInv PROVE RoundIsAlive
    OBVIOUS
  <2>1. task_queue # <<>> => Head(task_queue) = task_queue[1]
    BY HeadIsFirst DEF VotingInv, IInv, TypeOK
  <2> QED BY <2>1 DEF VotingInv, RoundInv, AliveInv, RoundIsAlive
<1> QED BY <1>1, <1>2, <1>3, VotingInvariance, PTL DEF GcsSpec

-----------------------------------------------------------------------------
(* The vote implements MissionCommit *)

Rounds == [tx \in TxIds |-> RoundOf(tx)]
Agreements == {a \in Drones \X TxIds : HasCast(a[1], "ACK", a[2])}

\* RoundOf's cases exclude each other: the abstract state of a round is read
\* off the orders, the controller and the counter of transactions.
RoundsMean ==
  \A tx \in TxIds :
    /\ Rounds[tx] \in {"unused", "voting", "ordered", "cancelled"}
    /\ Rounds[tx] = "ordered" <=> \E i \in 1 .. Len(orders) : orders[i] = tx
    /\ Rounds[tx] = "voting" <=> tx = active_tx /\ InRound
    /\ Rounds[tx] = "unused" <=> tx >= next_tx

LEMMA RoundsAreMeant == VotingInv /\ OrdersInv => RoundsMean
<1> SUFFICES ASSUME VotingInv, OrdersInv, NEW tx \in TxIds
             PROVE  /\ RoundOf(tx) \in {"unused", "voting", "ordered", "cancelled"}
                    /\ RoundOf(tx) = "ordered" <=> \E i \in 1 .. Len(orders) : orders[i] = tx
                    /\ RoundOf(tx) = "voting" <=> tx = active_tx /\ InRound
                    /\ RoundOf(tx) = "unused" <=> tx >= next_tx
  BY DEF RoundsMean, Rounds
<1>1. /\ active_tx \in Nat /\ outcome.tx \in 0 .. active_tx /\ next_tx = active_tx + 1
      /\ tx \in Nat /\ DOMAIN orders = 1 .. Len(orders)
      /\ \A i \in 1 .. Len(orders) : orders[i] \in Nat
  <2>1. orders \in Seq(TxIds) /\ MaxTx \in Nat
    BY VotingTypes DEF GcsTypeOK
  <2>2. \A i \in 1 .. Len(orders) : orders[i] \in TxIds
    BY <2>1, ElementOfSeq
  <2> QED BY <2>1, <2>2, VotingTypes, LenProperties DEF TxIds, VotingInv, RoundInv
<1> DEFINE Ordered == \E i \in 1 .. Len(orders) : orders[i] = tx
           Voting == tx = active_tx /\ InRound
<1>2. Ordered <=> tx \in {orders[i] : i \in DOMAIN orders}
  BY <1>1
<1>3. /\ Ordered => ~Voting /\ ~(tx >= next_tx)
      /\ Voting => ~(tx >= next_tx)
  BY <1>1 DEF OrdersInv
<1>4. RoundOf(tx) = CASE Ordered -> "ordered"
                      [] Voting -> "voting"
                      [] tx >= next_tx -> "unused"
                      [] OTHER -> "cancelled"
  BY <1>2 DEF RoundOf, InRound
<1> QED BY <1>3, <1>4

\* What leaves these alone is a stutter of MissionCommit's rounds.
LEMMA RoundsStay ==
  ASSUME UNCHANGED <<orders, active_tx, next_tx>>, InRound' <=> InRound
  PROVE  Rounds' = Rounds
  BY DEF Rounds, RoundOf, InRound

LEMMA AgreementsStay ==
  ASSUME UNCHANGED <<cast, epoch>>
  PROVE  Agreements' = Agreements
  BY DEF Agreements, HasCast

\* What a drone's answer adds to the agreements: nothing, or its own to the
\* proposal it has received.
LEMMA AnswerAgrees ==
  ASSUME MaxEpochs <= 1, VotingInv, NEW d \in Drones, AnswerProposal(d)
  PROVE  \/ Agreements' = Agreements
         \/ \E m \in TxIds : m < next_tx /\ Agreements' = Agreements \cup {<<d, m>>}
<1> DEFINE k == heard[d] + 1
           m == proposals[k].tx
           v == [tx |-> m, vote |-> answer[d], epoch |-> proposals[k].epoch]
<1>1. /\ heard[d] \in Nat /\ answer[d] \in {"ACK", "NACK", "NONE"}
      /\ cast \in [Drones -> Seq(VoteRecord)] /\ cast[d] \in Seq(VoteRecord)
      /\ proposals \in Seq([tx : TxIds, epoch : Nat]) /\ Len(proposals) \in Nat
      /\ MaxTx \in Nat /\ active_tx \in Nat /\ next_tx = active_tx + 1 /\ ProposalsInv
  BY VotingTypes, LenProperties DEF VotingInv, GcsTypeOK, VoteRecord, RoundInv
<1>2. k \in 1 .. Len(proposals)
  BY <1>1 DEF AnswerProposal
<1>3. proposals[k] \in [tx : TxIds, epoch : Nat]
  BY <1>1, <1>2, ElementOfSeq
<1>4. m \in TxIds /\ proposals[k].epoch = epoch /\ m <= active_tx
  BY <1>1, <1>2, <1>3 DEF ProposalsInv
<1>5. m < next_tx
  BY <1>1, <1>4 DEF TxIds
<1>6. /\ UNCHANGED epoch
      /\ \/ answer[d] = "NONE" /\ cast' = cast
         \/ answer[d] # "NONE" /\ cast' = [cast EXCEPT ![d] = Append(cast[d], v)]
  BY DEF AnswerProposal
<1>7. CASE cast' = cast
  BY <1>6, <1>7, AgreementsStay
<1>8. CASE answer[d] # "NONE" /\ cast' = [cast EXCEPT ![d] = Append(cast[d], v)]
  <2>1. v = [tx |-> m, vote |-> answer[d], epoch |-> epoch] /\ v \in VoteRecord
    BY <1>1, <1>4, <1>8 DEF VoteRecord, ProposalsInv, VotingInv, GcsTypeOK
  <2> HIDE DEF v, m, k
  <2>2. /\ Len(Append(cast[d], v)) = Len(cast[d]) + 1 /\ Len(cast[d]) \in Nat
        /\ \A i \in 1 .. Len(cast[d]) : Append(cast[d], v)[i] = cast[d][i]
        /\ Append(cast[d], v)[Len(cast[d]) + 1] = v
        /\ DOMAIN Append(cast[d], v) = 1 .. Len(cast[d]) + 1
        /\ DOMAIN cast[d] = 1 .. Len(cast[d])
    BY <1>1, <2>1, AppendProperties, LenProperties
  <2>3. cast'[d] = Append(cast[d], v) /\ \A e \in Drones : e # d => cast'[e] = cast[e]
    BY <1>1, <1>8
  <2>4. ASSUME NEW e \in Drones, e # d, NEW tx
        PROVE  HasCast(e, "ACK", tx)' <=> HasCast(e, "ACK", tx)
    BY <1>6, <2>3, <2>4 DEF HasCast
  <2>5. ASSUME NEW tx
        PROVE  HasCast(d, "ACK", tx)' <=>
                 HasCast(d, "ACK", tx) \/ (tx = m /\ answer[d] = "ACK")
    <3> DEFINE w == [tx |-> tx, vote |-> "ACK", epoch |-> epoch]
    <3>1. HasCast(d, "ACK", tx) <=> \E i \in 1 .. Len(cast[d]) : cast[d][i] = w
      BY <2>2 DEF HasCast
    <3>2. HasCast(d, "ACK", tx)' <=> \E i \in 1 .. Len(cast[d]) + 1 : cast'[d][i] = w
      BY <1>6, <2>2, <2>3 DEF HasCast
    <3>3. v = w <=> tx = m /\ answer[d] = "ACK"
      BY <2>1
    <3> HIDE DEF w
    <3> QED BY <2>2, <2>3, <3>1, <3>2, <3>3
  <2>6. CASE answer[d] = "ACK"
    <3>1. Agreements' = Agreements \cup {<<d, m>>}
      BY <1>4, <2>4, <2>5, <2>6 DEF Agreements
    <3> QED BY <1>4, <1>5, <3>1
  <2>7. CASE answer[d] # "ACK"
    <3>1. Agreements' = Agreements
      BY <2>4, <2>5, <2>7 DEF Agreements
    <3> QED BY <3>1
  <2> QED BY <2>6, <2>7
<1> QED BY <1>6, <1>7, <1>8

\* Another round's state is the same before and after a step that leaves its
\* order, the counter up to it, and its being voted on as they are.
LEMMA OneRoundChanges ==
  ASSUME RoundsMean, RoundsMean', NEW m \in TxIds,
         \A tx \in TxIds : tx # m =>
           /\ (\E i \in 1 .. Len(orders') : orders'[i] = tx)
                <=> \E i \in 1 .. Len(orders) : orders[i] = tx
           /\ tx = active_tx' /\ InRound' <=> tx = active_tx /\ InRound
           /\ tx >= next_tx' <=> tx >= next_tx
  PROVE  Rounds' = [Rounds EXCEPT ![m] = Rounds'[m]]
<1>1. ASSUME NEW tx \in TxIds, tx # m PROVE Rounds'[tx] = Rounds[tx]
  BY <1>1 DEF RoundsMean
<1>2. Rounds = [tx \in TxIds |-> Rounds[tx]] /\ Rounds' = [tx \in TxIds |-> Rounds'[tx]]
  BY DEF Rounds
<1> QED BY <1>1, <1>2

\* propose_task opens the next round.
LEMMA BeginProposes ==
  ASSUME VotingInv, VotingInv', RoundsMean, RoundsMean', BeginProposal
  PROVE  /\ next_tx \in TxIds
         /\ Rounds[next_tx] = "unused"
         /\ \A n \in TxIds : Rounds[n] # "voting"
         /\ Rounds' = [Rounds EXCEPT ![next_tx] = "voting"]
         /\ voters' \subseteq Drones
         /\ Agreements' = Agreements
<1>1. /\ main_pc = "loop" /\ gcs_state = "IDLE" /\ main_pc' = "request"
      /\ next_tx \in TxIds /\ active_tx' = next_tx /\ next_tx' = next_tx + 1
      /\ voters' \subseteq Drones
      /\ UNCHANGED <<orders, cast, epoch>>
  BY DEF BeginProposal, droneVars, VotingInv, GcsTypeOK
<1>2. ~InRound /\ InRound' /\ next_tx \in Nat /\ \A tx \in TxIds : tx \in Nat
  BY <1>1 DEF InRound, TxIds
<1>3. Rounds' = [Rounds EXCEPT ![next_tx] = Rounds'[next_tx]]
  <2>1. \A tx \in TxIds : tx # next_tx => (tx >= next_tx' <=> tx >= next_tx)
    BY <1>1, <1>2
  <2> QED BY <1>1, <1>2, <2>1, OneRoundChanges
<1>4. Rounds[next_tx] = "unused" /\ Rounds'[next_tx] = "voting"
  BY <1>1, <1>2 DEF RoundsMean
<1> QED BY <1>1, <1>2, <1>3, <1>4, AgreementsStay DEF RoundsMean

\* Reading an outcome closes the round: with its order, after everybody's
\* agreement, or without.
LEMMA ReadingCloses ==
  ASSUME ~TornReads, MaxEpochs <= 1, VotingInv, OrdersInv, RoundsMean, RoundsMean',
         NEW copy \in OutcomeCopies, ReadOutcome(copy)
  PROVE  /\ active_tx \in TxIds
         /\ Rounds[active_tx] = "voting"
         /\ \/ /\ \A d \in voters : <<d, active_tx>> \in Agreements
               /\ Rounds' = [Rounds EXCEPT ![active_tx] = "ordered"]
            \/ Rounds' = [Rounds EXCEPT ![active_tx] = "cancelled"]
         /\ voters' = voters
         /\ Agreements' = Agreements
<1>1. /\ InRound /\ ~InRound' /\ UNCHANGED <<active_tx, next_tx, voters, cast, epoch>>
      /\ active_tx \in TxIds /\ active_tx \in Nat /\ next_tx = active_tx + 1
      /\ orders \in Seq(TxIds) /\ Len(orders) \in Nat
  BY WholeCopy, VotingTypes, LenProperties DEF VotingInv, RoundInv, GcsTypeOK
<1>2. Agreements' = Agreements /\ Rounds[active_tx] = "voting"
  BY <1>1, AgreementsStay DEF RoundsMean
<1>3. CASE outcome.result = "COMMITTED" /\ orders' = Append(orders, active_tx)
  <2>1. \A d \in voters : <<d, active_tx>> \in Agreements
    <3>1. \A d \in voters : Agreed(d, active_tx) /\ d \in Drones
      BY <1>3, WholeCopy DEF VotingInv, RoundInv, GcsTypeOK
    <3> QED BY <1>1, <3>1 DEF Agreed, Agreements
  <2>2. /\ Len(orders') = Len(orders) + 1 /\ orders'[Len(orders) + 1] = active_tx
        /\ \A i \in 1 .. Len(orders) : orders'[i] = orders[i]
    BY <1>1, <1>3, AppendProperties
  <2>3. \A tx : (\E i \in 1 .. Len(orders') : orders'[i] = tx)
                  <=> tx = active_tx \/ \E i \in 1 .. Len(orders) : orders[i] = tx
    BY <1>1, <2>2
  <2>4. Rounds' = [Rounds EXCEPT ![active_tx] = Rounds'[active_tx]]
    BY <1>1, <2>3, OneRoundChanges
  <2>5. Rounds'[active_tx] = "ordered"
    BY <1>1, <2>3 DEF RoundsMean
  <2> QED BY <1>1, <1>2, <2>1, <2>4, <2>5
<1>4. CASE orders' = orders
  <2>1. Rounds' = [Rounds EXCEPT ![active_tx] = Rounds'[active_tx]]
    BY <1>1, <1>4, OneRoundChanges
  <2>2. Rounds'[active_tx] = "cancelled"
    <3>1. \A i \in 1 .. Len(orders) : orders[i] # active_tx
      BY <1>1 DEF OrdersInv
    <3> QED BY <1>1, <1>4, <3>1 DEF RoundsMean
  <2> QED BY <1>1, <1>2, <2>1, <2>2
<1> QED BY <1>3, <1>4, WholeCopy

\* Every step of the vote is a step of MissionCommit or a stutter.
LEMMA StepCommits ==
  ASSUME ~TornReads, MaxEpochs <= 1, VotingInv, VotingInv', OrdersInv, RoundsMean, RoundsMean',
         [GcsNext]_gcsVars
  PROVE  [Commit!Next]_(Commit!vars)
<1> DEFINE Stutter == UNCHANGED <<Rounds, voters, Agreements>>
<1>1. Stutter => UNCHANGED Commit!vars
  BY DEF Commit!vars, Rounds, Agreements
<1>2. CASE GcsEngine
  <2>1. Stutter
    BY <1>2, EngineFrame, RoundsStay, AgreementsStay
    DEF GcsEngine, controllerVars, droneVars, envVars, InRound
  <2> QED BY <1>1, <2>1
<1>3. CASE BeginProposal
  <2>1. Commit!Propose(next_tx, voters')
    BY <1>3, BeginProposes DEF Commit!Propose, Rounds, Agreements
  <2>2. next_tx \in TxIds /\ voters' \in SUBSET Drones
    BY <1>3, BeginProposes
  <2> QED BY <2>1, <2>2 DEF Commit!Next
<1>4. ASSUME NEW copy \in OutcomeCopies, ReadOutcome(copy) PROVE Commit!Next
  <2>1. Commit!SendOrder(active_tx) \/ Commit!Cancel(active_tx)
    BY <1>4, ReadingCloses DEF Commit!SendOrder, Commit!Cancel, Rounds, Agreements
  <2>2. active_tx \in TxIds
    BY <1>4, ReadingCloses
  <2> QED BY <2>1, <2>2 DEF Commit!Next
<1>5. CASE \E lost \in SUBSET Drones : Restart(lost)
  BY <1>5, VotingTypes, EnvironmentAssumption DEF Restart
<1>6. CASE BesidesOrders
  <2>1. UNCHANGED <<Rounds, voters>>
    BY <1>6, BesidesOrdersFrame, RoundsStay
  <2>2. ASSUME NEW d \in Drones, AnswerProposal(d) PROVE [Commit!Next]_(Commit!vars)
    <3>1. CASE Agreements' = Agreements
      BY <1>1, <2>1, <3>1
    <3>2. CASE \E m \in TxIds : m < next_tx /\ Agreements' = Agreements \cup {<<d, m>>}
      <4>1. PICK m \in TxIds : m < next_tx /\ Agreements' = Agreements \cup {<<d, m>>}
        BY <3>2
      <4>2. next_tx \in Nat /\ m \in Nat
        BY VotingTypes DEF TypeOK, TxIds
      <4>3. Rounds[m] # "unused"
        BY <4>1, <4>2 DEF RoundsMean
      <4>4. Commit!Agree(d, m)
        BY <2>1, <4>1, <4>3 DEF Commit!Agree, Rounds, Agreements
      <4> QED BY <4>4 DEF Commit!Next
    <3> QED BY <2>2, <3>1, <3>2, AnswerAgrees
  <2>3. ASSUME NEW d \in Drones, DeliverVote(d) \/ UpdatePeers(d)
        PROVE  UNCHANGED <<cast, epoch>>
    BY <2>3 DEF DeliverVote, UpdatePeers, droneVars
  <2>4. CASE SubmitRequest \/ PublishProposal \/ UNCHANGED gcsVars
    <3>1. UNCHANGED <<cast, epoch>>
      BY <2>4 DEF SubmitRequest, PublishProposal, gcsVars, droneVars
    <3> QED BY <1>1, <2>1, <3>1, AgreementsStay
  <2>5. ASSUME NEW d \in Drones, DeliverVote(d) \/ UpdatePeers(d)
        PROVE  [Commit!Next]_(Commit!vars)
    BY <1>1, <2>1, <2>3, <2>5, AgreementsStay
  <2> QED BY <1>6, <2>2, <2>4, <2>5 DEF BesidesOrders
<1> QED BY <1>2, <1>3, <1>4, <1>5, <1>6, StepCases

LEMMA InitCommits == GcsInit => Commit!Init
<1> SUFFICES ASSUME GcsInit PROVE Commit!Init
  OBVIOUS
<1>1. ASSUME NEW tx \in TxIds PROVE RoundOf(tx) = "unused"
  <2>1. tx \in Nat /\ tx >= 1
    BY BoundsAssumption DEF TxIds
  <2>2. {orders[i] : i \in DOMAIN orders} = {} /\ active_tx = 0 /\ next_tx = 1
    BY DEF GcsInit, Init
  <2> QED BY <2>1, <2>2 DEF RoundOf
<1>2. ASSUME NEW d \in Drones, NEW tx PROVE ~HasCast(d, "ACK", tx)
  BY DEF GcsInit, HasCast
<1>3. Agreements = {}
  BY <1>2 DEF Agreements
<1> QED BY <1>1, <1>3 DEF Commit!Init, GcsInit, Agreements

\* The vote from propose_task to the order, over threads, queues, timers, lost
\* peers and reordered votes, promises what MissionCommit does: one round at a
\* time, a mission's order at most once, and only on the agreement of everybody
\* asked.
THEOREM VotingImplementsCommit == ~TornReads /\ MaxEpochs <= 1 => (GcsSpec => CommitSpec)
<1> SUFFICES ASSUME ~TornReads, MaxEpochs <= 1 PROVE GcsSpec => CommitSpec
  OBVIOUS
<1>1. GcsInit => Commit!Init
  BY InitCommits
<1>2. /\ VotingInv /\ OrdersInv /\ RoundsMean
      /\ VotingInv' /\ OrdersInv' /\ RoundsMean'
      /\ [GcsNext]_gcsVars
      => [Commit!Next]_(Commit!vars)
  BY StepCommits
<1>3. VotingInv /\ OrdersInv => RoundsMean
  BY RoundsAreMeant
<1> QED BY <1>1, <1>2, <1>3, OrdersInvariance, PTL DEF GcsSpec, CommitSpec, Commit!Spec
=============================================================================

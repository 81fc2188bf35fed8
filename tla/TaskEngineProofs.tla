--------------------------- MODULE TaskEngineProofs ---------------------------
(***************************************************************************)
(* Theorems about the Task Engine of one node, for any number of drones,   *)
(* either kind of node, and every value of the bounds.                     *)
(*                                                                         *)
(* The properties of the queue are not inductive one by one: that Landing  *)
(* follows FailSafe needs the flag active_task_started_ to be right, the   *)
(* flag needs the tasks behind the head to be untouched, and both need to  *)
(* know which flag the engine thread holds at which point of its turn.     *)
(* IInv states them together, as facts about a queue and its flag, so that *)
(* each helper of SwarmManager gets one lemma about what it does to them.  *)
(***************************************************************************)
EXTENDS TaskEngine, SequenceTheorems, TLAPS

\* What holds of every queue the engine holds or is about to install, where
\* started says whether its head has been started.
Shape(q, started) ==
  /\ \A i \in 1 .. Len(q) : q[i].entered = IF i = 1 /\ started THEN 1 ELSE 0
  /\ \A i \in 1 .. Len(q) : q[i].type = "IDLE" => Len(q) = 1
  /\ \A i \in 1 .. Len(q) :
       /\ q[i].type = "FAIL_SAFE" => i = 1 /\ Len(q) > 1 /\ q[2].type = "LANDING"
       /\ q[i].type = "LANDING" => i = 1 \/ (i = 2 /\ q[1].type = "FAIL_SAFE")

\* The result of a started ConsensusTask is its votes' verdict, unless the
\* timer overruled votes that had not decided yet.
Tallied(t) ==
  IF t.timed_out THEN t.result = "ABORTED" /\ Evaluate(t.votes) = "PENDING"
  ELSE t.result = Evaluate(t.votes)

\* What holds between two helpers: a LandingTask is never a head that waits to
\* be started, and a started head is the reported type and is tallied.
Installed(q, started, type) ==
  /\ Shape(q, started)
  /\ started => q # <<>>
  /\ q # <<>> /\ q[1].type = "LANDING" => started
  /\ started => type = q[1].type
  /\ started /\ q[1].type = "CONSENSUS" => Tallied(q[1])

\* What the engine thread knows at the points of its turn.
PcInv ==
  /\ pc \in {"run", "record"} => active_task_started
  /\ pc = "record" => task_queue[1].type = "CONSENSUS" /\ task_queue[1].result # "PENDING"

IInv ==
  /\ TypeOK
  /\ Installed(task_queue, active_task_started, active_task_type)
  /\ PcInv

-----------------------------------------------------------------------------
(* Tasks *)

LEMMA EvaluateType == \A votes : Evaluate(votes) \in Results
  BY DEF Evaluate, Results

LEMMA NewTaskType ==
  ASSUME NEW type \in QueuedTypes, NEW tx \in Nat, NEW votes \in Ballots
  PROVE  /\ NewTask(type, tx, votes) \in Task
         /\ NewTask(type, tx, votes).type = type
         /\ NewTask(type, tx, votes).entered = 0
  BY DEF NewTask, Task, Results

LEMMA BallotTypes ==
  /\ NoBallot \in Ballots
  /\ \A V \in SUBSET Drones : [d \in V |-> "PENDING"] \in Ballots
<1>1. ASSUME NEW V \in SUBSET Drones PROVE [d \in V |-> "PENDING"] \in Ballots
  <2>1. [d \in V |-> "PENDING"] \in [V -> Votes]
    BY DEF Votes
  <2> QED BY <2>1 DEF Ballots
<1>2. NoBallot \in Ballots
  BY <1>1 DEF NoBallot
<1> QED BY <1>1, <1>2

LEMMA OnEnterType ==
  ASSUME NEW t \in Task
  PROVE  /\ OnEnter(t) \in Task
         /\ OnEnter(t).type = t.type
         /\ OnEnter(t).entered = t.entered + 1
         /\ t.type = "CONSENSUS" => Tallied(OnEnter(t))
<1> DEFINE entered == t.entered + 1
           result == IF t.type = "CONSENSUS" THEN Evaluate(t.votes) ELSE t.result
<1>1. entered \in Nat /\ result \in Results
  BY EvaluateType DEF Task
<1>2. OnEnter(t) = [t EXCEPT !.entered = entered, !.age = 0, !.result = result,
                             !.timed_out = FALSE]
  BY DEF OnEnter
<1>3. t.type = "CONSENSUS" => result = Evaluate(t.votes)
  OBVIOUS
<1>4. entered = t.entered + 1
  OBVIOUS
<1> HIDE DEF entered, result
<1>5. OnEnter(t) \in Task
  <2>1. [t EXCEPT !.entered = entered] \in Task
    BY <1>1 DEF Task
  <2>2. \A u \in Task : [u EXCEPT !.age = 0] \in Task
    BY DEF Task
  <2>3. \A u \in Task : [u EXCEPT !.result = result, !.timed_out = FALSE] \in Task
    BY <1>1 DEF Task
  <2>4. OnEnter(t) = [[[t EXCEPT !.entered = entered] EXCEPT !.age = 0]
                        EXCEPT !.result = result, !.timed_out = FALSE]
    BY <1>2
  <2> QED BY <2>1, <2>2, <2>3, <2>4
<1> QED BY <1>2, <1>3, <1>4, <1>5 DEF Task, Tallied

\* A vote that is counted keeps the result the verdict of the votes.
LEMMA OnVoteType ==
  ASSUME NEW t \in Task, NEW sender \in Drones, NEW vote \in {"ACK", "NACK"}
  PROVE  /\ OnVote(t, sender, vote) \in Task
         /\ OnVote(t, sender, vote).type = t.type
         /\ OnVote(t, sender, vote).entered = t.entered
         /\ Tallied(t) => Tallied(OnVote(t, sender, vote))
<1>1. CASE t.result = "PENDING" /\ sender \in DOMAIN t.votes
  <2> DEFINE votes == [t.votes EXCEPT ![sender] = vote]
             result == IF vote = "NACK" THEN "ABORTED" ELSE Evaluate(votes)
  <2>1. PICK V \in SUBSET Drones : t.votes \in [V -> Votes]
    BY DEF Task, Ballots
  <2>2. votes \in [V -> Votes] /\ votes[sender] = vote /\ sender \in DOMAIN votes
    BY <1>1, <2>1 DEF Votes
  <2>3. votes \in Ballots
    BY <2>1, <2>2 DEF Ballots
  <2>4. result = Evaluate(votes)
    BY <2>2 DEF Evaluate
  <2>5. result \in Results
    BY <2>4, EvaluateType
  <2>6. OnVote(t, sender, vote) = [t EXCEPT !.votes = votes, !.result = result]
    BY <1>1 DEF OnVote
  <2>7. Tallied(t) => ~t.timed_out
    BY <1>1 DEF Tallied, Task
  <2> HIDE DEF votes, result
  <2> QED BY <2>3, <2>4, <2>5, <2>6, <2>7 DEF Task, Tallied
<1>2. CASE ~(t.result = "PENDING" /\ sender \in DOMAIN t.votes)
  BY <1>2 DEF OnVote
<1> QED BY <1>1, <1>2

LEMMA RunType ==
  ASSUME NEW t \in Task, NEW over \in BOOLEAN
  PROVE  /\ Run(t, over) \in Task
         /\ Run(t, over).type = t.type
         /\ Run(t, over).entered = t.entered
         /\ Tallied(t) => Tallied(Run(t, over))
<1>1. CASE t.type = "IDLE" \/ t.result # "PENDING"
  BY <1>1 DEF Run
<1>2. CASE t.result = "PENDING" /\ over /\ t.type = "CONSENSUS"
  <2>1. Run(t, over) = [t EXCEPT !.result = "ABORTED", !.timed_out = TRUE]
    BY <1>2 DEF Run
  <2>2. Tallied(t) => Evaluate(t.votes) = "PENDING"
    BY <1>2 DEF Tallied
  <2> QED BY <2>1, <2>2 DEF Task, Tallied, Results
<1>3. CASE t.type # "IDLE" /\ t.result = "PENDING" /\ ~(over /\ t.type = "CONSENSUS")
  <2>1. Run(t, over) = [t EXCEPT !.age = t.age + 1]
    BY <1>3 DEF Run
  <2> QED BY <2>1 DEF Task, Tallied
<1> QED BY <1>1, <1>2, <1>3

-----------------------------------------------------------------------------
(* Queues *)

\* Replacing the head by another state of the same task.
LEMMA WithHeadType ==
  ASSUME NEW q \in Seq(Task), q # <<>>, NEW t \in Task
  PROVE  /\ WithHead(q, t) \in Seq(Task)
         /\ WithHead(q, t) # <<>>
         /\ Len(WithHead(q, t)) = Len(q)
         /\ WithHead(q, t)[1] = t
         /\ \A i \in 1 .. Len(q) : i # 1 => WithHead(q, t)[i] = q[i]
<1>1. Len(q) \in Nat \ {0} /\ 1 \in 1 .. Len(q)
  BY EmptySeq
<1>2. /\ [q EXCEPT ![1] = t] \in Seq(Task)
      /\ Len([q EXCEPT ![1] = t]) = Len(q)
      /\ \A j \in 1 .. Len(q) : [q EXCEPT ![1] = t][j] = IF j = 1 THEN t ELSE q[j]
  BY <1>1, ExceptSeq
<1> QED BY <1>1, <1>2 DEF WithHead

LEMMA HeadIsFirst ==
  ASSUME NEW q \in Seq(Task), q # <<>>
  PROVE  Head(q) = q[1] /\ q[1] \in Task /\ Len(q) \in Nat \ {0}
  BY EmptySeq

LEMMA RunKeepsInstalled ==
  ASSUME NEW q \in Seq(Task), NEW type, Installed(q, TRUE, type),
         NEW t \in Task, t.type = q[1].type, t.entered = q[1].entered,
         Tallied(q[1]) => Tallied(t)
  PROVE  /\ WithHead(q, t) \in Seq(Task)
         /\ Installed(WithHead(q, t), TRUE, type)
<1>1. q # <<>>
  BY DEF Installed
<1> DEFINE r == WithHead(q, t)
<1>2. /\ r \in Seq(Task) /\ r # <<>> /\ Len(r) = Len(q) /\ r[1] = t
      /\ \A i \in 1 .. Len(q) : i # 1 => r[i] = q[i]
  BY <1>1, WithHeadType
<1>3. Len(q) \in Nat \ {0}
  BY <1>1, HeadIsFirst
<1>4. \A i \in 1 .. Len(q) : r[i].type = q[i].type /\ r[i].entered = q[i].entered
  BY <1>2
<1> HIDE DEF r
<1>5. Shape(r, TRUE)
  BY <1>2, <1>3, <1>4 DEF Installed, Shape
<1> QED BY <1>1, <1>2, <1>5 DEF Installed, r

LEMMA TailShape ==
  ASSUME NEW q \in Seq(Task), q # <<>>, Shape(q, TRUE)
  PROVE  /\ Tail(q) \in Seq(Task)
         /\ Shape(Tail(q), FALSE)
         /\ Tail(q) # <<>> /\ Tail(q)[1].type = "LANDING" => q[1].type = "FAIL_SAFE"
<1> DEFINE r == Tail(q)
<1>1. /\ r \in Seq(Task) /\ Len(r) = Len(q) - 1
      /\ \A i \in 1 .. Len(r) : r[i] = q[i + 1]
  BY HeadTailProperties
<1>2. Len(q) \in Nat /\ Len(r) \in Nat
  BY <1>1, LenProperties
<1>3. \A i \in 1 .. Len(r) : i + 1 \in 1 .. Len(q) /\ i + 1 # 1
  BY <1>1, <1>2
<1> HIDE DEF r
<1>4. \A i \in 1 .. Len(r) : r[i].entered = 0 /\ r[i].type # "IDLE" /\ r[i].type # "FAIL_SAFE"
  BY <1>1, <1>2, <1>3 DEF Shape
<1>5. \A i \in 1 .. Len(r) : r[i].type = "LANDING" => i = 1 /\ q[1].type = "FAIL_SAFE"
  BY <1>1, <1>2, <1>3 DEF Shape
<1>6. Shape(r, FALSE)
  BY <1>4, <1>5 DEF Shape
<1>7. r # <<>> => 1 \in 1 .. Len(r)
  BY <1>1, EmptySeq
<1> QED BY <1>1, <1>5, <1>6, <1>7 DEF r

\* Adding a mission to a queue without IdleTask.
LEMMA AppendShape ==
  ASSUME NEW q \in Seq(Task), NEW started \in BOOLEAN, Shape(q, started),
         \A i \in 1 .. Len(q) : q[i].type # "IDLE",
         started => q # <<>>,
         NEW m \in Task, m.type \in MissionTypes, m.entered = 0
  PROVE  /\ Append(q, m) \in Seq(Task)
         /\ Append(q, m) # <<>>
         /\ Shape(Append(q, m), started)
         /\ Append(q, m)[1] = IF q = <<>> THEN m ELSE q[1]
<1> DEFINE r == Append(q, m)
<1>1. /\ r \in Seq(Task) /\ r # <<>> /\ Len(r) = Len(q) + 1
      /\ \A i \in 1 .. Len(q) : r[i] = q[i]
      /\ r[Len(q) + 1] = m
  BY AppendProperties
<1>2. Len(q) \in Nat /\ (q = <<>> <=> Len(q) = 0)
  BY LenProperties, EmptySeq
<1> HIDE DEF r
<1>3. \A i \in 1 .. Len(r) : i \in 1 .. Len(q) \/ i = Len(q) + 1
  BY <1>1, <1>2
<1>4. r[1] = IF q = <<>> THEN m ELSE q[1]
  BY <1>1, <1>2
<1>5. \A i \in 1 .. Len(r) : r[i].entered = IF i = 1 /\ started THEN 1 ELSE 0
  BY <1>1, <1>2, <1>3 DEF Shape
<1>6. \A i \in 1 .. Len(r) : r[i].type = "IDLE" => Len(r) = 1
  BY <1>1, <1>3 DEF MissionTypes
<1>7. \A i \in 1 .. Len(r) :
        /\ r[i].type = "FAIL_SAFE" => i = 1 /\ Len(r) > 1 /\ r[2].type = "LANDING"
        /\ r[i].type = "LANDING" => i = 1 \/ (i = 2 /\ r[1].type = "FAIL_SAFE")
  BY <1>1, <1>2, <1>3 DEF Shape, MissionTypes
<1>8. Shape(r, started)
  BY <1>5, <1>6, <1>7 DEF Shape
<1> QED BY <1>1, <1>4, <1>8 DEF r

\* start_active_task on any queue whose head waits to be started.
LEMMA StartInstalls ==
  ASSUME NEW q \in Seq(Task), Shape(q, FALSE), active_task_type \in TaskTypes,
         StartActiveTask(q)
  PROVE  /\ task_queue' \in Seq(Task)
         /\ active_task_started' = (q # <<>>)
         /\ active_task_type' \in TaskTypes
         /\ Installed(task_queue', active_task_started', active_task_type')
         /\ q # <<>> => task_queue'[1].type = q[1].type
<1>1. CASE q = <<>>
  BY <1>1 DEF StartActiveTask, Installed
<1>2. CASE q # <<>>
  <2> DEFINE t == OnEnter(q[1])
             r == WithHead(q, t)
  <2>1. /\ task_queue' = r /\ active_task_started' = TRUE
        /\ active_task_type' = q[1].type
    BY <1>2, HeadIsFirst DEF StartActiveTask
  <2>2. q[1] \in Task /\ Len(q) \in Nat \ {0} /\ 1 \in 1 .. Len(q)
    BY <1>2, HeadIsFirst
  <2>3. q[1].entered = 0
    BY <2>2 DEF Shape
  <2>4. /\ t \in Task /\ t.type = q[1].type /\ t.entered = 1
        /\ t.type = "CONSENSUS" => Tallied(t)
    BY <2>2, <2>3, OnEnterType
  <2> HIDE DEF t
  <2>5. /\ r \in Seq(Task) /\ r # <<>> /\ Len(r) = Len(q) /\ r[1] = t
        /\ \A i \in 1 .. Len(q) : i # 1 => r[i] = q[i]
    BY <1>2, <2>4, WithHeadType
  <2>6. \A i \in 1 .. Len(q) : r[i].type = q[i].type
    BY <2>4, <2>5
  <2> HIDE DEF r
  <2>7. Shape(r, TRUE)
    BY <2>2, <2>4, <2>5, <2>6 DEF Shape
  <2>8. q[1].type \in TaskTypes
    BY <2>2 DEF Task, TaskTypes
  <2> QED BY <1>2, <2>1, <2>4, <2>5, <2>7, <2>8 DEF Installed
<1> QED BY <1>1, <1>2

LEMMA FreshQueueShapes ==
  /\ <<IdleTask>> \in Seq(Task) /\ Shape(<<IdleTask>>, FALSE)
  /\ EmergencyTasks \in Seq(Task)
  /\ Shape(EmergencyTasks, FALSE)
<1> USE DEF EmergencyTasks
<1>1. /\ IdleTask \in Task /\ IdleTask.type = "IDLE" /\ IdleTask.entered = 0
      /\ FailSafeTask \in Task /\ FailSafeTask.type = "FAIL_SAFE" /\ FailSafeTask.entered = 0
      /\ LandingTask \in Task /\ LandingTask.type = "LANDING" /\ LandingTask.entered = 0
  BY NewTaskType, BallotTypes DEF IdleTask, FailSafeTask, LandingTask, QueuedTypes
<1>2. <<IdleTask>> \in Seq(Task) /\ Shape(<<IdleTask>>, FALSE)
  BY <1>1 DEF Shape
<1>3. /\ EmergencyTasks \in Seq(Task)
      /\ Shape(EmergencyTasks, FALSE)
  BY <1>1 DEF Shape
<1> QED BY <1>2, <1>3

\* prepare_queue leaves a started head, whatever it finds.
LEMMA PrepareInstalls ==
  ASSUME NEW q \in Seq(Task), NEW started \in BOOLEAN, Shape(q, started),
         active_task_type \in TaskTypes,
         started => Installed(q, started, active_task_type),
         PrepareQueue(q, started)
  PROVE  /\ task_queue' \in Seq(Task)
         /\ active_task_started' = TRUE
         /\ active_task_type' \in TaskTypes
         /\ Installed(task_queue', active_task_started', active_task_type')
         /\ ~started => task_queue'[1].type = IF q = <<>> THEN "IDLE" ELSE q[1].type
<1>1. CASE started
  BY <1>1 DEF PrepareQueue, Installed
<1>2. CASE ~started /\ q = <<>>
  <2>1. StartActiveTask(<<IdleTask>>)
    BY <1>2 DEF PrepareQueue
  <2>2. <<IdleTask>>[1].type = "IDLE" /\ <<IdleTask>> # <<>>
    BY DEF IdleTask, NewTask
  <2> QED BY <1>2, <2>1, <2>2, FreshQueueShapes, StartInstalls
<1>3. CASE ~started /\ q # <<>>
  <2>1. StartActiveTask(q)
    BY <1>3 DEF PrepareQueue
  <2> QED BY <1>3, <2>1, StartInstalls
<1> QED BY <1>1, <1>2, <1>3

-----------------------------------------------------------------------------
(* The inductive invariant *)

LEMMA NothingTypes ==
  /\ NoRequest \in [present : BOOLEAN, tx : Nat, voters : SUBSET Drones]
  /\ NoOutcome \in [valid : BOOLEAN, tx : Nat, result : Results, timed_out : BOOLEAN]
  BY DEF NoRequest, NoOutcome, Results

LEMMA InitIInv == Init => IInv
<1> SUFFICES ASSUME Init PROVE IInv
  OBVIOUS
<1>1. TypeOK
  <2>1. task_queue \in Seq(Task) /\ command_queue \in Seq(Command)
    BY DEF Init
  <2>2. /\ pending_request \in [present : BOOLEAN, tx : Nat, voters : SUBSET Drones]
        /\ outcome \in [valid : BOOLEAN, tx : Nat, result : Results, timed_out : BOOLEAN]
    BY NothingTypes DEF Init
  <2>3. /\ active_task_started \in BOOLEAN /\ in_emergency \in BOOLEAN
        /\ battery_low \in BOOLEAN /\ peer_offline \in BOOLEAN
    BY DEF Init
  <2>4. /\ active_task_type \in TaskTypes /\ sent_votes \subseteq VoteMsg
        /\ next_tx \in Nat /\ arrivals \in Nat
        /\ pc \in {"apply", "emergency", "commands", "run", "record"}
    BY DEF Init, TaskTypes
  <2> QED BY <2>1, <2>2, <2>3, <2>4 DEF TypeOK
<1>2. Installed(task_queue, active_task_started, active_task_type)
  BY DEF Init, Installed, Shape
<1> QED BY <1>1, <1>2 DEF Init, IInv, PcInv

\* The request names a transaction and a set of drones, so its task is one.
LEMMA ApplyPendingRequestKeepsIInv == IInv /\ ApplyPendingRequest => IInv'
<1> SUFFICES ASSUME IInv, ApplyPendingRequest PROVE IInv'
  OBVIOUS
<1> USE DEF IInv, ApplyPendingRequest
<1>1. CASE pending_request.present
  <2> DEFINE t == ConsensusTask(pending_request.tx, pending_request.voters)
  <2>1. t \in Task /\ t.type = "CONSENSUS" /\ t.entered = 0
    BY NewTaskType, BallotTypes DEF TypeOK, ConsensusTask, QueuedTypes
  <2>2. task_queue' = <<t>> /\ active_task_started' = FALSE
    BY <1>1
  <2> HIDE DEF t
  <2>3. /\ task_queue' \in Seq(Task)
        /\ Installed(task_queue', active_task_started', active_task_type')
    BY <2>1, <2>2 DEF Installed, Shape
  <2>4. TypeOK'
    BY <1>1, <2>2, <2>3, NothingTypes DEF TypeOK, envVars
  <2> QED BY <2>3, <2>4 DEF PcInv
<1>2. CASE ~pending_request.present
  <2>1. TypeOK' /\ UNCHANGED queueVars
    BY <1>2 DEF TypeOK, envVars, queueVars
  <2> QED BY <2>1 DEF PcInv, queueVars
<1> QED BY <1>1, <1>2

LEMMA CheckEmergencyKeepsIInv == IInv /\ CheckEmergency => IInv'
<1> SUFFICES ASSUME IInv, CheckEmergency PROVE IInv'
  OBVIOUS
<1> USE DEF IInv, CheckEmergency
<1>1. /\ task_queue' \in Seq(Task)
      /\ active_task_started' = TRUE
      /\ active_task_type' \in TaskTypes
      /\ Installed(task_queue', active_task_started', active_task_type')
  <2>1. CASE EmergencyBegins
    BY <2>1, FreshQueueShapes, PrepareInstalls DEF TypeOK
  <2>2. CASE ~EmergencyBegins
    BY <2>2, PrepareInstalls DEF TypeOK, Installed
  <2> QED BY <2>1, <2>2
<1>2. in_emergency' \in BOOLEAN
  BY DEF Emergency, TypeOK
<1> QED BY <1>1, <1>2 DEF TypeOK, envVars, PcInv

\* What every popped command leaves alone, and what is left of the queue.
LEMMA PopKeepsTypes ==
  ASSUME IInv, NEW c \in Command, PopCommand(c),
         task_queue' \in Seq(Task), active_task_started' \in BOOLEAN,
         active_task_type' = active_task_type, sent_votes' \subseteq VoteMsg,
         Installed(task_queue', active_task_started', active_task_type')
  PROVE  IInv'
<1>1. command_queue' \in Seq(Command)
  BY HeadTailProperties DEF IInv, TypeOK, PopCommand
<1> QED BY <1>1 DEF IInv, TypeOK, PopCommand, PcInv, envVars

LEMMA ProcessCommandKeepsIInv == IInv /\ ProcessCommand => IInv'
<1> SUFFICES ASSUME IInv, NEW c \in Command,
                    HearProposal(c) \/ CountVote(c) \/ TakeOrder(c)
             PROVE  IInv'
  BY DEF ProcessCommand
<1>0. /\ TypeOK /\ Installed(task_queue, active_task_started, active_task_type)
      /\ task_queue \in Seq(Task)
  BY DEF IInv, TypeOK
<1>1. CASE HearProposal(c)
  <2>1. sent_votes' \subseteq VoteMsg
    <3>1. c.tx \in TxIds
      BY <1>1 DEF HearProposal, Command, Proposal, VoteMsg, Order
    <3>2. \A v \in {"ACK", "NACK"} :
            IsDrone => [type |-> "CONSENSUS", sender |-> Self, tx |-> c.tx, vote |-> v] \in VoteMsg
      BY <3>1 DEF VoteMsg, IsDrone
    <3>3. IsDrone => VoteOnProposal(c) \subseteq VoteMsg
      BY <3>2 DEF VoteOnProposal, OwnVote
    <3> QED BY <1>0, <1>1, <3>3 DEF HearProposal, TypeOK
  <2> QED BY <1>0, <1>1, <2>1, PopKeepsTypes DEF HearProposal, queueVars, TypeOK
<1>2. CASE CountVote(c)
  <2>1. CASE /\ task_queue # <<>>
             /\ Head(task_queue).type = "CONSENSUS"
             /\ Head(task_queue).tx = c.tx
    <3> DEFINE h == task_queue[1]
               t == OnVote(h, c.sender, c.vote)
    <3>1. c.sender \in Drones /\ c.vote \in {"ACK", "NACK"}
      BY <1>2 DEF CountVote, IsVote, Command, Proposal, VoteMsg, Order
    <3>2. h \in Task /\ Head(task_queue) = h
      BY <1>0, <2>1, HeadIsFirst
    <3>3. t \in Task /\ t.type = h.type /\ t.entered = h.entered /\ (Tallied(h) => Tallied(t))
      BY <3>1, <3>2, OnVoteType
    <3>4. task_queue' = WithHead(task_queue, t)
      BY <1>2, <2>1, <3>2 DEF CountVote
    <3>5. UNCHANGED <<active_task_started, active_task_type, sent_votes>>
      BY <1>2 DEF CountVote
    <3> HIDE DEF t
    <3>6. /\ task_queue' \in Seq(Task)
          /\ Installed(task_queue', active_task_started', active_task_type')
      <4>1. CASE active_task_started
        BY <1>0, <3>3, <3>4, <3>5, <4>1, RunKeepsInstalled DEF TypeOK
      <4>2. CASE ~active_task_started
        <5>1. /\ task_queue' \in Seq(Task) /\ Len(task_queue') = Len(task_queue)
              /\ task_queue'[1] = t
              /\ \A i \in 1 .. Len(task_queue) : i # 1 => task_queue'[i] = task_queue[i]
          BY <1>0, <2>1, <3>3, <3>4, WithHeadType
        <5>2. Len(task_queue) \in Nat \ {0}
          BY <1>0, <2>1, HeadIsFirst
        <5>3. \A i \in 1 .. Len(task_queue) : /\ task_queue'[i].type = task_queue[i].type
                                              /\ task_queue'[i].entered = task_queue[i].entered
          BY <3>3, <5>1
        <5>4. Shape(task_queue', FALSE)
          BY <1>0, <4>2, <5>1, <5>2, <5>3 DEF Installed, Shape
        <5>5. t.type # "LANDING"
          BY <2>1, <3>2, <3>3
        <5> QED BY <3>5, <4>2, <5>1, <5>4, <5>5 DEF Installed, Shape, TypeOK
      <4> QED BY <4>1, <4>2
    <3> QED BY <1>0, <1>2, <3>5, <3>6, PopKeepsTypes DEF CountVote, TypeOK
  <2>2. CASE UNCHANGED task_queue
    BY <1>0, <1>2, <2>2, PopKeepsTypes DEF CountVote, TypeOK
  <2> QED BY <1>2, <2>1, <2>2 DEF CountVote
<1>3. CASE TakeOrder(c)
  <2> USE <1>3 DEF TakeOrder, IdleHead
  <2> DEFINE m == MissionTask(c)
  <2>1. CASE ~ConcernsThisNode(c)
    BY <1>0, <2>1, PopKeepsTypes DEF TypeOK
  <2>2. ASSUME ConcernsThisNode(c) PROVE m \in Task /\ m.type \in MissionTypes /\ m.entered = 0
    <3>1. c.tx \in Nat
      BY BoundsAssumption DEF Command, Proposal, VoteMsg, Order, TxIds
    <3> QED BY <3>1, NewTaskType, BallotTypes DEF MissionTask, QueuedTypes, MissionTypes
  <2> HIDE DEF m
  <2>3. CASE ConcernsThisNode(c) /\ IdleHead
    <3>1. Len(task_queue) = 1
      BY <1>0, <2>3, HeadIsFirst DEF Installed, Shape
    <3>2. Tail(task_queue) \in Seq(Task) /\ Len(Tail(task_queue)) = 0
      BY <1>0, <2>3, <3>1, HeadTailProperties
    <3>3. Tail(task_queue) = <<>>
      BY <3>2, EmptySeq
    <3>4. task_queue' = <<m>> /\ active_task_started' = FALSE
      BY <2>3, <3>3 DEF m
    <3>5. /\ task_queue' \in Seq(Task)
          /\ Installed(task_queue', active_task_started', active_task_type')
      BY <2>2, <2>3, <3>4 DEF Installed, Shape, MissionTypes
    <3> QED BY <1>0, <3>4, <3>5, PopKeepsTypes DEF TypeOK
  <2>4. CASE ConcernsThisNode(c) /\ ~IdleHead
    <3>1. task_queue' = Append(task_queue, m) /\ active_task_started' = active_task_started
      BY <2>4 DEF m
    <3>2. Len(task_queue) \in Nat /\ (Len(task_queue) = 0 <=> task_queue = <<>>)
      BY <1>0, LenProperties, EmptySeq
    <3>3. \A i \in 1 .. Len(task_queue) : task_queue[i].type # "IDLE"
      BY <1>0, <2>4, <3>2, HeadIsFirst DEF Installed, Shape
    <3>4. /\ task_queue' \in Seq(Task)
          /\ task_queue' # <<>>
          /\ Shape(task_queue', active_task_started)
          /\ task_queue'[1] = IF task_queue = <<>> THEN m ELSE task_queue[1]
      BY <1>0, <2>2, <2>4, <3>1, <3>3, AppendShape DEF Installed, TypeOK
    <3>5. Installed(task_queue', active_task_started', active_task_type')
      BY <1>0, <2>2, <2>4, <3>1, <3>4 DEF Installed, MissionTypes
    <3> QED BY <1>0, <3>1, <3>4, <3>5, PopKeepsTypes DEF TypeOK
  <2> QED BY <2>1, <2>3, <2>4
<1> QED BY <1>1, <1>2, <1>3

LEMMA EndCommandsKeepsIInv == IInv /\ EndCommands => IInv'
<1> SUFFICES ASSUME IInv, EndCommands PROVE IInv'
  OBVIOUS
<1>1. /\ task_queue' \in Seq(Task)
      /\ active_task_started' = TRUE
      /\ active_task_type' \in TaskTypes
      /\ Installed(task_queue', active_task_started', active_task_type')
  BY PrepareInstalls DEF IInv, TypeOK, Installed, EndCommands
<1> QED BY <1>1 DEF IInv, TypeOK, EndCommands, envVars, PcInv

\* on_exit, pop and start of the next: q is what is left of the queue.
LEMMA RetireInstalls ==
  ASSUME NEW q \in Seq(Task), Installed(q, TRUE, active_task_type),
         active_task_type \in TaskTypes, RetireActive(q)
  PROVE  /\ task_queue' \in Seq(Task)
         /\ active_task_started' \in BOOLEAN
         /\ active_task_type' \in TaskTypes
         /\ Installed(task_queue', active_task_started', active_task_type')
         /\ pc' = "apply"
         /\ task_queue' # <<>> /\ task_queue'[1].type = "LANDING" => q[1].type = "FAIL_SAFE"
<1>1. q # <<>> /\ Shape(q, TRUE) /\ StartActiveTask(Tail(q)) /\ pc' = "apply"
  BY DEF Installed, RetireActive
<1>2. /\ Tail(q) \in Seq(Task)
      /\ Shape(Tail(q), FALSE)
      /\ Tail(q) # <<>> /\ Tail(q)[1].type = "LANDING" => q[1].type = "FAIL_SAFE"
  BY <1>1, TailShape
<1>3. /\ task_queue' \in Seq(Task)
      /\ active_task_started' = (Tail(q) # <<>>)
      /\ active_task_type' \in TaskTypes
      /\ Installed(task_queue', active_task_started', active_task_type')
      /\ Tail(q) # <<>> => task_queue'[1].type = Tail(q)[1].type
  BY <1>1, <1>2, StartInstalls
<1>4. Tail(q) = <<>> => task_queue' = <<>>
  BY <1>1 DEF StartActiveTask
<1> QED BY <1>1, <1>2, <1>3, <1>4

\* The cases of a turn of the active task, whose timer or flight is over or not.
LEMMA RunActiveCases ==
  ASSUME IInv, pc = "run", NEW over \in BOOLEAN, RunActive(over)
  PROVE  LET t == Run(task_queue[1], over)
             ran == WithHead(task_queue, t)
         IN  /\ t \in Task /\ t.type = task_queue[1].type
             /\ ran \in Seq(Task)
             /\ ran[1] = t
             /\ Installed(ran, TRUE, active_task_type)
             /\ \/ /\ ~IsFinished(t, over)
                   /\ task_queue' = ran
                   /\ pc' = "apply"
                   /\ UNCHANGED <<active_task_started, active_task_type>>
                \/ /\ t.type = "CONSENSUS" /\ t.result # "PENDING"
                   /\ task_queue' = ran
                   /\ pc' = "record"
                   /\ UNCHANGED <<active_task_started, active_task_type>>
                \/ /\ IsFinished(t, over) /\ t.type # "CONSENSUS"
                   /\ RetireActive(ran)
<1>1. /\ active_task_started = TRUE /\ task_queue \in Seq(Task)
      /\ Installed(task_queue, TRUE, active_task_type) /\ task_queue # <<>>
  BY DEF IInv, TypeOK, PcInv, Installed
<1>2. Head(task_queue) = task_queue[1] /\ task_queue[1] \in Task
  BY <1>1, HeadIsFirst
<1> DEFINE t == Run(task_queue[1], over)
           ran == WithHead(task_queue, t)
<1>3. \/ /\ ~IsFinished(t, over)
         /\ task_queue' = ran
         /\ pc' = "apply"
         /\ UNCHANGED <<active_task_started, active_task_type>>
      \/ /\ IsFinished(t, over) /\ t.type = "CONSENSUS"
         /\ task_queue' = ran
         /\ pc' = "record"
         /\ UNCHANGED <<active_task_started, active_task_type>>
      \/ /\ IsFinished(t, over) /\ t.type # "CONSENSUS"
         /\ RetireActive(ran)
  BY <1>2 DEF RunActive
<1>4. /\ t \in Task /\ t.type = task_queue[1].type /\ t.entered = task_queue[1].entered
      /\ Tallied(task_queue[1]) => Tallied(t)
  BY <1>2, RunType
<1> HIDE DEF t
<1>5. ran \in Seq(Task) /\ Installed(ran, TRUE, active_task_type) /\ ran[1] = t
  BY <1>1, <1>4, RunKeepsInstalled, WithHeadType
<1>6. IsFinished(t, over) /\ t.type = "CONSENSUS" => t.result # "PENDING"
  BY DEF IsFinished
<1> QED BY <1>3, <1>4, <1>5, <1>6 DEF t

LEMMA RunActiveKeepsIInv ==
  ASSUME IInv, pc = "run", NEW over \in BOOLEAN, RunActive(over),
         UNCHANGED <<in_emergency, outcome, sent_votes, command_queue, pending_request,
                     battery_low, envVars>>
  PROVE  IInv'
<1>1. active_task_started = TRUE /\ active_task_type \in TaskTypes
  BY DEF IInv, TypeOK, PcInv
<1>2. /\ task_queue' \in Seq(Task)
      /\ active_task_started' \in BOOLEAN
      /\ active_task_type' \in TaskTypes
      /\ Installed(task_queue', active_task_started', active_task_type')
      /\ pc' \in {"apply", "record"}
      /\ pc' = "record" => /\ active_task_started'
                           /\ task_queue'[1].type = "CONSENSUS"
                           /\ task_queue'[1].result # "PENDING"
  BY <1>1, RunActiveCases, RetireInstalls
<1> QED BY <1>2 DEF IInv, TypeOK, PcInv, envVars

LEMMA RunActiveTaskKeepsIInv == IInv /\ RunActiveTask => IInv'
<1> SUFFICES ASSUME IInv, RunActiveTask PROVE IInv'
  OBVIOUS
<1>1. PICK over \in BOOLEAN : RunActive(over)
  BY DEF RunActiveTask, TimerChoices
<1> QED BY <1>1, RunActiveKeepsIInv DEF RunActiveTask

\* The queue that RecordOutcome retires the ConsensusTask from.
LEMMA RecordedQueue ==
  ASSUME IInv, RecordOutcome
  PROVE  \E q \in Seq(Task) :
           /\ q[1] = task_queue[1]
           /\ Installed(q, TRUE, active_task_type)
           /\ RetireActive(q)
<1>1. /\ active_task_started = TRUE /\ task_queue \in Seq(Task)
      /\ Installed(task_queue, TRUE, active_task_type) /\ task_queue # <<>>
      /\ task_queue[1].type = "CONSENSUS"
  BY DEF IInv, TypeOK, PcInv, RecordOutcome, Installed
<1> DEFINE t == task_queue[1]
<1>2. Head(task_queue) = t /\ t \in Task /\ Len(task_queue) \in Nat \ {0}
  BY <1>1, HeadIsFirst
<1>3. t.entered = 1
  BY <1>1, <1>2 DEF Installed, Shape
<1>4. CASE t.result = "ABORTED"
  <2>1. RetireActive(<<t>>)
    BY <1>2, <1>4 DEF RecordOutcome
  <2>2. Installed(<<t>>, TRUE, active_task_type) /\ <<t>> \in Seq(Task) /\ <<t>>[1] = t
    BY <1>1, <1>2, <1>3 DEF Installed, Shape
  <2> QED BY <2>1, <2>2
<1>5. CASE t.result # "ABORTED"
  <2>1. RetireActive(task_queue)
    BY <1>2, <1>5 DEF RecordOutcome
  <2> QED BY <1>1, <2>1
<1> QED BY <1>4, <1>5

LEMMA RecordOutcomeKeepsIInv == IInv /\ RecordOutcome => IInv'
<1> SUFFICES ASSUME IInv, RecordOutcome PROVE IInv'
  OBVIOUS
<1>1. /\ task_queue' \in Seq(Task)
      /\ active_task_started' \in BOOLEAN
      /\ active_task_type' \in TaskTypes
      /\ Installed(task_queue', active_task_started', active_task_type')
      /\ pc' = "apply"
  <2>1. active_task_type \in TaskTypes
    BY DEF IInv, TypeOK
  <2> QED BY <2>1, RecordedQueue, RetireInstalls
<1>2. outcome' \in [valid : BOOLEAN, tx : Nat, result : Results, timed_out : BOOLEAN]
  <2>1. task_queue # <<>> /\ task_queue \in Seq(Task)
    BY DEF IInv, TypeOK, PcInv, RecordOutcome, Installed
  <2>2. Head(task_queue) \in Task
    BY <2>1, HeadIsFirst
  <2> QED BY <2>2 DEF RecordOutcome, Task
<1> QED BY <1>1, <1>2 DEF IInv, TypeOK, RecordOutcome, PcInv, envVars

\* The other threads touch neither the queue nor the flag.
LEMMA OtherThreadsKeepIInv == IInv /\ OtherThreads => IInv'
<1> SUFFICES ASSUME IInv, OtherThreads PROVE IInv'
  OBVIOUS
<1>1. ASSUME NEW c \in Command, AddCommand(c) PROVE IInv'
  <2>1. command_queue' \in Seq(Command)
    BY <1>1, AppendProperties DEF IInv, TypeOK, AddCommand
  <2> QED BY <1>1, <2>1 DEF IInv, TypeOK, AddCommand, engineVars, queueVars, PcInv
<1>2. ASSUME NEW voters \in SUBSET Drones, RequestConsensus(voters) PROVE IInv'
  <2>1. pending_request' \in [present : BOOLEAN, tx : Nat, voters : SUBSET Drones]
    BY <1>2 DEF IInv, TypeOK, RequestConsensus, LeaveRequest
  <2>2. next_tx' \in Nat
    BY <1>2 DEF IInv, TypeOK, RequestConsensus
  <2> QED BY <1>2, <2>1, <2>2 DEF IInv, TypeOK, RequestConsensus, engineVars, queueVars, PcInv
<1>3. CASE PeerStatusChanges
  BY <1>3 DEF IInv, TypeOK, PeerStatusChanges, engineVars, queueVars, PcInv
<1> QED BY <1>1, <1>2, <1>3 DEF OtherThreads

LEMMA NextIInv == IInv /\ [Next]_vars => IInv'
<1> SUFFICES ASSUME IInv, [Next]_vars PROVE IInv'
  OBVIOUS
<1>1. CASE EngineStep
  BY <1>1, ApplyPendingRequestKeepsIInv, CheckEmergencyKeepsIInv, ProcessCommandKeepsIInv,
     EndCommandsKeepsIInv, RunActiveTaskKeepsIInv, RecordOutcomeKeepsIInv DEF EngineStep
<1>2. CASE OtherThreads
  BY <1>2, OtherThreadsKeepIInv
<1>3. CASE UNCHANGED vars
  BY <1>3 DEF vars, engineVars, queueVars, envVars, IInv, TypeOK, PcInv
<1> QED BY <1>1, <1>2, <1>3 DEF Next

\* IInv is an invariant of the Task Engine.
THEOREM Invariance == Spec => []IInv
<1>1. Init => IInv
  BY InitIInv
<1>2. IInv /\ [Next]_vars => IInv'
  BY NextIInv
<1> QED BY <1>1, <1>2, PTL DEF Spec

-----------------------------------------------------------------------------
(* The invariants the runs check *)

\* Every variable keeps its type, the queue's tasks and ballots included.
THEOREM TypeCorrect == Spec => []TypeOK
<1>1. IInv => TypeOK
  BY DEF IInv
<1> QED BY <1>1, Invariance, PTL

\* What Installed says of the queue, in the words of the properties.
LEMMA InstalledParts ==
  ASSUME IInv
  PROVE  /\ DOMAIN task_queue = 1 .. Len(task_queue)
         /\ Shape(task_queue, active_task_started)
         /\ task_queue # <<>> => Head(task_queue) = task_queue[1]
         /\ active_task_started => task_queue # <<>>
<1>1. task_queue \in Seq(Task) /\ Installed(task_queue, active_task_started, active_task_type)
  BY DEF IInv, TypeOK
<1> QED BY <1>1, LenProperties, HeadIsFirst DEF Installed

\* on_enter is called exactly once on every task that is started, and the
\* flag active_task_started_ is never stale: start_active_task, prepare_queue
\* and every path that clears, displaces or pops a task agree on it.
THEOREM TasksEnteredOnce == Spec => []EnteredOnce
<1>1. IInv => EnteredOnce
  BY InstalledParts DEF EnteredOnce, Shape
<1> QED BY <1>1, Invariance, PTL

\* No task is ever queued behind IdleTask, which does not finish
\* (process_pending_commands, prepare_queue).
THEOREM IdleIsAlone == Spec => []IdleAlone
<1>1. IInv => IdleAlone
  BY InstalledParts DEF IdleAlone, Shape
<1> QED BY <1>1, Invariance, PTL

\* FailSafe, while queued, is the head with Landing behind it
\* (place_emergency_tasks and everything that edits the queue later).
THEOREM EmergencySequenceIsFirst == Spec => []EmergencySequenceFirst
<1>1. IInv => EmergencySequenceFirst
  BY InstalledParts DEF EmergencySequenceFirst, Shape
<1> QED BY <1>1, Invariance, PTL

\* current_task_type() names the started head (record_task_type).
THEOREM ReportedType == Spec => []ReportedTypeIsActive
<1>1. IInv => ReportedTypeIsActive
  BY InstalledParts DEF ReportedTypeIsActive, IInv, Installed
<1> QED BY <1>1, Invariance, PTL

-----------------------------------------------------------------------------
(* What a step may never do *)

\* A counted vote does not make another task of the head.
LEMMA CountVoteKeepsType ==
  ASSUME NEW c \in Command, CountVote(c), task_queue \in Seq(Task), task_queue # <<>>
  PROVE  task_queue'[1].type = task_queue[1].type
<1>1. Head(task_queue) = task_queue[1] /\ task_queue[1] \in Task
  BY HeadIsFirst
<1>2. c.sender \in Drones /\ c.vote \in {"ACK", "NACK"}
  BY DEF CountVote, IsVote, Command, Proposal, VoteMsg, Order
<1> DEFINE t == OnVote(task_queue[1], c.sender, c.vote)
<1>3. t \in Task /\ t.type = task_queue[1].type
  BY <1>1, <1>2, OnVoteType
<1>4. task_queue' = task_queue \/ task_queue' = WithHead(task_queue, t)
  BY <1>1 DEF CountVote
<1> HIDE DEF t
<1>5. WithHead(task_queue, t)[1] = t
  BY <1>3, WithHeadType
<1> QED BY <1>3, <1>4, <1>5

\* An order starts nothing, and a task it leaves at the head is unchanged.
LEMMA TakeOrderKeepsHead ==
  ASSUME NEW c \in Command, TakeOrder(c), task_queue \in Seq(Task),
         Installed(task_queue, active_task_started, active_task_type),
         active_task_started'
  PROVE  active_task_started /\ task_queue'[1] = task_queue[1]
<1>1. active_task_started = active_task_started' /\ task_queue # <<>>
  BY DEF TakeOrder, Installed
<1>2. \/ task_queue' = task_queue
      \/ ConcernsThisNode(c) /\ task_queue' = Append(task_queue, MissionTask(c))
  BY DEF TakeOrder
<1>3. ConcernsThisNode(c) => MissionTask(c) \in Task
  BY NewTaskType, BallotTypes, BoundsAssumption
  DEF TakeOrder, MissionTask, QueuedTypes, MissionTypes, Command, Proposal, VoteMsg, Order, TxIds
<1>4. Len(task_queue) \in Nat \ {0}
  BY <1>1, HeadIsFirst
<1> QED BY <1>1, <1>2, <1>3, <1>4, AppendProperties

\* LandingTask becomes active only in the step that retires FailSafeTask.
THEOREM LandingFollowsFailSafe == Spec => LandingOnlyAfterFailSafe
<1> DEFINE Lands == Active("LANDING")' /\ ~Active("LANDING")
<1>1. IInv /\ IInv' /\ [Next]_vars => [Lands => Active("FAIL_SAFE")]_vars
  <2> SUFFICES ASSUME IInv, IInv', Next, Lands PROVE Active("FAIL_SAFE")
    BY DEF vars, engineVars, queueVars, Active
  <2>1. /\ task_queue \in Seq(Task) /\ active_task_started \in BOOLEAN
        /\ active_task_type \in TaskTypes
        /\ Installed(task_queue, active_task_started, active_task_type)
        /\ task_queue # <<>> => Head(task_queue) = task_queue[1]
    BY InstalledParts DEF IInv, TypeOK
  <2>2. /\ active_task_started' /\ task_queue' # <<>> /\ Head(task_queue') = task_queue'[1]
        /\ task_queue'[1].type = "LANDING"
    BY HeadIsFirst DEF Active, IInv, TypeOK, Installed
  <2>3. active_task_started => task_queue[1].type # "LANDING"
    BY <2>1 DEF Active, Installed
  <2>4. task_queue # <<>> => task_queue[1].type # "LANDING"
    BY <2>1, <2>3 DEF Installed
  <2>5. CASE ApplyPendingRequest
    <3>1. CASE pending_request.present
      BY <2>2, <2>5, <3>1 DEF ApplyPendingRequest, ConsensusTask, NewTask
    <3>2. CASE ~pending_request.present
      BY <2>2, <2>3, <2>5, <3>2 DEF ApplyPendingRequest, queueVars
    <3> QED BY <3>1, <3>2
  <2>6. CASE CheckEmergency
    <3>1. CASE EmergencyBegins
      <4>1. EmergencyTasks[1].type = "FAIL_SAFE"
            /\ EmergencyTasks # <<>>
        BY DEF EmergencyTasks, FailSafeTask, NewTask
      <4> QED BY <2>1, <2>2, <2>6, <3>1, <4>1, FreshQueueShapes, PrepareInstalls
              DEF CheckEmergency
    <3>2. CASE ~EmergencyBegins
      <4>1. PrepareQueue(task_queue, active_task_started)
        BY <2>6, <3>2 DEF CheckEmergency
      <4>2. CASE active_task_started
        BY <2>1, <2>2, <2>3, <4>1, <4>2 DEF PrepareQueue, Installed
      <4>3. CASE ~active_task_started
        BY <2>1, <2>2, <2>4, <4>1, <4>3, PrepareInstalls DEF Installed
      <4> QED BY <2>1, <4>2, <4>3
    <3> QED BY <3>1, <3>2
  <2>7. CASE ProcessCommand
    <3>1. PICK c \in Command :
            HearProposal(c) \/ CountVote(c) \/ TakeOrder(c)
      BY <2>7 DEF ProcessCommand
    <3>2. CASE UNCHANGED <<task_queue, active_task_started>>
      BY <2>2, <2>3, <3>2
    <3>3. CASE CountVote(c)
      BY <2>1, <2>2, <2>3, <3>3, WithHeadType, HeadIsFirst, CountVoteKeepsType DEF CountVote
    <3>4. CASE TakeOrder(c)
      BY <2>1, <2>2, <2>3, <3>4, TakeOrderKeepsHead
    <3> QED BY <3>1, <3>2, <3>3, <3>4 DEF HearProposal, queueVars
  <2>8. CASE EndCommands
    <3>1. PrepareQueue(task_queue, active_task_started)
      BY <2>8 DEF EndCommands
    <3>2. CASE active_task_started
      BY <2>1, <2>2, <2>3, <3>1, <3>2 DEF PrepareQueue, Installed
    <3>3. CASE ~active_task_started
      BY <2>1, <2>2, <2>4, <3>1, <3>3, PrepareInstalls DEF Installed
    <3> QED BY <2>1, <3>2, <3>3
  <2>9. CASE RunActiveTask
    <3>1. active_task_started /\ task_queue # <<>> /\ task_queue[1].type # "LANDING"
      BY <2>1, <2>3, <2>9 DEF IInv, PcInv, RunActiveTask, RunActive, Installed
    <3>2. PICK over \in BOOLEAN :
            LET t == Run(task_queue[1], over)
                ran == WithHead(task_queue, t)
            IN  /\ t.type = task_queue[1].type
                /\ ran \in Seq(Task)
                /\ ran[1] = t
                /\ Installed(ran, TRUE, active_task_type)
                /\ task_queue' = ran \/ RetireActive(ran)
      <4>1. PICK over \in BOOLEAN : RunActive(over)
        BY <2>9 DEF RunActiveTask, TimerChoices
      <4> QED BY <2>9, <4>1, RunActiveCases DEF RunActiveTask
    <3> QED BY <2>1, <2>2, <3>1, <3>2, RetireInstalls DEF Active
  <2>10. CASE RecordOutcome
    <3>1. active_task_started /\ task_queue # <<>>
      BY <2>1, <2>10 DEF IInv, PcInv, RecordOutcome, Installed
    <3> QED BY <2>1, <2>2, <2>10, <3>1, RecordedQueue, RetireInstalls DEF Active
  <2>11. CASE OtherThreads
    BY <2>2, <2>3, <2>11
    DEF OtherThreads, AddCommand, RequestConsensus, PeerStatusChanges, engineVars, queueVars
  <2> QED BY <2>5, <2>6, <2>7, <2>8, <2>9, <2>10, <2>11 DEF Next, EngineStep
<1> QED BY <1>1, Invariance, PTL DEF Spec, LandingOnlyAfterFailSafe

\* A tallied result is decided exactly as the votes say.
LEMMA TalliedVerdict ==
  ASSUME NEW t \in Task, Tallied(t), t.result # "PENDING"
  PROVE  LET ayes == {d \in DOMAIN t.votes : t.votes[d] = "ACK"}
             noes == {d \in DOMAIN t.votes : t.votes[d] = "NACK"}
         IN  /\ t.result \in {"COMMITTED", "ABORTED"}
             /\ t.result = "COMMITTED" <=> ayes = DOMAIN t.votes
             /\ t.timed_out <=> ayes # DOMAIN t.votes /\ noes = {}
<1> DEFINE ayes == {d \in DOMAIN t.votes : t.votes[d] = "ACK"}
           noes == {d \in DOMAIN t.votes : t.votes[d] = "NACK"}
           verdict == Evaluate(t.votes)
<1>1. t.result \in {"COMMITTED", "ABORTED"} /\ t.timed_out \in BOOLEAN
  BY DEF Task, Results
<1>2. ayes = DOMAIN t.votes <=> \A d \in DOMAIN t.votes : t.votes[d] = "ACK"
  OBVIOUS
<1>3. noes = {} <=> ~\E d \in DOMAIN t.votes : t.votes[d] = "NACK"
  OBVIOUS
<1> HIDE DEF ayes, noes
<1>4. /\ verdict = "COMMITTED" <=> ayes = DOMAIN t.votes
      /\ verdict = "PENDING" <=> ayes # DOMAIN t.votes /\ noes = {}
  BY <1>2, <1>3 DEF Evaluate
<1> QED BY <1>1, <1>4 DEF Tallied, ayes, noes

\* Whatever the order of votes, time-outs and turns, last_consensus_outcome_ is
\* only ever set to the verdict of the votes the task holds (on_vote, run,
\* evaluate_result, task_engine_step).
THEOREM OutcomeIsVerdict == Spec => OutcomeFollowsVotes
<1> DEFINE Verdict ==
      LET votes == Head(task_queue).votes
          ayes == {d \in DOMAIN votes : votes[d] = "ACK"}
          noes == {d \in DOMAIN votes : votes[d] = "NACK"}
      IN  /\ outcome'.result \in {"COMMITTED", "ABORTED"}
          /\ outcome'.result = "COMMITTED" <=> ayes = DOMAIN votes
          /\ outcome'.timed_out <=> ayes # DOMAIN votes /\ noes = {}
<1>1. IInv /\ [Next]_vars => [outcome' # outcome => Verdict]_vars
  <2> SUFFICES ASSUME IInv, Next, outcome' # outcome PROVE Verdict
    BY DEF vars, engineVars
  <2>1. RecordOutcome
    BY DEF Next, EngineStep, ApplyPendingRequest, CheckEmergency, ProcessCommand, HearProposal,
           CountVote, TakeOrder, PopCommand, EndCommands, RunActiveTask, RunActive,
           OtherThreads, AddCommand, RequestConsensus, PeerStatusChanges, engineVars
  <2>2. /\ task_queue \in Seq(Task) /\ task_queue # <<>>
        /\ task_queue[1].result # "PENDING" /\ Tallied(task_queue[1])
    BY <2>1 DEF IInv, TypeOK, PcInv, Installed, RecordOutcome
  <2> DEFINE t == task_queue[1]
  <2>3. Head(task_queue) = t /\ t \in Task
    BY <2>2, HeadIsFirst
  <2>4. outcome'.result = t.result /\ outcome'.timed_out = t.timed_out
    BY <2>1, <2>3 DEF RecordOutcome
  <2> HIDE DEF t
  <2>5. LET ayes == {d \in DOMAIN t.votes : t.votes[d] = "ACK"}
            noes == {d \in DOMAIN t.votes : t.votes[d] = "NACK"}
        IN  /\ t.result \in {"COMMITTED", "ABORTED"}
            /\ t.result = "COMMITTED" <=> ayes = DOMAIN t.votes
            /\ t.timed_out <=> ayes # DOMAIN t.votes /\ noes = {}
    BY <2>2, <2>3, TalliedVerdict DEF t
  <2> QED BY <2>3, <2>4, <2>5
<1> QED BY <1>1, Invariance, PTL DEF Spec, OutcomeFollowsVotes

-----------------------------------------------------------------------------
(* The votes of a drone *)

\* Every vote is the node's own, and its answer depends only on the battery.
VotesInv ==
  \A v \in sent_votes : v = [type |-> "CONSENSUS", sender |-> Self, tx |-> v.tx,
                             vote |-> IF battery_low THEN "NACK" ELSE "ACK"]

\* vote_on_proposal may see a proposal again, but never answers it differently.
THEOREM VotesAreFinal == Spec => []OneVotePerTransaction
<1>1. Init => VotesInv
  BY DEF Init, VotesInv
<1>2. VotesInv /\ [Next]_vars => VotesInv'
  <2> SUFFICES ASSUME VotesInv, [Next]_vars PROVE VotesInv'
    OBVIOUS
  <2>1. battery_low' = battery_low
    BY DEF Next, EngineStep, ApplyPendingRequest, CheckEmergency, ProcessCommand, HearProposal,
           CountVote, TakeOrder, PopCommand, EndCommands, RunActiveTask, RunActive,
           RecordOutcome, OtherThreads, AddCommand, RequestConsensus, PeerStatusChanges, vars
  <2>2. CASE UNCHANGED sent_votes
    BY <2>1, <2>2 DEF VotesInv
  <2>3. ASSUME NEW c \in Command, HearProposal(c) PROVE VotesInv'
    <3> DEFINE v == [type |-> "CONSENSUS", sender |-> Self, tx |-> c.tx,
                     vote |-> IF battery_low THEN "NACK" ELSE "ACK"]
    <3>1. sent_votes' \subseteq sent_votes \cup {v}
      BY <2>3 DEF HearProposal, VoteOnProposal, OwnVote
    <3>2. v = [type |-> "CONSENSUS", sender |-> Self, tx |-> v.tx,
               vote |-> IF battery_low THEN "NACK" ELSE "ACK"]
      OBVIOUS
    <3> HIDE DEF v
    <3> QED BY <2>1, <3>1, <3>2 DEF VotesInv
  <2> QED BY <2>2, <2>3
          DEF Next, EngineStep, ApplyPendingRequest, CheckEmergency, ProcessCommand,
              CountVote, TakeOrder, EndCommands, RunActiveTask, RunActive, RecordOutcome,
              OtherThreads, AddCommand, RequestConsensus, PeerStatusChanges, engineVars, vars
<1>3. VotesInv => OneVotePerTransaction
  BY DEF VotesInv, OneVotePerTransaction
<1> QED BY <1>1, <1>2, <1>3, PTL DEF Spec
=============================================================================

---------------------------- MODULE VehicleProofs ----------------------------
(***************************************************************************)
(* Theorems about a drone that moves: any number of orders, any targets on *)
(* the line, any tolerance, and turns of any lateness.                     *)
(*                                                                         *)
(* That the vehicle stands still unless it flies depends on two threads of *)
(* reasoning: what on_enter and a run leave in own_state_, and that the    *)
(* task they were called on is still the started head.  VehicleInv adds to *)
(* IInv of TaskEngineProofs what ties them together: region_reached_ is    *)
(* stale at most while no task is started, and it is set only with the     *)
(* vehicle at the target of the search that is running.                    *)
(***************************************************************************)
EXTENDS Vehicle, TaskEngineProofs

MissionIn(q, tx) ==
  \E i \in 1 .. Len(q) : q[i].type \in MissionTypes /\ q[i].tx = tx

\* No mission of q is lost in r.
Carries(q, r) == \A tx : MissionIn(q, tx) => MissionIn(r, tx)

OrdersKnown == \A tx : MissionIn(task_queue, tx) => tx \in TxIds

FlightInv ==
  /\ v # 0 => /\ active_task_started /\ task_queue[1].type \in MissionTypes
              /\ ~region_reached
  /\ active_task_started =>
       LET t == task_queue[1]
       IN  /\ t.age = 0 \/ t.type # "SCOUT_SEARCH" => ~region_reached
           /\ region_reached => Distance(x, Target[t.tx]) <= Tolerance

VehicleInv ==
  /\ IInv
  /\ VehicleTypeOK
  /\ pending_request = NoRequest
  /\ OrdersKnown
  /\ FlightInv

-----------------------------------------------------------------------------
(* Missions in the queue *)

LEMMA QueuedIsMissionIn ==
  ASSUME task_queue \in Seq(Task)
  PROVE  \A tx : Queued(tx) <=> MissionIn(task_queue, tx)
  BY LenProperties DEF Queued, MissionIn

\* A task keeps its order when it is entered, run, or given a vote.
LEMMA TaskKeepsOrder ==
  ASSUME NEW t \in Task
  PROVE  /\ OnEnter(t).tx = t.tx /\ OnEnter(t).age = 0
         /\ \A over \in BOOLEAN : Run(t, over).tx = t.tx
         /\ \A sender, vote : OnVote(t, sender, vote).tx = t.tx
                              /\ OnVote(t, sender, vote).age = t.age
  BY DEF OnEnter, Run, OnVote, Task

LEMMA WithHeadCarries ==
  ASSUME NEW q \in Seq(Task), q # <<>>, NEW t \in Task, t.type = q[1].type, t.tx = q[1].tx
  PROVE  Carries(WithHead(q, t), q) /\ Carries(q, WithHead(q, t))
<1>1. /\ Len(WithHead(q, t)) = Len(q)
      /\ WithHead(q, t)[1] = t
      /\ \A i \in 1 .. Len(q) : i # 1 => WithHead(q, t)[i] = q[i]
  BY WithHeadType
<1> QED BY <1>1 DEF Carries, MissionIn

LEMMA StartCarries ==
  ASSUME NEW q \in Seq(Task), StartActiveTask(q)
  PROVE  /\ Carries(task_queue', q) /\ Carries(q, task_queue')
         /\ active_task_started' = (q # <<>>)
         /\ q # <<>> => task_queue'[1].age = 0 /\ task_queue'[1].type = q[1].type
<1>1. CASE q = <<>>
  BY <1>1 DEF StartActiveTask, Carries
<1>2. CASE q # <<>>
  <2>1. q[1] \in Task /\ Head(q) = q[1]
    BY <1>2, HeadIsFirst
  <2> DEFINE t == OnEnter(q[1])
  <2>2. task_queue' = WithHead(q, t) /\ active_task_started' = TRUE
    BY <1>2, <2>1 DEF StartActiveTask
  <2>3. t \in Task /\ t.type = q[1].type /\ t.tx = q[1].tx /\ t.age = 0
    BY <2>1, OnEnterType, TaskKeepsOrder
  <2> HIDE DEF t
  <2> QED BY <1>2, <2>2, <2>3, WithHeadType, WithHeadCarries
<1> QED BY <1>1, <1>2

\* prepare_queue keeps every mission; it leaves a started head alone and enters
\* any other.
LEMMA PrepareCarries ==
  ASSUME NEW q \in Seq(Task), NEW started \in BOOLEAN, PrepareQueue(q, started)
  PROVE  /\ Carries(task_queue', q) /\ Carries(q, task_queue')
         /\ active_task_started' = TRUE
         /\ \/ q # <<>> /\ started /\ task_queue' = q
            \/ /\ task_queue'[1].age = 0
               /\ q # <<>> => ~started /\ task_queue'[1].type = q[1].type
<1>1. CASE q # <<>> /\ started
  BY <1>1 DEF PrepareQueue, Carries
<1>2. CASE q # <<>> /\ ~started
  BY <1>2, StartCarries DEF PrepareQueue
<1>3. CASE q = <<>>
  <2>1. StartActiveTask(<<IdleTask>>)
    BY <1>3 DEF PrepareQueue
  <2>2. /\ Carries(task_queue', <<IdleTask>>) /\ Carries(<<IdleTask>>, task_queue')
        /\ active_task_started' = (<<IdleTask>> # <<>>)
        /\ <<IdleTask>> # <<>> => task_queue'[1].age = 0
    BY <2>1, FreshQueueShapes, StartCarries
  <2>3. \A tx : ~MissionIn(<<IdleTask>>, tx) /\ ~MissionIn(q, tx)
    BY <1>3 DEF MissionIn, MissionTypes, IdleTask, NewTask
  <2>4. <<IdleTask>> # <<>>
    OBVIOUS
  <2> QED BY <1>3, <2>2, <2>3, <2>4 DEF Carries
<1> QED BY <1>1, <1>2, <1>3

\* on_exit and pop of the active task take away its mission at most.
LEMMA RetireCarries ==
  ASSUME NEW q \in Seq(Task), q # <<>>, RetireActive(q)
  PROVE  /\ Carries(task_queue', q)
         /\ \A tx : MissionIn(q, tx) =>
              MissionIn(task_queue', tx) \/ (q[1].type \in MissionTypes /\ q[1].tx = tx)
         /\ active_task_started' => task_queue'[1].age = 0
<1>1. /\ Tail(q) \in Seq(Task) /\ Len(Tail(q)) = Len(q) - 1
      /\ \A i \in 1 .. Len(Tail(q)) : Tail(q)[i] = q[i + 1]
      /\ Len(q) \in Nat
  BY HeadTailProperties, LenProperties
<1>2. /\ Carries(task_queue', Tail(q)) /\ Carries(Tail(q), task_queue')
      /\ active_task_started' => task_queue'[1].age = 0
  BY <1>1, StartCarries DEF RetireActive
<1>3. Carries(Tail(q), q)
  <2>1. \A i \in 1 .. Len(Tail(q)) : i + 1 \in 1 .. Len(q)
    BY <1>1
  <2> QED BY <1>1, <2>1 DEF Carries, MissionIn
<1>4. ASSUME NEW tx, MissionIn(q, tx)
      PROVE  MissionIn(Tail(q), tx) \/ (q[1].type \in MissionTypes /\ q[1].tx = tx)
  <2>1. PICK i \in 1 .. Len(q) : q[i].type \in MissionTypes /\ q[i].tx = tx
    BY <1>4 DEF MissionIn
  <2>2. CASE i = 1
    BY <2>1, <2>2
  <2>3. CASE i # 1
    <3>1. i - 1 \in 1 .. Len(Tail(q)) /\ Tail(q)[i - 1] = q[i]
      BY <1>1, <2>3
    <3> QED BY <2>1, <3>1 DEF MissionIn
  <2> QED BY <2>2, <2>3
<1> QED BY <1>2, <1>3, <1>4 DEF Carries

-----------------------------------------------------------------------------
(* Movement *)

\* move_toward_target, for any step: it arrives within the tolerance and stands,
\* or flies on, on the way from where it was to the target.
LEMMA Movement ==
  ASSUME x \in Int, NEW target \in Int, NEW step \in Nat
  PROVE  LET m == MoveTowardTarget(target, step)
         IN  /\ m.x \in Int /\ m.v \in {-1, 0, 1} /\ m.reached \in BOOLEAN
             /\ m.reached => m.v = 0 /\ Distance(m.x, target) <= Tolerance
             /\ m.x # x => Distance(x, m.x) + Distance(m.x, target) = Distance(x, target)
<1> USE FlightAssumption
<1>1. CASE Distance(x, target) <= Tolerance
  BY <1>1 DEF MoveTowardTarget
<1>2. CASE Distance(x, target) > Tolerance /\ step >= Distance(x, target)
  <2>1. MoveTowardTarget(target, step) = [x |-> target, v |-> 0, reached |-> TRUE]
    BY <1>2 DEF MoveTowardTarget, Distance
  <2> QED BY <2>1 DEF Distance
<1>3. CASE Distance(x, target) > Tolerance /\ step < Distance(x, target)
  <2>1. CASE x < target
    <3>1. MoveTowardTarget(target, step) = [x |-> x + step, v |-> 1, reached |-> FALSE]
      <4>1. Direction(x, target) = 1 /\ x + (1) * step = x + step
        BY <2>1 DEF Direction
      <4>2. ~(Distance(x, target) <= Tolerance) /\ ~(step >= Distance(x, target))
        BY <1>3 DEF Distance
      <4> QED BY <4>1, <4>2 DEF MoveTowardTarget
    <3> QED BY <1>3, <2>1, <3>1 DEF Distance
  <2>2. CASE target < x
    <3>1. MoveTowardTarget(target, step) = [x |-> x - step, v |-> -1, reached |-> FALSE]
      <4>1. Direction(x, target) = -1 /\ x + (-1) * step = x - step
        BY <2>2 DEF Direction
      <4>2. ~(Distance(x, target) <= Tolerance) /\ ~(step >= Distance(x, target))
        BY <1>3 DEF Distance
      <4> QED BY <4>1, <4>2 DEF MoveTowardTarget
    <3> QED BY <1>3, <2>2, <3>1 DEF Distance
  <2>3. x # target
    BY <1>3 DEF Distance
  <2> QED BY <2>1, <2>2, <2>3
<1> QED BY <1>1, <1>2, <1>3 DEF Distance

\* What a run leaves: `at` is the target of the task if it is a mission.
Outcome(o, type, at) ==
  /\ o.x \in Int /\ o.v \in {-1, 0, 1} /\ o.region_reached \in BOOLEAN /\ o.over \in BOOLEAN
  /\ o.v # 0 => type \in MissionTypes /\ ~o.over /\ ~o.region_reached
  /\ o.region_reached => type = "SCOUT_SEARCH" /\ Distance(o.x, at) <= Tolerance
  /\ o.over /\ type \in MissionTypes => Distance(o.x, at) <= Tolerance
  /\ o.x # x => /\ type \in MissionTypes
                /\ Distance(x, o.x) + Distance(o.x, at) = Distance(x, at)

\* What is known where run() is called.
LEMMA AtRun ==
  ASSUME VehicleInv, pc = "run"
  PROVE  /\ active_task_started = TRUE /\ task_queue \in Seq(Task) /\ task_queue # <<>>
         /\ Head(task_queue) = task_queue[1] /\ task_queue[1] \in Task
         /\ task_queue[1].type \in MissionTypes => task_queue[1].tx \in TxIds
         /\ task_queue[1].type # "SCOUT_SEARCH" => ~region_reached
         /\ region_reached => Distance(x, Target[task_queue[1].tx]) <= Tolerance
<1>1. /\ active_task_started = TRUE /\ task_queue \in Seq(Task) /\ task_queue # <<>>
  BY DEF VehicleInv, IInv, TypeOK, PcInv, Installed
<1>2. Head(task_queue) = task_queue[1] /\ task_queue[1] \in Task /\ 1 \in 1 .. Len(task_queue)
  BY <1>1, HeadIsFirst
<1>3. task_queue[1].type \in MissionTypes => MissionIn(task_queue, task_queue[1].tx)
  BY <1>2 DEF MissionIn
<1> QED BY <1>1, <1>2, <1>3 DEF VehicleInv, OrdersKnown, FlightInv

LEMMA RunOutcome ==
  ASSUME VehicleInv, pc = "run", NEW o \in RunTask(Head(task_queue))
  PROVE  Outcome(o, task_queue[1].type, Target[task_queue[1].tx])
<1> DEFINE t == task_queue[1]
           target == Target[t.tx]
<1>1. /\ t = Head(task_queue) /\ t \in Task /\ x \in Int /\ region_reached \in BOOLEAN
      /\ t.type \in MissionTypes => t.tx \in TxIds
      /\ t.type # "SCOUT_SEARCH" => ~region_reached
      /\ region_reached => Distance(x, target) <= Tolerance
  BY AtRun DEF VehicleInv, VehicleTypeOK
<1>2. t.type \in MissionTypes => target \in Int
  BY <1>1, FlightAssumption
<1>3. Steps(t) \subseteq Nat
  BY FlightAssumption DEF Steps
<1> HIDE DEF t, target
<1>4. CASE t.type = "GO_TO_TARGET"
  <2>1. PICK step \in Nat :
          LET m == MoveTowardTarget(target, step)
          IN  o = [x |-> m.x, v |-> m.v, region_reached |-> region_reached, over |-> m.reached]
    BY <1>1, <1>3, <1>4 DEF RunTask, GoToTarget, target
  <2>2. t.type \in MissionTypes /\ target \in Int /\ ~region_reached
    BY <1>1, <1>2, <1>4 DEF MissionTypes
  <2> QED BY <1>1, <2>1, <2>2, Movement DEF Outcome, t, target
<1>5. CASE t.type = "SCOUT_SEARCH" /\ ~region_reached
  <2>1. PICK step \in Nat :
          LET m == MoveTowardTarget(target, step)
          IN  o = [x |-> m.x, v |-> m.v, region_reached |-> m.reached, over |-> FALSE]
    BY <1>1, <1>3, <1>5 DEF RunTask, ScoutSearch, target
  <2>2. t.type \in MissionTypes /\ target \in Int
    BY <1>1, <1>2, <1>5 DEF MissionTypes
  <2> QED BY <1>1, <1>5, <2>1, <2>2, Movement DEF Outcome, t, target
<1>6. CASE t.type = "SCOUT_SEARCH" /\ region_reached
  <2>1. PICK scanned \in TimerChoices(t) :
          o = [x |-> x, v |-> 0, region_reached |-> TRUE, over |-> scanned]
    BY <1>1, <1>6 DEF RunTask, ScoutSearch
  <2> QED BY <1>1, <1>6, <2>1 DEF Outcome, TimerChoices, t, target
<1>7. CASE t.type \notin {"GO_TO_TARGET", "SCOUT_SEARCH"}
  <2>1. PICK over \in BOOLEAN :
          o = [x |-> x, v |-> 0, region_reached |-> region_reached, over |-> over]
    BY <1>1, <1>7 DEF RunTask, StandStill, TimerChoices
  <2> QED BY <1>1, <1>7, <2>1 DEF Outcome, MissionTypes, t, target
<1> QED BY <1>4, <1>5, <1>6, <1>7

-----------------------------------------------------------------------------
(* A turn of the active task *)

\* The task goes on and stays the started head, or it is retired.
LEMMA TurnCases ==
  ASSUME VehicleInv, NEW o \in RunTask(Head(task_queue)), pc = "run", RunActive(o.over)
  PROVE  /\ Carries(task_queue', task_queue)
         /\ \/ /\ active_task_started' = TRUE
               /\ task_queue'[1].type = task_queue[1].type
               /\ task_queue'[1].tx = task_queue[1].tx
               /\ Carries(task_queue, task_queue')
            \/ /\ o.v = 0
               /\ active_task_started' => task_queue'[1].age = 0
               /\ \A tx : MissionIn(task_queue, tx) =>
                    \/ MissionIn(task_queue', tx)
                    \/ o.over /\ task_queue[1].type \in MissionTypes /\ task_queue[1].tx = tx
<1> DEFINE t == Run(task_queue[1], o.over)
           ran == WithHead(task_queue, t)
<1>1. /\ active_task_started = TRUE /\ task_queue \in Seq(Task) /\ task_queue # <<>>
      /\ task_queue[1] \in Task /\ IInv
      /\ Outcome(o, task_queue[1].type, Target[task_queue[1].tx])
  BY AtRun, RunOutcome DEF VehicleInv
<1>2. o.over \in BOOLEAN
  BY <1>1 DEF Outcome
<1>3. /\ t \in Task /\ t.type = task_queue[1].type /\ ran \in Seq(Task) /\ ran[1] = t
      /\ \/ task_queue' = ran /\ UNCHANGED active_task_started
         \/ IsFinished(t, o.over) /\ t.type # "CONSENSUS" /\ RetireActive(ran)
  BY <1>1, <1>2, RunActiveCases
<1>4. t.tx = task_queue[1].tx
  BY <1>1, <1>2, TaskKeepsOrder
<1>5. IsFinished(t, o.over) /\ t.type # "CONSENSUS" => o.over
  BY DEF IsFinished
<1> HIDE DEF t
<1>6. Carries(ran, task_queue) /\ Carries(task_queue, ran) /\ ran # <<>>
  BY <1>1, <1>3, <1>4, WithHeadCarries, WithHeadType
<1>7. CASE task_queue' = ran /\ UNCHANGED active_task_started
  BY <1>1, <1>3, <1>4, <1>6, <1>7
<1>8. CASE IsFinished(t, o.over) /\ t.type # "CONSENSUS" /\ RetireActive(ran)
  <2>1. o.v = 0
    BY <1>1, <1>5, <1>8 DEF Outcome
  <2>2. /\ Carries(task_queue', ran)
        /\ \A tx : MissionIn(ran, tx) =>
             MissionIn(task_queue', tx) \/ (t.type \in MissionTypes /\ t.tx = tx)
        /\ active_task_started' => task_queue'[1].age = 0
    BY <1>3, <1>6, <1>8, RetireCarries
  <2> QED BY <1>3, <1>4, <1>5, <1>6, <1>8, <2>1, <2>2 DEF Carries
<1> QED BY <1>3, <1>7, <1>8

LEMMA TurnKeepsVehicleInv == VehicleInv /\ Turn => VehicleInv'
<1> SUFFICES ASSUME VehicleInv, Turn PROVE VehicleInv'
  OBVIOUS
<1>1. PICK o \in RunTask(Head(task_queue)) :
        /\ RunActive(o.over) /\ x' = o.x /\ AfterOnEnter(o.v, o.region_reached)
  BY DEF Turn
<1>2. /\ pc = "run"
      /\ UNCHANGED <<in_emergency, outcome, sent_votes, command_queue, pending_request,
                     battery_low, envVars>>
  BY DEF Turn
<1>3. Outcome(o, task_queue[1].type, Target[task_queue[1].tx])
  BY <1>2, RunOutcome
<1>4. IInv'
  BY <1>1, <1>2, <1>3, RunActiveKeepsIInv DEF VehicleInv, Outcome
<1>5. active_task_started' => task_queue' # <<>> /\ Head(task_queue') = task_queue'[1]
  BY <1>4, HeadIsFirst DEF IInv, TypeOK, Installed
<1>6. VehicleTypeOK'
  BY <1>1, <1>3 DEF VehicleTypeOK, AfterOnEnter, Outcome
<1>7. pending_request' = NoRequest
  BY <1>2 DEF VehicleInv
<1>8. OrdersKnown'
  BY <1>1, <1>2, TurnCases DEF VehicleInv, OrdersKnown, Carries
<1>9. FlightInv'
  <2>1. /\ active_task_started' /\ task_queue'[1].age = 0 => region_reached' = FALSE
        /\ region_reached' => o.region_reached
        /\ v' # 0 => v' = o.v
    BY <1>1, <1>3, <1>5 DEF AfterOnEnter, HeadIsNew, Outcome
  <2>2. CASE /\ active_task_started' = TRUE
             /\ task_queue'[1].type = task_queue[1].type
             /\ task_queue'[1].tx = task_queue[1].tx
    BY <1>1, <1>3, <2>1, <2>2 DEF FlightInv, Outcome
  <2>3. CASE o.v = 0 /\ (active_task_started' => task_queue'[1].age = 0)
    BY <2>1, <2>3 DEF FlightInv
  <2> QED BY <1>1, <1>2, <2>2, <2>3, TurnCases
<1> QED BY <1>4, <1>6, <1>7, <1>8, <1>9 DEF VehicleInv

-----------------------------------------------------------------------------
(* The engine between two runs *)

Between == ApplyPendingRequest \/ CheckEmergency \/ ProcessCommand \/ EndCommands

\* A started head is kept as it is, or a head is entered: FailSafeTask in an
\* emergency, or one that waited; or IdleTask makes way for an order.
HeadKept ==
  /\ active_task_started' = active_task_started
  /\ active_task_started => /\ task_queue'[1].type = task_queue[1].type
                            /\ task_queue'[1].tx = task_queue[1].tx
                            /\ task_queue'[1].age = task_queue[1].age
HeadEntered ==
  /\ active_task_started' = TRUE
  /\ task_queue'[1].age = 0
  /\ task_queue'[1].type = "FAIL_SAFE" \/ ~active_task_started
IdleDisplaced ==
  /\ active_task_started => task_queue[1].type = "IDLE"
  /\ active_task_started' = FALSE

LEMMA TakeOrderOnDrone ==
  ASSUME VehicleInv, NEW c \in Command, TakeOrder(c)
  PROVE  /\ HeadKept \/ IdleDisplaced
         /\ Carries(task_queue, task_queue')
         /\ OrdersKnown'
<1>1. /\ task_queue \in Seq(Task) /\ active_task_started \in BOOLEAN /\ Len(task_queue) \in Nat
      /\ Shape(task_queue, active_task_started) /\ (active_task_started => task_queue # <<>>)
      /\ OrdersKnown
  BY LenProperties DEF VehicleInv, IInv, TypeOK, Installed
<1> DEFINE m == MissionTask(c)
<1>2. m \in Task /\ m.type \in MissionTypes /\ m.tx = c.tx /\ c.tx \in TxIds
  <2>1. c.tx \in TxIds /\ c.tx \in Nat
    BY BoundsAssumption DEF TakeOrder, Command, Proposal, VoteMsg, Order, TxIds
  <2>2. m.tx = c.tx /\ m.type \in MissionTypes
    BY DEF MissionTask, NewTask, MissionTypes
  <2> QED BY <2>1, <2>2, NewTaskType, BallotTypes DEF MissionTask, QueuedTypes, MissionTypes
<1>3. CASE ~ConcernsThisNode(c)
  BY <1>1, <1>3 DEF TakeOrder, HeadKept, Carries, OrdersKnown
<1>4. CASE ConcernsThisNode(c) /\ IdleHead
  <2>1. task_queue # <<>> /\ Head(task_queue) = task_queue[1] /\ task_queue[1].type = "IDLE"
    BY <1>1, <1>4, HeadIsFirst DEF IdleHead
  <2>2. Len(task_queue) = 1
    BY <1>1, <2>1, HeadIsFirst DEF Shape
  <2>3. Tail(task_queue) \in Seq(Task) /\ Len(Tail(task_queue)) = 0
    BY <1>1, <2>1, <2>2, HeadTailProperties
  <2>4. task_queue' = Append(Tail(task_queue), m) /\ active_task_started' = FALSE
    BY <1>4 DEF TakeOrder
  <2> HIDE DEF m
  <2>5. Len(task_queue') = 1 /\ task_queue'[1] = m
    <3> DEFINE r == Tail(task_queue)
    <3>1. r \in Seq(Task) /\ Len(r) = 0 /\ task_queue' = Append(r, m) /\ m \in Task
      BY <1>2, <2>3, <2>4
    <3> HIDE DEF r
    <3>2. Len(Append(r, m)) = Len(r) + 1 /\ Append(r, m)[Len(r) + 1] = m
      BY <3>1, AppendProperties
    <3> QED BY <3>1, <3>2
  <2>6. \A tx : ~MissionIn(task_queue, tx)
    BY <2>1, <2>2 DEF MissionIn, MissionTypes
  <2>7. OrdersKnown'
    <3>1. \A tx : MissionIn(task_queue, tx)' => tx = m.tx
      BY <2>5 DEF MissionIn
    <3> QED BY <1>2, <3>1 DEF OrdersKnown
  <2> QED BY <2>1, <2>4, <2>6, <2>7 DEF IdleDisplaced, Carries
<1>5. CASE ConcernsThisNode(c) /\ ~IdleHead
  <2>1. task_queue' = Append(task_queue, m) /\ active_task_started' = active_task_started
    BY <1>5 DEF TakeOrder
  <2> HIDE DEF m
  <2>2. /\ Len(task_queue') = Len(task_queue) + 1 /\ task_queue'[Len(task_queue) + 1] = m
        /\ \A i \in 1 .. Len(task_queue) : task_queue'[i] = task_queue[i]
    BY <1>1, <1>2, <2>1, AppendProperties
  <2>3. HeadKept
    BY <1>1, <2>1, <2>2, HeadIsFirst DEF HeadKept
  <2>4. Carries(task_queue, task_queue')
    BY <1>1, <2>2 DEF Carries, MissionIn
  <2>5. OrdersKnown'
    <3>1. \A tx : MissionIn(task_queue', tx) => MissionIn(task_queue, tx) \/ tx = m.tx
      BY <1>1, <2>2 DEF MissionIn
    <3> QED BY <1>1, <1>2, <3>1 DEF OrdersKnown
  <2> QED BY <2>3, <2>4, <2>5
<1> QED BY <1>3, <1>4, <1>5

LEMMA CountVoteOnDrone ==
  ASSUME VehicleInv, NEW c \in Command, CountVote(c)
  PROVE  HeadKept /\ Carries(task_queue, task_queue') /\ Carries(task_queue', task_queue)
<1>1. task_queue \in Seq(Task) /\ active_task_started' = active_task_started
      /\ (active_task_started => task_queue # <<>>)
  BY DEF VehicleInv, IInv, TypeOK, Installed, CountVote
<1> DEFINE t == OnVote(task_queue[1], c.sender, c.vote)
<1>2. CASE task_queue' = task_queue
  BY <1>1, <1>2 DEF HeadKept, Carries
<1>3. CASE task_queue' # task_queue
  <2>1. task_queue # <<>> /\ Head(task_queue) = task_queue[1] /\ task_queue[1] \in Task
    BY <1>1, <1>3, HeadIsFirst DEF CountVote
  <2>2. task_queue' = WithHead(task_queue, t)
    BY <1>3, <2>1 DEF CountVote
  <2>3. c.sender \in Drones /\ c.vote \in {"ACK", "NACK"}
    BY DEF CountVote, IsVote, Command, Proposal, VoteMsg, Order
  <2>4. /\ t \in Task /\ t.type = task_queue[1].type /\ t.tx = task_queue[1].tx
        /\ t.age = task_queue[1].age
    BY <2>1, <2>3, OnVoteType, TaskKeepsOrder
  <2> HIDE DEF t
  <2> QED BY <1>1, <2>1, <2>2, <2>4, WithHeadType, WithHeadCarries DEF HeadKept
<1> QED BY <1>2, <1>3

\* Only an emergency that begins takes missions from the queue.
LEMMA BetweenCases ==
  ASSUME VehicleInv, Between
  PROVE  /\ HeadKept \/ HeadEntered \/ IdleDisplaced
         /\ Carries(task_queue, task_queue') \/ (in_emergency' /\ ~in_emergency)
         /\ OrdersKnown'
         /\ pending_request' = pending_request
<1>1. /\ task_queue \in Seq(Task) /\ active_task_started \in BOOLEAN /\ in_emergency \in BOOLEAN
      /\ (active_task_started => task_queue # <<>>)
      /\ OrdersKnown /\ pending_request = NoRequest
  BY DEF VehicleInv, IInv, TypeOK, Installed
<1>2. CASE ApplyPendingRequest
  <2>1. ~pending_request.present
    BY <1>1 DEF NoRequest
  <2> QED BY <1>1, <1>2, <2>1
          DEF ApplyPendingRequest, queueVars, HeadKept, Carries, OrdersKnown
<1>3. ASSUME PrepareQueue(task_queue, active_task_started)
      PROVE  /\ HeadKept \/ HeadEntered
             /\ Carries(task_queue, task_queue')
             /\ OrdersKnown'
  <2>1. /\ Carries(task_queue', task_queue) /\ Carries(task_queue, task_queue')
        /\ active_task_started' = TRUE
        /\ \/ task_queue # <<>> /\ active_task_started /\ task_queue' = task_queue
           \/ /\ task_queue'[1].age = 0
              /\ task_queue # <<>> => ~active_task_started
    BY <1>1, <1>3, PrepareCarries
  <2>2. OrdersKnown'
    BY <1>1, <2>1 DEF OrdersKnown, Carries
  <2> QED BY <1>1, <2>1, <2>2 DEF HeadKept, HeadEntered
<1>4. CASE CheckEmergency
  <2>1. CASE EmergencyBegins
    <3>1. PrepareQueue(EmergencyTasks, FALSE) /\ in_emergency' /\ ~in_emergency
      BY <1>4, <2>1 DEF CheckEmergency, EmergencyBegins
    <3>2. /\ EmergencyTasks \in Seq(Task) /\ EmergencyTasks # <<>>
          /\ EmergencyTasks[1].type = "FAIL_SAFE"
          /\ \A tx : ~MissionIn(EmergencyTasks, tx)
      BY FreshQueueShapes
      DEF EmergencyTasks, FailSafeTask, LandingTask, NewTask, MissionIn, MissionTypes
    <3>3. /\ Carries(task_queue', EmergencyTasks) /\ active_task_started' = TRUE
          /\ task_queue'[1].age = 0 /\ task_queue'[1].type = "FAIL_SAFE"
      BY <3>1, <3>2, PrepareCarries
    <3>4. OrdersKnown'
      BY <3>2, <3>3 DEF OrdersKnown, Carries
    <3> QED BY <1>4, <3>1, <3>3, <3>4 DEF HeadEntered, CheckEmergency
  <2>2. CASE ~EmergencyBegins
    BY <1>3, <1>4, <2>2 DEF CheckEmergency
  <2> QED BY <2>1, <2>2
<1>5. CASE ProcessCommand
  <2>1. PICK c \in Command : HearProposal(c) \/ CountVote(c) \/ TakeOrder(c)
    BY <1>5 DEF ProcessCommand
  <2>2. CASE HearProposal(c)
    BY <1>1, <2>2 DEF HearProposal, PopCommand, queueVars, HeadKept, Carries, OrdersKnown
  <2>3. CASE CountVote(c)
    <3>1. pending_request' = pending_request
      BY <2>3 DEF CountVote, PopCommand
    <3> QED BY <1>1, <2>3, <3>1, CountVoteOnDrone DEF OrdersKnown, Carries
  <2>4. CASE TakeOrder(c)
    <3>1. pending_request' = pending_request
      BY <2>4 DEF TakeOrder, PopCommand
    <3> QED BY <2>4, <3>1, TakeOrderOnDrone
  <2> QED BY <2>1, <2>2, <2>3, <2>4
<1>6. CASE EndCommands
  BY <1>3, <1>6 DEF EndCommands
<1> QED BY <1>2, <1>4, <1>5, <1>6 DEF Between

LEMMA BetweenKeepsVehicleInv == VehicleInv /\ BetweenRuns => VehicleInv'
<1> SUFFICES ASSUME VehicleInv, BetweenRuns PROVE VehicleInv'
  OBVIOUS
<1>1. Between /\ x' = x /\ AfterOnEnter(v, region_reached)
  BY DEF BetweenRuns, Between
<1>2. IInv'
  BY <1>1, NextIInv DEF VehicleInv, Between, Next, EngineStep
<1>3. active_task_started' => task_queue' # <<>> /\ Head(task_queue') = task_queue'[1]
  BY <1>2, HeadIsFirst DEF IInv, TypeOK, Installed
<1>4. VehicleTypeOK'
  BY <1>1 DEF VehicleInv, VehicleTypeOK, AfterOnEnter
<1>5. pending_request' = NoRequest /\ OrdersKnown'
  BY <1>1, BetweenCases DEF VehicleInv
<1>6. FlightInv'
  <2>1. /\ active_task_started' /\ task_queue'[1].age = 0 => region_reached' = FALSE
        /\ region_reached' => region_reached
        /\ v' # 0 => v' = v
        /\ active_task_started' /\ task_queue'[1].type = "FAIL_SAFE" => v' = 0
        /\ FlightInv
    BY <1>1, <1>3 DEF AfterOnEnter, HeadIsNew, StopsOnEnter, VehicleInv, VehicleTypeOK
  <2>2. CASE HeadKept
    BY <1>1, <2>1, <2>2 DEF FlightInv, HeadKept
  <2>3. CASE HeadEntered
    BY <1>1, <2>1, <2>3 DEF FlightInv, HeadEntered
  <2>4. CASE IdleDisplaced
    BY <1>1, <2>1, <2>4 DEF FlightInv, IdleDisplaced, MissionTypes
  <2> QED BY <1>1, <2>2, <2>3, <2>4, BetweenCases
<1> QED BY <1>2, <1>4, <1>5, <1>6 DEF VehicleInv

LEMMA VehicleInvStays ==
  ASSUME VehicleInv, IInv', UNCHANGED <<queueVars, pending_request, vehicleVars>>
  PROVE  VehicleInv'
  BY DEF VehicleInv, VehicleTypeOK, OrdersKnown, MissionIn, FlightInv, queueVars, vehicleVars

LEMMA NextVehicleInv == VehicleInv /\ [VehicleNext]_allVars => VehicleInv'
<1> SUFFICES ASSUME VehicleInv, [VehicleNext]_allVars PROVE VehicleInv'
  OBVIOUS
<1>1. CASE Outside
  <2>1. IInv'
    BY <1>1, NextIInv DEF VehicleInv, Outside, Next, OtherThreads
  <2>2. UNCHANGED <<queueVars, pending_request, vehicleVars>>
    BY <1>1 DEF Outside, PeerStatusChanges, AddCommand, engineVars
  <2> QED BY <2>1, <2>2, VehicleInvStays
<1>2. CASE UNCHANGED allVars
  <2>1. IInv'
    BY <1>2, NextIInv DEF VehicleInv, allVars
  <2>2. UNCHANGED <<queueVars, pending_request, vehicleVars>>
    BY <1>2 DEF allVars, vars, engineVars
  <2> QED BY <2>1, <2>2, VehicleInvStays
<1> QED BY <1>1, <1>2, TurnKeepsVehicleInv, BetweenKeepsVehicleInv DEF VehicleNext

LEMMA InitVehicleInv == VehicleInit => VehicleInv
<1> SUFFICES ASSUME VehicleInit PROVE VehicleInv
  OBVIOUS
<1>1. IInv
  BY InitIInv DEF VehicleInit
<1>2. /\ x = 0 /\ v = 0 /\ region_reached = FALSE /\ pending_request = NoRequest
      /\ task_queue = <<>> /\ active_task_started = FALSE
  BY DEF VehicleInit, Init
<1>3. OrdersKnown
  BY <1>2 DEF OrdersKnown, MissionIn
<1>4. VehicleTypeOK
  <2>1. x \in Int
    BY <1>2
  <2>2. v \in {-1, 0, 1}
    BY <1>2
  <2>3. region_reached \in BOOLEAN
    BY <1>2
  <2> QED BY <2>1, <2>2, <2>3 DEF VehicleTypeOK
<1>5. FlightInv
  BY <1>2 DEF FlightInv
<1> QED BY <1>1, <1>2, <1>3, <1>4, <1>5 DEF VehicleInv

-----------------------------------------------------------------------------
(* The theorems *)

\* VehicleInv holds of every flight, under every emergency and every command.
THEOREM VehicleInvariance == VehicleSpec => []VehicleInv
<1>1. VehicleInit => VehicleInv
  BY InitVehicleInv
<1>2. VehicleInv /\ [VehicleNext]_allVars => VehicleInv'
  BY NextVehicleInv
<1> QED BY <1>1, <1>2, PTL DEF VehicleSpec

\* own_state_ and region_reached_ keep their types, and the engine's variables
\* theirs: no target, no late turn and no order takes the vehicle off the line.
THEOREM VehicleTypeCorrect == VehicleSpec => [](VehicleTypeOK /\ TypeOK)
<1>1. VehicleInv => VehicleTypeOK /\ TypeOK
  BY DEF VehicleInv, IInv
<1> QED BY <1>1, VehicleInvariance, PTL

\* Whatever ends or interrupts a flight (run, on_enter, place_emergency_tasks,
\* process_pending_commands), the vehicle keeps a velocity only while a mission
\* runs that has not arrived.
THEOREM StandsUnlessFlying == VehicleSpec => []StoppedUnlessFlying
<1>1. VehicleInv => StoppedUnlessFlying
  <2>1. VehicleInv /\ active_task_started => Head(task_queue) = task_queue[1]
    BY HeadIsFirst DEF VehicleInv, IInv, TypeOK, Installed
  <2> QED BY <2>1 DEF VehicleInv, FlightInv, StoppedUnlessFlying, Flying, Active
<1> QED BY <1>1, VehicleInvariance, PTL

\* A turn, however late, carries the vehicle to a point between where it was and
\* its target (move_toward_target).
THEOREM TargetsAreNotPassed == VehicleSpec => NeverPassesTarget
<1> DEFINE Approaches ==
      x' # x => /\ Flying
                /\ LET target == Target[Head(task_queue).tx]
                   IN  Distance(x, x') + Distance(x', target) = Distance(x, target)
<1>1. VehicleInv /\ [VehicleNext]_allVars => [Approaches]_allVars
  <2> SUFFICES ASSUME VehicleInv, VehicleNext, x' # x PROVE Approaches
    BY DEF allVars
  <2>1. Turn
    BY DEF VehicleNext, BetweenRuns, Outside, vehicleVars
  <2>2. PICK o \in RunTask(Head(task_queue)) : x' = o.x /\ pc = "run"
    BY <2>1 DEF Turn
  <2>3. /\ Outcome(o, task_queue[1].type, Target[task_queue[1].tx])
        /\ active_task_started /\ Head(task_queue) = task_queue[1]
    BY <2>2, RunOutcome, AtRun
  <2> QED BY <2>2, <2>3 DEF Outcome, Flying, Active
<1> QED BY <1>1, VehicleInvariance, PTL DEF VehicleSpec, NeverPassesTarget

\* An order leaves the queue with the vehicle at its target, or in the turn in
\* which an emergency begins (process_pending_commands, is_finished,
\* place_emergency_tasks).
THEOREM MissionsEndAtTarget == VehicleSpec => MissionEndsAtTarget
<1> DEFINE Ends ==
      \A tx \in TxIds : Queued(tx) /\ ~Queued(tx)' =>
        \/ Distance(x', Target[tx]) <= Tolerance
        \/ in_emergency' /\ ~in_emergency
<1>1. VehicleInv /\ VehicleInv' /\ [VehicleNext]_allVars => [Ends]_allVars
  <2> SUFFICES ASSUME VehicleInv, VehicleInv', VehicleNext,
                      NEW tx \in TxIds, Queued(tx), ~Queued(tx)'
               PROVE  \/ Distance(x', Target[tx]) <= Tolerance
                      \/ in_emergency' /\ ~in_emergency
    OBVIOUS
  <2>1. MissionIn(task_queue, tx) /\ ~MissionIn(task_queue', tx)
    <3>1. task_queue \in Seq(Task) /\ task_queue' \in Seq(Task)
      BY DEF VehicleInv, IInv, TypeOK
    <3> QED BY <3>1, LenProperties DEF Queued, MissionIn
  <2>2. CASE Turn
    <3>1. PICK o \in RunTask(Head(task_queue)) : RunActive(o.over) /\ x' = o.x /\ pc = "run"
      BY <2>2 DEF Turn
    <3>2. o.over /\ task_queue[1].type \in MissionTypes /\ task_queue[1].tx = tx
      <4>1. \/ Carries(task_queue, task_queue')
            \/ \A k : MissionIn(task_queue, k) =>
                 \/ MissionIn(task_queue', k)
                 \/ o.over /\ task_queue[1].type \in MissionTypes /\ task_queue[1].tx = k
        BY <3>1, TurnCases
      <4> QED BY <2>1, <4>1 DEF Carries
    <3> QED BY <3>1, <3>2, RunOutcome DEF Outcome
  <2>3. CASE BetweenRuns
    BY <2>1, <2>3, BetweenCases DEF BetweenRuns, Between, Carries
  <2>4. CASE Outside
    BY <2>1, <2>4 DEF Outside, PeerStatusChanges, AddCommand, engineVars, queueVars
  <2> QED BY <2>2, <2>3, <2>4 DEF VehicleNext
<1> QED BY <1>1, VehicleInvariance, PTL DEF VehicleSpec, MissionEndsAtTarget

=============================================================================

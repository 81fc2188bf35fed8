------------------------------ MODULE Vehicle ------------------------------
(***************************************************************************)
(* A drone that moves: TaskEngine with own_state_ and the run functions of *)
(* the flight tasks, which decide from positions and times what TaskEngine *)
(* leaves open, namely when a flight is over.                              *)
(*                                                                         *)
(* Positions are points of a line, in units of the least distance a flying *)
(* vehicle covers between two turns; a turn may come late and cover up to  *)
(* MaxStep of them.  The velocity keeps its direction only.  The altitude  *)
(* is left out: no code outside the tests raises z above 0, so LandingTask *)
(* is over in its first run.                                               *)
(*                                                                         *)
(* The steps of TaskEngine that a drone never takes (a round of voting of  *)
(* its own) are left out here.                                             *)
(***************************************************************************)
EXTENDS TaskEngine

CONSTANTS
  Target,     \* the position an order or a search of that number names
  Tolerance,  \* ARRIVAL_TOLERANCE_M
  MaxStep     \* bound: units covered between two turns

ASSUME FlightAssumption ==
  /\ IsDrone
  /\ Target \in [TxIds -> Int]
  /\ Tolerance \in Nat
  /\ MaxStep \in Nat \ {0}

VARIABLES
  x,              \* own_state_.x, .y
  v,              \* the direction of own_state_.vx, .vy
  region_reached  \* region_reached_ of the active ScoutSearchTask

vehicleVars == <<x, v, region_reached>>
allVars == <<vars, vehicleVars>>

-----------------------------------------------------------------------------
(* motion.cpp *)

Distance(a, b) == IF a <= b THEN b - a ELSE a - b
DirectionUnscaled(a, b) == b - a    \* faulty variant: not a unit vector
Direction(a, b) == IF a < b THEN 1 ELSE -1

\* Faulty variant: the last step is not cut off at the target.
MoveTowardTargetUncut(target, step) ==
  IF Distance(x, target) <= Tolerance
    THEN [x |-> x, v |-> 0, reached |-> TRUE]
    ELSE [x |-> x + Direction(x, target) * step, v |-> Direction(x, target), reached |-> FALSE]

\* move_toward_target: within the tolerance the vehicle stays where it is; a
\* step that would pass the target ends on it.
MoveTowardTarget(target, step) ==
  IF Distance(x, target) <= Tolerance
    THEN [x |-> x, v |-> 0, reached |-> TRUE]
  ELSE IF step >= Distance(x, target)
    THEN [x |-> target, v |-> 0, reached |-> TRUE]
  ELSE [x |-> x + Direction(x, target) * step, v |-> Direction(x, target), reached |-> FALSE]

\* on_enter and the first run may share one `now`; later runs are apart.
Steps(t) == IF t.age = 0 THEN 0 .. MaxStep ELSE 1 .. MaxStep

-----------------------------------------------------------------------------
(* The run functions of the tasks: what may have become of the vehicle, and *)
(* whether the task is over                                                 *)

GoToTarget(t) ==
  {LET m == MoveTowardTarget(Target[t.tx], step)
   IN  [x |-> m.x, v |-> m.v, region_reached |-> region_reached, over |-> m.reached] :
     step \in Steps(t)}

\* Faulty variant: arrival ends the search.
ScoutSearchWithoutScan(t) == GoToTarget(t)

\* Faulty variant: the scan's timer starts with the task.
ScoutSearchTimedFromStart(t) ==
  {LET m == MoveTowardTarget(Target[t.tx], step)
   IN  [x |-> m.x, v |-> m.v, region_reached |-> m.reached, over |-> scanned] :
     step \in Steps(t), scanned \in TimerChoices(t)}

\* First to the region, then the scan, whose timer starts on arrival.
ScoutSearch(t) ==
  IF ~region_reached
    THEN {LET m == MoveTowardTarget(Target[t.tx], step)
          IN  [x |-> m.x, v |-> m.v, region_reached |-> m.reached, over |-> FALSE] :
            step \in Steps(t)}
    ELSE {[x |-> x, v |-> 0, region_reached |-> TRUE, over |-> scanned] :
            scanned \in TimerChoices(t)}

\* IdleTask, FailSafeTask and LandingTask keep the vehicle where it is.
StandStill(t) ==
  {[x |-> x, v |-> 0, region_reached |-> region_reached, over |-> over] :
     over \in IF t.type = "LANDING" THEN {TRUE} ELSE TimerChoices(t)}

RunTask(t) ==
  IF t.type = "GO_TO_TARGET" THEN GoToTarget(t)
  ELSE IF t.type = "SCOUT_SEARCH" THEN ScoutSearch(t)
  ELSE StandStill(t)

-----------------------------------------------------------------------------
(* on_enter of the task that a step makes the active one *)

StopsOnEnterIdle == {"IDLE"}     \* faulty variant: FailSafeTask only waits
StopsOnEnter == {"IDLE", "FAIL_SAFE"}

\* A task that becomes the active one is an object of its own: its
\* region_reached_ starts as false, and on_enter sets it so once more.
HeadIsNew == active_task_started' /\ Head(task_queue').age = 0

\* The vehicle after a step that has brought it to speed and phase of search.
AfterOnEnter(speed, reached) ==
  /\ v' = IF active_task_started' /\ Head(task_queue').type \in StopsOnEnter THEN 0 ELSE speed
  /\ region_reached' = IF HeadIsNew THEN FALSE ELSE reached

Turn ==
  /\ pc = "run"
  /\ \E o \in RunTask(Head(task_queue)) :
       /\ RunActive(o.over)
       /\ x' = o.x
       /\ AfterOnEnter(o.v, o.region_reached)
  /\ UNCHANGED <<in_emergency, outcome, sent_votes, command_queue, pending_request,
                 battery_low, envVars>>

\* The steps of the engine between two runs do not move the vehicle.
BetweenRuns ==
  /\ ApplyPendingRequest \/ CheckEmergency \/ ProcessCommand \/ EndCommands
  /\ x' = x
  /\ AfterOnEnter(v, region_reached)

Outside ==
  /\ PeerStatusChanges \/ \E c \in Command : AddCommand(c)
  /\ UNCHANGED vehicleVars

-----------------------------------------------------------------------------
VehicleInit ==
  /\ Init
  /\ x = 0
  /\ v = 0
  /\ region_reached = FALSE

VehicleNext == Turn \/ BetweenRuns \/ Outside

VehicleSpec ==
  /\ VehicleInit
  /\ [][VehicleNext]_allVars
  /\ WF_allVars(Turn \/ BetweenRuns)

-----------------------------------------------------------------------------
(* Properties *)

\* Types of the vehicle's variables (drone_state.hpp).
VehicleTypeOK ==
  /\ x \in Int
  /\ v \in {-1, 0, 1}
  /\ region_reached \in BOOLEAN

Flying == \E type \in MissionTypes : Active(type)

\* Whatever ends or interrupts a flight - arrival, an emergency, a cleared
\* queue - the vehicle has a velocity only while a mission runs that has not
\* arrived: nobody else would stop it.
StoppedUnlessFlying == v # 0 => Flying /\ ~region_reached

\* A late turn does not carry the vehicle past its target, where it would swing
\* back and forth (motion.cpp:43-44): in each turn it stays between where it was
\* and where it goes.
NeverPassesTarget ==
  [][x' # x => /\ Flying
               /\ LET target == Target[Head(task_queue).tx]
                  IN  Distance(x, x') + Distance(x', target) = Distance(x, target)]_allVars

\* An order is dropped only by an emergency, and otherwise leaves the queue with
\* the vehicle at its target.
MissionEndsAtTarget ==
  [][\A tx \in TxIds : Queued(tx) /\ ~Queued(tx)' =>
       \/ Distance(x', Target[tx]) <= Tolerance
       \/ in_emergency' /\ ~in_emergency]_allVars

\* The vehicle implements the engine TaskEngine describes, with its fairness:
\* the tasks' own run functions never end a task before TaskEngine's timers may,
\* never keep one longer, and never bar the engine from going on.  So what holds
\* of TaskEngine, MissionLeavesQueue and EmergencyLands included, holds of it.
EngineSpec == FairSpec
=============================================================================

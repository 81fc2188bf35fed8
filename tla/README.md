# TLA+ model of UAV-Swarm

TLA+ specifications of the control logic of this repository, model-checked with
TLC, and theorems about each of them, for every value of their constants, proved
with TLAPS.  Paths below are
relative to the repository's root; `swarm_manager.cpp:445` is a file and line.

## 1. The system

Every node, a drone or the ground control station (GCS), runs the same program.
`SwarmManager` owns its state and three threads; DDS delivers messages on
threads of its own; `main` runs the GCS's mission loop or just waits.

| Component | State | Operations | Talks to |
|---|---|---|---|
| Task Engine (`swarm_manager.cpp:153-474`, Thread 3, 20 ms) | `task_queue_`, `active_task_started_`, `in_emergency_`, `last_consensus_outcome_`, atomic `active_task_type_` | `task_engine_step` and its helpers | pops the command queue, takes the consensus request, asks the peer table, publishes votes |
| ConsensusTask (`task/consensus_task.cpp`) | ballots, result, start time | `on_enter`, `on_vote`, `run` (5 s time-out) | inside the engine's queue |
| Flight and idle tasks (`task/*.cpp`) | own timers, `region_reached_`, `own_state_` | `on_enter`, `run`, `is_finished`, `move_toward_target` | inside the engine's queue |
| Own status (`swarm_manager.cpp:117-128, 480-537`, Thread 1, 100 ms) | `telemetry_seq_num_` | `build_heartbeat`, `build_telemetry` | reads the engine's queue, publishes, then refreshes the peer table |
| Command queue (`swarm_manager.cpp:660-682`) | `command_queue_` under `command_mutex_` | `add_command`, `pop_command` | DDS callbacks to engine |
| Consensus request (`swarm_manager.cpp:162-195`) | `pending_consensus_request_` under `request_mutex_` | `request_consensus`, `apply_pending_consensus_request` | GCS main thread to engine |
| GCS mission control (`gcs_controller.cpp`, `main.cpp:104-165`, 200 ms) | `state_`, transaction counter, pending order | `propose_task`, `step`, `consume_result` | reads the peer table and the engine's outcome, publishes proposals and orders |
| Peer table (`peer_manager.cpp`) | record per peer under `peer_mutex_` | `on_heartbeat`, `on_telemetry`, `refresh_status`, queries | DDS callbacks and Thread 1 (100 ms) write, engine and GCS read |
| Task allocation (`task_allocation_engine.cpp`) | none | `concerns_this_node`, `create_task` | called by the engine |
| FastDDSWrapper (`fastdds_wrapper.cpp`) | participant, and per channel type, topic, publisher, writer, subscriber, reader, callback | `init`, `setup`, `publish`, `set_*_callback`, `on_data_available`, `teardown`, destructor | heartbeat and telemetry are best effort; consensus and task orders reliable, transient-local, keep-last 10 |
| Configuration (`config_from_env.cpp`) | none | `read_config_from_env` | called by `main` |
| Lifecycle (`main.cpp:36-89, 179-241`, `swarm_manager.cpp:31-103`) | `running_`, threads, `shutdown_requested` | `init`, `connect_dds`, `run`, `stop`, `signal_handler` | owns the wrapper and the manager |

**What makes it hard.**  Thread 3 has no lock on its queue, and three other
actors reach it through a command queue, a request slot and the peer table at
every point of a turn.  Several pieces of state must agree without a lock or a
type to enforce it: the queue and its started flag, the queue and the reported
type, the controller's round and the engine's task.  Emergencies come and go in
the middle of everything.  Messages are delayed, lost, repeated and, over a
restart, outlive the process they were meant for.  DDS calls in on threads of its
own from the moment a reader exists until it is deleted, before, beside and after
everything else the process does.  `PROJECT.json` lists the
hazards with their lines and the properties aimed at each.

**What correctness means**, per component:

- Task Engine: `on_enter` exactly once per started task; nothing behind a task
  that never ends; the emergency sequence whole and in front, and carried out;
  the outcome of a vote is what the votes say.
- GCS mission control: an order at most once, for one round at a time, and only
  after everybody asked has agreed; every round ends.
- Flight: a mission ends at its target, the vehicle never passes it, and nothing
  is left moving when a flight is cut off.
- Process: however far the set-up gets and whenever a signal comes, every entity
  is deleted, in an order DDS accepts and after its last use; the orders that DDS
  retains come to the engine, each once and in order.
- Configuration: what is accepted means what the environment says.
- Peer table: no stale telemetry, no false alarm, no unbounded blackout after a
  quick restart, a dead peer noticed.

## 2. Modules

| Module | Contents |
|---|---|
| `TaskEngine` | the engine of one node and the threads that reach it |
| `TaskEngineProofs` | theorems about `TaskEngine` |
| `Vehicle` | `TaskEngine` with the vehicle and the flight tasks' `run`; implements `TaskEngine` |
| `VehicleProofs` | theorems about `Vehicle`; rests on `TaskEngineProofs` |
| `StatusReport` | `TaskEngine` with Thread 1's unlocked look at its queue |
| `MissionCommit` | abstract specification of voting on missions |
| `GcsVoting` | the GCS main thread composed with its `TaskEngine`, the drones' answers, the topic `consensus`, restarts; implements `MissionCommit` |
| `GcsVotingProofs` | theorems about `GcsVoting`, the implementation of `MissionCommit` among them; rests on `TaskEngineProofs` |
| `PeerTable` | the peer table, Thread 1, the peers and the lossy topics |
| `PeerTableProofs` | theorems about `PeerTable` |
| `Configuration` | `read_config_from_env` as a function of the environment |
| `NodeProcess` | one process: `main`, DDS entities, threads, signals, kill and restart, and the retained orders of the topic `task_alloc` |
| `NodeProcessProofs` | theorems about `NodeProcess` |
| `MCTaskEngine`, `MCVehicle`, `MCStatusReport`, `MCGcsVoting`, `MCPeerTable`, `MCNodeProcess` | model values and symmetry sets for TLC |

A definition whose comment says *faulty variant* is what a plausible mistake
would make of the definition after it.  Nothing uses it; each is there to show
that a property fails when the code is wrong in that way.

### TaskEngine

One turn of `task_engine_step` is cut exactly where another thread can come in
between.  `pc` names the next piece:

| `pc` | Action | Code |
|---|---|---|
| `apply` | `ApplyPendingRequest` | `apply_pending_consensus_request`, under the request mutex |
| `emergency` | `CheckEmergency` | `check_emergency` (under the peer mutex), `place_emergency_tasks`, first `prepare_queue` |
| `commands` | `ProcessCommand` = `HearProposal`, `CountVote`, `TakeOrder` | one turn of `while (pop_command(...))` with its `switch` |
| `commands` | `EndCommands` | the queue is empty; second `prepare_queue` |
| `run` | `RunActiveTask` | `run`, `is_finished`; any task but ConsensusTask is popped and the next started |
| `record` | `RecordOutcome` | the unlocked write of the outcome, pop, `clear` on abort, start of the next |

`AddCommand`, `RequestConsensus` and `PeerStatusChanges` are the other threads
and may happen between any two of these.

A task is a record: its type, how often `on_enter` was called (`entered`, a
history variable), how many turns it has run (`age`), and ConsensusTask's
ballots, result and time-out mark.  *Time*: a task compares `now - start_` with
its limit.  The model lets the timer fire at any age from `MinRounds` (zero
elapsed time in the turn of `on_enter`, so the 5 s, 1 s and scan timers cannot
fire there) to `MaxRounds`, so all lengths of turns and flights are covered.
Positions, velocities and coordinates of orders are left to `Vehicle`;
`own_state_.battery` is the Boolean `battery_low`, which is constant because nothing in the program
drains the battery.  The hover task and the init and discovery tasks are never
created outside the tests; `INIT` remains as the first value of
`active_task_type_`.

### Vehicle and StatusReport

`Vehicle` replaces the open timers of `RunActiveTask` by the tasks' own `run`
(`Turn`): `GoToTarget` and `ScoutSearch` fly with `MoveTowardTarget`, and the
engine's other steps enter tasks but do not move the vehicle (`BetweenRuns`).
Positions are points of a line.  `move_toward_target` works along the straight line
to the target, so a second axis would add nothing to a single flight; the two
missions lie on opposite sides of the start, so that a flight also begins away from
0 and turns round.  `step` is chosen freely up to `MaxStep` per turn: turns come
late.  A velocity is its direction.  The altitude is left out: `z` starts at 0 and no
code outside the tests raises it, so `LandingTask::run` always takes its first
branch.  `region_reached` is a field of the ScoutSearchTask that is being flown; every order
makes a task of its own, so the variable is FALSE again when the head is new
(`HeadIsNew`).  `EngineSpec` states that all of this implements `TaskEngine`'s `FairSpec`.

`StatusReport` splits `build_heartbeat` between `front()` and `get_type()`.
`DestroysHead` names the engine steps that take the task Thread 1 may hold out of
the queue that owns it.

### GcsVoting and MissionCommit

`BeginProposal`, `SubmitRequest`, `PublishProposal` are `propose_task` cut at
its two hand-overs; the engine can run between them.  `ReadOutcome` is
`GcsController::step` together with the reaction of `gcs_loop` in the same
turn.  With `TornReads`, `OutcomeCopies` gives every mixture of old and new
fields that a copy taken during the unlocked write can contain; without it a copy
is whole.  A drone is reduced to its constant answer (ACK, NACK with a low
battery, none under `FAULT_SILENT_CONSENSUS`).  The topic keeps the order of one
writer; different drones interleave freely.  `Restart` loses everything the GCS
holds, the transaction counter included, while drones' published votes stay and
are delivered again (`delivered' = 0`, the topic is transient-local).
`BeginProposal` waits for the engine's first task because discovery takes 8 s
and a turn 20 ms.

`MissionCommit` knows only the state of each mission's round, who was asked, and
who agreed.  `CommitSpec` maps the controller's state to it: a mission is
*voting* from `propose_task` to `step`'s reaction, *ordered* once its order is
out; a drone has *agreed* once it has published an ACK for the mission.

### PeerTable

Time is counted in ticks of the 100 ms loop.  A tick ages packets, makes every
living peer send a heartbeat and a telemetry packet, and advances `silence`, the
time since `last_heartbeat_local`.  Packets stay in `net` until they expire and
may be received any number of times or never.  Thread 1 reads the clock
(`ReadClock`) and refreshes up to `MaxLag` ticks later (`RefreshStatus`) with
the old reading, as `drone_list_loop` does.  Peers crash and start again from
sequence number zero.  `accepted` and `blackout` are history variables.

### Configuration and NodeProcess

A text of the environment is what `std::stoul` makes of it: *absent* (unset or empty), a
*word* it rejects, or *a number n*, which a minus sign may precede and other characters
may follow.  `Stoul` ignores what follows and takes a minus sign modulo `UlongModulus`
(2^64 on the targets of this program); a number that does not fit is refused.
`ReadConfig` is the function from environments to configurations, first refusal first,
with the casts to 8 and 16 bits.

`phase` is the main thread's position in `main()`:

| `phase` | Action | Code |
|---|---|---|
| `config` | `ReadEnvironment` | `read_config_from_env`; a refusal returns 1 |
| `init` | `InitManager` | `SwarmManager::init` |
| `participant`, `setup` | `CreateParticipant`, `SetUpPart`, `GiveUp` | `FastDDSWrapper::init`, one step per entity, each of which may fail |
| `connect` | `SetCallback` | the four `set_*_callback` of `connect_dds` |
| `run`, `spawn` | `Run`, `Spawn` | `SwarmManager::run`, one step per thread |
| `loop`, `propose`, `order` | `LoopHead`, `GcsBody`, `StartWrite`, `FinishWrite` | `drone_loop`; `gcs_loop` and its publications |
| `stop`, `join` | `Stop`, `Join` | `SwarmManager::stop` |
| `teardown`, `release` | `TearDownPart`, `DeleteParticipant` | the destructor of the wrapper |

A write has a beginning and an end, so an entity could be deleted inside it; so has a
call of the listener (`Receive` takes the sample, `Deliver` hands it on).  `Match`
is the discovery of the ground station's writer, after which the retained orders are
sent from the first; it may happen as soon as the reader exists if `EarlyMatch`, and
only once the callback of `task_alloc` is set otherwise.  What the messages do inside
the node is left to `TaskEngine`: a command is an order's number or `Other`.

`init`'s comment (`fastdds_wrapper.hpp:100-101`) promises that a failed `init` cleans
up; the code leaves this to the destructor.  `NothingLeftBehind` shows that in `main`
the result is the same.

## 3. Runs

| Run | Bounds | Question |
|---|---|---|
| `DroneEngine` | 2 ids, 3 arrivals, 1 pending, timers up to 4 turns, targets at 2 and -1, tolerance 1, steps up to 4, fair | queue, flag, emergency sequence, reported type, votes of a drone; no mission stuck; emergencies land; flights end at their targets; `Vehicle` implements `TaskEngine` |
| `GcsEngine` | 2 ids, 3 arrivals, 2 pending, timers up to 2 turns, both drones interchangeable | flag and outcome on the GCS with repeated requests |
| `GcsVotingSafety` | 2 drones, 1 mission, 4 arrivals, 1 pending, peers get lost | types; refinement of `MissionCommit`; no order for an aborted round |
| `GcsVotingLive` | 2 drones, 2 missions, 2 pending, peers only appear, fair | the same for two rounds, with votes and outcomes of the first still about in the second; every ACK counted is for this proposal; the round is always somewhere; voting ends |
| `GcsRestartSafe` | 1 mission, 2 starts of the GCS | a refusing or silent drone is never overruled |
| `PeerTable` | threshold 3, time-out 5, 8 packets per run, 3 runs, delay 2, lag 1, fair | order, blackout, false alarms, death is noticed |
| `NodeProcess` | 75 environments around every limit and every kind of text, 2 orders, 1 other command per run, queue of 2, 2 starts, fair | entities, threads, shutdown, orders, configuration |
| `DroneMissionInEmergency`, `GcsVotingStuck`, `GcsTornRead`, `OrderLostAtStart`, `HeartbeatDangling` | as above or smaller | statements of the repository's comments that the code does not meet (section 5) |

**Bounds.**  Two drones suffice for a vote to be split or incomplete and for one
vote to be late; two ids for a stale vote or outcome; three arrivals for an
order before, in and after an emergency; two missions are what `gcs_loop`
proposes.  Lost peers and a second mission are checked apart, in `GcsVotingSafety` and
`GcsVotingLive`, because together they take TLC longer than they tell; the theorems of
`GcsVotingProofs` cover them together.  `GcsVotingSafety` and `DroneEngine` keep one
command in the queue: the next one can arrive as soon as the engine has popped it, in the
middle of the same turn, and a command that waits in the network has the same effect one
step later.  In `DroneEngine` a target
is at most 3 units away, from one side or the other, so a flight takes up to three
turns and a step of 4 passes every target; `MaxRounds = 4` is no restriction on
flights of that length.  In `NodeProcess` two orders are what it takes to lose, swap or
repeat one, the second start is the one that must see them again, and both are below
the history depth of 10, which the model therefore does not need; `MaxHeard` bounds the
commands that are not orders, whose only part here is to take places in the queue and to
be answered with a vote.  Each environment differs from a plain drone's in one
variable, with and without TCP.  `UlongModulus` is 2^20 there: TLC's integers have 32
bits, and all that `Configuration` asks of the modulus is that it is above every limit
(`UlongAssumption`), under which the theorem `ConfigIsFaithful` holds for 2^64 too.  In `PeerTable` the relations of the
constants are the code's, not their size: the threshold is smaller than the
time-out (20 and 30 ticks), a run can go past the threshold twice, and three
runs allow a packet of the first to meet the third.  Deadlock is checked in
every run: an engine thread always has a next step.

**Assumptions on the environment** of `PeerTable`, named in `TimingAssumption`:
a packet that arrives does so before a restarted process can send
(`MinDown > MaxDelay`) and overtakes at most `Threshold` others.  The second is
the code's own premise (`peer_manager.hpp:71-75`); with a smaller threshold TLC
finds stale telemetry accepted.  `SequenceAssumption` keeps sequence numbers
below the wrap of `uint32_t` (13 years at 10 Hz).

**Fairness.**  `WF(EngineStep)`: `task_engine_loop` runs until `stop`, takes only
locks that are held briefly, and sleeps 20 ms.  `WF(MainThread)`: the same for
`gcs_loop`.  In `NodeProcess` the same for the main thread, each thread, a write that
has begun and a listener that has been called.  `WF(Match)` and
`SF(Receive(TaskAlloc))`: DDS finds the writer, and what is published RELIABLE is
delivered in the end although the bounded queue of the model may be full each time one
looks; the real queue has no bound.  `WF(DroneListLoop)` and `WF(Tick)`: Thread 1 and time.  Nothing is
assumed of other messages, of signals, peers or emergencies.  That running tasks end
is in `TimerChoices`: the time-outs are wall-clock; of the flights `EngineSpec` shows it
from their motion.  The drain loop of the commands ends because
arrivals are bounded, the one place where a bound helps a liveness property.

## 4. Proofs

Every theorem holds for all values of the constants that the named assumptions of the
module allow: any number of drones, peers, orders and restarts, any bounds.

| Theorem of `TaskEngineProofs` | States |
|---|---|
| `TypeCorrect` | `[]TypeOK` |
| `TasksEnteredOnce` | `[]EnteredOnce` |
| `IdleIsAlone` | `[]IdleAlone` |
| `EmergencySequenceIsFirst` | `[]EmergencySequenceFirst` |
| `ReportedType` | `[]ReportedTypeIsActive` |
| `LandingFollowsFailSafe` | `LandingOnlyAfterFailSafe` |
| `OutcomeIsVerdict` | `OutcomeFollowsVotes` |
| `VotesAreFinal` | `[]OneVotePerTransaction` |

None of the queue's properties is inductive alone.  The inductive invariant
`IInv` is `TypeOK`, `Installed` and `PcInv`.  `Shape(q, started)` says what holds
of any queue the engine holds or is about to install: entered counts agree with
the flag, Idle is alone, FailSafe and Landing are in front.  `Installed` adds what
holds between two helpers: a set flag means a head, of the reported type and
tallied, and a LandingTask is never a head that still waits to be started; that last
part is what makes `LandingOnlyAfterFailSafe` follow.  `PcInv` says where in a turn the
head is known to be started and a decided vote.  Each helper of
`SwarmManager` has one lemma about `Shape` and `Installed`
(`StartInstalls`, `PrepareInstalls`, `TailShape`, `AppendShape`,
`RunKeepsInstalled`, `RetireInstalls`), each action one about `IInv`.
`VotesAreFinal` has a small invariant of its own.

| Theorem of `NodeProcessProofs` | States |
|---|---|
| `TypeCorrect` | `[]TypeOK` |
| `DeletionIsOrdered` | `[]EntitiesNested` |
| `NoUseAfterDelete` | `[]NodeWhole` |
| `EndIsClean` | `[]NothingLeftBehind` |
| `OrdersAreKept` | `[]OrdersArePrefix`, provided no writer is matched before the callbacks are set (`~EarlyMatch`) |
| `ConfigIsFaithful` | `[]ConfigMeansEnvironment` |

The invariant ties everything to the main thread's position: in each phase it says
which entities exist (exactly the prefix of the set-up, or what the teardown has not
reached yet), which callbacks are set, which threads have been started, ended or joined,
and that a thread inside a write is where it publishes.  `EntitiesNested` and
`NodeWhole` alone are not inductive: that no thread runs in the teardown is known only
from `join`, and what a half-built channel contains only from where the set-up failed.
`OrdersAreKept` has a second invariant about the queue, the engine's history and the
listener that holds a sample.

| Theorem of `PeerTableProofs` | States |
|---|---|
| `TypeCorrect` | `[]TypeOK` |
| `NoFalseAlarm` | `[]OfflineMeansSilent` |
| `TelemetryInOrder` | `AcceptedInOrder` |
| `BlackoutIsBounded` | `[]BlackoutBounded` |

`TelemetryInOrder` rests on a bound of what can still be in flight: a packet of an
earlier run is gone before the next run sends (`MinDown > MaxDelay`), a packet of the
current one is at most `age` numbers behind the sender, and so never far enough behind
the last accepted one to look like a restart (`Threshold >= MaxDelay`); where the table
was reset on a return, the silence of the whole time-out (`Timeout > MaxDelay`) says that
nothing older is left.  `BlackoutIsBounded` counts: the rejected fresh numbers of a run
lie in an interval of `Threshold + 1`, because one below it would be a backward jump.

| Theorem of `GcsVotingProofs` | States | Provided |
|---|---|---|
| `GcsTypeCorrect` | `[]GcsTypeOK` | |
| `OrdersAreForCommitted` | `[]NoOrderForAborted` | `~TornReads` |
| `RefusersAreNotOrdered` | `NoRefuserOrdered` | `~TornReads` |
| `OrdersAreUnanimous` | `OrderNeedsUnanimity` | `~TornReads`, `MaxEpochs <= 1` |
| `VotingImplementsCommit` | `CommitSpec` | `~TornReads`, `MaxEpochs <= 1` |
| `RoundsAreAlive` | `[]RoundIsAlive` | `~PeersGetLost` |

Each proviso is where the code stops keeping the promise, not where the proof does:
without it there is a counterexample (section 5).  The invariant `VotingInv` holds with no
proviso at all.  Its subject is a transaction number on its way from the main thread
through the request slot and the ConsensusTask to the recorded outcome.  `RoundInv` and
`TasksInv` say that the number is in one of these places at a time and that earlier places
hold larger numbers (`BallotOf`: a task's number is above the recorded one; `Upcoming`: the
controller's number has not reached the queue yet).  So an outcome with the controller's
number can only come from the task the controller asked for, with the voters it asked.
`DronesInv` follows the votes: every ACK, on the topic, in the command queue or on a ballot,
was given by the drone it names (`Agreed`), and while the GCS is started once
(`MaxEpochs <= 1`) it was given for this very proposal.  `IInv` of `TaskEngineProofs` is a
conjunct, for it makes a COMMITTED result mean that every ballot holds an ACK.  `OrdersInv`
adds, for whole copies, that an order's number is not above the recorded one and that the
recorded result of an ordered number is COMMITTED; `AliveInv`, without lost peers, that
nothing clears the engine's queue.  `VotingImplementsCommit` maps each action to a step of
`MissionCommit` or a stutter: `BeginProposal` to the proposal, `AnswerProposal` of an ACK to
the agreement, `ReadOutcome` to the order or the refusal.

| Theorem of `VehicleProofs` | States |
|---|---|
| `VehicleTypeCorrect` | `[](VehicleTypeOK /\ TypeOK)` |
| `StandsUnlessFlying` | `[]StoppedUnlessFlying` |
| `TargetsAreNotPassed` | `NeverPassesTarget` |
| `MissionsEndAtTarget` | `MissionEndsAtTarget` |

These hold for any number of orders, any targets, tolerance and lateness of the turns.
`own_state_` and the queue are written in different places, and `region_reached_` is a field
of the task that the model keeps beside the queue.  `FlightInv` ties them together: a
velocity means that the started head is a mission that has not arrived, and
`region_reached` is only true while that mission is at work with the vehicle at its target.
One lemma (`RunOutcome`) says what a task's `run` can do to the vehicle, a second set
(`Carries`) which helpers keep every mission in the queue, and `RunActiveKeepsIInv` of
`TaskEngineProofs` that the engine's invariant survives a `run` that ends whenever it likes.

`ConfigIsFaithful` of `NodeProcessProofs` states `[]ConfigMeansEnvironment` for any set of
environments (`TextsAssumption` gives the type of a text) and any width of an unsigned
long that is above every limit (`UlongAssumption`): a configuration that is accepted has
the numbers `std::stoul` reads, a negative one taken modulo that width, and the limits of
`Fields` keep the casts to 8 and 16 bits from cutting a number, however large it was.

**Only model-checked.**  All liveness, because TLAPS does not reason about `ENABLED`:
`MissionLeavesQueue`, `EmergencyLands`, `VotingEnds`, `DeathIsNoticed`,
`ShutdownCompletes`, `OrderReachesEngine`.  `EngineSpec`, because it states fairness, and
because its safety part depends on the lengths of the flights and so on `MaxRounds`.

## 5. Where code and comments disagree

Each of the first five has a run whose counterexample shows it; `PROJECT.json` quotes the
lines.

1. `GcsVotingStuck`: a drone that falls silent during a vote is an emergency for
   the GCS too; clearing the queue drops the ConsensusTask without an outcome
   and the controller stays in VOTING.
2. `GcsTornRead`: the outcome is written and copied without a lock.
3. `OrderLostAtStart`: the readers exist before the callbacks are set, and the listener
   drops what it takes in between.
4. `HeartbeatDangling`: Thread 1 uses the engine's task without a lock.
5. `DroneMissionInEmergency`: orders are accepted in an emergency and flown after
   the landing.

Four more are visible in the same modules and have no run of their own:

- With `MaxEpochs = 2` and without torn reads, `GcsVoting` violates `OrderNeedsUnanimity`:
  transaction ids repeat after a restart of the GCS and retained votes are counted, when
  one is delivered only after the new process has asked for its first round (`gcs_loop`
  waits 8 s for discovery before it does, and a vote that comes in sooner is dropped).
  (`GcsRestartSafe` and the theorem `RefusersAreNotOrdered` show what still holds.)
- A vote that is taken before the ConsensusTask is at the head is dropped
  (`CountVote`), so a round can time out although every ACK came in.
- An emergency that is over during the assessment still lands the vehicle: nothing in
  `CheckEmergency` takes the queued LandingTask out.
- A text that is not a number is an error (`test_config_from_env.cpp:138`), but
  `read_config_from_env` looks neither at how much of it `std::stoul` has used nor at its
  sign (`Stoul`, `Refused`): `DRONE_ID=1x` is drone 1, and -18446744073709551615 wraps to 1.

## 6. Not modelled, and the plan

Not modelled: init, discovery and hover tasks (no code outside the tests creates them),
logging, TCP descriptors and locators (no state of the program), message layouts, the
coordinates in telemetry (no code reads them), the altitude (never above 0).

Next, in this order:

1. `Swarm`: several drones' engines, the GCS and the order topic together, with
   restarts of drones; an abstract specification "an ordered mission is flown by every
   drone of its role", as far as the safety of it goes.
2. Proofs about `Swarm`, from the invariants of `TaskEngineProofs` and
   `GcsVotingProofs`.
3. The safety part of `EngineSpec` for flights whose number of turns `MaxRounds` allows.

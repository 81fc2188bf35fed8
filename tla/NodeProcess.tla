---------------------------- MODULE NodeProcess ----------------------------
(***************************************************************************)
(* One swarm_node process from main() to its end: configuration, creation  *)
(* of the DDS entities (each of which may fail), connection of the         *)
(* callbacks, the three threads, SIGTERM at any moment, stop() and the     *)
(* destructor of FastDDSWrapper, with the threads of DDS calling in as     *)
(* soon as a reader exists.  The process can be killed and is then started *)
(* again.  Around it stands the task_alloc topic, on which the ground      *)
(* station's orders are retained (RELIABLE, TRANSIENT_LOCAL) and sent to   *)
(* every reader that appears.                                              *)
(*                                                                         *)
(* What the messages do to the node is TaskEngine's and PeerTable's        *)
(* subject; here a command is either an order, known by its number, or     *)
(* something else that the engine may answer with a vote.                  *)
(***************************************************************************)
EXTENDS Configuration

CONSTANTS
  Environments,  \* the environments in which a process may be started
  EarlyMatch,    \* whether discovery may be faster than connect_dds
  MaxOrders,     \* bound: orders the ground station publishes
  MaxInbox,      \* bound: length of command_queue_
  MaxHeard,      \* bound: consensus messages that reach one run of the process
  MaxStarts      \* bound: starts of the process

ASSUME EarlyMatchAssumption == EarlyMatch \in BOOLEAN

ASSUME TextsAssumption ==
  \A e \in Environments : \A i \in DOMAIN Fields :
    e[Fields[i].name] \in
      [given : BOOLEAN, numeric : BOOLEAN, negative : BOOLEAN, trailing : BOOLEAN, n : Nat]

ASSUME OrderBoundsAssumption ==
  /\ MaxOrders \in Nat
  /\ MaxInbox \in Nat
  /\ MaxHeard \in Nat
  /\ MaxStarts \in Nat

VARIABLES
  node_type,           \* config.node_type once the configuration is read, else "none"
  phase,               \* the main thread's position in main()
  cur,                 \* the channel (or thread) main works on in that phase
  part,                \* the part of the channel main works on
  exit_code,           \* 0, 1, or 2 while main has not decided
  entities,            \* the DDS entities that exist
  callbacks,           \* channels whose callback_ is set
  running,             \* SwarmManager::running_
  shutdown_requested,  \* set by the signal handler
  thread,              \* positions of the three threads
  writing,             \* the threads inside DataWriter::write
  listening,           \* channels whose listener holds a sample it has taken
  command_queue,       \* command_queue_: numbers of orders, Other for the rest
  handled,             \* orders the engine has taken, in this run of the process
  heard,               \* number of consensus messages taken, in this run
  published,           \* number of orders the ground station has published
  next_sample,         \* the order task_alloc sends next; 0 before the match
  starts               \* number of starts so far

mainVars == <<phase, cur, part, exit_code>>
ddsVars == <<entities, callbacks>>
threadVars == <<running, thread, writing>>
listenVars == <<listening, next_sample>>
queueVars == <<command_queue, handled, heard>>
outerVars == <<published, starts>>
vars == <<mainVars, node_type, ddsVars, threadVars, listenVars, queueVars, shutdown_requested,
          outerVars>>

-----------------------------------------------------------------------------
(* The entities of FastDDSWrapper *)

Heartbeat == 1    \* the channels, in the order of setup
Telemetry == 2
TaskAlloc == 3
Consensus == 4
Channels == 1 .. 4

Type == 1         \* the parts of a channel, in the order of setup
Topic == 2
Publisher == 3
Writer == 4
Subscriber == 5
Reader == 6
Parts == 1 .. 6

Participant == <<0, 0>>
Entities == {Participant} \cup (Channels \X Parts)

\* What must exist as long as part p of channel c does.
Needs(c, p) ==
  {Participant} \cup {<<c, q>> : q \in CASE p = Topic -> {Type}
                                         [] p = Writer -> {Publisher, Topic}
                                         [] p = Reader -> {Subscriber, Topic}
                                         [] OTHER -> {}}

\* The topics on which a lost sample is sent again.
Reliable(c) == c \in {TaskAlloc, Consensus}

(* The threads *)

DroneList == 1    \* Thread 1
CommandLoop == 2  \* Thread 2
TaskEngine == 3   \* Thread 3
Threads == 1 .. 3
Main == 0

\* The positions at which a thread publishes, and on what.
Target == [heartbeat |-> Heartbeat, telemetry |-> Telemetry, vote |-> Consensus,
           propose |-> Consensus, order |-> TaskAlloc]

Other == 0        \* a command that is not an order

Phases == {"down", "config", "init", "participant", "setup", "connect", "run", "spawn", "loop",
           "propose", "order", "stop", "join", "teardown", "release", "end"}
ThreadPositions == {"none", "top", "heartbeat", "telemetry", "commands", "vote", "done",
                    "joined"}

-----------------------------------------------------------------------------
(* main(): configuration and FastDDSWrapper::init *)

ReadEnvironment ==
  /\ phase = "config"
  /\ \E e \in Environments :
       IF ReadConfig(e).success
         THEN node_type' = NodeType(e) /\ phase' = "init" /\ UNCHANGED exit_code
         ELSE phase' = "end" /\ exit_code' = 1 /\ UNCHANGED node_type
  /\ UNCHANGED <<cur, part, ddsVars, threadVars, listenVars, queueVars, shutdown_requested,
                 outerVars>>

\* SwarmManager::init: the queues are empty before anyone can reach them.
InitManager ==
  /\ phase = "init"
  /\ phase' = "participant"
  /\ command_queue' = <<>>
  /\ UNCHANGED <<cur, part, exit_code, node_type, ddsVars, threadVars, listenVars, handled, heard,
                 shutdown_requested, outerVars>>

\* main returns 1 and leaves it to the destructor to clean up.
GiveUp ==
  /\ phase' = "teardown"
  /\ exit_code' = 1
  /\ cur' = 1
  /\ part' = Reader
  /\ UNCHANGED entities

CreateParticipant ==
  /\ phase = "participant"
  /\ \/ /\ entities' = entities \cup {Participant}
        /\ phase' = "setup"
        /\ cur' = 1
        /\ part' = Type
        /\ UNCHANGED exit_code
     \/ GiveUp
  /\ UNCHANGED <<node_type, callbacks, threadVars, listenVars, queueVars, shutdown_requested,
                 outerVars>>

\* One call of DdsChannel::setup: the part is created, or init returns false.
SetUpPart ==
  /\ phase = "setup"
  /\ \/ /\ entities' = entities \cup {<<cur, part>>}
        /\ IF part # Reader THEN part' = part + 1 /\ UNCHANGED <<cur, phase>>
           ELSE IF cur # Consensus THEN part' = Type /\ cur' = cur + 1 /\ UNCHANGED phase
           ELSE part' = Type /\ cur' = 1 /\ phase' = "connect"
        /\ UNCHANGED exit_code
     \/ GiveUp
  /\ UNCHANGED <<node_type, callbacks, threadVars, listenVars, queueVars, shutdown_requested,
                 outerVars>>

\* connect_dds: the publishers are set before any thread runs; the callbacks
\* are set one after the other while DDS may already be calling.
SetCallback ==
  /\ phase = "connect"
  /\ callbacks' = callbacks \cup {cur}
  /\ IF cur # Consensus
       THEN cur' = cur + 1 /\ UNCHANGED phase
       ELSE cur' = 1 /\ phase' = "run"
  /\ UNCHANGED <<part, exit_code, node_type, entities, threadVars, listenVars, queueVars,
                 shutdown_requested, outerVars>>

-----------------------------------------------------------------------------
(* main(): run, the loop, stop and the destructor *)

Run ==
  /\ phase = "run"
  /\ ~running
  /\ running' = TRUE
  /\ phase' = "spawn"
  /\ cur' = 1
  /\ UNCHANGED <<part, exit_code, node_type, ddsVars, thread, writing, listenVars, queueVars,
                 shutdown_requested, outerVars>>

Spawn ==
  /\ phase = "spawn"
  /\ thread' = [thread EXCEPT ![cur] = "top"]
  /\ IF cur # TaskEngine
       THEN cur' = cur + 1 /\ UNCHANGED phase
       ELSE cur' = 1 /\ phase' = "loop"
  /\ UNCHANGED <<part, exit_code, node_type, ddsVars, running, writing, listenVars, queueVars,
                 shutdown_requested, outerVars>>

\* The head of gcs_loop and drone_loop.
LoopHead ==
  /\ phase = "loop"
  /\ phase' = IF shutdown_requested THEN "stop"
              ELSE IF node_type = "GCS" THEN "propose"
              ELSE "loop"
  /\ UNCHANGED <<cur, part, exit_code, node_type, ddsVars, threadVars, listenVars, queueVars,
                 shutdown_requested, outerVars>>

\* The body of gcs_loop: a turn that has nothing to propose, or no order to
\* give, passes on.
GcsBody ==
  /\ phase \in {"propose", "order"}
  /\ Main \notin writing
  /\ phase' = IF phase = "propose" THEN "order" ELSE "loop"
  /\ UNCHANGED <<cur, part, exit_code, node_type, ddsVars, threadVars, listenVars, queueVars,
                 shutdown_requested, outerVars>>

\* stop(): the threads are told first and joined afterwards.
Stop ==
  /\ phase = "stop"
  /\ running' = FALSE
  /\ phase' = "join"
  /\ cur' = 1
  /\ UNCHANGED <<part, exit_code, node_type, ddsVars, thread, writing, listenVars, queueVars,
                 shutdown_requested, outerVars>>

HasEndedUnasked(t) == thread[t] # "none"    \* faulty variant: join does not wait
HasEnded(t) == thread[t] = "done"

Join ==
  /\ phase = "join"
  /\ HasEnded(cur)
  /\ thread' = [thread EXCEPT ![cur] = "joined"]
  /\ IF cur # TaskEngine
       THEN cur' = cur + 1 /\ UNCHANGED <<phase, part, exit_code>>
       ELSE cur' = 1 /\ phase' = "teardown" /\ part' = Reader /\ exit_code' = 0
  /\ UNCHANGED <<node_type, ddsVars, running, writing, listenVars, queueVars, shutdown_requested,
                 outerVars>>

PartToDeleteFirstMade == Reader + Topic - part   \* faulty variant: the order of setup
PartToDelete == part

\* One step of DdsChannel::teardown: readers before subscribers, writers before
\* publishers, and the topic last.  What was never created is skipped.
\* Deleting a reader waits for its listener; the type stays registered.
TearDownPart ==
  /\ phase = "teardown"
  /\ PartToDelete = Reader => cur \notin listening
  /\ entities' = entities \ {<<cur, PartToDelete>>}
  /\ IF part # Topic THEN part' = part - 1 /\ UNCHANGED <<cur, phase>>
     ELSE IF cur # Consensus THEN part' = Reader /\ cur' = cur + 1 /\ UNCHANGED phase
     ELSE part' = Reader /\ cur' = 1 /\ phase' = "release"
  /\ UNCHANGED <<exit_code, node_type, callbacks, threadVars, listenVars, queueVars,
                 shutdown_requested, outerVars>>

\* Faulty variant: the participant is forgotten when init did not succeed.
DeletedWithParticipantIfRun == IF exit_code = 0 THEN Entities ELSE Channels \X Parts

\* delete_contained_entities and delete_participant take everything.
DeletedWithParticipant == Entities

DeleteParticipant ==
  /\ phase = "release"
  /\ entities' = entities \ DeletedWithParticipant
  /\ callbacks' = {}
  /\ phase' = "end"
  /\ UNCHANGED <<cur, part, exit_code, node_type, threadVars, listenVars, queueVars,
                 shutdown_requested, outerVars>>

MainStep ==
  \/ ReadEnvironment \/ InitManager \/ CreateParticipant \/ SetUpPart \/ SetCallback
  \/ Run \/ Spawn \/ LoopHead \/ GcsBody \/ Stop \/ Join \/ TearDownPart \/ DeleteParticipant

-----------------------------------------------------------------------------
(* Publishing: DdsChannel::publish checks writer_ and then writes *)

Position(t) == IF t = Main THEN phase ELSE thread[t]

StartWrite(t) ==
  /\ Position(t) \in DOMAIN Target
  /\ t \notin writing
  /\ <<Target[Position(t)], Writer>> \in entities
  /\ writing' = writing \cup {t}
  /\ UNCHANGED <<mainVars, node_type, ddsVars, running, thread, listenVars, queueVars,
                 shutdown_requested, outerVars>>

\* Where a thread goes on after its write.
AfterWrite == [heartbeat |-> "telemetry", telemetry |-> "top", vote |-> "commands",
               propose |-> "order", order |-> "loop"]

FinishWrite(t) ==
  /\ t \in writing
  /\ writing' = writing \ {t}
  /\ IF t = Main
       THEN phase' = AfterWrite[phase] /\ UNCHANGED thread
       ELSE thread' = [thread EXCEPT ![t] = AfterWrite[@]] /\ UNCHANGED phase
  /\ UNCHANGED <<cur, part, exit_code, node_type, ddsVars, running, listenVars, queueVars,
                 shutdown_requested, outerVars>>

-----------------------------------------------------------------------------
(* The three threads *)

GoOnAlways == TRUE      \* faulty variant: while (true)
GoOn == running

\* Where a loop's body begins.
Body == <<"heartbeat", "top", "commands">>

\* while (running_): the sleep between two turns is part of this step.
LoopTop(t) ==
  /\ thread[t] = "top"
  /\ thread' = [thread EXCEPT ![t] = IF GoOn THEN Body[t] ELSE "done"]
  /\ UNCHANGED <<mainVars, node_type, ddsVars, running, writing, listenVars, queueVars,
                 shutdown_requested, outerVars>>

\* Faulty variant: the newest command first.
FrontNewest(q) == [first |-> q[Len(q)], rest |-> SubSeq(q, 1, Len(q) - 1)]
Front(q) == [first |-> Head(q), rest |-> Tail(q)]

\* pop_command in process_pending_commands; the engine may answer with a vote.
TakeCommand ==
  /\ thread[TaskEngine] = "commands"
  /\ command_queue # <<>>
  /\ LET c == Front(command_queue)
     IN  /\ command_queue' = c.rest
         /\ handled' = IF c.first = Other THEN handled ELSE Append(handled, c.first)
         /\ \/ UNCHANGED thread
            \/ c.first = Other /\ thread' = [thread EXCEPT ![TaskEngine] = "vote"]
  /\ UNCHANGED <<mainVars, node_type, ddsVars, running, writing, listenVars, heard,
                 shutdown_requested, outerVars>>

\* pop_command finds nothing: the rest of the turn concerns only the engine.
EndCommands ==
  /\ thread[TaskEngine] = "commands"
  /\ command_queue = <<>>
  /\ thread' = [thread EXCEPT ![TaskEngine] = "top"]
  /\ UNCHANGED <<mainVars, node_type, ddsVars, running, writing, listenVars, queueVars,
                 shutdown_requested, outerVars>>

ThreadStep(t) ==
  \/ LoopTop(t)
  \/ StartWrite(t)
  \/ FinishWrite(t)
  \/ t = TaskEngine /\ (TakeCommand \/ EndCommands)

MainWrite == StartWrite(Main) \/ FinishWrite(Main)

-----------------------------------------------------------------------------
(* DDS: discovery, delivery and the listener *)

FirstSampleVolatile == published + 1    \* faulty variant: durability VOLATILE
FirstSample == 1

\* Discovery brings this node's task_alloc reader and the ground station's
\* writer together; what the writer retains is sent from the beginning.
Match ==
  /\ <<TaskAlloc, Reader>> \in entities
  /\ next_sample = 0
  /\ EarlyMatch \/ TaskAlloc \in callbacks
  /\ next_sample' = FirstSample
  /\ UNCHANGED <<mainVars, node_type, ddsVars, threadVars, listening, queueVars,
                 shutdown_requested, outerVars>>

\* on_data_available: take_next_sample has returned a sample.  A reader that
\* is being deleted gets no further calls.
Receive(c) ==
  /\ <<c, Reader>> \in entities
  /\ c \notin listening
  /\ ~(phase = "teardown" /\ cur = c /\ part = Reader)
  /\ c = TaskAlloc => next_sample \in 1 .. published
  /\ c = Consensus => heard < MaxHeard
  /\ Reliable(c) => Len(command_queue) < MaxInbox
  /\ listening' = listening \cup {c}
  /\ heard' = IF c = Consensus THEN heard + 1 ELSE heard
  /\ UNCHANGED <<mainVars, node_type, ddsVars, threadVars, next_sample, command_queue, handled,
                 shutdown_requested, outerVars>>

\* The rest of the listener: the sample goes to callback_ if there is one, and
\* is gone otherwise.
Deliver(c) ==
  /\ c \in listening
  /\ listening' = listening \ {c}
  /\ next_sample' = IF c = TaskAlloc THEN next_sample + 1 ELSE next_sample
  /\ command_queue' =
       IF c \in callbacks /\ Reliable(c)
         THEN Append(command_queue, IF c = TaskAlloc THEN next_sample ELSE Other)
         ELSE command_queue
  /\ UNCHANGED <<mainVars, node_type, ddsVars, threadVars, handled, heard, shutdown_requested,
                 outerVars>>

DdsStep == Match \/ \E c \in Channels : Receive(c) \/ Deliver(c)

-----------------------------------------------------------------------------
(* The surroundings *)

\* The ground station publishes an order.
PublishOrder ==
  /\ published < MaxOrders
  /\ published' = published + 1
  /\ UNCHANGED <<mainVars, node_type, ddsVars, threadVars, listenVars, queueVars,
                 shutdown_requested, starts>>

\* SIGINT or SIGTERM reaches signal_handler.
Signal ==
  /\ phase \notin {"down", "end"}
  /\ shutdown_requested' = TRUE
  /\ UNCHANGED <<mainVars, node_type, ddsVars, threadVars, listenVars, queueVars, outerVars>>

\* Nothing of a process survives it.
Fresh ==
  /\ node_type' = "none"
  /\ cur' = 1
  /\ part' = Type
  /\ exit_code' = 2
  /\ entities' = {}
  /\ callbacks' = {}
  /\ running' = FALSE
  /\ shutdown_requested' = FALSE
  /\ thread' = [t \in Threads |-> "none"]
  /\ writing' = {}
  /\ listening' = {}
  /\ next_sample' = 0
  /\ command_queue' = <<>>
  /\ handled' = <<>>
  /\ heard' = 0

Kill ==
  /\ phase \notin {"down", "end"}
  /\ phase' = "down"
  /\ Fresh
  /\ UNCHANGED outerVars

Start ==
  /\ phase \in {"down", "end"}
  /\ starts < MaxStarts
  /\ starts' = starts + 1
  /\ phase' = "config"
  /\ Fresh
  /\ UNCHANGED published

\* A process that has ended and is not started again.
StaysDown == phase \in {"down", "end"} /\ starts = MaxStarts /\ UNCHANGED vars

Surroundings == PublishOrder \/ Signal \/ Kill \/ Start \/ StaysDown

-----------------------------------------------------------------------------
Init ==
  /\ node_type = "none"
  /\ phase = "down"
  /\ cur = 1
  /\ part = Type
  /\ exit_code = 2
  /\ entities = {}
  /\ callbacks = {}
  /\ running = FALSE
  /\ shutdown_requested = FALSE
  /\ thread = [t \in Threads |-> "none"]
  /\ writing = {}
  /\ listening = {}
  /\ next_sample = 0
  /\ command_queue = <<>>
  /\ handled = <<>>
  /\ heard = 0
  /\ published = 0
  /\ starts = 0

Next ==
  \/ MainStep
  \/ MainWrite
  \/ \E t \in Threads : ThreadStep(t)
  \/ DdsStep
  \/ Surroundings

Spec == Init /\ [][Next]_vars

\* Every thread goes on, and what is published on a reliable topic is delivered
\* in the end, however often the queue is full when it comes.
Fairness ==
  /\ WF_vars(MainStep)
  /\ WF_vars(FinishWrite(Main))
  /\ \A t \in Threads : WF_vars(ThreadStep(t))
  /\ WF_vars(Match)
  /\ \A c \in Channels : WF_vars(Deliver(c))
  /\ SF_vars(Receive(TaskAlloc))

FairSpec == Spec /\ Fairness

-----------------------------------------------------------------------------
(* Properties *)

\* Types of all variables; positions are main.cpp:179-241.
TypeOK ==
  /\ node_type \in {"none", "DRONE", "GCS"}
  /\ phase \in Phases
  /\ cur \in Channels
  /\ part \in Parts
  /\ exit_code \in 0 .. 2
  /\ entities \subseteq Entities
  /\ callbacks \subseteq Channels
  /\ running \in BOOLEAN
  /\ shutdown_requested \in BOOLEAN
  /\ thread \in [Threads -> ThreadPositions]
  /\ writing \subseteq Threads \cup {Main}
  /\ listening \subseteq Channels
  /\ command_queue \in Seq(Nat)
  /\ handled \in Seq(Nat)
  /\ heard \in Nat
  /\ published \in Nat
  /\ next_sample \in Nat
  /\ starts \in Nat

\* Wherever a set-up fails and whenever the process ends, DDS is never asked
\* to delete an entity that another one still needs: "first the inner entities,
\* then those that contain them" (fastdds_wrapper.cpp:154).
EntitiesNested ==
  \A c \in Channels, p \in Parts :
    <<c, p>> \in entities => Needs(c, p) \subseteq entities

Alive(t) == thread[t] \notin {"none", "done", "joined"}

\* The threads and gcs_loop capture the wrapper by reference: as long as one of
\* them can run, every entity and every callback is there; a listener is only
\* called for a reader that exists.
NodeWhole ==
  /\ (\E t \in Threads : Alive(t)) \/ Main \in writing =>
       entities = Entities /\ callbacks = Channels
  /\ \A t \in writing : /\ Position(t) \in DOMAIN Target
                         /\ <<Target[Position(t)], Writer>> \in entities
  /\ \A c \in listening : <<c, Reader>> \in entities

\* However main returns, after a failed set-up or after stop(), no entity is
\* left, no thread is joinable and no call of the wrapper is under way.
NothingLeftBehind ==
  phase = "end" =>
    /\ entities = {}
    /\ writing = {} /\ listening = {}
    /\ \A t \in Threads : thread[t] \in {"none", "joined"}

\* "100 % delivery, the loss of an order is not acceptable"
\* (fastdds_wrapper.cpp:237-239): every order that DDS has handed to the process
\* has come to the engine or waits for it in the queue, each once and in the
\* order of publication.
OrdersArePrefix ==
  LET n == Len(handled)
      place == 1 .. Len(command_queue)
  IN  /\ \A i \in 1 .. n : handled[i] = i
      /\ n < next_sample \/ n = 0
      /\ next_sample <= published + 1
      /\ \A i \in place : command_queue[i] = Other \/ command_queue[i] \in n + 1 .. next_sample - 1
      /\ \A o \in n + 1 .. next_sample - 1 : \E i \in place : command_queue[i] = o
      /\ \A i, j \in place : i < j /\ command_queue[j] # Other => command_queue[i] < command_queue[j]

\* What a text says: the number in it, which a minus sign takes modulo the
\* width of an unsigned long; without a text it is the default.
Says(text, value, default) ==
  IF ~text.given THEN value = default
  ELSE /\ text.numeric
       /\ IF text.negative THEN (value + text.n) % UlongModulus = 0 ELSE value = text.n

\* Configuration c says what environment e says: an absent number has its
\* default, and TCP is on exactly when the node knows its address and a port
\* other than 0.
Means(c, e) ==
  /\ Says(e["DRONE_ID"], c.drone_id, 0)
  /\ Says(e["ROS_DOMAIN_ID"], c.domain_id, 42)
  /\ Says(e["INITIAL_BATTERY"], c.battery, 100) /\ c.battery <= 100
  /\ c.fault_silent_consensus => Says(e["FAULT_SILENT_CONSENSUS"], 1, 0)
  /\ ~c.fault_silent_consensus => Says(e["FAULT_SILENT_CONSENSUS"], 0, 0)
  /\ c.tcp.enabled <=> e["NODE_IP"] # ""
  /\ c.tcp.enabled => /\ c.tcp.listening_port > 0
                      /\ Says(e["TCP_PORT"], c.tcp.listening_port, 5100)
  /\ c.node_type = "DRONE" => e["ROLE"] \in {"", c.role}

\* A configuration that is accepted says what std::stoul reads in the
\* environment: no number is cut to the width of its field.
ConfigMeansEnvironment ==
  phase = "config" =>
    \A e \in Environments : ReadConfig(e).success => Means(ReadConfig(e), e)

\* Ctrl-C and docker stop end the process in an orderly way from wherever it is
\* (main.cpp:38-39): the threads are joined and main returns.
ShutdownCompletes == shutdown_requested ~> phase \in {"end", "down"}

\* "So that a drone that joins after the order was published still sees it"
\* (fastdds_wrapper.cpp:242-244): also after a restart every order comes to the
\* engine of a node that keeps running.
OrderReachesEngine == running ~> ~running \/ Len(handled) = published
=============================================================================

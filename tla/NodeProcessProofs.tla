------------------------- MODULE NodeProcessProofs -------------------------
(***************************************************************************)
(* Proofs of NodeProcess, for every set of environments, early or late     *)
(* discovery and any bounds.                                               *)
(*                                                                         *)
(* The inductive invariant IInv says what exists at each position of       *)
(* main(): setup has made everything before (cur, part), teardown has      *)
(* deleted everything from there on, in between all of it is there; and    *)
(* the threads are alive only in between.                                  *)
(***************************************************************************)
EXTENDS NodeProcess, TLAPS

\* The phases in which the node is connected and threads may be alive.
Wired == {"spawn", "loop", "propose", "order", "stop", "join"}

EntitiesInv ==
  /\ entities \subseteq Entities
  /\ phase \in {"down", "config", "init", "participant", "end"} => entities = {}
  /\ phase = "setup" =>
       /\ Participant \in entities
       /\ \A c \in Channels, p \in Parts :
            c < cur \/ (c = cur /\ p < part) => <<c, p>> \in entities
  /\ phase \in {"connect", "run"} \cup Wired => entities = Entities
  /\ phase = "teardown" =>
       \A c \in Channels, p \in Parts :
         (c < cur /\ p # Type) \/ (c = cur /\ p > part) => <<c, p>> \notin entities
  /\ phase = "release" =>
       \A c \in Channels, p \in Parts : p # Type => <<c, p>> \notin entities

CallbacksInv ==
  /\ phase = "connect" => \A c \in Channels : c < cur => c \in callbacks
  /\ phase \in {"run"} \cup Wired => callbacks = Channels

ThreadsInv ==
  /\ phase \in {"spawn", "join"} => cur \in Threads
  /\ phase = "teardown" => part # Type
  /\ phase = "spawn" => \A t \in Threads : t >= cur => thread[t] \in {"none", "joined"}
  /\ phase \notin Wired => \A t \in Threads : thread[t] \in {"none", "joined"}
  /\ phase = "join" => \A t \in Threads : t < cur => thread[t] = "joined"

WritersInv ==
  /\ \A t \in Threads : t \in writing => thread[t] \in {"heartbeat", "telemetry", "vote"}
  /\ Main \in writing => phase \in {"propose", "order"}

ListenersInv == \A c \in listening : <<c, Reader>> \in entities

IInv ==
  /\ TypeOK
  /\ EntitiesInv
  /\ EntitiesNested
  /\ CallbacksInv
  /\ ThreadsInv
  /\ WritersInv
  /\ ListenersInv

USE DEF Channels, Parts, Threads, Main, Heartbeat, Telemetry, TaskAlloc, Consensus,
        Type, Topic, Publisher, Writer, Subscriber, Reader, Participant, Other,
        DroneList, CommandLoop, TaskEngine

-----------------------------------------------------------------------------
(* Entities *)

\* What a part needs is made before it.
LEMMA NeedsAreEarlier ==
  ASSUME NEW c \in Channels, NEW p \in Parts, NEW e \in Needs(c, p)
  PROVE  e = Participant \/ \E q \in Parts : q < p /\ e = <<c, q>>
BY DEF Needs

\* Of the parts that teardown deletes, what needs one is deleted before it.
LEMMA NeedersAreLater ==
  ASSUME NEW c \in Channels, NEW p \in Parts, NEW d \in Channels, NEW q \in Parts,
         <<c, p>> \in Needs(d, q)
  PROVE  d = c /\ q > p
<1>1. PICK r \in Parts : r < q /\ <<c, p>> = <<d, r>>
  BY NeedsAreEarlier
<1> QED BY <1>1

LEMMA EmptyQueue == <<>> \in Seq(Nat)
OBVIOUS

LEMMA InitIInv == Init => IInv
<1> SUFFICES ASSUME Init PROVE IInv
  OBVIOUS
<1> USE DEF Init
<1>1. TypeOK
  <2>1. phase \in Phases /\ node_type \in {"none", "DRONE", "GCS"}
    BY DEF Phases
  <2>2. cur \in Channels /\ part \in Parts /\ exit_code \in 0 .. 2
    OBVIOUS
  <2>3. thread \in [Threads -> ThreadPositions]
    BY DEF ThreadPositions
  <2>4. command_queue \in Seq(Nat) /\ handled \in Seq(Nat)
    BY EmptyQueue
  <2>5. /\ entities \subseteq Entities /\ callbacks \subseteq Channels
        /\ writing \subseteq Threads \cup {Main} /\ listening \subseteq Channels
    OBVIOUS
  <2>6. /\ running \in BOOLEAN /\ shutdown_requested \in BOOLEAN
        /\ heard \in Nat /\ published \in Nat /\ next_sample \in Nat /\ starts \in Nat
    OBVIOUS
  <2> HIDE DEF Init
  <2> QED BY <2>1, <2>2, <2>3, <2>4, <2>5, <2>6 DEF TypeOK
<1>2. EntitiesInv /\ EntitiesNested
  BY DEF EntitiesInv, EntitiesNested, Wired
<1>3. CallbacksInv /\ ThreadsInv /\ WritersInv /\ ListenersInv
  BY DEF CallbacksInv, ThreadsInv, WritersInv, ListenersInv, Wired
<1> QED BY <1>1, <1>2, <1>3 DEF IInv

\* Kill and Start leave a process of which nothing exists.
LEMMA FreshIsSafe ==
  ASSUME IInv, Fresh, phase' \in {"down", "config"}, published' = published,
         starts' \in Nat
  PROVE  IInv'
<1> USE DEF Fresh
<1>1. TypeOK'
  <2>1. phase' \in Phases /\ node_type' \in {"none", "DRONE", "GCS"}
    BY DEF Phases
  <2>2. cur' \in Channels /\ part' \in Parts /\ exit_code' \in 0 .. 2
    OBVIOUS
  <2>3. thread' \in [Threads -> ThreadPositions]
    BY DEF ThreadPositions
  <2>4. command_queue' \in Seq(Nat) /\ handled' \in Seq(Nat)
    BY EmptyQueue
  <2>5. /\ entities' \subseteq Entities /\ callbacks' \subseteq Channels
        /\ writing' \subseteq Threads \cup {Main} /\ listening' \subseteq Channels
    OBVIOUS
  <2>6. /\ running' \in BOOLEAN /\ shutdown_requested' \in BOOLEAN
        /\ heard' \in Nat /\ published' \in Nat /\ next_sample' \in Nat /\ starts' \in Nat
    BY DEF IInv, TypeOK
  <2> HIDE DEF Fresh
  <2> QED BY <2>1, <2>2, <2>3, <2>4, <2>5, <2>6 DEF TypeOK
<1>2. EntitiesInv' /\ EntitiesNested'
  BY DEF EntitiesInv, EntitiesNested, Wired
<1>3. CallbacksInv' /\ ThreadsInv' /\ WritersInv' /\ ListenersInv'
  BY DEF CallbacksInv, ThreadsInv, WritersInv, ListenersInv, Wired
<1> QED BY <1>1, <1>2, <1>3 DEF IInv

-----------------------------------------------------------------------------
(* main(): until the node is connected *)

LEMMA ReadEnvironmentKeepsIInv == IInv /\ ReadEnvironment => IInv'
<1> SUFFICES ASSUME IInv, ReadEnvironment PROVE IInv'
  OBVIOUS
<1> USE DEF ReadEnvironment, ddsVars, threadVars, listenVars, queueVars, outerVars
<1>0. /\ phase = "config" /\ phase' \in {"init", "end"} /\ exit_code' \in 0 .. 2
      /\ node_type' \in {"none", "DRONE", "GCS"}
  BY DEF IInv, TypeOK, NodeType
<1>1. TypeOK'
  BY <1>0 DEF IInv, TypeOK, Phases
<1>2. EntitiesInv' /\ EntitiesNested'
  BY <1>0 DEF IInv, EntitiesInv, EntitiesNested, Wired
<1>3. CallbacksInv' /\ ThreadsInv' /\ WritersInv' /\ ListenersInv'
  BY <1>0 DEF IInv, CallbacksInv, ThreadsInv, WritersInv, ListenersInv, Wired
<1> QED BY <1>1, <1>2, <1>3 DEF IInv

LEMMA InitManagerKeepsIInv == IInv /\ InitManager => IInv'
<1> SUFFICES ASSUME IInv, InitManager PROVE IInv'
  OBVIOUS
<1> USE DEF InitManager, ddsVars, threadVars, listenVars, queueVars, outerVars
<1>1. TypeOK'
  BY DEF IInv, TypeOK, Phases
<1>2. EntitiesInv' /\ EntitiesNested'
  BY DEF IInv, EntitiesInv, EntitiesNested, Wired
<1>3. CallbacksInv' /\ ThreadsInv' /\ WritersInv' /\ ListenersInv'
  BY DEF IInv, CallbacksInv, ThreadsInv, WritersInv, ListenersInv, Wired
<1> QED BY <1>1, <1>2, <1>3 DEF IInv

\* A failed set-up hands what there is to the destructor, which starts with
\* the first channel's reader.
LEMMA GiveUpIsSafe ==
  ASSUME IInv, GiveUp, phase \in {"participant", "setup"},
         UNCHANGED <<node_type, callbacks, threadVars, listenVars, queueVars,
                     shutdown_requested, outerVars>>
  PROVE  IInv'
<1> USE DEF GiveUp, threadVars, listenVars, queueVars, outerVars
<1>1. TypeOK'
  BY DEF IInv, TypeOK, Phases
<1>2. EntitiesInv' /\ EntitiesNested'
  BY DEF IInv, EntitiesInv, EntitiesNested, Wired
<1>3. CallbacksInv' /\ ThreadsInv' /\ WritersInv' /\ ListenersInv'
  BY DEF IInv, CallbacksInv, ThreadsInv, WritersInv, ListenersInv, Wired
<1> QED BY <1>1, <1>2, <1>3 DEF IInv

LEMMA CreateParticipantKeepsIInv == IInv /\ CreateParticipant => IInv'
<1> SUFFICES ASSUME IInv, CreateParticipant, ~GiveUp PROVE IInv'
  BY GiveUpIsSafe DEF CreateParticipant
<1> USE DEF CreateParticipant, threadVars, listenVars, queueVars, outerVars
<1>0. /\ phase = "participant" /\ phase' = "setup" /\ cur' = 1 /\ part' = 1
      /\ entities = {} /\ entities' = {<<0, 0>>} /\ exit_code' = exit_code
  BY DEF IInv, EntitiesInv
<1>1. TypeOK'
  BY <1>0 DEF IInv, TypeOK, Phases, Entities
<1>2. EntitiesInv' /\ EntitiesNested'
  BY <1>0 DEF IInv, EntitiesInv, EntitiesNested, Wired, Entities
<1>3. CallbacksInv' /\ ThreadsInv' /\ WritersInv' /\ ListenersInv'
  BY <1>0 DEF IInv, CallbacksInv, ThreadsInv, WritersInv, ListenersInv, Wired
<1> QED BY <1>1, <1>2, <1>3 DEF IInv

\* setup creates the parts in an order in which what a part needs is there.
LEMMA SetUpPartKeepsIInv == IInv /\ SetUpPart => IInv'
<1> SUFFICES ASSUME IInv, SetUpPart, ~GiveUp PROVE IInv'
  BY GiveUpIsSafe DEF SetUpPart
<1>0. /\ phase = "setup" /\ entities' = entities \cup {<<cur, part>>}
      /\ exit_code' = exit_code
      /\ \/ part # 6 /\ part' = part + 1 /\ cur' = cur /\ phase' = "setup"
         \/ part = 6 /\ cur # 4 /\ part' = 1 /\ cur' = cur + 1 /\ phase' = "setup"
         \/ part = 6 /\ cur = 4 /\ part' = 1 /\ cur' = 1 /\ phase' = "connect"
      /\ UNCHANGED <<node_type, callbacks, threadVars, listenVars, queueVars, shutdown_requested,
                     outerVars>>
  BY DEF SetUpPart
<1> USE DEF threadVars, listenVars, queueVars, outerVars
<1>1. cur \in Channels /\ part \in Parts /\ entities \subseteq Entities
      /\ <<cur, part>> \in Entities
  BY DEF IInv, TypeOK, Entities
<1>2. TypeOK'
  <2>1. phase' \in Phases /\ cur' \in Channels /\ part' \in Parts
    BY <1>0, <1>1 DEF Phases
  <2>2. entities' \subseteq Entities
    BY <1>0, <1>1
  <2> QED BY <2>1, <2>2, <1>0 DEF IInv, TypeOK
<1>3. /\ Participant \in entities
      /\ \A c \in Channels, p \in Parts :
           c < cur \/ (c = cur /\ p < part) => <<c, p>> \in entities
  BY <1>0 DEF IInv, EntitiesInv
<1>4. EntitiesInv'
  <2>1. CASE part # 6
    BY <1>0, <1>1, <1>3, <2>1 DEF EntitiesInv, Wired
  <2>2. CASE part = 6 /\ cur # 4
    BY <1>0, <1>1, <1>3, <2>2 DEF EntitiesInv, Wired
  <2>3. CASE part = 6 /\ cur = 4
    <3>1. \A c \in Channels, p \in Parts : <<c, p>> \in entities'
      BY <1>0, <1>1, <1>3, <2>3
    <3>2. entities' = Entities
      BY <3>1, <1>0, <1>1, <1>3 DEF Entities
    <3> QED BY <1>0, <2>3, <3>2 DEF EntitiesInv, Wired
  <2> QED BY <2>1, <2>2, <2>3
<1>5. EntitiesNested'
  <2> SUFFICES ASSUME NEW c \in Channels, NEW p \in Parts, <<c, p>> \in entities',
                      NEW e \in Needs(c, p)
               PROVE  e \in entities'
    BY DEF EntitiesNested
  <2>1. CASE <<c, p>> \in entities
    BY <2>1, <1>0 DEF IInv, EntitiesNested
  <2>2. CASE c = cur /\ p = part
    BY <2>2, <1>0, <1>1, <1>3, NeedsAreEarlier
  <2> QED BY <2>1, <2>2, <1>0
<1>6. CallbacksInv' /\ ThreadsInv' /\ WritersInv' /\ ListenersInv'
  BY <1>0, <1>1 DEF IInv, CallbacksInv, ThreadsInv, WritersInv, ListenersInv, Wired
<1> QED BY <1>2, <1>4, <1>5, <1>6 DEF IInv

LEMMA SetCallbackKeepsIInv == IInv /\ SetCallback => IInv'
<1> SUFFICES ASSUME IInv, SetCallback PROVE IInv'
  OBVIOUS
<1> USE DEF SetCallback, threadVars, listenVars, queueVars, outerVars
<1>0. /\ phase = "connect" /\ callbacks' = callbacks \cup {cur} /\ entities' = entities
      /\ \/ cur # 4 /\ cur' = cur + 1 /\ phase' = "connect"
         \/ cur = 4 /\ cur' = 1 /\ phase' = "run"
  OBVIOUS
<1>1. cur \in Channels /\ callbacks \subseteq Channels
  BY DEF IInv, TypeOK
<1>2. TypeOK'
  BY <1>0, <1>1 DEF IInv, TypeOK, Phases
<1>3. EntitiesInv' /\ EntitiesNested'
  BY <1>0, <1>1 DEF IInv, EntitiesInv, EntitiesNested, Wired
<1>4. CallbacksInv'
  <2>1. \A c \in Channels : c < cur => c \in callbacks
    BY <1>0 DEF IInv, CallbacksInv
  <2>2. CASE cur # 4
    BY <2>1, <2>2, <1>0, <1>1 DEF CallbacksInv, Wired
  <2>3. CASE cur = 4
    <3>1. callbacks' = Channels
      <4>1. \A c \in Channels : c \in callbacks'
        BY <2>1, <2>3, <1>0
      <4>2. callbacks' \subseteq Channels
        BY <1>0, <1>1
      <4> QED BY <4>1, <4>2
    <3> QED BY <3>1, <2>3, <1>0 DEF CallbacksInv, Wired
  <2> QED BY <2>2, <2>3
<1>5. ThreadsInv' /\ WritersInv' /\ ListenersInv'
  BY <1>0, <1>1 DEF IInv, ThreadsInv, WritersInv, ListenersInv, Wired
<1> QED BY <1>2, <1>3, <1>4, <1>5 DEF IInv

-----------------------------------------------------------------------------
(* main(): the threads run *)

LEMMA RunKeepsIInv == IInv /\ Run => IInv'
<1> SUFFICES ASSUME IInv, Run PROVE IInv'
  OBVIOUS
<1> USE DEF Run, ddsVars, listenVars, queueVars, outerVars
<1>1. TypeOK'
  BY DEF IInv, TypeOK, Phases
<1>2. EntitiesInv' /\ EntitiesNested'
  BY DEF IInv, EntitiesInv, EntitiesNested, Wired
<1>3. CallbacksInv' /\ ThreadsInv' /\ WritersInv' /\ ListenersInv'
  BY DEF IInv, CallbacksInv, ThreadsInv, WritersInv, ListenersInv, Wired
<1> QED BY <1>1, <1>2, <1>3 DEF IInv

LEMMA SpawnKeepsIInv == IInv /\ Spawn => IInv'
<1> SUFFICES ASSUME IInv, Spawn PROVE IInv'
  OBVIOUS
<1>0. /\ phase = "spawn" /\ cur \in Threads
      /\ \/ cur # 3 /\ cur' = cur + 1 /\ phase' = "spawn"
         \/ cur = 3 /\ cur' = 1 /\ phase' = "loop"
      /\ thread \in [Threads -> ThreadPositions] /\ thread' = [thread EXCEPT ![cur] = "top"]
      /\ UNCHANGED <<part, exit_code, node_type, ddsVars, running, writing, listenVars, queueVars,
                     shutdown_requested, outerVars>>
  BY DEF Spawn, IInv, ThreadsInv, TypeOK
<1> USE DEF ddsVars, listenVars, queueVars, outerVars
<1>1. TypeOK'
  BY <1>0 DEF IInv, TypeOK, Phases, ThreadPositions
<1>2. EntitiesInv' /\ EntitiesNested'
  BY <1>0 DEF IInv, EntitiesInv, EntitiesNested, Wired
<1>3. cur \notin writing
  BY <1>0 DEF IInv, ThreadsInv, WritersInv
<1>4. CallbacksInv' /\ WritersInv' /\ ListenersInv'
  BY <1>0, <1>3 DEF IInv, CallbacksInv, WritersInv, ListenersInv, Wired
<1>5. ThreadsInv'
  BY <1>0 DEF IInv, ThreadsInv, Wired
<1> QED BY <1>1, <1>2, <1>4, <1>5 DEF IInv

LEMMA LoopHeadKeepsIInv == IInv /\ LoopHead => IInv'
<1> SUFFICES ASSUME IInv, LoopHead PROVE IInv'
  OBVIOUS
<1>0. /\ phase = "loop" /\ phase' \in {"loop", "propose", "stop"}
      /\ UNCHANGED <<cur, part, exit_code, node_type, ddsVars, threadVars, listenVars, queueVars,
                     shutdown_requested, outerVars>>
  BY DEF LoopHead
<1> USE DEF ddsVars, threadVars, listenVars, queueVars, outerVars
<1>1. TypeOK'
  BY <1>0 DEF IInv, TypeOK, Phases
<1>2. EntitiesInv' /\ EntitiesNested'
  BY <1>0 DEF IInv, EntitiesInv, EntitiesNested, Wired
<1>3. CallbacksInv' /\ ThreadsInv' /\ WritersInv' /\ ListenersInv'
  BY <1>0 DEF IInv, CallbacksInv, ThreadsInv, WritersInv, ListenersInv, Wired
<1> QED BY <1>1, <1>2, <1>3 DEF IInv

LEMMA GcsBodyKeepsIInv == IInv /\ GcsBody => IInv'
<1> SUFFICES ASSUME IInv, GcsBody PROVE IInv'
  OBVIOUS
<1>0. /\ phase \in {"propose", "order"} /\ phase' \in {"order", "loop"} /\ Main \notin writing
      /\ UNCHANGED <<cur, part, exit_code, node_type, ddsVars, threadVars, listenVars, queueVars,
                     shutdown_requested, outerVars>>
  BY DEF GcsBody
<1> USE DEF ddsVars, threadVars, listenVars, queueVars, outerVars
<1>1. TypeOK'
  BY <1>0 DEF IInv, TypeOK, Phases
<1>2. EntitiesInv' /\ EntitiesNested'
  BY <1>0 DEF IInv, EntitiesInv, EntitiesNested, Wired
<1>3. CallbacksInv' /\ ThreadsInv' /\ WritersInv' /\ ListenersInv'
  BY <1>0 DEF IInv, CallbacksInv, ThreadsInv, WritersInv, ListenersInv, Wired
<1> QED BY <1>1, <1>2, <1>3 DEF IInv

LEMMA StopKeepsIInv == IInv /\ Stop => IInv'
<1> SUFFICES ASSUME IInv, Stop PROVE IInv'
  OBVIOUS
<1>0. /\ phase = "stop" /\ phase' = "join" /\ cur' = 1 /\ running' = FALSE
      /\ UNCHANGED <<part, exit_code, node_type, ddsVars, thread, writing, listenVars, queueVars,
                     shutdown_requested, outerVars>>
  BY DEF Stop
<1> USE DEF ddsVars, listenVars, queueVars, outerVars
<1>1. TypeOK'
  <2>1. phase' \in Phases /\ cur' \in Channels
    BY <1>0 DEF Phases
  <2>2. running' \in BOOLEAN
    BY <1>0
  <2> QED BY <2>1, <2>2, <1>0 DEF IInv, TypeOK
<1>2. EntitiesInv' /\ EntitiesNested'
  BY <1>0 DEF IInv, EntitiesInv, EntitiesNested, Wired
<1>3. CallbacksInv' /\ ThreadsInv' /\ WritersInv' /\ ListenersInv'
  BY <1>0 DEF IInv, CallbacksInv, ThreadsInv, WritersInv, ListenersInv, Wired
<1> QED BY <1>1, <1>2, <1>3 DEF IInv

\* After the last join no thread is left that could write.
LEMMA JoinKeepsIInv == IInv /\ Join => IInv'
<1> SUFFICES ASSUME IInv, Join PROVE IInv'
  OBVIOUS
<1>0. /\ phase = "join" /\ cur \in Threads /\ thread[cur] = "done"
      /\ \/ cur # 3 /\ cur' = cur + 1 /\ phase' = "join" /\ part' = part /\ exit_code' = exit_code
         \/ cur = 3 /\ cur' = 1 /\ phase' = "teardown" /\ part' = 6 /\ exit_code' = 0
      /\ thread \in [Threads -> ThreadPositions] /\ thread' = [thread EXCEPT ![cur] = "joined"]
      /\ UNCHANGED <<node_type, ddsVars, running, writing, listenVars, queueVars,
                     shutdown_requested, outerVars>>
  BY DEF Join, HasEnded, IInv, ThreadsInv, TypeOK
<1> USE DEF ddsVars, listenVars, queueVars, outerVars
<1>1. TypeOK'
  BY <1>0 DEF IInv, TypeOK, Phases, ThreadPositions
<1>2. EntitiesInv' /\ EntitiesNested'
  BY <1>0 DEF IInv, EntitiesInv, EntitiesNested, Wired
<1>3. cur \notin writing
  BY <1>0 DEF IInv, WritersInv
<1>4. CallbacksInv' /\ WritersInv' /\ ListenersInv'
  BY <1>0, <1>3 DEF IInv, CallbacksInv, WritersInv, ListenersInv, Wired
<1>5. ThreadsInv'
  BY <1>0 DEF IInv, ThreadsInv, Wired
<1> QED BY <1>1, <1>2, <1>4, <1>5 DEF IInv

-----------------------------------------------------------------------------
(* main(): the destructor *)

\* What needs the part is gone when the part is deleted, and the listener of a
\* reader has returned.
LEMMA TearDownPartKeepsIInv == IInv /\ TearDownPart => IInv'
<1> SUFFICES ASSUME IInv, TearDownPart PROVE IInv'
  OBVIOUS
<1>0. /\ phase = "teardown" /\ entities' = entities \ {<<cur, part>>}
      /\ part = 6 => cur \notin listening
      /\ \/ part # 2 /\ part' = part - 1 /\ cur' = cur /\ phase' = "teardown"
         \/ part = 2 /\ cur # 4 /\ part' = 6 /\ cur' = cur + 1 /\ phase' = "teardown"
         \/ part = 2 /\ cur = 4 /\ part' = 6 /\ cur' = 1 /\ phase' = "release"
      /\ UNCHANGED <<exit_code, node_type, callbacks, threadVars, listenVars, queueVars,
                     shutdown_requested, outerVars>>
  BY DEF TearDownPart, PartToDelete
<1> USE DEF threadVars, listenVars, queueVars, outerVars
<1>1. cur \in Channels /\ part \in 2 .. 6 /\ entities \subseteq Entities
  BY <1>0 DEF IInv, TypeOK, ThreadsInv
<1>2. TypeOK'
  <2>1. phase' \in Phases /\ cur' \in Channels /\ part' \in Parts
    BY <1>0, <1>1 DEF Phases
  <2>2. entities' \subseteq Entities
    BY <1>0, <1>1
  <2> QED BY <2>1, <2>2, <1>0 DEF IInv, TypeOK
<1>3. \A c \in Channels, p \in Parts :
        (c < cur /\ p # 1) \/ (c = cur /\ p > part) => <<c, p>> \notin entities
  BY <1>0 DEF IInv, EntitiesInv
<1>4. EntitiesInv'
  BY <1>0, <1>1, <1>3 DEF EntitiesInv, Wired
<1>5. EntitiesNested'
  <2> SUFFICES ASSUME NEW c \in Channels, NEW p \in Parts, <<c, p>> \in entities',
                      NEW e \in Needs(c, p)
               PROVE  e \in entities'
    BY DEF EntitiesNested
  <2>1. e \in entities
    BY <1>0 DEF IInv, EntitiesNested
  <2>2. e # <<cur, part>>
    BY <1>0, <1>1, <1>3, NeedersAreLater
  <2> QED BY <2>1, <2>2, <1>0
<1>6. ListenersInv'
  BY <1>0, <1>1 DEF IInv, ListenersInv
<1>7. CallbacksInv' /\ ThreadsInv' /\ WritersInv'
  BY <1>0, <1>1 DEF IInv, CallbacksInv, ThreadsInv, WritersInv, Wired
<1> QED BY <1>2, <1>4, <1>5, <1>6, <1>7 DEF IInv

LEMMA DeleteParticipantKeepsIInv == IInv /\ DeleteParticipant => IInv'
<1> SUFFICES ASSUME IInv, DeleteParticipant PROVE IInv'
  OBVIOUS
<1>0. /\ phase = "release" /\ phase' = "end" /\ entities' = {} /\ callbacks' = {}
      /\ UNCHANGED <<cur, part, exit_code, node_type, threadVars, listenVars, queueVars,
                     shutdown_requested, outerVars>>
  BY DEF DeleteParticipant, DeletedWithParticipant, IInv, TypeOK
<1> USE DEF threadVars, listenVars, queueVars, outerVars
<1>1. TypeOK'
  BY <1>0 DEF IInv, TypeOK, Phases
<1>2. EntitiesInv' /\ EntitiesNested'
  BY <1>0 DEF IInv, EntitiesInv, EntitiesNested, Wired
<1>3. listening = {}
  <2>1. listening \subseteq Channels /\ \A c \in Channels : <<c, 6>> \notin entities
    BY <1>0 DEF IInv, TypeOK, EntitiesInv
  <2> QED BY <2>1 DEF IInv, ListenersInv
<1>4. CallbacksInv' /\ ThreadsInv' /\ WritersInv' /\ ListenersInv'
  BY <1>0, <1>3 DEF IInv, CallbacksInv, ThreadsInv, WritersInv, ListenersInv, Wired
<1> QED BY <1>1, <1>2, <1>4 DEF IInv

-----------------------------------------------------------------------------
(* Publishing and the threads *)

\* A thread's write returns to a position at which it is alive.
LEMMA StartWriteKeepsIInv ==
  ASSUME IInv, NEW t \in Threads \cup {Main}, StartWrite(t)
  PROVE  IInv'
<1>0. /\ writing' = writing \cup {t} /\ Position(t) \in DOMAIN Target
      /\ UNCHANGED <<mainVars, node_type, ddsVars, running, thread, listenVars, queueVars,
                     shutdown_requested, outerVars>>
  BY DEF StartWrite
<1> USE DEF mainVars, ddsVars, listenVars, queueVars, outerVars
<1>1. TypeOK'
  BY <1>0 DEF IInv, TypeOK
<1>2. EntitiesInv' /\ EntitiesNested'
  BY <1>0 DEF IInv, EntitiesInv, EntitiesNested, Wired
<1>3. t = Main => phase \in {"propose", "order"}
  BY <1>0 DEF Position, Target, IInv, TypeOK, Phases
<1>4. t # Main => thread[t] \in {"heartbeat", "telemetry", "vote"}
  BY <1>0 DEF Position, Target, IInv, TypeOK, ThreadPositions
<1>5. WritersInv'
  BY <1>0, <1>3, <1>4 DEF IInv, WritersInv
<1>6. CallbacksInv' /\ ThreadsInv' /\ ListenersInv'
  BY <1>0 DEF IInv, CallbacksInv, ThreadsInv, ListenersInv, Wired
<1> QED BY <1>1, <1>2, <1>5, <1>6 DEF IInv

\* In the phases in which a thread can be alive, a move of one thread from a
\* live position to a live or a finished one keeps the rest.
LEMMA ThreadMoveIsSafe ==
  ASSUME IInv, NEW t \in Threads, NEW pos \in ThreadPositions,
         thread[t] \in {"top", "heartbeat", "telemetry", "commands", "vote"},
         pos \notin {"none", "joined"},
         thread' = [thread EXCEPT ![t] = pos],
         writing' \subseteq writing, t \notin writing',
         command_queue' \in Seq(Nat), handled' \in Seq(Nat),
         UNCHANGED <<mainVars, node_type, ddsVars, running, listenVars, heard,
                     shutdown_requested, outerVars>>
  PROVE  IInv'
<1> USE DEF mainVars, ddsVars, listenVars, outerVars
<1>0. thread \in [Threads -> ThreadPositions]
  BY DEF IInv, TypeOK
<1>1. phase \in Wired
  BY DEF IInv, ThreadsInv
<1>2. TypeOK'
  <2>1. thread' \in [Threads -> ThreadPositions]
    BY <1>0
  <2> QED BY <2>1 DEF IInv, TypeOK
<1>3. EntitiesInv' /\ EntitiesNested'
  BY DEF IInv, EntitiesInv, EntitiesNested, Wired
<1>4. ThreadsInv'
  BY <1>0, <1>1 DEF IInv, ThreadsInv, Wired
<1>5. WritersInv'
  BY <1>0 DEF IInv, WritersInv
<1>6. CallbacksInv' /\ ListenersInv'
  BY DEF IInv, CallbacksInv, ListenersInv, Wired
<1> QED BY <1>2, <1>3, <1>4, <1>5, <1>6 DEF IInv

LEMMA FinishWriteKeepsIInv ==
  ASSUME IInv, NEW t \in Threads \cup {Main}, FinishWrite(t)
  PROVE  IInv'
<1>1. CASE t = Main
  <2>0. /\ phase \in {"propose", "order"} /\ phase' \in {"order", "loop"}
        /\ writing' = writing \ {Main}
        /\ UNCHANGED <<cur, part, exit_code, node_type, ddsVars, running, thread, listenVars,
                       queueVars, shutdown_requested, outerVars>>
    BY <1>1 DEF FinishWrite, AfterWrite, IInv, WritersInv
  <2> USE DEF ddsVars, listenVars, queueVars, outerVars
  <2>1. TypeOK'
    <3>1. phase' \in Phases
      BY <2>0 DEF Phases
    <3> QED BY <2>0, <3>1 DEF IInv, TypeOK
  <2>2. EntitiesInv' /\ EntitiesNested'
    BY <2>0 DEF IInv, EntitiesInv, EntitiesNested, Wired
  <2>3. CallbacksInv' /\ ThreadsInv' /\ WritersInv' /\ ListenersInv'
    BY <2>0 DEF IInv, CallbacksInv, ThreadsInv, WritersInv, ListenersInv, Wired
  <2> QED BY <2>1, <2>2, <2>3 DEF IInv
<1>2. CASE t \in Threads
  <2>1. thread[t] \in {"heartbeat", "telemetry", "vote"}
    BY <1>2 DEF FinishWrite, IInv, WritersInv
  <2>2. AfterWrite[thread[t]] \in {"telemetry", "top", "commands"}
    BY <2>1 DEF AfterWrite
  <2>3. command_queue' \in Seq(Nat) /\ handled' \in Seq(Nat)
    BY <1>2 DEF FinishWrite, queueVars, IInv, TypeOK
  <2>4. /\ thread' = [thread EXCEPT ![t] = AfterWrite[thread[t]]] /\ writing' = writing \ {t}
        /\ UNCHANGED <<mainVars, node_type, ddsVars, running, listenVars, heard,
                       shutdown_requested, outerVars>>
    BY <1>2 DEF FinishWrite, mainVars, queueVars
  <2> QED BY <1>2, <2>1, <2>2, <2>3, <2>4, ThreadMoveIsSafe DEF ThreadPositions
<1> QED BY <1>1, <1>2

LEMMA LoopTopKeepsIInv ==
  ASSUME IInv, NEW t \in Threads, LoopTop(t)
  PROVE  IInv'
<1>1. PICK pos \in {"heartbeat", "top", "commands", "done"} :
        thread' = [thread EXCEPT ![t] = pos]
  <2>1. Body[t] \in {"heartbeat", "top", "commands"}
    <3>1. t = 1 \/ t = 2 \/ t = 3
      OBVIOUS
    <3> QED BY <3>1 DEF Body
  <2> QED BY <2>1 DEF LoopTop
<1>2. t \notin writing
  BY DEF LoopTop, IInv, WritersInv
<1>3. command_queue' \in Seq(Nat) /\ handled' \in Seq(Nat)
  BY DEF LoopTop, queueVars, IInv, TypeOK
<1> QED BY <1>1, <1>2, <1>3, ThreadMoveIsSafe DEF LoopTop, queueVars, ThreadPositions

LEMMA EndCommandsKeepsIInv == IInv /\ EndCommands => IInv'
<1> SUFFICES ASSUME IInv, EndCommands PROVE IInv'
  OBVIOUS
<1>1. 3 \notin writing
  BY DEF EndCommands, IInv, WritersInv
<1>2. command_queue' \in Seq(Nat) /\ handled' \in Seq(Nat)
  BY DEF EndCommands, queueVars, IInv, TypeOK
<1> QED BY <1>1, <1>2, ThreadMoveIsSafe DEF EndCommands, queueVars, ThreadPositions

LEMMA TakeCommandKeepsIInv == IInv /\ TakeCommand => IInv'
<1> SUFFICES ASSUME IInv, TakeCommand PROVE IInv'
  OBVIOUS
<1>0. /\ thread[3] = "commands" /\ command_queue # <<>>
      /\ command_queue \in Seq(Nat) /\ handled \in Seq(Nat)
      /\ thread \in [Threads -> ThreadPositions]
      /\ UNCHANGED <<mainVars, node_type, ddsVars, running, writing, listenVars, heard,
                     shutdown_requested, outerVars>>
  BY DEF TakeCommand, IInv, TypeOK
<1>1. command_queue' \in Seq(Nat) /\ handled' \in Seq(Nat)
  <2>1. Head(command_queue) \in Nat /\ Tail(command_queue) \in Seq(Nat)
    BY <1>0
  <2>2. Append(handled, Head(command_queue)) \in Seq(Nat)
    BY <2>1, <1>0
  <2> QED BY <2>1, <2>2, <1>0 DEF TakeCommand, Front
<1>2. 3 \notin writing
  BY <1>0 DEF IInv, WritersInv
<1>3. PICK pos \in {"commands", "vote"} : thread' = [thread EXCEPT ![3] = pos]
  <2>1. thread' = thread \/ thread' = [thread EXCEPT ![3] = "vote"]
    BY DEF TakeCommand
  <2>2. thread = [thread EXCEPT ![3] = "commands"]
    BY <1>0
  <2> QED BY <2>1, <2>2
<1>4. pos \in ThreadPositions /\ pos \notin {"none", "joined"}
  BY <1>3 DEF ThreadPositions
<1>5. writing' \subseteq writing /\ 3 \notin writing'
  BY <1>0, <1>2
<1>6. 3 \in Threads /\ thread[3] \in {"top", "heartbeat", "telemetry", "commands", "vote"}
  BY <1>0
<1>7. UNCHANGED <<mainVars, node_type, ddsVars, running, listenVars, heard, shutdown_requested,
                  outerVars>>
  BY <1>0
<1> HIDE <1>0
<1> QED BY <1>1, <1>3, <1>4, <1>5, <1>6, <1>7, ThreadMoveIsSafe

LEMMA ThreadStepKeepsIInv ==
  ASSUME IInv, NEW t \in Threads, ThreadStep(t)
  PROVE  IInv'
BY LoopTopKeepsIInv, StartWriteKeepsIInv, FinishWriteKeepsIInv, TakeCommandKeepsIInv,
   EndCommandsKeepsIInv DEF ThreadStep

-----------------------------------------------------------------------------
(* DDS and the surroundings *)

\* Nothing but the listeners, the queue and counters changes.
LEMMA ListenerStepIsSafe ==
  ASSUME IInv, listening' \subseteq Channels, \A c \in listening' : <<c, 6>> \in entities,
         command_queue' \in Seq(Nat), next_sample' \in Nat, heard' \in Nat, published' \in Nat,
         shutdown_requested' \in BOOLEAN,
         UNCHANGED <<mainVars, node_type, ddsVars, threadVars, handled, starts>>
  PROVE  IInv'
<1> USE DEF mainVars, ddsVars, threadVars
<1>1. TypeOK'
  BY DEF IInv, TypeOK
<1>2. EntitiesInv' /\ EntitiesNested'
  BY DEF IInv, EntitiesInv, EntitiesNested, Wired
<1>3. CallbacksInv' /\ ThreadsInv' /\ WritersInv' /\ ListenersInv'
  BY DEF IInv, CallbacksInv, ThreadsInv, WritersInv, ListenersInv, Wired
<1> QED BY <1>1, <1>2, <1>3 DEF IInv

LEMMA DdsStepKeepsIInv == IInv /\ DdsStep => IInv'
<1> SUFFICES ASSUME IInv, DdsStep PROVE IInv'
  OBVIOUS
<1> USE DEF listenVars, queueVars, outerVars
<1>0. /\ listening \subseteq Channels /\ \A c \in listening : <<c, 6>> \in entities
      /\ command_queue \in Seq(Nat) /\ next_sample \in Nat /\ heard \in Nat
      /\ published \in Nat /\ shutdown_requested \in BOOLEAN
  BY DEF IInv, TypeOK, ListenersInv
<1>1. CASE Match
  <2>1. /\ next_sample' = 1
        /\ UNCHANGED <<mainVars, node_type, ddsVars, threadVars, listening, command_queue, handled,
                       heard, shutdown_requested, published, starts>>
    BY <1>1 DEF Match, FirstSample
  <2> QED BY <1>0, <2>1, ListenerStepIsSafe
<1>2. ASSUME NEW c \in Channels, Receive(c) PROVE IInv'
  <2>1. /\ listening' = listening \cup {c} /\ <<c, 6>> \in entities /\ heard' \in Nat
        /\ UNCHANGED <<mainVars, node_type, ddsVars, threadVars, next_sample, command_queue,
                       handled, shutdown_requested, outerVars>>
    BY <1>0, <1>2 DEF Receive
  <2> QED BY <1>0, <2>1, ListenerStepIsSafe
<1>3. ASSUME NEW c \in Channels, Deliver(c) PROVE IInv'
  <2>1. /\ listening' = listening \ {c} /\ next_sample' \in Nat
        /\ UNCHANGED <<mainVars, node_type, ddsVars, threadVars, handled, heard,
                       shutdown_requested, outerVars>>
    BY <1>0, <1>3 DEF Deliver
  <2>2. command_queue' \in Seq(Nat)
    <3>1. Append(command_queue, next_sample) \in Seq(Nat) /\ Append(command_queue, 0) \in Seq(Nat)
      BY <1>0
    <3> QED BY <1>0, <1>3, <3>1 DEF Deliver
  <2> QED BY <1>0, <2>1, <2>2, ListenerStepIsSafe
<1> QED BY <1>1, <1>2, <1>3 DEF DdsStep

LEMMA SurroundingsKeepIInv == IInv /\ Surroundings => IInv'
<1> SUFFICES ASSUME IInv, Surroundings PROVE IInv'
  OBVIOUS
<1> USE DEF outerVars
<1>0. /\ listening \subseteq Channels /\ \A c \in listening : <<c, 6>> \in entities
      /\ command_queue \in Seq(Nat) /\ next_sample \in Nat /\ heard \in Nat
      /\ published \in Nat /\ shutdown_requested \in BOOLEAN /\ starts \in Nat
  BY DEF IInv, TypeOK, ListenersInv
<1>1. CASE PublishOrder
  BY <1>0, <1>1, ListenerStepIsSafe DEF PublishOrder, listenVars, queueVars
<1>2. CASE Signal
  BY <1>0, <1>2, ListenerStepIsSafe DEF Signal, listenVars, queueVars
<1>3. CASE Kill
  BY <1>0, <1>3, FreshIsSafe DEF Kill
<1>4. CASE Start
  BY <1>0, <1>4, FreshIsSafe DEF Start
<1>5. CASE StaysDown
  BY <1>0, <1>5, ListenerStepIsSafe DEF StaysDown, vars, listenVars, queueVars
<1> QED BY <1>1, <1>2, <1>3, <1>4, <1>5 DEF Surroundings

-----------------------------------------------------------------------------
(* The theorems *)

LEMMA MainStepKeepsIInv == IInv /\ MainStep => IInv'
BY ReadEnvironmentKeepsIInv, InitManagerKeepsIInv, CreateParticipantKeepsIInv,
   SetUpPartKeepsIInv, SetCallbackKeepsIInv, RunKeepsIInv, SpawnKeepsIInv, LoopHeadKeepsIInv,
   GcsBodyKeepsIInv, StopKeepsIInv, JoinKeepsIInv, TearDownPartKeepsIInv,
   DeleteParticipantKeepsIInv DEF MainStep

LEMMA NextKeepsIInv == IInv /\ [Next]_vars => IInv'
<1> SUFFICES ASSUME IInv, [Next]_vars PROVE IInv'
  OBVIOUS
<1>1. CASE MainStep
  BY <1>1, MainStepKeepsIInv
<1>2. CASE MainWrite
  BY <1>2, StartWriteKeepsIInv, FinishWriteKeepsIInv DEF MainWrite
<1>3. CASE \E t \in Threads : ThreadStep(t)
  BY <1>3, ThreadStepKeepsIInv
<1>4. CASE DdsStep
  BY <1>4, DdsStepKeepsIInv
<1>5. CASE Surroundings
  BY <1>5, SurroundingsKeepIInv
<1>6. CASE UNCHANGED vars
  <2>1. /\ listening \subseteq Channels /\ \A c \in listening : <<c, 6>> \in entities
        /\ command_queue \in Seq(Nat) /\ next_sample \in Nat /\ heard \in Nat
        /\ published \in Nat /\ shutdown_requested \in BOOLEAN
    BY DEF IInv, TypeOK, ListenersInv
  <2> QED BY <1>6, <2>1, ListenerStepIsSafe DEF vars, listenVars, queueVars, outerVars
<1> QED BY <1>1, <1>2, <1>3, <1>4, <1>5, <1>6 DEF Next

LEMMA SpecKeepsIInv == Spec => []IInv
BY InitIInv, NextKeepsIInv, PTL DEF Spec

\* Every variable keeps its type, whatever the environments and the bounds.
THEOREM TypeCorrect == Spec => []TypeOK
<1>1. IInv => TypeOK
  BY DEF IInv
<1> QED BY <1>1, SpecKeepsIInv, PTL

\* DDS is never asked to delete what another entity still needs, wherever
\* init failed and whenever the process is told to end.
THEOREM DeletionIsOrdered == Spec => []EntitiesNested
<1>1. IInv => EntitiesNested
  BY DEF IInv
<1> QED BY <1>1, SpecKeepsIInv, PTL

\* No thread, no loop of main and no listener can reach a deleted entity.
THEOREM NoUseAfterDelete == Spec => []NodeWhole
<1>1. IInv => NodeWhole
  <2> SUFFICES ASSUME IInv PROVE NodeWhole
    OBVIOUS
  <2>1. (\E t \in Threads : Alive(t)) \/ 0 \in writing => phase \in Wired
    BY DEF IInv, ThreadsInv, WritersInv, Alive, Wired
  <2>2. phase \in Wired => entities = Entities /\ callbacks = Channels
    BY DEF IInv, EntitiesInv, CallbacksInv
  <2>3. ASSUME NEW t \in writing
        PROVE  Position(t) \in DOMAIN Target /\ <<Target[Position(t)], 4>> \in entities
    <3>1. Position(t) \in DOMAIN Target
      BY DEF IInv, TypeOK, WritersInv, Position, Target
    <3>2. phase \in Wired
      BY <2>1 DEF IInv, TypeOK, WritersInv, Alive
    <3>3. Target[Position(t)] \in Channels
      BY <3>1 DEF Target
    <3> QED BY <3>1, <3>2, <3>3, <2>2 DEF Entities
  <2>4. \A c \in listening : <<c, 6>> \in entities
    BY DEF IInv, ListenersInv
  <2> QED BY <2>1, <2>2, <2>3, <2>4 DEF NodeWhole
<1> QED BY <1>1, SpecKeepsIInv, PTL

\* When main returns, nothing of the wrapper and no thread is left.
THEOREM EndIsClean == Spec => []NothingLeftBehind
<1>1. IInv => NothingLeftBehind
  <2> SUFFICES ASSUME IInv, phase = "end" PROVE NothingLeftBehind
    BY DEF NothingLeftBehind
  <2>1. entities = {} /\ \A t \in Threads : thread[t] \in {"none", "joined"}
    BY DEF IInv, EntitiesInv, ThreadsInv, Wired
  <2>2. writing = {}
    BY <2>1 DEF IInv, TypeOK, WritersInv
  <2>3. listening = {}
    BY <2>1 DEF IInv, ListenersInv
  <2> QED BY <2>1, <2>2, <2>3 DEF NothingLeftBehind
<1> QED BY <1>1, SpecKeepsIInv, PTL

-----------------------------------------------------------------------------
(* No order is lost, if discovery is not faster than connect_dds *)

\* Samples come only while the callback of task_alloc is set, from the match to
\* the end of the process.
SamplesInv ==
  /\ phase \in {"down", "config", "init"} => next_sample = 0 /\ handled = <<>>
  /\ next_sample # 0 => 3 \in callbacks \/ phase = "end"
  /\ 3 \in listening => next_sample \in 1 .. published

OrdersInv == IInv /\ SamplesInv /\ OrdersArePrefix

\* Steps that leave orders, samples and listeners alone.
LEMMA OthersKeepOrders ==
  ASSUME OrdersInv, UNCHANGED <<listening, next_sample, command_queue, handled, published>>,
         callbacks \subseteq callbacks' \/ phase' = "end",
         phase' \in {"down", "config", "init"} => phase \in {"down", "config", "init"},
         phase # "end"
  PROVE  SamplesInv' /\ OrdersArePrefix'
<1>1. SamplesInv'
  BY DEF OrdersInv, SamplesInv
<1>2. OrdersArePrefix'
  BY DEF OrdersInv, OrdersArePrefix
<1> QED BY <1>1, <1>2

LEMMA FreshKeepsOrders ==
  ASSUME OrdersInv, Fresh, published' = published
  PROVE  SamplesInv' /\ OrdersArePrefix'
<1>1. /\ next_sample' = 0 /\ handled' = <<>> /\ command_queue' = <<>> /\ listening' = {}
  BY DEF Fresh
<1>2. published \in Nat
  BY DEF OrdersInv, IInv, TypeOK
<1>3. SamplesInv'
  BY <1>1 DEF SamplesInv
<1>4. OrdersArePrefix'
  BY <1>1, <1>2 DEF OrdersArePrefix
<1> QED BY <1>3, <1>4

LEMMA MainStepKeepsOrders ==
  ASSUME OrdersInv, MainStep
  PROVE  SamplesInv' /\ OrdersArePrefix'
<1> USE DEF threadVars, listenVars, queueVars, outerVars, ddsVars
<1>1. CASE InitManager
  <2>1. /\ phase = "init" /\ phase' = "participant" /\ next_sample = 0 /\ handled = <<>>
        /\ UNCHANGED <<callbacks, next_sample, handled, listening, published>>
        /\ command_queue' = <<>>
    BY <1>1 DEF InitManager, OrdersInv, SamplesInv
  <2>2. published \in Nat
    BY DEF OrdersInv, IInv, TypeOK
  <2>3. SamplesInv'
    BY <2>1 DEF OrdersInv, SamplesInv
  <2>4. OrdersArePrefix'
    BY <2>1, <2>2 DEF OrdersArePrefix
  <2> QED BY <2>3, <2>4
<1>2. CASE ReadEnvironment
  BY <1>2, OthersKeepOrders DEF ReadEnvironment
<1>3. CASE CreateParticipant
  BY <1>3, OthersKeepOrders DEF CreateParticipant, GiveUp
<1>4. CASE SetUpPart
  BY <1>4, OthersKeepOrders DEF SetUpPart, GiveUp
<1>5. CASE SetCallback
  BY <1>5, OthersKeepOrders DEF SetCallback
<1>6. CASE Run \/ Spawn
  BY <1>6, OthersKeepOrders DEF Run, Spawn
<1>7. CASE LoopHead \/ GcsBody
  BY <1>7, OthersKeepOrders DEF LoopHead, GcsBody
<1>8. CASE Stop \/ Join
  BY <1>8, OthersKeepOrders DEF Stop, Join
<1>9. CASE TearDownPart
  BY <1>9, OthersKeepOrders DEF TearDownPart
<1>10. CASE DeleteParticipant
  BY <1>10, OthersKeepOrders DEF DeleteParticipant
<1> QED BY <1>1, <1>2, <1>3, <1>4, <1>5, <1>6, <1>7, <1>8, <1>9, <1>10 DEF MainStep

\* What is at the front of the queue is no order or the next one.
LEMMA TakeCommandKeepsOrders ==
  ASSUME OrdersInv, TakeCommand
  PROVE  SamplesInv' /\ OrdersArePrefix'
<1> DEFINE q == command_queue
           n == Len(handled)
           taken == Head(q)
<1>0. /\ q # <<>> /\ q' = Tail(q)
      /\ handled' = IF taken = 0 THEN handled ELSE Append(handled, taken)
      /\ phase' = phase /\ callbacks' = callbacks /\ next_sample' = next_sample
      /\ listening' = listening /\ published' = published
  BY DEF TakeCommand, Front, mainVars, ddsVars, listenVars, outerVars
<1>1. /\ q \in Seq(Nat) /\ handled \in Seq(Nat) /\ next_sample \in Nat /\ published \in Nat
      /\ phase \in Wired
  BY DEF OrdersInv, IInv, TypeOK, ThreadsInv, TakeCommand
<1>2. /\ Len(q) \in Nat \ {0} /\ taken = q[1] /\ Len(q') = Len(q) - 1 /\ n \in Nat
      /\ \A i \in 1 .. Len(q) - 1 : q'[i] = q[i + 1]
      /\ \A i \in 1 .. Len(q) : q[i] \in Nat
  BY <1>0, <1>1
<1>3. /\ \A i \in 1 .. n : handled[i] = i
      /\ n < next_sample \/ n = 0
      /\ next_sample <= published + 1
      /\ \A i \in 1 .. Len(q) : q[i] = 0 \/ q[i] \in n + 1 .. next_sample - 1
      /\ \A o \in n + 1 .. next_sample - 1 : \E i \in 1 .. Len(q) : q[i] = o
      /\ \A i, j \in 1 .. Len(q) : i < j /\ q[j] # 0 => q[i] < q[j]
  BY DEF OrdersInv, OrdersArePrefix
<1>4. SamplesInv'
  BY <1>0, <1>1 DEF OrdersInv, SamplesInv, Wired
<1>7. \A i, j \in 1 .. Len(q') : i < j /\ q'[j] # 0 => q'[i] < q'[j]
  <2> SUFFICES ASSUME NEW i \in 1 .. Len(q'), NEW j \in 1 .. Len(q'), i < j, q'[j] # 0
               PROVE  q'[i] < q'[j]
    OBVIOUS
  <2>1. i + 1 \in 1 .. Len(q) /\ j + 1 \in 1 .. Len(q) /\ i + 1 < j + 1
    BY <1>2
  <2>2. q'[i] = q[i + 1] /\ q'[j] = q[j + 1]
    BY <1>2
  <2> QED BY <2>1, <2>2, <1>3
<1>5. CASE taken = 0
  <2>1. handled' = handled
    BY <1>0, <1>5
  <2>2. \A i \in 1 .. Len(q') : q'[i] = 0 \/ q'[i] \in n + 1 .. next_sample - 1
    BY <1>2, <1>3
  <2>3. ASSUME NEW o \in n + 1 .. next_sample - 1
        PROVE  \E i \in 1 .. Len(q') : q'[i] = o
    <3>1. PICK i \in 1 .. Len(q) : q[i] = o
      BY <1>3
    <3>2. i # 1
      BY <3>1, <1>2, <1>5
    <3>3. i - 1 \in 1 .. Len(q') /\ q'[i - 1] = o
      BY <3>1, <3>2, <1>2
    <3> QED BY <3>3
  <2> QED BY <1>0, <1>3, <1>4, <1>7, <2>1, <2>2, <2>3 DEF OrdersArePrefix
<1>6. CASE taken # 0
  <2>1. taken = n + 1
    <3>1. taken \in n + 1 .. next_sample - 1
      BY <1>2, <1>3, <1>6
    <3>0. n + 1 \in n + 1 .. next_sample - 1
      BY <3>1, <1>1, <1>2
    <3>2. PICK k \in 1 .. Len(q) : q[k] = n + 1
      BY <3>0, <1>3
    <3>3. k = 1
      BY <3>1, <3>2, <1>2, <1>3
    <3> QED BY <3>2, <3>3, <1>2
  <2>2. handled' = Append(handled, n + 1)
    BY <1>0, <1>6, <2>1
  <2>3. Len(handled') = n + 1 /\ \A i \in 1 .. n + 1 : handled'[i] = i
    BY <2>2, <1>1, <1>2, <1>3
  <2>4. n + 1 < next_sample
    BY <2>1, <1>1, <1>2, <1>3, <1>6
  <2>5. \A i \in 1 .. Len(q') : q'[i] = 0 \/ q'[i] \in n + 2 .. next_sample - 1
    <3> SUFFICES ASSUME NEW i \in 1 .. Len(q'), q'[i] # 0
                 PROVE  q'[i] \in n + 2 .. next_sample - 1
      OBVIOUS
    <3>1. i + 1 \in 1 .. Len(q) /\ q'[i] = q[i + 1] /\ q[1] < q[i + 1]
      BY <1>2, <1>3
    <3> QED BY <3>1, <1>1, <1>2, <1>3, <2>1
  <2>6. ASSUME NEW o \in n + 2 .. next_sample - 1
        PROVE  \E i \in 1 .. Len(q') : q'[i] = o
    <3>1. PICK i \in 1 .. Len(q) : q[i] = o
      BY <1>2, <1>3
    <3>2. i # 1
      BY <3>1, <1>2, <2>1
    <3>3. i - 1 \in 1 .. Len(q') /\ q'[i - 1] = o
      BY <3>1, <3>2, <1>2
    <3> QED BY <3>3
  <2>7. (n + 1) + 1 = n + 2
    BY <1>2
  <2> HIDE DEF q, n, taken
  <2>8. /\ command_queue' = q' /\ next_sample' = next_sample /\ published' = published
    BY <1>0 DEF q
  <2> QED BY <1>3, <1>4, <1>7, <2>3, <2>4, <2>5, <2>6, <2>7, <2>8 DEF OrdersArePrefix, q
<1> QED BY <1>5, <1>6

\* The sample that is delivered is the next one, and it goes to the back.
LEMMA DeliverKeepsOrders ==
  ASSUME OrdersInv, NEW c \in Channels, Deliver(c)
  PROVE  SamplesInv' /\ OrdersArePrefix'
<1> DEFINE q == command_queue
           n == Len(handled)
<1>0. /\ c \in listening /\ listening' = listening \ {c}
      /\ phase' = phase /\ callbacks' = callbacks /\ handled' = handled /\ published' = published
  <2>1. UNCHANGED <<mainVars, ddsVars, handled, outerVars>>
    BY DEF Deliver
  <2> QED BY <2>1 DEF Deliver, mainVars, ddsVars, outerVars
<1>1. /\ q \in Seq(Nat) /\ handled \in Seq(Nat) /\ next_sample \in Nat /\ published \in Nat
      /\ n \in Nat /\ Len(q) \in Nat /\ <<c, 6>> \in entities
      /\ \A i \in 1 .. Len(q) : q[i] \in Nat
  BY <1>0 DEF OrdersInv, IInv, TypeOK, ListenersInv
<1>2. phase \notin {"down", "config", "init", "end"}
  BY <1>1 DEF OrdersInv, IInv, EntitiesInv
<1>3. /\ \A i \in 1 .. n : handled[i] = i
      /\ n < next_sample \/ n = 0
      /\ next_sample <= published + 1
      /\ \A i \in 1 .. Len(q) : q[i] = 0 \/ q[i] \in n + 1 .. next_sample - 1
      /\ \A o \in n + 1 .. next_sample - 1 : \E i \in 1 .. Len(q) : q[i] = o
      /\ \A i, j \in 1 .. Len(q) : i < j /\ q[j] # 0 => q[i] < q[j]
  BY DEF OrdersInv, OrdersArePrefix
<1>4. CASE c # 3
  <2>1. next_sample' = next_sample /\ (q' = q \/ q' = Append(q, 0))
    BY <1>4 DEF Deliver
  <2>2. SamplesInv'
    BY <1>0, <1>2, <2>1 DEF OrdersInv, SamplesInv
  <2>3. CASE q' = q
    BY <1>0, <1>3, <2>1, <2>2, <2>3 DEF OrdersArePrefix
  <2>4. CASE q' = Append(q, 0)
    <3>1. /\ Len(q') = Len(q) + 1 /\ q'[Len(q) + 1] = 0
          /\ \A i \in 1 .. Len(q) : q'[i] = q[i]
      BY <1>1, <2>4
    <3>2. \A i \in 1 .. Len(q') : i \in 1 .. Len(q) \/ i = Len(q) + 1
      BY <1>1, <3>1
    <3>3. \A i \in 1 .. Len(q') : q'[i] = 0 \/ q'[i] \in n + 1 .. next_sample - 1
      BY <1>3, <3>1, <3>2
    <3>4. ASSUME NEW o \in n + 1 .. next_sample - 1
          PROVE  \E i \in 1 .. Len(q') : q'[i] = o
      <4>1. PICK i \in 1 .. Len(q) : q[i] = o
        BY <1>3
      <4>2. i \in 1 .. Len(q') /\ q'[i] = o
        BY <4>1, <1>1, <3>1
      <4> QED BY <4>2
    <3>5. \A i, j \in 1 .. Len(q') : i < j /\ q'[j] # 0 => q'[i] < q'[j]
      <4> SUFFICES ASSUME NEW i \in 1 .. Len(q'), NEW j \in 1 .. Len(q'), i < j, q'[j] # 0
                   PROVE  q'[i] < q'[j]
        OBVIOUS
      <4>1. j \in 1 .. Len(q) /\ i \in 1 .. Len(q)
        BY <1>1, <3>1, <3>2
      <4> QED BY <4>1, <1>3, <3>1
    <3> QED BY <1>0, <1>3, <2>1, <2>2, <3>3, <3>4, <3>5 DEF OrdersArePrefix
  <2> QED BY <2>1, <2>2, <2>3, <2>4
<1>5. CASE c = 3
  <2>1. next_sample \in 1 .. published /\ 3 \in callbacks
    BY <1>0, <1>2, <1>5 DEF OrdersInv, SamplesInv
  <2>2. next_sample' = next_sample + 1 /\ q' = Append(q, next_sample)
    BY <1>5, <2>1 DEF Deliver, Reliable
  <2>3. SamplesInv'
    BY <1>0, <1>2, <1>5, <2>1 DEF SamplesInv
  <2>4. /\ Len(q') = Len(q) + 1 /\ q'[Len(q) + 1] = next_sample
        /\ \A i \in 1 .. Len(q) : q'[i] = q[i]
    BY <1>1, <2>2
  <2>5. \A i \in 1 .. Len(q') : i \in 1 .. Len(q) \/ i = Len(q) + 1
    BY <1>1, <2>4
  <2>6. n < next_sample
    BY <1>1, <1>3, <2>1
  <2>7. \A i \in 1 .. Len(q') : q'[i] = 0 \/ q'[i] \in n + 1 .. next_sample
    <3> SUFFICES ASSUME NEW i \in 1 .. Len(q') PROVE q'[i] = 0 \/ q'[i] \in n + 1 .. next_sample
      OBVIOUS
    <3>1. CASE i \in 1 .. Len(q)
      <4>1. q'[i] = q[i] /\ (q[i] = 0 \/ q[i] \in n + 1 .. next_sample - 1)
        BY <3>1, <1>3, <2>4
      <4>2. n + 1 .. next_sample - 1 \subseteq n + 1 .. next_sample
        BY <1>1
      <4> QED BY <4>1, <4>2
    <3>2. CASE i = Len(q) + 1
      BY <1>1, <2>4, <2>6, <3>2
    <3> QED BY <2>5, <3>1, <3>2
  <2>8. \A o \in n + 1 .. next_sample : \E i \in 1 .. Len(q') : q'[i] = o
    <3> SUFFICES ASSUME NEW o \in n + 1 .. next_sample PROVE \E i \in 1 .. Len(q') : q'[i] = o
      OBVIOUS
    <3>1. CASE o = next_sample
      BY <1>1, <2>4, <3>1
    <3>2. CASE o \in n + 1 .. next_sample - 1
      <4>1. PICK i \in 1 .. Len(q) : q[i] = o
        BY <1>3, <3>2
      <4>2. i \in 1 .. Len(q') /\ q'[i] = o
        BY <1>1, <2>4, <4>1
      <4> QED BY <4>2
    <3> QED BY <1>1, <3>1, <3>2
  <2>9. \A i, j \in 1 .. Len(q') : i < j /\ q'[j] # 0 => q'[i] < q'[j]
    <3> SUFFICES ASSUME NEW i \in 1 .. Len(q'), NEW j \in 1 .. Len(q'), i < j, q'[j] # 0
                 PROVE  q'[i] < q'[j]
      OBVIOUS
    <3>1. i \in 1 .. Len(q)
      BY <1>1, <2>4
    <3>2. CASE j \in 1 .. Len(q)
      BY <3>1, <3>2, <1>3, <2>4
    <3>3. CASE j = Len(q) + 1
      <4>1. q'[i] = q[i] /\ q'[j] = next_sample
        BY <3>1, <3>3, <2>4
      <4>2. q[i] = 0 \/ q[i] \in n + 1 .. next_sample - 1
        BY <3>1, <1>3
      <4>3. q[i] < next_sample
        <5>1. CASE q[i] = 0
          BY <5>1, <2>1
        <5>2. CASE q[i] \in n + 1 .. next_sample - 1
          BY <5>2, <1>1
        <5> QED BY <4>2, <5>1, <5>2
      <4> QED BY <4>1, <4>3
    <3> QED BY <2>5, <3>2, <3>3
  <2>10. /\ next_sample' - 1 = next_sample /\ next_sample' <= published + 1
         /\ n < next_sample'
    BY <1>1, <2>1, <2>2, <2>6
  <2> QED BY <1>0, <1>3, <2>3, <2>7, <2>8, <2>9, <2>10 DEF OrdersArePrefix
<1> QED BY <1>4, <1>5

LEMMA NextKeepsOrders ==
  ASSUME OrdersInv, ~EarlyMatch, [Next]_vars
  PROVE  OrdersInv'
<1>0. IInv'
  BY NextKeepsIInv DEF OrdersInv
<1> SUFFICES SamplesInv' /\ OrdersArePrefix'
  BY <1>0 DEF OrdersInv
<1> USE DEF mainVars, threadVars, listenVars, queueVars, outerVars, ddsVars
<1>1. /\ listening \subseteq Channels /\ next_sample \in Nat /\ published \in Nat
  BY DEF OrdersInv, IInv, TypeOK
<1>2. CASE MainStep
  BY <1>2, MainStepKeepsOrders
<1>3. ASSUME NEW t \in Threads \cup {Main},
             StartWrite(t) \/ FinishWrite(t) \/ LoopTop(t) \/ EndCommands \/ UNCHANGED vars
      PROVE  SamplesInv' /\ OrdersArePrefix'
  <2>1. /\ UNCHANGED <<listening, next_sample, command_queue, handled, published, callbacks>>
        /\ phase' = phase \/ phase' \in {"telemetry", "top", "commands", "order", "loop"}
    <3>1. CASE FinishWrite(t)
      <4>1. t = 0 => phase' \in {"order", "loop"}
        BY <3>1 DEF FinishWrite, AfterWrite, OrdersInv, IInv, WritersInv
      <4> QED BY <3>1, <4>1 DEF FinishWrite
    <3> QED BY <1>3, <3>1 DEF StartWrite, LoopTop, EndCommands, vars
  <2>2. phase = "end" => phase' = "end"
    <3>1. CASE FinishWrite(t)
      BY <3>1 DEF FinishWrite, OrdersInv, IInv, WritersInv
    <3> QED BY <1>3, <3>1 DEF StartWrite, LoopTop, EndCommands, vars
  <2>3. SamplesInv'
    BY <2>1, <2>2 DEF OrdersInv, SamplesInv
  <2>4. OrdersArePrefix'
    BY <2>1 DEF OrdersInv, OrdersArePrefix
  <2> QED BY <2>3, <2>4
<1>4. CASE TakeCommand
  BY <1>4, TakeCommandKeepsOrders
<1>5. CASE Match
  <2>1. /\ next_sample = 0 /\ next_sample' = 1 /\ 3 \in callbacks /\ <<3, 6>> \in entities
        /\ UNCHANGED <<phase, callbacks, listening, command_queue, handled, published>>
    BY <1>5 DEF Match, FirstSample
  <2>2. phase \notin {"down", "config", "init"}
    BY <2>1 DEF OrdersInv, IInv, EntitiesInv
  <2>3. SamplesInv'
    BY <2>1, <2>2 DEF OrdersInv, SamplesInv
  <2>4. Len(handled) = 0 /\ \A i \in 1 .. Len(command_queue) : command_queue[i] = 0
    BY <2>1 DEF OrdersInv, IInv, TypeOK, OrdersArePrefix
  <2>5. OrdersArePrefix'
    BY <1>1, <2>1, <2>4 DEF OrdersInv, OrdersArePrefix
  <2> QED BY <2>3, <2>5
<1>6. ASSUME NEW c \in Channels, Receive(c)
      PROVE  SamplesInv' /\ OrdersArePrefix'
  <2>1. /\ UNCHANGED <<phase, callbacks, next_sample, command_queue, handled, published>>
        /\ listening' = listening \cup {c}
        /\ c = 3 => next_sample \in 1 .. published
    BY <1>6 DEF Receive
  <2>2. SamplesInv'
    BY <2>1 DEF OrdersInv, SamplesInv
  <2>3. OrdersArePrefix'
    BY <2>1 DEF OrdersInv, OrdersArePrefix
  <2> QED BY <2>2, <2>3
<1>7. ASSUME NEW c \in Channels, Deliver(c)
      PROVE  SamplesInv' /\ OrdersArePrefix'
  BY <1>7, DeliverKeepsOrders
<1>8. CASE PublishOrder \/ Signal
  <2>1. /\ UNCHANGED <<phase, callbacks, next_sample, command_queue, handled, listening>>
        /\ published' \in {published, published + 1}
    BY <1>8 DEF PublishOrder, Signal
  <2>2. SamplesInv'
    BY <1>1, <2>1 DEF OrdersInv, SamplesInv
  <2>3. next_sample <= published + 1 => next_sample <= published' + 1
    <3>1. published' = published \/ published' = published + 1
      BY <2>1
    <3> QED BY <1>1, <3>1
  <2>4. OrdersArePrefix'
    BY <2>1, <2>3 DEF OrdersInv, OrdersArePrefix
  <2> QED BY <2>2, <2>4
<1>9. CASE Kill \/ Start
  BY <1>9, FreshKeepsOrders DEF Kill, Start
<1>10. CASE StaysDown
  BY <1>3, <1>10 DEF StaysDown
<1> QED BY <1>2, <1>3, <1>4, <1>5, <1>6, <1>7, <1>8, <1>9, <1>10
        DEF Next, MainWrite, ThreadStep, DdsStep, Surroundings

\* If discovery never finds a reader before its callback is set, no order is
\* lost, doubled or overtaken between DDS and the engine, for queues, numbers
\* of orders, other messages and restarts without bound.
THEOREM OrdersAreKept == ~EarlyMatch => (Spec => []OrdersArePrefix)
<1> SUFFICES ASSUME ~EarlyMatch PROVE Spec => []OrdersArePrefix
  OBVIOUS
<1>1. Init => OrdersInv
  <2> SUFFICES ASSUME Init PROVE OrdersInv
    OBVIOUS
  <2>1. SamplesInv /\ OrdersArePrefix
    BY DEF Init, SamplesInv, OrdersArePrefix
  <2> QED BY <2>1, InitIInv DEF OrdersInv
<1>2. OrdersInv /\ [Next]_vars => OrdersInv'
  BY NextKeepsOrders
<1>3. OrdersInv => OrdersArePrefix
  BY DEF OrdersInv
<1> QED BY <1>1, <1>2, <1>3, PTL DEF Spec
-----------------------------------------------------------------------------
(* read_config_from_env *)

\* A number within the limit of its field fits the field.
LEMMA FieldsAreWide ==
  /\ \A n \in Nat : n <= 255 => n % 2^8 = n
  /\ \A n \in Nat : n <= 65535 => n % 2^16 = n
<1>1. 2^8 = 256 /\ 2^16 = 65536
  BY Z3
<1> QED BY <1>1

Text ==
  [given : BOOLEAN, numeric : BOOLEAN, negative : BOOLEAN, trailing : BOOLEAN, n : Nat]
TextOf(e, i) == e[Fields[i].name]
FieldValue(e, i) == ValueOf(e[Fields[i].name], Fields[i])
FieldRefused(e, i) == Refused(e[Fields[i].name], Fields[i])
RoleOf(e) == IF e.NODE_TYPE # "GCS" /\ e.ROLE = "STRIKER" THEN "STRIKER" ELSE "SCOUT"
Transport(e) ==
  [enabled |-> e.NODE_IP # "",
   listening_port |-> IF e.NODE_IP # "" THEN FieldValue(e, 5) % 2^16 ELSE 5100]

\* What read_config_from_env returns when nothing is refused.
Accepted(e) ==
  [success |-> TRUE,
   error |-> "",
   node_type |-> NodeType(e),
   role |-> RoleOf(e),
   drone_id |-> FieldValue(e, 1) % 2^8,
   domain_id |-> FieldValue(e, 2),
   battery |-> FieldValue(e, 3) % 2^8,
   fault_silent_consensus |-> FieldValue(e, 4) = 1,
   tcp |-> Transport(e)]

\* What is left of the checks once a configuration is accepted.
LEMMA AcceptedConfig ==
  ASSUME NEW e, ReadConfig(e).success
  PROVE  /\ ~RoleRefused(e)
         /\ \A i \in 1 .. 5 : ~FieldRefused(e, i)
         /\ ~(e.NODE_IP # "" /\ FieldValue(e, 5) = 0)
         /\ ReadConfig(e) = Accepted(e)
<1> DEFINE typeRefused == e.NODE_TYPE \notin {"", "DRONE", "GCS"}
           refused == {i \in DOMAIN Fields : FieldRefused(e, i)}
           noPort == e.NODE_IP # "" /\ FieldValue(e, 5) = 0
<1>1. \A name : Failure(name).success = FALSE
  BY DEF Failure
<1>2. DOMAIN Fields = 1 .. 5
  BY DEF Fields
<1>3. ReadConfig(e) =
        IF typeRefused THEN Failure("NODE_TYPE")
        ELSE IF RoleRefused(e) THEN Failure("ROLE")
        ELSE IF refused # {} THEN Failure(Fields[Min(refused)].name)
        ELSE IF noPort THEN Failure("TCP_PORT")
        ELSE Accepted(e)
  BY Zenon DEF ReadConfig, Accepted, Transport, RoleOf, FieldValue, FieldRefused
<1> HIDE DEF typeRefused, refused, noPort
<1>4. ~RoleRefused(e) /\ refused = {} /\ ~noPort /\ ReadConfig(e) = Accepted(e)
  BY <1>1, <1>3, Zenon
<1>5. \A i \in 1 .. 5 : ~FieldRefused(e, i)
  BY <1>2, <1>4, Zenon DEF refused
<1> QED BY <1>4, <1>5, Zenon DEF noPort

\* The numeric fields by their places.
LEMMA FieldPlaces ==
  /\ Fields[1].name = "DRONE_ID" /\ Fields[1].default = 0 /\ Fields[1].max = 255
  /\ Fields[2].name = "ROS_DOMAIN_ID" /\ Fields[2].default = 42 /\ Fields[2].max = 232
  /\ Fields[3].name = "INITIAL_BATTERY" /\ Fields[3].default = 100 /\ Fields[3].max = 100
  /\ Fields[4].name = "FAULT_SILENT_CONSENSUS" /\ Fields[4].default = 0 /\ Fields[4].max = 1
  /\ Fields[5].name = "TCP_PORT" /\ Fields[5].default = 5100 /\ Fields[5].max = 65535
  /\ DOMAIN Fields = 1 .. 5
BY DEF Fields

\* What std::stoul reads: the number itself, or the one that a minus sign makes
\* of it.
LEMMA StoulReads ==
  ASSUME NEW text \in Text, text.n < UlongModulus
  PROVE  /\ Stoul(text) \in Nat
         /\ text.negative => (Stoul(text) + text.n) % UlongModulus = 0
         /\ ~text.negative => Stoul(text) = text.n
<1> DEFINE M == UlongModulus
           n == text.n
<1>1. M \in Nat /\ M > 65536 /\ n \in Nat /\ n < M
  BY UlongAssumption DEF Text
<1>2. text.negative => Stoul(text) = (M - n) % M
  BY DEF Stoul
<1>3. ~text.negative => Stoul(text) = n
  BY DEF Stoul
<1> HIDE DEF M, n
<1>4. (M - n) % M \in Nat /\ (((M - n) % M) + n) % M = 0
  <2>1. CASE n = 0
    <3>1. M % M = 0 /\ 0 % M = 0 /\ M - n = M
      BY <1>1, <2>1
    <3> QED BY <2>1, <3>1
  <2>2. CASE n > 0
    <3>1. M - n \in 0 .. M - 1
      BY <1>1, <2>2
    <3>2. (M - n) % M = M - n
      BY <1>1, <3>1
    <3>3. M - n + n = M /\ M % M = 0
      BY <1>1
    <3> QED BY <3>1, <3>2, <3>3
  <2> QED BY <1>1, <2>1, <2>2
<1>5. CASE text.negative
  BY <1>2, <1>4, <1>5 DEF M, n
<1>6. CASE ~text.negative
  BY <1>1, <1>3, <1>6 DEF n
<1> QED BY <1>5, <1>6

\* A field that is not refused has the number that std::stoul reads in its
\* text, or its default.
LEMMA AcceptedField ==
  ASSUME NEW e \in Environments, NEW i \in 1 .. 5, ~FieldRefused(e, i)
  PROVE  /\ FieldValue(e, i) \in Nat
         /\ FieldValue(e, i) <= Fields[i].max
         /\ Says(TextOf(e, i), FieldValue(e, i), Fields[i].default)
<1> DEFINE text == TextOf(e, i)
<1>1. text \in Text
  BY FieldPlaces, TextsAssumption DEF Text, TextOf
<1>2. /\ Fields[i].max \in Nat /\ Fields[i].default \in Nat
      /\ Fields[i].default <= Fields[i].max
  <2>1. i = 1 \/ i = 2 \/ i = 3 \/ i = 4 \/ i = 5
    OBVIOUS
  <2> QED BY <2>1, FieldPlaces
<1>3. ~Refused(text, Fields[i]) /\ FieldValue(e, i) = ValueOf(text, Fields[i])
  BY Zenon DEF FieldRefused, FieldValue, TextOf
<1> HIDE DEF text
<1>4. CASE ~text.given
  <2>1. FieldValue(e, i) = Fields[i].default
    BY <1>3, <1>4, Zenon DEF ValueOf
  <2>2. Says(text, FieldValue(e, i), Fields[i].default)
    BY <1>4, <2>1, Zenon DEF Says
  <2>3. FieldValue(e, i) \in Nat /\ FieldValue(e, i) <= Fields[i].max
    BY <1>2, <2>1
  <2> QED BY <2>2, <2>3, Zenon DEF text
<1>5. CASE text.given
  <2>1. /\ text.numeric
        /\ ~(text.n >= UlongModulus)
        /\ ~(Stoul(text) > Fields[i].max)
    BY <1>3, <1>5, Zenon DEF Refused
  <2>2. text.n < UlongModulus
    BY <1>1, <2>1, UlongAssumption DEF Text
  <2>3. /\ Stoul(text) \in Nat
        /\ text.negative => (Stoul(text) + text.n) % UlongModulus = 0
        /\ ~text.negative => Stoul(text) = text.n
    BY <1>1, <2>2, StoulReads, Zenon
  <2>4. FieldValue(e, i) = Stoul(text)
    BY <1>3, <1>5, Zenon DEF ValueOf
  <2>5. FieldValue(e, i) \in Nat /\ FieldValue(e, i) <= Fields[i].max
    BY <1>2, <2>1, <2>3, <2>4
  <2>6. Says(text, FieldValue(e, i), Fields[i].default)
    BY <1>5, <2>1, <2>3, <2>4, Zenon DEF Says
  <2> QED BY <2>5, <2>6, Zenon DEF text
<1> QED BY <1>4, <1>5, Zenon DEF text

\* An accepted configuration says what the environment says: no number is cut
\* to the width of its field (read_config_from_env).
THEOREM ConfigIsFaithful == Spec => []ConfigMeansEnvironment
<1>1. ASSUME NEW e \in Environments, ReadConfig(e).success
      PROVE  Means(ReadConfig(e), e)
  <2> DEFINE c == ReadConfig(e)
             v(i) == FieldValue(e, i)
  <2>1. /\ ~RoleRefused(e)
        /\ \A i \in 1 .. 5 : ~FieldRefused(e, i)
        /\ ~(e.NODE_IP # "" /\ FieldValue(e, 5) = 0)
        /\ c = Accepted(e)
    BY <1>1, AcceptedConfig, Zenon
  <2> HIDE DEF c
  <2>2. /\ c.drone_id = v(1) % 2^8 /\ c.domain_id = v(2) /\ c.battery = v(3) % 2^8
        /\ c.tcp = Transport(e) /\ c.node_type = NodeType(e) /\ c.role = RoleOf(e)
    BY <2>1 DEF Accepted
  <2>3. c.fault_silent_consensus = (v(4) = 1)
    BY <2>1, Zenon DEF Accepted
  <2>4. /\ c.tcp.enabled = (e.NODE_IP # "")
        /\ e.NODE_IP # "" => c.tcp.listening_port = v(5) % 2^16
    <3>1. Transport(e).enabled = (e.NODE_IP # "")
      BY Zenon DEF Transport
    <3>2. Transport(e).listening_port = IF e.NODE_IP # "" THEN v(5) % 2^16 ELSE 5100
      BY Zenon DEF Transport
    <3> DEFINE port == v(5) % 2^16
               tcp == Transport(e)
               given == e.NODE_IP # ""
    <3>3. c.tcp = tcp
      BY <2>2
    <3> HIDE DEF port, tcp, given, v
    <3>4. given => tcp.listening_port = port
      <4>1. tcp.listening_port = IF given THEN port ELSE 5100
        BY <3>2, Zenon DEF tcp, given, port
      <4> QED BY <4>1
    <3>5. tcp.enabled = given
      BY <3>1, Zenon DEF tcp, given
    <3>6. c.tcp.enabled = given /\ (given => c.tcp.listening_port = port)
      BY <3>3, <3>4, <3>5, Zenon
    <3> QED BY <3>6, Zenon DEF given, port
  <2> HIDE DEF v
  <2>5. \A i \in 1 .. 5 : /\ v(i) \in Nat /\ v(i) <= Fields[i].max
                          /\ Says(TextOf(e, i), v(i), Fields[i].default)
    BY <1>1, <2>1, AcceptedField, Zenon DEF v
  <2>6. /\ Says(e["DRONE_ID"], v(1), 0) /\ v(1) \in Nat /\ v(1) <= 255
        /\ Says(e["ROS_DOMAIN_ID"], v(2), 42)
        /\ Says(e["INITIAL_BATTERY"], v(3), 100) /\ v(3) \in Nat /\ v(3) <= 100
        /\ Says(e["FAULT_SILENT_CONSENSUS"], v(4), 0) /\ v(4) \in Nat /\ v(4) <= 1
        /\ Says(e["TCP_PORT"], v(5), 5100) /\ v(5) \in Nat /\ v(5) <= 65535
    <3>1. 1 \in 1 .. 5 /\ 2 \in 1 .. 5 /\ 3 \in 1 .. 5 /\ 4 \in 1 .. 5 /\ 5 \in 1 .. 5
      OBVIOUS
    <3>2. Says(e["DRONE_ID"], v(1), 0) /\ v(1) \in Nat /\ v(1) <= 255
      BY <2>5, <3>1, FieldPlaces DEF TextOf
    <3>3. Says(e["ROS_DOMAIN_ID"], v(2), 42)
      BY <2>5, <3>1, FieldPlaces DEF TextOf
    <3>4. Says(e["INITIAL_BATTERY"], v(3), 100) /\ v(3) \in Nat /\ v(3) <= 100
      BY <2>5, <3>1, FieldPlaces DEF TextOf
    <3>5. Says(e["FAULT_SILENT_CONSENSUS"], v(4), 0) /\ v(4) \in Nat /\ v(4) <= 1
      BY <2>5, <3>1, FieldPlaces DEF TextOf
    <3>6. Says(e["TCP_PORT"], v(5), 5100) /\ v(5) \in Nat /\ v(5) <= 65535
      BY <2>5, <3>1, FieldPlaces DEF TextOf
    <3> QED BY <3>2, <3>3, <3>4, <3>5, <3>6
  <2>7. v(1) % 2^8 = v(1) /\ v(3) % 2^8 = v(3) /\ v(5) % 2^16 = v(5)
    <3>1. v(3) <= 255
      BY <2>6
    <3> QED BY <2>6, <3>1, FieldsAreWide
  <2>8. Says(e["DRONE_ID"], c.drone_id, 0) /\ Says(e["ROS_DOMAIN_ID"], c.domain_id, 42)
    BY <2>2, <2>6, <2>7
  <2>9. Says(e["INITIAL_BATTERY"], c.battery, 100) /\ c.battery <= 100
    BY <2>2, <2>6, <2>7
  <2>10. /\ c.fault_silent_consensus => Says(e["FAULT_SILENT_CONSENSUS"], 1, 0)
         /\ ~c.fault_silent_consensus => Says(e["FAULT_SILENT_CONSENSUS"], 0, 0)
    <3>1. v(4) = 0 \/ v(4) = 1
      BY <2>6
    <3>2. /\ v(4) = 1 => Says(e["FAULT_SILENT_CONSENSUS"], 1, 0)
          /\ v(4) = 0 => Says(e["FAULT_SILENT_CONSENSUS"], 0, 0)
      BY <2>6
    <3> QED BY <2>3, <3>1, <3>2, Zenon
  <2>11. c.tcp.enabled <=> e["NODE_IP"] # ""
    BY <2>4, Zenon
  <2>12. c.tcp.enabled => /\ c.tcp.listening_port > 0
                          /\ Says(e["TCP_PORT"], c.tcp.listening_port, 5100)
    <3>1. v(5) # 0 => v(5) > 0
      BY <2>6
    <3>2. e.NODE_IP # "" => v(5) # 0
      BY <2>1, Zenon DEF v
    <3>3. c.tcp.enabled => c.tcp.listening_port = v(5) /\ v(5) > 0
      BY <2>4, <2>7, <3>1, <3>2, Zenon
    <3> QED BY <2>6, <3>3
  <2>13. c.node_type = "DRONE" => e["ROLE"] \in {"", c.role}
    BY <2>1, <2>2 DEF NodeType, RoleRefused, RoleOf
  <2>14. Means(c, e)
    BY <2>8, <2>9, <2>10, <2>11, <2>12, <2>13, Zenon DEF Means, Says
  <2> QED BY <2>14, Zenon DEF c
<1>2. ConfigMeansEnvironment
  BY <1>1, Zenon DEF ConfigMeansEnvironment
<1> QED BY <1>2, PTL

=============================================================================

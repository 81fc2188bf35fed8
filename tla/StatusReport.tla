---------------------------- MODULE StatusReport ----------------------------
(***************************************************************************)
(* Thread 1 beside the Task Engine: build_heartbeat asks the task at the   *)
(* head of task_queue_ for its type.  It takes no lock, so the engine may  *)
(* run between front() and the call of get_type(), and destroy the task.   *)
(***************************************************************************)
EXTENDS TaskEngine

VARIABLE front  \* the task Thread 1 has got from front(): none, live, destroyed

reportVars == <<vars, front>>

\* build_heartbeat finds a task at the head; an empty queue is reported as INIT.
GetFront ==
  /\ front = "none"
  /\ task_queue # <<>>
  /\ front' = "live"
  /\ UNCHANGED vars

\* front()->get_type(), and the heartbeat is published.
AskType ==
  /\ front # "none"
  /\ front' = "none"
  /\ UNCHANGED vars

\* The engine's steps that take the head out of the queue, which owns it.
DestroysHead ==
  /\ task_queue # <<>>
  /\ \/ pc = "apply" /\ pending_request.present
     \/ pc = "emergency" /\ EmergencyBegins
     \/ pc = "commands" /\ IdleHead /\ Head(task_queue').type # "IDLE"
     \/ pc = "run" /\ Len(task_queue') < Len(task_queue)
     \/ pc = "record"

Engine ==
  /\ EngineStep
  /\ front' = IF front = "live" /\ DestroysHead THEN "destroyed" ELSE front

Others == OtherThreads /\ UNCHANGED front

ReportInit == Init /\ front = "none"

ReportNext == GetFront \/ AskType \/ Engine \/ Others

ReportSpec == ReportInit /\ [][ReportNext]_reportVars

(* What the comments promise and the code does not do *)

\* "task_queue_ <- no protection, none is needed: only Thread 3 touches it"
\* (swarm_manager.hpp:26-27, 316): then no thread could hold a task that the
\* engine has destroyed.
TasksOutliveTheirUse == front # "destroyed"
=============================================================================

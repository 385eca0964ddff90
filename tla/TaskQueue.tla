----------------------------- MODULE TaskQueue ------------------------------
(***************************************************************************)
(* The Cloud Tasks queue as queueing.py uses it.  A task is named after    *)
(* its job (the deterministic name of enqueue), carries nothing else, and  *)
(* stays in the queue until an attempt is answered with a 2xx status, so   *)
(* the queue is the set of jobs whose task still exists.  Delivery is at   *)
(* least once; which attempts overlap is decided in module Worker.         *)
(***************************************************************************)
VARIABLE tasks   \* the jobs that have an undeleted task

TasksInit == tasks = {}

\* create_task under the name of j
Enqueue(j) == tasks' = tasks \cup {j}

\* An attempt for j was answered with 204: Cloud Tasks deletes the task.
Acknowledge(j) == tasks' = tasks \ {j}
=============================================================================

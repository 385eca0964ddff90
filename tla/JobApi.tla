------------------------------- MODULE JobApi -------------------------------
(***************************************************************************)
(* The handlers of api.py that change or reveal job state, each split at   *)
(* its remote calls, so that other processes may step in between.          *)
(*                                                                         *)
(* Only the owner's requests appear: _owner_record answers everyone else   *)
(* with 404 before a handler does anything, and the owner learns the job   *)
(* id from the 202 answer alone (there is no listing of jobs).  A request  *)
(* that validate_request refuses leaves no trace and does not appear       *)
(* either.                                                                 *)
(***************************************************************************)
EXTENDS JobStore, TaskQueue

VARIABLES
  createPc,   \* createPc[j]: where the create_job call for j stands
  cancel,     \* cancel[j]: the status that a pending cancel_job call has read
  reply,      \* reply[j]: the answer to the last cancel_job call, if it has one
  offered     \* the jobs for which a download URL was handed out

apiVars == <<createPc, cancel, reply, offered>>

CreatePc == {"idle", "enqueue", "fail", "accepted", "refused", "lost"}

ApiInit ==
  /\ createPc = [j \in Jobs |-> "idle"]
  /\ cancel = [j \in Jobs |-> "none"]
  /\ reply = [j \in Jobs |-> "none"]
  /\ offered = {}

SetCreate(j, from, to) ==
  /\ createPc[j] = from
  /\ createPc' = [createPc EXCEPT ![j] = to]
  /\ UNCHANGED <<cancel, reply, offered>>

-----------------------------------------------------------------------------
(* POST /v1/jobs *)

\* The request is valid under the API's settings; its record is inserted.
SubmitJob(j) ==
  /\ SetCreate(j, "idle", "enqueue")
  /\ Create(j)
  /\ UNCHANGED tasks

\* store.create raised: the caller gets a 500.
SubmitError(j) ==
  /\ "store" \in Faults
  /\ SetCreate(j, "idle", "lost")
  /\ MayHave(Create(j))
  /\ UNCHANGED tasks

\* The task is queued and the owner gets 202 with the job id.
EnqueueTask(j) ==
  /\ SetCreate(j, "enqueue", "accepted")
  /\ Enqueue(j)
  /\ UNCHANGED records

\* create_task raised, with the task created or not.
EnqueueError(j) ==
  /\ "queue" \in Faults
  /\ SetCreate(j, "enqueue", "fail")
  /\ Enqueue(j) \/ UNCHANGED tasks
  /\ UNCHANGED records

\* Wrong: the owner gets 503 for a job that stays open.
FailUnqueuedSilently(j) ==
  /\ SetCreate(j, "fail", "refused")
  /\ UNCHANGED <<records, tasks>>

\* The except clause closes the job; the owner gets 503.
FailUnqueued(j) ==
  /\ SetCreate(j, "fail", "refused")
  /\ Fail(j, "QUEUE_UNAVAILABLE")
  /\ UNCHANGED tasks

\* store.fail raised inside the except clause: the owner gets a 500.
FailUnqueuedError(j) ==
  /\ "store" \in Faults
  /\ SetCreate(j, "fail", "lost")
  /\ MayHave(Fail(j, "QUEUE_UNAVAILABLE"))
  /\ UNCHANGED tasks

\* The API process dies in the middle of create_job, before, within or after
\* the call it is making.
ApiCrash(j) ==
  /\ "crash" \in Faults
  /\ \/ /\ SetCreate(j, "enqueue", "lost")
        /\ Enqueue(j) \/ UNCHANGED tasks
        /\ UNCHANGED records
     \/ /\ SetCreate(j, "fail", "lost")
        /\ MayHave(Fail(j, "QUEUE_UNAVAILABLE"))
        /\ UNCHANGED tasks

-----------------------------------------------------------------------------
(* POST /v1/jobs/{job_id}/cancel *)

\* _owner_record: the record the answer may be made from is read first.
CancelRead(j) ==
  /\ createPc[j] = "accepted"
  /\ cancel[j] = "none"
  /\ cancel' = [cancel EXCEPT ![j] = status(j)]
  /\ reply' = [reply EXCEPT ![j] = "none"]
  /\ UNCHANGED <<createPc, offered, records, tasks>>

AnswerCancel(j, answer) ==
  /\ cancel[j] # "none"
  /\ cancel' = [cancel EXCEPT ![j] = "none"]
  /\ reply' = [reply EXCEPT ![j] = answer]
  /\ UNCHANGED <<createPc, offered, tasks>>

\* The transaction cancelled the job, or it answered None and the handler
\* falls back on the record it had read before.
CancelTxn(j) ==
  \/ /\ CancelIfQueued(j)
     /\ AnswerCancel(j, "cancelled")
  \/ /\ status(j) # "queued"
     /\ AnswerCancel(j, IF cancel[j] = "running" THEN "conflict" ELSE cancel[j])
     /\ UNCHANGED records

\* cancel_if_queued raised: a 500, whether or not the job is now cancelled.
CancelError(j) ==
  /\ "store" \in Faults
  /\ AnswerCancel(j, "error")
  /\ MayHave(CancelIfQueued(j))

-----------------------------------------------------------------------------
(* GET /v1/jobs/{job_id}/download *)

\* A URL is signed for the artifact of a succeeded job.
Download(j) ==
  /\ createPc[j] = "accepted"
  /\ status(j) = "succeeded"
  /\ records[j].artifact
  /\ offered' = offered \cup {j}
  /\ UNCHANGED <<createPc, cancel, reply, records, tasks>>

-----------------------------------------------------------------------------
\* The continuation of a handler that is under way.
ApiProgress(j) == EnqueueTask(j) \/ FailUnqueued(j) \/ CancelTxn(j)

ApiStep(j) == SubmitJob(j) \/ CancelRead(j) \/ Download(j) \/ ApiProgress(j)

ApiFault(j) ==
  \/ SubmitError(j) \/ EnqueueError(j) \/ FailUnqueuedError(j)
  \/ ApiCrash(j) \/ CancelError(j)
=============================================================================

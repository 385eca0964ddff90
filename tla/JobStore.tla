------------------------------ MODULE JobStore ------------------------------
(***************************************************************************)
(* The durable job documents of jobs.py, as the production implementation  *)
(* (FirestoreJobStore) keeps them.  A document is created once by the API  *)
(* and afterwards changes only in single-document transactions, so every   *)
(* operation below is one atomic step on `records'.                        *)
(*                                                                         *)
(* A call may also raise.  A raised transaction leaves the caller without  *)
(* the answer to whether it committed; the modules that call the store     *)
(* give each such call an action of its own, with MayHave(commit).         *)
(***************************************************************************)
CONSTANTS
  Jobs,     \* job ids: uuid4 values, so a job id is never created twice
  Faults    \* the classes of faults that may occur, see FaultClasses

(***************************************************************************)
(* "store": a Firestore call raises; "queue": create_task raises; "crash": *)
(* an API or worker process dies; "duplicate": Cloud Tasks delivers a task *)
(* again while, or after, an attempt for it runs.                          *)
(***************************************************************************)
FaultClasses == {"store", "queue", "crash", "duplicate"}

ASSUME FaultsAssumption == Faults \subseteq FaultClasses

VARIABLE records   \* records[j]: the Firestore document of job j

JobStatus == {"queued", "running", "succeeded", "failed", "cancelled"}

Terminal == {"succeeded", "failed", "cancelled"}

ErrorCodes == {"QUEUE_UNAVAILABLE", "POLICY_REJECTED", "EXECUTION_FAILED"}

(***************************************************************************)
(* What the properties need of a JobRecord.  "absent" is the status of a   *)
(* document that does not exist; started and finished say whether the      *)
(* timestamps are set; artifact says whether the record names a report.    *)
(***************************************************************************)
JobRecord == [status     : JobStatus \cup {"absent"},
              started    : BOOLEAN,
              finished   : BOOLEAN,
              error_code : ErrorCodes \cup {"none"},
              artifact   : BOOLEAN]

Absent == [status |-> "absent", started |-> FALSE, finished |-> FALSE,
           error_code |-> "none", artifact |-> FALSE]

NewRecord == [Absent EXCEPT !.status = "queued"]

StoreInit == records = [j \in Jobs |-> Absent]

status(j) == records[j].status

Active(j) == status(j) \in {"queued", "running"}

-----------------------------------------------------------------------------
\* The API's one insertion: document.create() refuses an existing id.
Create(j) ==
  /\ status(j) = "absent"
  /\ records' = [records EXCEPT ![j] = NewRecord]

\* Wrong: the claim does not look at the status.
ClaimUnchecked(j) ==
  /\ status(j) # "absent"
  /\ records' = [records EXCEPT ![j].status = "running", ![j].started = TRUE]

\* The worker's queued -> running transition; not enabled when claim() would
\* return None.
Claim(j) ==
  /\ status(j) = "queued"
  /\ records' = [records EXCEPT ![j].status = "running", ![j].started = TRUE]

\* Wrong: a job that is closed already is closed once more.
FinishAgain(j, outcome, code, report) ==
  records' = [records EXCEPT ![j].status = outcome,
                             ![j].finished = TRUE,
                             ![j].error_code = code,
                             ![j].artifact = report]

\* _finish: a queued or a running job is closed with the given fields; any
\* other job is returned as it is, without an error.
Finish(j, outcome, code, report) ==
  IF Active(j)
  THEN records' = [records EXCEPT ![j].status = outcome,
                                  ![j].finished = TRUE,
                                  ![j].error_code = code,
                                  ![j].artifact = report]
  ELSE UNCHANGED records

\* Wrong: a status that models.py does not list.
SucceedUnlisted(j) == Finish(j, "completed", "none", TRUE)

Succeed(j) == Finish(j, "succeeded", "none", TRUE)

\* Wrong: only a succeeded job is safe from a late fail().
FailUnlessSucceeded(j, code) ==
  /\ status(j) # "succeeded"
  /\ records' = [records EXCEPT ![j].status = "failed",
                                ![j].finished = TRUE,
                                ![j].error_code = code]

Fail(j, code) == Finish(j, "failed", code, FALSE)

\* Wrong: a job that was queued when the handler read it, but runs by now, is
\* cancelled all the same.
CancelActive(j) ==
  /\ Active(j)
  /\ records' = [records EXCEPT ![j].status = "cancelled", ![j].finished = TRUE]

\* The owner's queued -> cancelled transition; not enabled when
\* cancel_if_queued() would return None.
CancelIfQueued(j) ==
  /\ status(j) = "queued"
  /\ records' = [records EXCEPT ![j].status = "cancelled", ![j].finished = TRUE]

\* A store call that raised: its transaction committed, or it did not.
MayHave(commit) == commit \/ UNCHANGED records
=============================================================================

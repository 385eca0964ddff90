----------------------------- MODULE JobService -----------------------------
(***************************************************************************)
(* The API, the queue and the workers around the one job store: every      *)
(* interleaving of their remote calls, with the faults that Faults allows. *)
(***************************************************************************)
EXTENDS JobApi, Worker

vars == <<records, tasks, apiVars, workerVars>>

Init == StoreInit /\ TasksInit /\ ApiInit /\ WorkerInit

-----------------------------------------------------------------------------
\* Each process leaves the other's private state alone.
Api(A) == A /\ UNCHANGED workerVars

Work(A) == A /\ UNCHANGED apiVars

NormalStep ==
  \/ \E j \in Jobs : Api(ApiStep(j))
  \/ \E w \in Workers : Work(WorkerStep(w) \/ Recycle(w))
  \/ \E w \in Workers, j \in Jobs : Work(Deliver(w, j))
  \/ \E j \in Jobs : Work(Revoke(j))

FaultStep ==
  \/ \E j \in Jobs : Api(ApiFault(j))
  \/ \E w \in Workers : Work(WorkerFault(w))

Next == NormalStep \/ FaultStep

(***************************************************************************)
(* A handler that has begun goes on, and a task that is waiting is         *)
(* delivered.  Nobody has to submit, cancel or download anything, and no   *)
(* fault has to happen or to stop happening.                               *)
(***************************************************************************)
Fairness ==
  /\ \A j \in Jobs : WF_vars(Api(ApiProgress(j)))
  /\ \A w \in Workers : WF_vars(Work(WorkerStep(w)))
  /\ \A j \in Jobs : WF_vars(\E w \in Workers : Work(Deliver(w, j)))

Spec == Init /\ [][Next]_vars /\ Fairness

-----------------------------------------------------------------------------
(* Invariants *)

\* Every variable keeps its type: the job document of models.py, the call a
\* handler of api.py or worker.py stands at, and the sets of jobs.
TypeOK ==
  /\ records \in [Jobs -> JobRecord]
  /\ tasks \subseteq Jobs
  /\ createPc \in [Jobs -> CreatePc]
  /\ cancel \in [Jobs -> JobStatus \cup {"none"}]
  /\ reply \in [Jobs -> JobStatus \cup {"none", "error", "conflict"}]
  /\ offered \subseteq Jobs
  /\ pc \in [Workers -> WorkerPc]
  /\ job \in [Workers -> Jobs \cup {NoJob}]
  /\ settings \in [Workers -> SUBSET Jobs]
  /\ policy \subseteq Jobs
  /\ reports \subseteq Jobs
  /\ runs \in [Jobs -> Nat]
  /\ mails \in [Jobs -> Nat]

\* However often Cloud Tasks delivers a task, and whatever store calls fail,
\* the transactional claim of jobs.py lets one attempt start the search, and
\* the report is mailed once at most.
AtMostOnce == \A j \in Jobs : runs[j] <= 1 /\ mails[j] <= runs[j]

\* A job shown as succeeded has its workbook in the reports bucket, although
\* succeed() may be answered with an error, repeated as fail(), or arrive
\* after the job was closed; a download URL leads to such a job only.
SucceededHasReport ==
  \A j \in Jobs :
    /\ status(j) = "succeeded" => j \in reports /\ runs[j] = 1
    /\ j \in offered => status(j) = "succeeded"

\* Once cancel_if_queued has cancelled a job, no attempt whose store.get or
\* validate_request came before runs its search, uploads or mails anything.
CancelledNeverRuns ==
  \A j \in Jobs :
    status(j) = "cancelled" \/ reply[j] = "cancelled" =>
      /\ status(j) = "cancelled"
      /\ ~records[j].started
      /\ runs[j] = 0 /\ mails[j] = 0 /\ j \notin reports

\* A job the owner was told is queued keeps its task until it is claimed or
\* closed: run_job never answers 204 for a job it leaves queued.
AcceptedKeepsTask ==
  \A j \in Jobs : createPc[j] = "accepted" /\ status(j) = "queued" => j \in tasks

-----------------------------------------------------------------------------
(* The inductive invariant behind them *)

\* The attempt that started the search of its job and is still at it.
Owns(w) == pc[w] \in {"execute", "upload", "email", "succeed"}

RunsInv ==
  \A j \in Jobs :
    /\ runs[j] \in {0, 1}
    /\ mails[j] <= runs[j]
    /\ j \in reports => runs[j] = 1
    /\ status(j) \in {"absent", "queued", "cancelled"} => runs[j] = 0 /\ ~records[j].started
    /\ status(j) = "succeeded" => j \in reports

OwnerInv ==
  \A w \in Workers :
    Owns(w) =>
      /\ runs[job[w]] = 1
      /\ pc[w] # "succeed" => mails[job[w]] = 0
      /\ pc[w] \in {"email", "succeed"} => job[w] \in reports
      /\ \A v \in Workers : Owns(v) /\ job[v] = job[w] => v = w

AttemptInv ==
  \A w \in Workers :
    /\ pc[w] = "idle" <=> job[w] = NoJob
    /\ pc[w] # "idle" => status(job[w]) # "absent"
    /\ pc[w] = "claim" => job[w] \in settings[w]
    /\ pc[w] = "ack" => status(job[w]) # "queued"

OwnerViewInv ==
  \A j \in Jobs :
    /\ j \in tasks \/ createPc[j] \in {"enqueue", "accepted"} => status(j) # "absent"
    /\ "cancelled" \in {cancel[j], reply[j]} => status(j) = "cancelled"
    /\ j \in offered => status(j) = "succeeded"

\* Searches, reports and mails belong to the one attempt that claimed the job,
\* and what a handler remembers of a job between two calls stays true of it.
ServiceInv ==
  RunsInv /\ OwnerInv /\ AttemptInv /\ OwnerViewInv /\ AcceptedKeepsTask

-----------------------------------------------------------------------------
(* Action properties *)

\* A closed job stays as it was closed: no late succeed, fail, cancel or
\* claim, from whatever process, changes its document again.
ClosedIsFinal ==
  [][\A j \in Jobs : status(j) \in Terminal => records'[j] = records[j]]_vars

\* Revoking takes effect for jobs already queued: once no instance holds
\* settings under which the request of j is valid, its search is not started.
RevocationHolds ==
  [][\A j \in Jobs :
       (\A w \in Workers : j \notin settings[w]) => runs'[j] = runs[j]]_vars

-----------------------------------------------------------------------------
(* Refinement *)

\* The service keeps the promise of JobLifecycle.
Lifecycle == INSTANCE JobLifecycle WITH
  phase     <- [j \in Jobs |-> records[j].status],
  started   <- {j \in Jobs : runs[j] > 0},
  published <- reports

KeepsPromise == Lifecycle!Spec

-----------------------------------------------------------------------------
(* Liveness: what holds if faults stop at some time *)

\* An attempt that got the claim, or an error in its stead, and has not closed
\* the job yet.
Closing == {"execute", "upload", "email", "succeed", "fail"}

\* The job runs, and no attempt is left that will close it.
Orphaned(j) ==
  status(j) = "running" /\ \A w \in Workers : job[w] = j => pc[w] \notin Closing

\* Only a failed store call or a dead instance can orphan a running job:
\* every path of run_job from the claim on ends in succeed() or fail(), even
\* if a duplicate attempt or the API closes the job first.
OrphanedByFaultOnly ==
  [][NormalStep => \A j \in Jobs : Orphaned(j)' => Orphaned(j)]_vars

\* The job is queued, has no task, and no create_job call is left that will add
\* the task or close the job.
Stranded(j) ==
  /\ status(j) = "queued"
  /\ j \notin tasks
  /\ createPc[j] \notin {"enqueue", "fail"}

\* Only a failed store call or a process that dies can leave a queued job
\* without a task, whether or not its owner has been given the job id: create_job
\* closes what it cannot enqueue, and run_job acknowledges no queued job.
StrandedByFaultOnly ==
  [][NormalStep => \A j \in Jobs : Stranded(j)' => Stranded(j)]_vars

FaultsCease == <>[][~FaultStep]_vars

\* An accepted job does not stay queued, however many attempts for it ended in
\* a 500 or died with their instance, and a job that is not orphaned is closed.
AcceptedIsSettled ==
  FaultsCease =>
    \A j \in Jobs :
      createPc[j] = "accepted" ~> status(j) \in Terminal \/ Orphaned(j)

-----------------------------------------------------------------------------
(* Statements of the documentation that some run of the code contradicts *)

\* DOCUMENTATION.md:422: cancelling answers 409 if the job already runs.
RunningCancelConflicts ==
  [][\A j \in Jobs :
       status(j) = "running" /\ cancel[j] # "none" /\ cancel'[j] = "none"
         => reply'[j] = "conflict"]_vars

\* WORKFLOW_DIAGRAM.md:164 and 166: an unavailable queue or a rejecting policy
\* fails a queued job; a running job fails by its execution.
FailureFitsPhase ==
  [][\A j \in Jobs :
       status(j) = "running" /\ status(j)' = "failed"
         => records'[j].error_code = "EXECUTION_FAILED"]_vars

\* DOCUMENTATION.md:362: the worker revalidates the policy "at execution time - so
\* revoking a scope takes effect even for already-queued jobs": a job that waits in
\* the queue when its request is revoked, with no attempt at it under way, is never
\* started.
RevocationTakesEffect ==
  \A j \in Jobs :
    [](j \notin policy /\ status(j) = "queued" /\ ~InFlight(j) => [](runs[j] = 0))

\* DOCUMENTATION.md:161: a running job ends as succeeded, or as failed for any
\* runtime failure.
RunningIsClosed ==
  FaultsCease => \A j \in Jobs : status(j) = "running" ~> status(j) \in Terminal
=============================================================================

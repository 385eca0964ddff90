-------------------------- MODULE JobServiceProofs --------------------------
(***************************************************************************)
(* Proofs about JobService for any sets of jobs and instances and any      *)
(* class of faults.                                                        *)
(***************************************************************************)
EXTENDS JobService, TLAPS

\* The store's operations, which several actions use.
LEMMA FinishType ==
  ASSUME NEW j \in Jobs, NEW outcome \in JobStatus,
         NEW code \in ErrorCodes \cup {"none"}, NEW report \in BOOLEAN,
         records \in [Jobs -> JobRecord], Finish(j, outcome, code, report)
  PROVE  records' \in [Jobs -> JobRecord]
BY DEF Finish, JobRecord, Active, status, JobStatus

LEMMA ClaimType ==
  ASSUME NEW j \in Jobs, records \in [Jobs -> JobRecord], Claim(j)
  PROVE  records' \in [Jobs -> JobRecord]
BY DEF Claim, JobRecord, JobStatus

LEMMA CancelType ==
  ASSUME NEW j \in Jobs, records \in [Jobs -> JobRecord], CancelIfQueued(j)
  PROVE  records' \in [Jobs -> JobRecord]
BY DEF CancelIfQueued, JobRecord, JobStatus

LEMMA CreateType ==
  ASSUME NEW j \in Jobs, records \in [Jobs -> JobRecord], Create(j)
  PROVE  records' \in [Jobs -> JobRecord]
BY DEF Create, NewRecord, Absent, JobRecord, JobStatus

\* What the invariant needs to know of each operation: the statuses before and
\* after it, and whether started_at is set.
ClosedOrKept(j, outcome) ==
  \A k \in Jobs :
    /\ records'[k].started = records[k].started
    /\ \/ records'[k].status = records[k].status
       \/ /\ k = j /\ records[k].status \in {"queued", "running"}
          /\ records'[k].status = outcome

LEMMA FinishEffect ==
  ASSUME NEW j \in Jobs, NEW outcome, NEW code, NEW report,
         records \in [Jobs -> JobRecord],
         Finish(j, outcome, code, report) \/ UNCHANGED records
  PROVE  ClosedOrKept(j, outcome)
BY DEF ClosedOrKept, Finish, JobRecord, Active, status

LEMMA FinishCloses ==
  ASSUME NEW j \in Jobs, NEW outcome \in Terminal, NEW code, NEW report,
         records \in [Jobs -> JobRecord], Finish(j, outcome, code, report)
  PROVE  records'[j].status \notin {"queued", "running"}
BY DEF Finish, JobRecord, Active, status, Terminal

LEMMA ClaimEffect ==
  ASSUME NEW j \in Jobs, records \in [Jobs -> JobRecord], Claim(j)
  PROVE  /\ records[j].status = "queued" /\ records'[j].status = "running"
         /\ \A k \in Jobs \ {j} : records'[k] = records[k]
BY DEF Claim, JobRecord, status

LEMMA CancelEffect ==
  ASSUME NEW j \in Jobs, records \in [Jobs -> JobRecord], CancelIfQueued(j)
  PROVE  /\ records[j].status = "queued" /\ records'[j].status = "cancelled"
         /\ records'[j].started = records[j].started
         /\ \A k \in Jobs \ {j} : records'[k] = records[k]
BY DEF CancelIfQueued, JobRecord, status

LEMMA CreateEffect ==
  ASSUME NEW j \in Jobs, records \in [Jobs -> JobRecord], Create(j)
  PROVE  /\ records[j].status = "absent" /\ records'[j].status = "queued"
         /\ ~records'[j].started
         /\ \A k \in Jobs \ {j} : records'[k] = records[k]
BY DEF Create, NewRecord, Absent, JobRecord, status

-----------------------------------------------------------------------------
LEMMA InitType == Init => TypeOK
BY DEF Init, TypeOK, StoreInit, TasksInit, ApiInit, WorkerInit, Absent,
       JobRecord, CreatePc, WorkerPc

LEMMA ApiType ==
  ASSUME TypeOK, ServiceInv, NEW j \in Jobs, Api(ApiStep(j) \/ ApiFault(j))
  PROVE  TypeOK'
<1> USE DEF TypeOK, apiVars, workerVars, SetCreate, CreatePc
<1>0. UNCHANGED workerVars
  BY DEF Api
<1>1. CASE SubmitJob(j)
  BY <1>0, <1>1, CreateType DEF SubmitJob
<1>2. CASE EnqueueTask(j)
  BY <1>0, <1>2 DEF EnqueueTask, Enqueue
<1>3. CASE FailUnqueued(j)
  BY <1>0, <1>3, FinishType DEF FailUnqueued, Fail, JobStatus, ErrorCodes
<1>4. CASE CancelRead(j)
  <2>1. status(j) \in JobStatus
    BY <1>4 DEF CancelRead, ServiceInv, OwnerViewInv, status, JobRecord
  <2> QED BY <1>0, <1>4, <2>1 DEF CancelRead
<1>5. CASE CancelTxn(j)
  BY <1>0, <1>5, CancelType DEF CancelTxn, AnswerCancel, JobStatus
<1>6. CASE Download(j)
  BY <1>0, <1>6 DEF Download
<1>7. CASE SubmitError(j)
  BY <1>0, <1>7, CreateType DEF SubmitError, MayHave
<1>8. CASE EnqueueError(j)
  BY <1>0, <1>8 DEF EnqueueError, Enqueue
<1>9. CASE FailUnqueuedError(j)
  BY <1>0, <1>9, FinishType DEF FailUnqueuedError, MayHave, Fail, JobStatus, ErrorCodes
<1>10. CASE ApiCrash(j)
  BY <1>0, <1>10, FinishType DEF ApiCrash, MayHave, Enqueue, Fail, JobStatus, ErrorCodes
<1>11. CASE CancelError(j)
  BY <1>0, <1>11, CancelType DEF CancelError, AnswerCancel, MayHave
<1> QED
  BY <1>1, <1>2, <1>3, <1>4, <1>5, <1>6, <1>7, <1>8, <1>9, <1>10, <1>11
     DEF Api, ApiStep, ApiProgress, ApiFault

LEMMA WorkerType ==
  ASSUME TypeOK, ServiceInv, NEW w \in Workers, Work(WorkerStep(w) \/ WorkerFault(w))
  PROVE  TypeOK'
<1> USE DEF TypeOK, apiVars, At, Goto, Release, Abort, NoEffects, WorkerPc
<1>0. UNCHANGED apiVars
  BY DEF Work
<1>1. pc[w] # "idle" => job[w] \in Jobs
  BY NoJobAssumption DEF ServiceInv, AttemptInv
<1>2. CASE GetRecord(w) \/ GetError(w)
  BY <1>0, <1>2 DEF GetRecord, GetError
<1>3. CASE RejectByPolicy(w) \/ RejectError(w)
  BY <1>0, <1>1, <1>3, FinishType
     DEF RejectByPolicy, RejectError, MayHave, Fail, JobStatus, ErrorCodes
<1>4. CASE ClaimJob(w) \/ ClaimError(w)
  BY <1>0, <1>1, <1>4, ClaimType DEF ClaimJob, ClaimError, MayHave
<1>5. CASE Execute(w)
  BY <1>0, <1>5 DEF Execute
<1>6. CASE Upload(w)
  BY <1>0, <1>1, <1>6 DEF Upload
<1>7. CASE SendEmail(w)
  BY <1>0, <1>1, <1>7 DEF SendEmail
<1>8. CASE SucceedJob(w) \/ SucceedError(w)
  BY <1>0, <1>1, <1>8, FinishType DEF SucceedJob, SucceedError, MayHave, Succeed, JobStatus
<1>9. CASE FailJob(w) \/ FailError(w)
  BY <1>0, <1>1, <1>9, FinishType
     DEF FailJob, FailError, MayHave, Fail, JobStatus, ErrorCodes
<1>10. CASE Respond(w) \/ RespondLost(w)
  BY <1>0, <1>10 DEF Respond, RespondLost, Acknowledge
<1>11. CASE Crash(w)
  BY <1>0, <1>11 DEF Crash, Restart
<1>12. CASE \E j \in Jobs : DeliverAgain(w, j)
  BY <1>0, <1>12 DEF DeliverAgain, Start
<1> QED
  BY <1>2, <1>3, <1>4, <1>5, <1>6, <1>7, <1>8, <1>9, <1>10, <1>11, <1>12
     DEF Work, WorkerStep, WorkerFault

LEMMA NextType == TypeOK /\ ServiceInv /\ [Next]_vars => TypeOK'
<1> SUFFICES ASSUME TypeOK, ServiceInv, [Next]_vars PROVE TypeOK'
  OBVIOUS
<1>1. CASE UNCHANGED vars
  BY <1>1 DEF TypeOK, vars, apiVars, workerVars
<1>2. CASE \E j \in Jobs : Api(ApiStep(j) \/ ApiFault(j))
  BY <1>2, ApiType
<1>3. CASE \E w \in Workers : Work(WorkerStep(w) \/ WorkerFault(w))
  BY <1>3, WorkerType
<1>4. CASE \E w \in Workers : Work(Recycle(w))
  BY <1>4 DEF Work, Recycle, Restart, TypeOK, apiVars, NoEffects
<1>5. CASE \E w \in Workers, j \in Jobs : Work(Deliver(w, j))
  BY <1>5 DEF Work, Deliver, Start, At, TypeOK, apiVars, NoEffects, WorkerPc
<1>6. CASE \E j \in Jobs : Work(Revoke(j))
  BY <1>6 DEF Work, Revoke, TypeOK, apiVars, NoEffects
<1> QED
  BY <1>1, <1>2, <1>3, <1>4, <1>5, <1>6 DEF Next, NormalStep, FaultStep, Api, Work

-----------------------------------------------------------------------------
LEMMA InitInv == Init => ServiceInv
BY NoJobAssumption
   DEF Init, ServiceInv, RunsInv, OwnerInv, AttemptInv, OwnerViewInv,
       AcceptedKeepsTask, Owns, StoreInit, TasksInit, ApiInit, WorkerInit, Absent, status

LEMMA ApiInv ==
  ASSUME TypeOK, ServiceInv, NEW j \in Jobs, Api(ApiStep(j) \/ ApiFault(j))
  PROVE  ServiceInv'
<1> USE DEF TypeOK, ServiceInv, RunsInv, OwnerInv, AttemptInv, OwnerViewInv,
            AcceptedKeepsTask, Owns, apiVars, workerVars, SetCreate, status
<1>0. UNCHANGED workerVars
  BY DEF Api
<1>1. CASE SubmitJob(j) \/ SubmitError(j)
  BY <1>0, <1>1, CreateEffect DEF SubmitJob, SubmitError, MayHave
<1>2. CASE EnqueueTask(j) \/ EnqueueError(j)
  BY <1>0, <1>2 DEF EnqueueTask, EnqueueError, Enqueue
<1>3. CASE FailUnqueued(j) \/ FailUnqueuedError(j)
  <2>1. ClosedOrKept(j, "failed")
    BY <1>3, FinishEffect DEF FailUnqueued, FailUnqueuedError, MayHave, Fail
  <2> QED BY <1>0, <1>3, <2>1 DEF FailUnqueued, FailUnqueuedError, ClosedOrKept
<1>4. CASE CancelRead(j)
  BY <1>0, <1>4 DEF CancelRead
<1>5. CASE CancelTxn(j) \/ CancelError(j)
  BY <1>0, <1>5, CancelEffect DEF CancelTxn, CancelError, AnswerCancel, MayHave
<1>6. CASE Download(j)
  BY <1>0, <1>6 DEF Download
<1>7. CASE ApiCrash(j)
  <2>1. ClosedOrKept(j, "failed")
    BY <1>7, FinishEffect DEF ApiCrash, MayHave, Fail
  <2> QED BY <1>0, <1>7, <2>1 DEF ApiCrash, Enqueue, ClosedOrKept
<1> QED
  BY <1>1, <1>2, <1>3, <1>4, <1>5, <1>6, <1>7 DEF Api, ApiStep, ApiProgress, ApiFault

LEMMA WorkerInv ==
  ASSUME TypeOK, ServiceInv, NEW w \in Workers, Work(WorkerStep(w) \/ WorkerFault(w))
  PROVE  ServiceInv'
<1> USE DEF TypeOK, ServiceInv, RunsInv, OwnerInv, AttemptInv, OwnerViewInv,
            AcceptedKeepsTask, Owns, apiVars, At, Goto, Release, Abort, NoEffects, status
<1>0. UNCHANGED apiVars
  BY DEF Work
<1>1. pc[w] # "idle" => job[w] \in Jobs
  BY NoJobAssumption
<1>2. CASE GetRecord(w) \/ GetError(w)
  BY <1>0, <1>1, <1>2 DEF GetRecord, GetError
<1>3. CASE RejectByPolicy(w) \/ RejectError(w)
  <2>1. ClosedOrKept(job[w], "failed")
    BY <1>1, <1>3, FinishEffect DEF RejectByPolicy, RejectError, MayHave, Fail
  <2>2. RejectByPolicy(w) => records'[job[w]].status # "queued"
    BY <1>1, FinishCloses DEF RejectByPolicy, Fail, Terminal
  <2>3. RunsInv' /\ OwnerInv'
    BY <1>0, <1>1, <1>3, <2>1 DEF RejectByPolicy, RejectError, ClosedOrKept
  <2>4. AttemptInv'
    BY <1>0, <1>1, <1>3, <2>1, <2>2, NoJobAssumption DEF RejectByPolicy, RejectError, ClosedOrKept
  <2>5. OwnerViewInv' /\ AcceptedKeepsTask'
    BY <1>0, <1>1, <1>3, <2>1 DEF RejectByPolicy, RejectError, ClosedOrKept
  <2> QED BY <2>3, <2>4, <2>5
<1>4. CASE ClaimJob(w)
  BY <1>0, <1>1, <1>4, ClaimEffect DEF ClaimJob
<1>5. CASE ClaimError(w)
  BY <1>0, <1>1, <1>5, ClaimEffect DEF ClaimError, MayHave
<1>6. CASE Execute(w)
  BY <1>0, <1>1, <1>6 DEF Execute
<1>7. CASE Upload(w)
  BY <1>0, <1>1, <1>7 DEF Upload
<1>8. CASE SendEmail(w)
  BY <1>0, <1>1, <1>8 DEF SendEmail
<1>9. CASE SucceedJob(w) \/ SucceedError(w)
  <2>1. ClosedOrKept(job[w], "succeeded")
    BY <1>1, <1>9, FinishEffect DEF SucceedJob, SucceedError, MayHave, Succeed
  <2>2. SucceedJob(w) => records'[job[w]].status # "queued"
    BY <1>1, FinishCloses DEF SucceedJob, Succeed, Terminal
  <2>3. RunsInv' /\ OwnerInv'
    BY <1>0, <1>1, <1>9, <2>1 DEF SucceedJob, SucceedError, ClosedOrKept
  <2>4. AttemptInv'
    BY <1>0, <1>1, <1>9, <2>1, <2>2, NoJobAssumption DEF SucceedJob, SucceedError, ClosedOrKept
  <2>5. OwnerViewInv' /\ AcceptedKeepsTask'
    BY <1>0, <1>1, <1>9, <2>1 DEF SucceedJob, SucceedError, ClosedOrKept
  <2> QED BY <2>3, <2>4, <2>5
<1>10. CASE FailJob(w) \/ FailError(w)
  <2>1. ClosedOrKept(job[w], "failed")
    BY <1>1, <1>10, FinishEffect DEF FailJob, FailError, MayHave, Fail
  <2>2. FailJob(w) => records'[job[w]].status # "queued"
    BY <1>1, FinishCloses DEF FailJob, Fail, Terminal
  <2>3. RunsInv' /\ OwnerInv'
    BY <1>0, <1>1, <1>10, <2>1 DEF FailJob, FailError, ClosedOrKept
  <2>4. AttemptInv'
    BY <1>0, <1>1, <1>10, <2>1, <2>2, NoJobAssumption DEF FailJob, FailError, ClosedOrKept
  <2>5. OwnerViewInv' /\ AcceptedKeepsTask'
    BY <1>0, <1>1, <1>10, <2>1 DEF FailJob, FailError, ClosedOrKept
  <2> QED BY <2>3, <2>4, <2>5
<1>11. CASE Respond(w) \/ RespondLost(w)
  BY <1>0, <1>1, <1>11 DEF Respond, RespondLost, Acknowledge
<1>12. CASE Crash(w)
  BY <1>0, <1>1, <1>12 DEF Crash, Restart
<1>13. CASE \E j \in Jobs : DeliverAgain(w, j)
  BY <1>0, <1>13, NoJobAssumption DEF DeliverAgain, Start
<1> QED
  BY <1>2, <1>3, <1>4, <1>5, <1>6, <1>7, <1>8, <1>9, <1>10, <1>11, <1>12, <1>13
     DEF Work, WorkerStep, WorkerFault

LEMMA NextInv == TypeOK /\ ServiceInv /\ [Next]_vars => ServiceInv'
<1> SUFFICES ASSUME TypeOK, ServiceInv, [Next]_vars PROVE ServiceInv'
  OBVIOUS
<1> USE DEF TypeOK, ServiceInv, RunsInv, OwnerInv, AttemptInv, OwnerViewInv,
            AcceptedKeepsTask, Owns, apiVars, status
<1>1. CASE UNCHANGED vars
  BY <1>1 DEF vars, workerVars
<1>2. CASE \E j \in Jobs : Api(ApiStep(j) \/ ApiFault(j))
  BY <1>2, ApiInv
<1>3. CASE \E w \in Workers : Work(WorkerStep(w) \/ WorkerFault(w))
  BY <1>3, WorkerInv
<1>4. CASE \E w \in Workers : Work(Recycle(w))
  BY <1>4 DEF Work, Recycle, Restart, NoEffects
<1>5. CASE \E w \in Workers, j \in Jobs : Work(Deliver(w, j))
  BY <1>5, NoJobAssumption DEF Work, Deliver, Start, At, NoEffects
<1>6. CASE \E j \in Jobs : Work(Revoke(j))
  BY <1>6 DEF Work, Revoke, NoEffects
<1> QED
  BY <1>1, <1>2, <1>3, <1>4, <1>5, <1>6 DEF Next, NormalStep, FaultStep, Api, Work

-----------------------------------------------------------------------------
\* Every reachable state has the types of TypeOK and satisfies the inductive
\* invariant: the two are inductive together, because the types of mails and of
\* a pending cancel call depend on what the handlers know of the job.
THEOREM Invariance == Spec => [](TypeOK /\ ServiceInv)
<1>1. Init => TypeOK /\ ServiceInv
  BY InitType, InitInv
<1>2. TypeOK /\ ServiceInv /\ [Next]_vars => (TypeOK /\ ServiceInv)'
  BY NextType, NextInv
<1> QED
  BY <1>1, <1>2, PTL DEF Spec

\* Type correctness of the service.
THEOREM TypeCorrect == Spec => []TypeOK
BY Invariance, PTL

\* The inductive invariant of the service, which its safety rests on.
THEOREM ServiceInvariant == Spec => []ServiceInv
BY Invariance, PTL

\* One search and one mail per job, whatever the queue delivers again.
THEOREM AtMostOnceHolds == Spec => []AtMostOnce
<1>1. RunsInv => AtMostOnce
  <2> SUFFICES ASSUME RunsInv, NEW j \in Jobs
               PROVE  runs[j] <= 1 /\ mails[j] <= runs[j]
    BY DEF AtMostOnce
  <2>1. runs[j] \in {0, 1} /\ mails[j] <= runs[j]
    BY DEF RunsInv
  <2> QED BY <2>1
<1>2. ServiceInv => RunsInv
  BY DEF ServiceInv
<1> QED
  BY <1>1, <1>2, Invariance, PTL

\* A succeeded job has its workbook.
THEOREM SucceededHasReportHolds == Spec => []SucceededHasReport
<1>1. TypeOK /\ ServiceInv => SucceededHasReport
  BY DEF ServiceInv, RunsInv, OwnerViewInv, SucceededHasReport
<1> QED
  BY <1>1, Invariance, PTL

\* A cancelled job has no effect, before or after the cancel call.
THEOREM CancelledNeverRunsHolds == Spec => []CancelledNeverRuns
<1>1. TypeOK /\ ServiceInv => CancelledNeverRuns
  BY DEF TypeOK, ServiceInv, RunsInv, OwnerViewInv, CancelledNeverRuns
<1> QED
  BY <1>1, Invariance, PTL

\* An accepted job that is still queued has its task.
THEOREM AcceptedKeepsTaskHolds == Spec => []AcceptedKeepsTask
<1>1. ServiceInv => AcceptedKeepsTask
  BY DEF ServiceInv
<1> QED
  BY <1>1, Invariance, PTL

-----------------------------------------------------------------------------
\* Every step of the service is at most one operation of the job store.
LEMMA StoreSteps ==
  ASSUME TypeOK, ServiceInv, [Next]_vars
  PROVE  \/ UNCHANGED records
         \/ \E j \in Jobs :
              \/ Create(j) \/ Claim(j) \/ CancelIfQueued(j) \/ Succeed(j)
              \/ \E code \in ErrorCodes : Fail(j, code)
<1>0. \A w \in Workers : pc[w] # "idle" => job[w] \in Jobs
  BY NoJobAssumption DEF TypeOK, ServiceInv, AttemptInv
<1>1. CASE UNCHANGED vars
  BY <1>1 DEF vars
<1>2. ASSUME NEW j \in Jobs, Api(ApiStep(j) \/ ApiFault(j))
      PROVE  \/ UNCHANGED records \/ Create(j) \/ CancelIfQueued(j)
             \/ Fail(j, "QUEUE_UNAVAILABLE")
  BY <1>2
     DEF Api, ApiStep, ApiProgress, ApiFault, SubmitJob, SubmitError, EnqueueTask,
         EnqueueError, FailUnqueued, FailUnqueuedError, ApiCrash, CancelRead,
         CancelTxn, CancelError, Download, MayHave
<1>3. ASSUME NEW w \in Workers, Work(WorkerStep(w) \/ WorkerFault(w))
      PROVE  \/ UNCHANGED records
             \/ /\ pc[w] # "idle"
                /\ \/ Claim(job[w]) \/ Succeed(job[w])
                   \/ Fail(job[w], "POLICY_REJECTED") \/ Fail(job[w], "EXECUTION_FAILED")
  BY <1>3
     DEF Work, WorkerStep, WorkerFault, GetRecord, GetError, RejectByPolicy,
         RejectError, ClaimJob, ClaimError, Execute, Upload, SendEmail, SucceedJob,
         SucceedError, FailJob, FailError, Respond, RespondLost, Crash, Restart,
         DeliverAgain, Start, At, MayHave
<1>4. CASE \E w \in Workers : Work(Recycle(w))
  BY <1>4 DEF Work, Recycle, Restart
<1>5. CASE \E w \in Workers, j \in Jobs : Work(Deliver(w, j))
  BY <1>5 DEF Work, Deliver, Start
<1>6. CASE \E j \in Jobs : Work(Revoke(j))
  BY <1>6 DEF Work, Revoke
<1>7. {"QUEUE_UNAVAILABLE", "POLICY_REJECTED", "EXECUTION_FAILED"} \subseteq ErrorCodes
  BY DEF ErrorCodes
<1> QED
  BY <1>0, <1>1, <1>2, <1>3, <1>4, <1>5, <1>6, <1>7
     DEF Next, NormalStep, FaultStep, Api, Work

\* A closed job's document never changes again.
THEOREM ClosedIsFinalHolds == Spec => ClosedIsFinal
<1> DEFINE Kept == \A j \in Jobs : status(j) \in Terminal => records'[j] = records[j]
<1>1. TypeOK /\ ServiceInv /\ [Next]_vars => Kept
  <2> SUFFICES ASSUME TypeOK, ServiceInv, [Next]_vars PROVE Kept
    OBVIOUS
  <2>1. records \in [Jobs -> JobRecord]
    BY DEF TypeOK
  <2>2. ASSUME NEW j \in Jobs, Create(j) PROVE Kept
    BY <2>1, <2>2 DEF Create, Terminal, status
  <2>3. ASSUME NEW j \in Jobs, Claim(j) \/ CancelIfQueued(j) PROVE Kept
    BY <2>1, <2>3 DEF Claim, CancelIfQueued, Terminal, status
  <2>4. ASSUME NEW j \in Jobs, NEW outcome, NEW code, NEW report,
               Finish(j, outcome, code, report)
        PROVE  Kept
    BY <2>1, <2>4 DEF Finish, Active, Terminal, status
  <2> QED
    BY StoreSteps, <2>2, <2>3, <2>4 DEF Succeed, Fail
<1>2. TypeOK /\ ServiceInv /\ [Next]_vars => [Kept]_vars
  BY <1>1
<1> QED
  BY <1>2, Invariance, PTL DEF Spec, ClosedIsFinal

\* A search starts only on an instance whose settings allow its request.
THEOREM RevocationHoldsAlways == Spec => RevocationHolds
<1> DEFINE Held == \A j \in Jobs :
                     (\A w \in Workers : j \notin settings[w]) => runs'[j] = runs[j]
<1>1. ASSUME TypeOK, ServiceInv, NEW w \in Workers, ClaimJob(w)
      PROVE  Held
  <2>1. job[w] \in settings[w] /\ settings[w] \subseteq Jobs
    BY <1>1 DEF ClaimJob, At, ServiceInv, AttemptInv, TypeOK
  <2>2. \A j \in Jobs : j # job[w] => runs'[j] = runs[j]
    BY <1>1 DEF ClaimJob, TypeOK
  <2> QED BY <2>1, <2>2
<1>2. ASSUME [Next]_vars, ~\E w \in Workers : ClaimJob(w)
      PROVE  UNCHANGED runs
  BY <1>2
     DEF Next, NormalStep, FaultStep, Api, Work, vars, workerVars, NoEffects,
         WorkerStep, WorkerFault, GetRecord, GetError, RejectByPolicy, RejectError,
         ClaimError, Execute, Upload, SendEmail, SucceedJob, SucceedError, FailJob,
         FailError, Respond, RespondLost, Crash, Restart, Recycle, Deliver,
         DeliverAgain, Start, Revoke
<1>3. TypeOK /\ ServiceInv /\ [Next]_vars => [Held]_vars
  BY <1>1, <1>2
<1> QED
  BY <1>3, Invariance, PTL DEF Spec, RevocationHolds

-----------------------------------------------------------------------------
\* Without a failed store call or a dead instance, the attempt that claimed a
\* job closes it.
THEOREM OrphanedByFaultOnlyHolds == Spec => OrphanedByFaultOnly
<1> DEFINE Covered == NormalStep => \A j \in Jobs : Orphaned(j)' => Orphaned(j)
<1>1. TypeOK /\ ServiceInv /\ [Next]_vars => Covered
  <2> SUFFICES ASSUME TypeOK, ServiceInv, NormalStep, NEW j \in Jobs, Orphaned(j)'
               PROVE  Orphaned(j)
    OBVIOUS
  <2> USE DEF TypeOK, Orphaned, Closing, status, At, Goto, Release, NoEffects
  <2>1. CASE \E i \in Jobs : Api(ApiStep(i))
    <3>1. PICK i \in Jobs : Api(ApiStep(i))
      BY <2>1
    <3>2. records'[j].status = "running" => records[j].status = "running"
      <4>1. CASE SubmitJob(i)
        BY <4>1, CreateEffect DEF SubmitJob
      <4>2. CASE FailUnqueued(i)
        <5>1. ClosedOrKept(i, "failed")
          BY <4>2, FinishEffect DEF FailUnqueued, Fail
        <5> QED BY <5>1 DEF ClosedOrKept
      <4>3. CASE CancelTxn(i)
        BY <4>3, CancelEffect DEF CancelTxn
      <4>4. CASE EnqueueTask(i) \/ CancelRead(i) \/ Download(i)
        BY <4>4 DEF EnqueueTask, CancelRead, Download
      <4> QED BY <3>1, <4>1, <4>2, <4>3, <4>4 DEF Api, ApiStep, ApiProgress
    <3> QED BY <3>1, <3>2 DEF Api, workerVars
  <2>2. CASE \E w \in Workers : Work(WorkerStep(w))
    <3>1. PICK w \in Workers : Work(WorkerStep(w))
      BY <2>2
    <3>2. pc[w] # "idle" => job[w] \in Jobs
      BY NoJobAssumption DEF ServiceInv, AttemptInv
    <3>3. CASE GetRecord(w)
      BY <3>3 DEF GetRecord
    <3>4. CASE RejectByPolicy(w)
      <4>1. ClosedOrKept(job[w], "failed")
        BY <3>2, <3>4, FinishEffect DEF RejectByPolicy, Fail
      <4> QED BY <3>4, <4>1 DEF RejectByPolicy, ClosedOrKept
    <3>5. CASE ClaimJob(w)
      BY <3>2, <3>5, ClaimEffect DEF ClaimJob
    <3>6. CASE Execute(w) \/ Upload(w) \/ SendEmail(w) \/ Respond(w)
      BY <3>6, NoJobAssumption DEF Execute, Upload, SendEmail, Respond
    <3>7. CASE SucceedJob(w)
      <4>1. ClosedOrKept(job[w], "succeeded") /\ records'[job[w]].status # "running"
        BY <3>2, <3>7, FinishEffect, FinishCloses DEF SucceedJob, Succeed, Terminal
      <4> QED BY <3>7, <4>1 DEF SucceedJob, ClosedOrKept
    <3>8. CASE FailJob(w)
      <4>1. ClosedOrKept(job[w], "failed") /\ records'[job[w]].status # "running"
        BY <3>2, <3>8, FinishEffect, FinishCloses DEF FailJob, Fail, Terminal
      <4> QED BY <3>8, <4>1 DEF FailJob, ClosedOrKept
    <3> QED BY <3>1, <3>3, <3>4, <3>5, <3>6, <3>7, <3>8 DEF Work, WorkerStep
  <2>3. CASE \E w \in Workers : Work(Recycle(w))
    BY <2>3 DEF Work, Recycle, Restart
  <2>4. CASE \E w \in Workers, i \in Jobs : Work(Deliver(w, i))
    BY <2>4 DEF Work, Deliver, Start
  <2>5. CASE \E i \in Jobs : Work(Revoke(i))
    BY <2>5 DEF Work, Revoke
  <2> QED BY <2>1, <2>2, <2>3, <2>4, <2>5 DEF NormalStep, Work
<1>2. TypeOK /\ ServiceInv /\ [Next]_vars => [Covered]_vars
  BY <1>1
<1> QED
  BY <1>2, Invariance, PTL DEF Spec, OrphanedByFaultOnly

\* Without a failed store call or a dead process, a queued job keeps its task,
\* or the create_job call that sees to it.
THEOREM StrandedByFaultOnlyHolds == Spec => StrandedByFaultOnly
<1> DEFINE Covered == NormalStep => \A j \in Jobs : Stranded(j)' => Stranded(j)
<1>1. TypeOK /\ ServiceInv /\ [Next]_vars => Covered
  <2> SUFFICES ASSUME TypeOK, ServiceInv, NormalStep, NEW j \in Jobs, Stranded(j)'
               PROVE  Stranded(j)
    OBVIOUS
  <2> USE DEF TypeOK, Stranded, status, At, Goto, Release, NoEffects
  <2>1. CASE \E i \in Jobs : Api(ApiStep(i))
    <3>1. PICK i \in Jobs : Api(ApiStep(i))
      BY <2>1
    <3>2. CASE SubmitJob(i)
      BY <3>2, CreateEffect DEF SubmitJob, SetCreate
    <3>3. CASE FailUnqueued(i)
      <4>1. ClosedOrKept(i, "failed") /\ records'[i].status # "queued"
        BY <3>3, FinishEffect, FinishCloses DEF FailUnqueued, Fail, Terminal
      <4> QED BY <3>3, <4>1 DEF FailUnqueued, SetCreate, ClosedOrKept
    <3>4. CASE CancelTxn(i)
      BY <3>4, CancelEffect DEF CancelTxn, AnswerCancel
    <3>5. CASE EnqueueTask(i)
      BY <3>5 DEF EnqueueTask, Enqueue, SetCreate
    <3>6. CASE CancelRead(i) \/ Download(i)
      BY <3>6 DEF CancelRead, Download
    <3> QED BY <3>1, <3>2, <3>3, <3>4, <3>5, <3>6 DEF Api, ApiStep, ApiProgress
  <2>2. CASE \E w \in Workers : Work(WorkerStep(w))
    <3>1. PICK w \in Workers : Work(WorkerStep(w))
      BY <2>2
    <3>2. pc[w] # "idle" => job[w] \in Jobs
      BY NoJobAssumption DEF ServiceInv, AttemptInv
    <3>3. UNCHANGED createPc
      BY <3>1 DEF Work, apiVars
    <3>4. CASE GetRecord(w) \/ Execute(w) \/ Upload(w) \/ SendEmail(w)
      BY <3>3, <3>4 DEF GetRecord, Execute, Upload, SendEmail
    <3>5. CASE ClaimJob(w)
      BY <3>2, <3>3, <3>5, ClaimEffect DEF ClaimJob
    <3>6. CASE RejectByPolicy(w)
      <4>1. ClosedOrKept(job[w], "failed")
        BY <3>2, <3>6, FinishEffect DEF RejectByPolicy, Fail
      <4> QED BY <3>3, <3>6, <4>1 DEF RejectByPolicy, ClosedOrKept
    <3>7. CASE SucceedJob(w)
      <4>1. ClosedOrKept(job[w], "succeeded")
        BY <3>2, <3>7, FinishEffect DEF SucceedJob, Succeed
      <4> QED BY <3>3, <3>7, <4>1 DEF SucceedJob, ClosedOrKept
    <3>8. CASE FailJob(w)
      <4>1. ClosedOrKept(job[w], "failed")
        BY <3>2, <3>8, FinishEffect DEF FailJob, Fail
      <4> QED BY <3>3, <3>8, <4>1 DEF FailJob, ClosedOrKept
    <3>9. CASE Respond(w)
      <4>1. records[job[w]].status # "queued"
        BY <3>9 DEF Respond, ServiceInv, AttemptInv
      <4> QED BY <3>3, <3>9, <4>1 DEF Respond, Acknowledge
    <3> QED BY <3>1, <3>4, <3>5, <3>6, <3>7, <3>8, <3>9 DEF WorkerStep, Work
  <2>3. CASE \E w \in Workers : Work(Recycle(w))
    BY <2>3 DEF Work, Recycle, Restart, apiVars
  <2>4. CASE \E w \in Workers, i \in Jobs : Work(Deliver(w, i))
    BY <2>4 DEF Work, Deliver, Start, apiVars
  <2>5. CASE \E i \in Jobs : Work(Revoke(i))
    BY <2>5 DEF Work, Revoke, apiVars
  <2> QED BY <2>1, <2>2, <2>3, <2>4, <2>5 DEF NormalStep, Work
<1>2. TypeOK /\ ServiceInv /\ [Next]_vars => [Covered]_vars
  BY <1>1
<1> QED
  BY <1>2, Invariance, PTL DEF Spec, StrandedByFaultOnly

-----------------------------------------------------------------------------
(* Which faults it takes for a job to fail out of phase *)

\* Without duplicates and errors of the queue there is one attempt per job, the
\* attempt that rejects a job has not lost it to another, and create_job does not
\* close what it has inserted.
AloneInv ==
  /\ \A j \in Jobs : createPc[j] # "fail"
  /\ \A v, w \in Workers : pc[v] # "idle" /\ job[v] = job[w] => v = w
  /\ \A w \in Workers : pc[w] = "reject" => status(job[w]) # "running"

\* A step of a worker that is not the only one at its job would be a duplicate.
LEMMA AloneWorker ==
  ASSUME TypeOK, ServiceInv, AloneInv, "duplicate" \notin Faults,
         NEW w \in Workers, Work(WorkerStep(w) \/ WorkerFault(w))
  PROVE  AloneInv'
<1> USE DEF TypeOK, At, Goto, Release, Abort, NoEffects, status
<1>0. UNCHANGED createPc
  BY DEF Work, apiVars
<1>1. /\ pc[w] # "idle" => job[w] \in Jobs
      /\ \A v \in Workers : pc[v] = "idle" <=> job[v] = NoJob
  BY NoJobAssumption DEF ServiceInv, AttemptInv
<1>2. ASSUME NEW label \in WorkerPc \ {"idle"}, pc[w] # "idle",
             Goto(w, label) \/ Release(w),
             label = "reject" => records'[job[w]].status # "running",
             \A k \in Jobs : records'[k].status = "running" /\ k # job[w] =>
               records[k].status = "running"
      PROVE  AloneInv'
  <2>1. \A u, v \in Workers : pc'[v] # "idle" /\ job'[v] = job'[u] => v = u
    BY <1>1, <1>2 DEF AloneInv
  <2>2. ASSUME NEW v \in Workers, pc'[v] = "reject" PROVE records'[job'[v]].status # "running"
    <3>1. CASE v = w
      BY <1>2, <2>2, <3>1
    <3>2. CASE v # w
      <4>1. /\ pc[v] = "reject" /\ job'[v] = job[v] /\ job[v] # job[w]
            /\ job[v] \in Jobs /\ records[job[v]].status # "running"
        BY <1>1, <1>2, <2>2, <3>2, NoJobAssumption DEF AloneInv
      <4> QED BY <1>2, <4>1
    <3> QED BY <3>1, <3>2
  <2> QED BY <1>0, <2>1, <2>2 DEF AloneInv
<1>3. CASE GetRecord(w) \/ GetError(w)
  BY <1>2, <1>3 DEF GetRecord, GetError, WorkerPc
<1>4. CASE RejectByPolicy(w) \/ RejectError(w)
  <2>1. ClosedOrKept(job[w], "failed")
    BY <1>1, <1>4, FinishEffect DEF RejectByPolicy, RejectError, MayHave, Fail
  <2> QED BY <1>2, <1>4, <2>1 DEF RejectByPolicy, RejectError, ClosedOrKept, WorkerPc
<1>5. CASE ClaimJob(w) \/ ClaimError(w)
  BY <1>1, <1>2, <1>5, ClaimEffect DEF ClaimJob, ClaimError, MayHave, WorkerPc
<1>6. CASE Execute(w) \/ Upload(w) \/ SendEmail(w)
  BY <1>2, <1>6 DEF Execute, Upload, SendEmail, WorkerPc
<1>7. CASE SucceedJob(w) \/ SucceedError(w)
  <2>1. ClosedOrKept(job[w], "succeeded")
    BY <1>1, <1>7, FinishEffect DEF SucceedJob, SucceedError, MayHave, Succeed
  <2> QED BY <1>2, <1>7, <2>1 DEF SucceedJob, SucceedError, ClosedOrKept, WorkerPc
<1>8. CASE FailJob(w) \/ FailError(w)
  <2>1. ClosedOrKept(job[w], "failed")
    BY <1>1, <1>8, FinishEffect DEF FailJob, FailError, MayHave, Fail
  <2> QED BY <1>2, <1>8, <2>1 DEF FailJob, FailError, ClosedOrKept, WorkerPc
<1>9. CASE Respond(w) \/ Crash(w)
  BY <1>2, <1>9 DEF Respond, Crash, Restart, WorkerPc
<1>10. ~RespondLost(w) /\ \A j \in Jobs : ~DeliverAgain(w, j)
  BY DEF RespondLost, DeliverAgain
<1> QED
  BY <1>3, <1>4, <1>5, <1>6, <1>7, <1>8, <1>9, <1>10 DEF Work, WorkerStep, WorkerFault

LEMMA AloneApi ==
  ASSUME TypeOK, ServiceInv, AloneInv, "queue" \notin Faults, NEW j \in Jobs,
         Api(ApiStep(j) \/ ApiFault(j))
  PROVE  AloneInv'
<1> USE DEF TypeOK, SetCreate, status
<1>0. UNCHANGED <<pc, job>>
  BY DEF Api, workerVars
<1>1. createPc[j] # "fail" /\ ~EnqueueError(j)
  BY DEF AloneInv, EnqueueError
<1>2. ~FailUnqueued(j) /\ ~FailUnqueuedError(j)
  BY <1>1 DEF FailUnqueued, FailUnqueuedError
<1>3. \A k \in Jobs : createPc'[k] # "fail"
  BY <1>1, <1>2
     DEF AloneInv, Api, ApiStep, ApiProgress, ApiFault, SubmitJob, SubmitError, EnqueueTask,
         ApiCrash, CancelRead, CancelTxn, CancelError, AnswerCancel, Download
<1>4. UNCHANGED records \/ Create(j) \/ CancelIfQueued(j)
  BY <1>1, <1>2
     DEF Api, ApiStep, ApiProgress, ApiFault, SubmitJob, SubmitError, EnqueueTask,
         ApiCrash, CancelRead, CancelTxn, CancelError, Download, MayHave
<1>5. \A k \in Jobs : records'[k].status = "running" => records[k].status = "running"
  BY <1>4, records \in [Jobs -> JobRecord], CreateEffect, CancelEffect
<1>6. \A w \in Workers : pc[w] # "idle" => job[w] \in Jobs
  BY NoJobAssumption DEF ServiceInv, AttemptInv
<1> QED BY <1>0, <1>3, <1>5, <1>6 DEF AloneInv

LEMMA AloneStep ==
  ASSUME TypeOK, ServiceInv, AloneInv, {"queue", "duplicate"} \cap Faults = {}, [Next]_vars
  PROVE  AloneInv'
<1>0. "queue" \notin Faults /\ "duplicate" \notin Faults
  OBVIOUS
<1>1. CASE \E j \in Jobs : Api(ApiStep(j) \/ ApiFault(j))
  BY <1>0, <1>1, AloneApi
<1>2. CASE \E w \in Workers : Work(WorkerStep(w) \/ WorkerFault(w))
  BY <1>0, <1>2, AloneWorker
<1>3. ASSUME NEW w \in Workers, NEW j \in Jobs, Work(Deliver(w, j))
      PROVE  AloneInv'
  BY <1>3 DEF Work, Deliver, InFlight, Start, At, AloneInv, TypeOK, apiVars, status
<1>4. CASE \/ \E w \in Workers : Work(Recycle(w))
           \/ \E j \in Jobs : Work(Revoke(j))
           \/ UNCHANGED vars
  <2>1. UNCHANGED <<createPc, pc, job, records>>
    BY <1>4 DEF Work, Recycle, Restart, Revoke, vars, apiVars, workerVars
  <2> QED BY <2>1 DEF AloneInv, status
<1> QED
  BY <1>1, <1>2, <1>3, <1>4 DEF Next, NormalStep, FaultStep, Api, Work

\* It takes a create_task call that raises, or a duplicate delivery, for a running job
\* to fail otherwise than by its execution: dead processes and failed store calls do
\* not suffice, whichever policies are revoked.
THEOREM FailureFitsPhaseUnlessDuplicate ==
  ASSUME {"queue", "duplicate"} \cap Faults = {}
  PROVE  Spec => FailureFitsPhase
<1> DEFINE Fits == \A j \in Jobs : status(j) = "running" /\ status(j)' = "failed"
                                     => records'[j].error_code = "EXECUTION_FAILED"
<1>1. Init => AloneInv
  BY DEF Init, StoreInit, ApiInit, WorkerInit, AloneInv, Absent, status
<1>2. TypeOK /\ ServiceInv /\ AloneInv /\ [Next]_vars => AloneInv'
  BY AloneStep
<1>3. TypeOK /\ ServiceInv /\ AloneInv /\ [Next]_vars => Fits
  <2> SUFFICES ASSUME TypeOK, ServiceInv, AloneInv, [Next]_vars, NEW j \in Jobs,
                      records[j].status = "running", records'[j].status = "failed"
               PROVE  records'[j].error_code = "EXECUTION_FAILED"
    BY DEF status
  <2>0. records \in [Jobs -> JobRecord]
    BY DEF TypeOK
  <2>1. ASSUME NEW w \in Workers, Work(WorkerStep(w) \/ WorkerFault(w))
        PROVE  records'[j].error_code = "EXECUTION_FAILED"
    <3>1. \/ RejectByPolicy(w) \/ RejectError(w) \/ ClaimJob(w) \/ ClaimError(w)
          \/ SucceedJob(w) \/ SucceedError(w) \/ FailJob(w) \/ FailError(w)
      BY <2>1
         DEF Work, WorkerStep, WorkerFault, GetRecord, GetError, Execute, Upload, SendEmail,
             Respond, RespondLost, Crash, Restart, DeliverAgain, Start
    <3>2. job[w] \in Jobs
      BY <3>1, NoJobAssumption
         DEF TypeOK, ServiceInv, AttemptInv, At, RejectByPolicy, RejectError, ClaimJob, ClaimError,
             SucceedJob, SucceedError, FailJob, FailError
    <3>3. CASE RejectByPolicy(w) \/ RejectError(w)
      <4>1. records[job[w]].status # "running"
        BY <3>3 DEF RejectByPolicy, RejectError, At, AloneInv, status
      <4>2. ClosedOrKept(job[w], "failed")
        BY <2>0, <3>2, <3>3, FinishEffect DEF RejectByPolicy, RejectError, MayHave, Fail
      <4> QED BY <4>1, <4>2 DEF ClosedOrKept
    <3>4. CASE ClaimJob(w) \/ ClaimError(w)
      BY <2>0, <3>2, <3>4, ClaimEffect DEF ClaimJob, ClaimError, MayHave
    <3>5. CASE SucceedJob(w) \/ SucceedError(w)
      <4>1. ClosedOrKept(job[w], "succeeded")
        BY <2>0, <3>2, <3>5, FinishEffect DEF SucceedJob, SucceedError, MayHave, Succeed
      <4> QED BY <4>1 DEF ClosedOrKept
    <3>6. CASE FailJob(w) \/ FailError(w)
      <4>1. Fail(job[w], "EXECUTION_FAILED")
        BY <3>6 DEF FailJob, FailError, MayHave
      <4> QED BY <2>0, <3>2, <4>1 DEF Fail, Finish, JobRecord
    <3> QED BY <3>1, <3>3, <3>4, <3>5, <3>6
  <2>2. ASSUME NEW i \in Jobs, Api(ApiStep(i) \/ ApiFault(i)) PROVE FALSE
    <3>1. createPc[i] # "fail"
      BY DEF AloneInv
    <3>2. UNCHANGED records \/ Create(i) \/ CancelIfQueued(i)
      BY <2>2, <3>1
         DEF Api, ApiStep, ApiProgress, ApiFault, SubmitJob, SubmitError, EnqueueTask,
             EnqueueError, FailUnqueued, FailUnqueuedError, ApiCrash, CancelRead, CancelTxn,
             CancelError, Download, MayHave, SetCreate
    <3> QED BY <2>0, <3>2, CreateEffect, CancelEffect
  <2>3. ASSUME \/ \E w \in Workers : Work(Recycle(w))
               \/ \E w \in Workers, i \in Jobs : Work(Deliver(w, i))
               \/ \E i \in Jobs : Work(Revoke(i))
               \/ UNCHANGED vars
        PROVE  FALSE
    BY <2>3 DEF Work, Recycle, Restart, Deliver, Start, Revoke, vars
  <2> QED
    BY <2>1, <2>2, <2>3 DEF Next, NormalStep, FaultStep, Api, Work
<1>4. TypeOK /\ ServiceInv /\ AloneInv /\ [Next]_vars => [Fits]_vars
  BY <1>3
<1> QED
  BY <1>1, <1>2, <1>4, Invariance, PTL DEF Spec, FailureFitsPhase

-----------------------------------------------------------------------------
(* Refinement: the variables of JobLifecycle in a state of the service *)

PhaseBar == [j \in Jobs |-> records[j].status]

StartedBar == {j \in Jobs : runs[j] > 0}

\* A store operation on j seen from JobLifecycle.
MovesTo(j, from, to) ==
  /\ PhaseBar[j] \in from
  /\ PhaseBar' = [PhaseBar EXCEPT ![j] = to]

LEMMA StoreMoves ==
  ASSUME NEW j \in Jobs, records \in [Jobs -> JobRecord]
  PROVE  /\ Create(j) => MovesTo(j, {"absent"}, "queued")
         /\ Claim(j) => MovesTo(j, {"queued"}, "running")
         /\ CancelIfQueued(j) => MovesTo(j, {"queued"}, "cancelled")
         /\ Succeed(j) => \/ UNCHANGED PhaseBar
                         \/ MovesTo(j, {"queued", "running"}, "succeeded")
         /\ \A code : Fail(j, code) => \/ UNCHANGED PhaseBar
                                      \/ MovesTo(j, {"queued", "running"}, "failed")
<1> USE DEF MovesTo, PhaseBar
<1>1. Create(j) => MovesTo(j, {"absent"}, "queued")
  BY CreateEffect
<1>2. Claim(j) => MovesTo(j, {"queued"}, "running")
  BY ClaimEffect
<1>3. CancelIfQueued(j) => MovesTo(j, {"queued"}, "cancelled")
  BY CancelEffect
<1>4. Succeed(j) => \/ UNCHANGED PhaseBar
                    \/ MovesTo(j, {"queued", "running"}, "succeeded")
  <2>1. Succeed(j) => ClosedOrKept(j, "succeeded")
    BY FinishEffect DEF Succeed
  <2> QED BY <2>1 DEF ClosedOrKept
<1>5. ASSUME NEW code, Fail(j, code)
      PROVE  UNCHANGED PhaseBar \/ MovesTo(j, {"queued", "running"}, "failed")
  <2>1. ClosedOrKept(j, "failed")
    BY <1>5, FinishEffect DEF Fail
  <2> QED BY <2>1 DEF ClosedOrKept
<1> QED BY <1>1, <1>2, <1>3, <1>4, <1>5

LEMMA ApiRefines ==
  ASSUME TypeOK, ServiceInv, NEW j \in Jobs, Api(ApiStep(j) \/ ApiFault(j))
  PROVE  Lifecycle!Next \/ UNCHANGED Lifecycle!vars
<1>1. UNCHANGED <<runs, reports>>
  BY DEF Api, workerVars
<1>2. \/ UNCHANGED records \/ Create(j) \/ CancelIfQueued(j)
      \/ Fail(j, "QUEUE_UNAVAILABLE")
  BY DEF Api, ApiStep, ApiProgress, ApiFault, SubmitJob, SubmitError, EnqueueTask,
         EnqueueError, FailUnqueued, FailUnqueuedError, ApiCrash, CancelRead,
         CancelTxn, CancelError, Download, MayHave
<1>3. \/ UNCHANGED PhaseBar
      \/ MovesTo(j, {"absent"}, "queued")
      \/ MovesTo(j, {"queued"}, "cancelled")
      \/ MovesTo(j, {"queued", "running"}, "failed")
  BY <1>2, StoreMoves DEF TypeOK, PhaseBar
<1> QED
  BY <1>1, <1>3
     DEF Lifecycle!Next, Lifecycle!Accept, Lifecycle!Cancel, Lifecycle!Fail,
         Lifecycle!Move, Lifecycle!vars, MovesTo, PhaseBar

LEMMA WorkerRefines ==
  ASSUME TypeOK, ServiceInv, NEW w \in Workers, Work(WorkerStep(w) \/ WorkerFault(w))
  PROVE  Lifecycle!Next \/ UNCHANGED Lifecycle!vars
<1> USE DEF At, NoEffects
<1>1. pc[w] # "idle" => job[w] \in Jobs
  BY NoJobAssumption DEF TypeOK, ServiceInv, AttemptInv
<1>2. CASE RejectByPolicy(w) \/ RejectError(w) \/ FailJob(w) \/ FailError(w)
  <2>1. job[w] \in Jobs /\ UNCHANGED <<runs, reports>>
    BY <1>1, <1>2 DEF RejectByPolicy, RejectError, FailJob, FailError
  <2>2. UNCHANGED PhaseBar \/ MovesTo(job[w], {"queued", "running"}, "failed")
    BY <1>2, <2>1, StoreMoves
       DEF RejectByPolicy, RejectError, FailJob, FailError, MayHave, TypeOK, PhaseBar
  <2> QED
    BY <2>1, <2>2
       DEF Lifecycle!Next, Lifecycle!Fail, Lifecycle!Move, Lifecycle!vars, MovesTo, PhaseBar
<1>3. CASE ClaimJob(w) \/ ClaimError(w)
  <2>1. job[w] \in Jobs /\ UNCHANGED reports
    BY <1>1, <1>3 DEF ClaimJob, ClaimError
  <2>2. \/ UNCHANGED <<records, runs>>
        \/ /\ Claim(job[w])
           /\ UNCHANGED runs \/ runs' = [runs EXCEPT ![job[w]] = @ + 1]
    BY <1>3 DEF ClaimJob, ClaimError, MayHave
  <2>3. CASE UNCHANGED <<records, runs>>
    BY <2>1, <2>3 DEF Lifecycle!vars
  <2>4. CASE Claim(job[w]) /\ (UNCHANGED runs \/ runs' = [runs EXCEPT ![job[w]] = @ + 1])
    <3>1. MovesTo(job[w], {"queued"}, "running")
      BY <2>1, <2>4, StoreMoves DEF TypeOK
    <3>2. StartedBar' \in {StartedBar, StartedBar \cup {job[w]}}
      <4>1. CASE UNCHANGED runs
        BY <4>1 DEF StartedBar
      <4>2. CASE runs' = [runs EXCEPT ![job[w]] = @ + 1]
        BY <2>1, <4>2 DEF StartedBar, TypeOK
      <4> QED BY <2>4, <4>1, <4>2
    <3> QED
      BY <2>1, <3>1, <3>2
         DEF Lifecycle!Next, Lifecycle!Begin, Lifecycle!Move, MovesTo, PhaseBar, StartedBar
  <2> QED BY <2>2, <2>3, <2>4
<1>4. CASE Upload(w)
  <2>1. job[w] \in StartedBar /\ job[w] \in Jobs
    BY <1>1, <1>4 DEF Upload, ServiceInv, OwnerInv, Owns, StartedBar
  <2>2. reports' \in {reports, reports \cup {job[w]}} /\ UNCHANGED <<records, runs>>
    BY <1>4 DEF Upload
  <2> QED
    BY <2>1, <2>2 DEF Lifecycle!Next, Lifecycle!Publish, Lifecycle!vars, StartedBar
<1>5. CASE SucceedJob(w) \/ SucceedError(w)
  <2>1. job[w] \in Jobs /\ UNCHANGED <<runs, reports>>
    BY <1>1, <1>5 DEF SucceedJob, SucceedError
  <2>2. job[w] \in reports /\ PhaseBar[job[w]] # "queued"
    BY <1>5, <2>1
       DEF SucceedJob, SucceedError, ServiceInv, OwnerInv, RunsInv, Owns, PhaseBar, status
  <2>3. UNCHANGED PhaseBar \/ MovesTo(job[w], {"queued", "running"}, "succeeded")
    BY <1>5, <2>1, StoreMoves DEF SucceedJob, SucceedError, MayHave, TypeOK, PhaseBar
  <2> QED
    BY <2>1, <2>2, <2>3
       DEF Lifecycle!Next, Lifecycle!Succeed, Lifecycle!Move, Lifecycle!vars, MovesTo, PhaseBar
<1>6. CASE \/ GetRecord(w) \/ GetError(w) \/ Execute(w) \/ SendEmail(w) \/ Respond(w)
          \/ RespondLost(w) \/ Crash(w) \/ \E j \in Jobs : DeliverAgain(w, j)
  BY <1>6
     DEF GetRecord, GetError, Execute, SendEmail, Respond, RespondLost, Crash, Restart,
         DeliverAgain, Start, Lifecycle!vars
<1> QED
  BY <1>2, <1>3, <1>4, <1>5, <1>6 DEF Work, WorkerStep, WorkerFault

\* The service implements JobLifecycle.
THEOREM Refinement == Spec => KeepsPromise
<1>1. Init => Lifecycle!Init
  BY DEF Init, StoreInit, WorkerInit, Absent, Lifecycle!Init
<1>2. TypeOK /\ ServiceInv /\ [Next]_vars => [Lifecycle!Next]_(Lifecycle!vars)
  <2> SUFFICES ASSUME TypeOK, ServiceInv, [Next]_vars
               PROVE  Lifecycle!Next \/ UNCHANGED Lifecycle!vars
    OBVIOUS
  <2>1. CASE \E j \in Jobs : Api(ApiStep(j) \/ ApiFault(j))
    BY <2>1, ApiRefines
  <2>2. CASE \E w \in Workers : Work(WorkerStep(w) \/ WorkerFault(w))
    BY <2>2, WorkerRefines
  <2>3. CASE UNCHANGED vars
    BY <2>3 DEF vars, workerVars, Lifecycle!vars
  <2>4. CASE \E w \in Workers : Work(Recycle(w))
    BY <2>4 DEF Work, Recycle, Restart, NoEffects, Lifecycle!vars
  <2>5. CASE \E w \in Workers, j \in Jobs : Work(Deliver(w, j))
    BY <2>5 DEF Work, Deliver, Start, NoEffects, Lifecycle!vars
  <2>6. CASE \E j \in Jobs : Work(Revoke(j))
    BY <2>6 DEF Work, Revoke, NoEffects, Lifecycle!vars
  <2> QED
    BY <2>1, <2>2, <2>3, <2>4, <2>5, <2>6 DEF Next, NormalStep, FaultStep, Api, Work
<1> QED
  BY <1>1, <1>2, Invariance, PTL DEF Spec, KeepsPromise, Lifecycle!Spec
=============================================================================

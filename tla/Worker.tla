------------------------------- MODULE Worker -------------------------------
(***************************************************************************)
(* run_job of worker.py, split at its remote calls, on a set of Cloud Run  *)
(* instances.  An instance handles one request at a time                   *)
(* (containerConcurrency: 1) and reads its settings once, when it starts   *)
(* (lru_cache on get_settings).                                            *)
(*                                                                         *)
(* Cloud Tasks and the administrator are the environment: Deliver,         *)
(* RespondLost and Revoke are theirs.                                      *)
(***************************************************************************)
EXTENDS JobStore, TaskQueue, Naturals

CONSTANTS
  Workers,   \* worker instances
  NoJob      \* the job of an idle instance

ASSUME NoJobAssumption == NoJob \notin Jobs

VARIABLES
  pc,         \* pc[w]: the call of run_job that instance w makes next
  job,        \* job[w]: the job_id of the request instance w handles
  settings,   \* settings[w]: the jobs whose request instance w finds valid
  policy,     \* the jobs whose request the deployed configuration allows
  reports,    \* the jobs whose workbook is in the reports bucket
  runs,       \* runs[j]: how often the search of j was started (history)
  mails       \* mails[j]: how often the report of j was mailed (history)

workerVars == <<pc, job, settings, policy, reports, runs, mails>>

WorkerPc == {"idle", "get", "reject", "claim", "execute", "upload", "email",
             "succeed", "fail", "ack"}

WorkerInit ==
  /\ pc = [w \in Workers |-> "idle"]
  /\ job = [w \in Workers |-> NoJob]
  /\ settings = [w \in Workers |-> Jobs]
  /\ policy = Jobs
  /\ reports = {}
  /\ runs = [j \in Jobs |-> 0]
  /\ mails = [j \in Jobs |-> 0]

At(w, label) == pc[w] = label /\ UNCHANGED <<settings, policy>>

Goto(w, label) == pc' = [pc EXCEPT ![w] = label] /\ UNCHANGED job

\* The request is over: the instance is free for another task.
Release(w) ==
  /\ pc' = [pc EXCEPT ![w] = "idle"]
  /\ job' = [job EXCEPT ![w] = NoJob]

\* The request ends in a 500, which leaves the task in the queue.
Abort(w) == Release(w) /\ UNCHANGED tasks

NoEffects == UNCHANGED <<reports, runs, mails>>

-----------------------------------------------------------------------------
(* Delivery *)

InFlight(j) == \E w \in Workers : job[w] = j

Start(w, j) ==
  /\ At(w, "idle")
  /\ j \in tasks
  /\ pc' = [pc EXCEPT ![w] = "get"]
  /\ job' = [job EXCEPT ![w] = j]
  /\ NoEffects
  /\ UNCHANGED <<records, tasks>>

Deliver(w, j) == ~InFlight(j) /\ Start(w, j)

\* A second attempt beside one that still runs: the dispatch deadline passed,
\* or the queue delivered twice.
DeliverAgain(w, j) == "duplicate" \in Faults /\ InFlight(j) /\ Start(w, j)

-----------------------------------------------------------------------------
(* run_job up to the claim *)

\* Wrong: the request is not validated again.
GetUnvalidated(w) ==
  /\ At(w, "get")
  /\ Goto(w, IF status(job[w]) # "queued" THEN "ack" ELSE "claim")
  /\ NoEffects
  /\ UNCHANGED <<records, tasks>>

\* store.get, then validate_request with the instance's settings.
GetRecord(w) ==
  /\ At(w, "get")
  /\ Goto(w, IF status(job[w]) # "queued" THEN "ack"
             ELSE IF job[w] \in settings[w] THEN "claim" ELSE "reject")
  /\ NoEffects
  /\ UNCHANGED <<records, tasks>>

GetError(w) ==
  /\ "store" \in Faults
  /\ At(w, "get")
  /\ Abort(w)
  /\ NoEffects
  /\ UNCHANGED records

\* Wrong: the job is dropped without a terminal state.
RejectSilently(w) ==
  /\ At(w, "reject")
  /\ Goto(w, "ack")
  /\ NoEffects
  /\ UNCHANGED <<records, tasks>>

RejectByPolicy(w) ==
  /\ At(w, "reject")
  /\ Goto(w, "ack")
  /\ Fail(job[w], "POLICY_REJECTED")
  /\ NoEffects
  /\ UNCHANGED tasks

RejectError(w) ==
  /\ "store" \in Faults
  /\ At(w, "reject")
  /\ Abort(w)
  /\ MayHave(Fail(job[w], "POLICY_REJECTED"))
  /\ NoEffects

\* claim() hands the job to this attempt, which starts the search, or answers
\* None.
ClaimJob(w) ==
  /\ At(w, "claim")
  /\ \/ /\ Claim(job[w])
        /\ Goto(w, "execute")
        /\ runs' = [runs EXCEPT ![job[w]] = @ + 1]
     \/ /\ status(job[w]) # "queued"
        /\ Goto(w, "ack")
        /\ UNCHANGED <<records, runs>>
  /\ UNCHANGED <<reports, mails, tasks>>

\* claim() raised, inside the try block.
ClaimError(w) ==
  /\ "store" \in Faults
  /\ At(w, "claim")
  /\ Goto(w, "fail")
  /\ MayHave(Claim(job[w]))
  /\ NoEffects
  /\ UNCHANGED tasks

-----------------------------------------------------------------------------
(* run_job from the claim to the answer *)

\* Wrong: an error of the search is logged and answered with 204.
ExecuteUnhandled(w) ==
  /\ At(w, "execute")
  /\ Goto(w, "upload") \/ Goto(w, "ack")
  /\ NoEffects
  /\ UNCHANGED <<records, tasks>>

\* ProductionExecutor.execute returns or raises.
Execute(w) ==
  /\ At(w, "execute")
  /\ Goto(w, "upload") \/ Goto(w, "fail")
  /\ NoEffects
  /\ UNCHANGED <<records, tasks>>

\* Wrong: an upload error is swallowed, as a mail error is.
UploadSwallowed(w) ==
  /\ At(w, "upload")
  /\ reports' \in {reports, reports \cup {job[w]}}
  /\ Goto(w, "email")
  /\ UNCHANGED <<runs, mails, records, tasks>>

\* reports.upload stores the workbook; it may raise after or before that.
Upload(w) ==
  /\ At(w, "upload")
  /\ \/ reports' = reports \cup {job[w]} /\ Goto(w, "email")
     \/ reports' \in {reports, reports \cup {job[w]}} /\ Goto(w, "fail")
  /\ UNCHANGED <<runs, mails, records, tasks>>

\* Wrong: a mail that reports an error is sent once more.
SendEmailTwice(w) ==
  /\ At(w, "email")
  /\ Goto(w, "succeed")
  /\ \E n \in 0 .. 2 : mails' = [mails EXCEPT ![job[w]] = @ + n]
  /\ UNCHANGED <<reports, runs, records, tasks>>

\* send_report, when the request names recipients; its errors are swallowed.
SendEmail(w) ==
  /\ At(w, "email")
  /\ Goto(w, "succeed")
  /\ mails' \in {mails, [mails EXCEPT ![job[w]] = @ + 1]}
  /\ UNCHANGED <<reports, runs, records, tasks>>

SucceedJob(w) ==
  /\ At(w, "succeed")
  /\ Goto(w, "ack")
  /\ Succeed(job[w])
  /\ NoEffects
  /\ UNCHANGED tasks

SucceedError(w) ==
  /\ "store" \in Faults
  /\ At(w, "succeed")
  /\ Goto(w, "fail")
  /\ MayHave(Succeed(job[w]))
  /\ NoEffects
  /\ UNCHANGED tasks

\* The except clause.
FailJob(w) ==
  /\ At(w, "fail")
  /\ Goto(w, "ack")
  /\ Fail(job[w], "EXECUTION_FAILED")
  /\ NoEffects
  /\ UNCHANGED tasks

\* Wrong: an error of store.fail is answered with 204.
FailErrorAcked(w) ==
  /\ "store" \in Faults
  /\ At(w, "fail")
  /\ Goto(w, "ack")
  /\ MayHave(Fail(job[w], "EXECUTION_FAILED"))
  /\ NoEffects
  /\ UNCHANGED tasks

FailError(w) ==
  /\ "store" \in Faults
  /\ At(w, "fail")
  /\ Abort(w)
  /\ MayHave(Fail(job[w], "EXECUTION_FAILED"))
  /\ NoEffects

\* 204
Respond(w) ==
  /\ At(w, "ack")
  /\ Release(w)
  /\ Acknowledge(job[w])
  /\ NoEffects
  /\ UNCHANGED records

\* The 204 does not reach Cloud Tasks.
RespondLost(w) ==
  /\ "duplicate" \in Faults
  /\ At(w, "ack")
  /\ Abort(w)
  /\ NoEffects
  /\ UNCHANGED records

-----------------------------------------------------------------------------
(* Instances and configuration *)

\* A new process reads the configuration that is deployed when it starts.
Restart(w) ==
  /\ settings' = [settings EXCEPT ![w] = policy]
  /\ UNCHANGED <<policy, records, tasks>>
  /\ NoEffects

\* An idle instance is replaced.
Recycle(w) == pc[w] = "idle" /\ Restart(w) /\ UNCHANGED <<pc, job>>

\* The process dies in the middle of a request.
Crash(w) ==
  /\ "crash" \in Faults
  /\ pc[w] # "idle"
  /\ Release(w)
  /\ Restart(w)

\* The administrator takes back what the request of j needs.
Revoke(j) ==
  /\ policy' = policy \ {j}
  /\ UNCHANGED <<pc, job, settings, records, tasks>>
  /\ NoEffects

-----------------------------------------------------------------------------
WorkerStep(w) ==
  \/ GetRecord(w) \/ RejectByPolicy(w) \/ ClaimJob(w) \/ Execute(w)
  \/ Upload(w) \/ SendEmail(w) \/ SucceedJob(w) \/ FailJob(w) \/ Respond(w)

WorkerFault(w) ==
  \/ GetError(w) \/ RejectError(w) \/ ClaimError(w) \/ SucceedError(w)
  \/ FailError(w) \/ RespondLost(w) \/ Crash(w)
  \/ \E j \in Jobs : DeliverAgain(w, j)
=============================================================================

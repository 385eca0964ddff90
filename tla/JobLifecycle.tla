---------------------------- MODULE JobLifecycle ----------------------------
(***************************************************************************)
(* What the job service promises its users, whatever processes and calls   *)
(* fail: the state diagram of a job, that a search starts at most once and *)
(* only for a job nobody cancelled, and that a job shown as succeeded has  *)
(* its report.                                                             *)
(***************************************************************************)
CONSTANT Jobs

VARIABLES
  phase,      \* phase[j]: the status of job j
  started,    \* the jobs whose search has begun
  published   \* the jobs whose report is in the reports bucket

vars == <<phase, started, published>>

Init ==
  /\ phase = [j \in Jobs |-> "absent"]
  /\ started = {}
  /\ published = {}

Move(j, from, to) ==
  /\ phase[j] \in from
  /\ phase' = [phase EXCEPT ![j] = to]

\* Whoever asks has created the job, but may not have been told so.
Accept(j) == Move(j, {"absent"}, "queued") /\ UNCHANGED <<started, published>>

\* The one step that begins a search.  A worker that is told of an error
\* instead of its claim does not begin it.
Begin(j) ==
  /\ Move(j, {"queued"}, "running")
  /\ started' \in {started, started \cup {j}}
  /\ UNCHANGED published

\* A report comes from a search that has begun; the job may have been closed
\* meanwhile.
Publish(j) ==
  /\ j \in started
  /\ published' = published \cup {j}
  /\ UNCHANGED <<phase, started>>

Succeed(j) ==
  /\ j \in published
  /\ Move(j, {"running"}, "succeeded")
  /\ UNCHANGED <<started, published>>

Fail(j) ==
  /\ Move(j, {"queued", "running"}, "failed")
  /\ UNCHANGED <<started, published>>

Cancel(j) ==
  /\ Move(j, {"queued"}, "cancelled")
  /\ UNCHANGED <<started, published>>

Next ==
  \E j \in Jobs : \/ Accept(j) \/ Begin(j) \/ Publish(j)
                  \/ Succeed(j) \/ Fail(j) \/ Cancel(j)

Spec == Init /\ [][Next]_vars
=============================================================================

----------------------------- MODULE CacheTables -----------------------------
(***************************************************************************)
(* ensure_tables of cache.py: before an execution uses the cache it makes  *)
(* sure that the dataset, its tables and their later columns exist, once   *)
(* per process and set of tables.  _ENSURED_TABLES and _ENSURE_LOCK belong *)
(* to a process.  A process may run several executions at a time (one      *)
(* whose request has timed out goes on beside the next), several processes *)
(* create the same tables, and the scopes of one process may use the       *)
(* datasets of different projects.                                         *)
(***************************************************************************)
EXTENDS Naturals, Sequences

CONSTANTS
  Execs,     \* executions; each calls ensure_tables once
  Procs,     \* worker processes
  Sets,      \* the sets of tables, one per dataset and prefix
  ProcOf,    \* ProcOf[e]: the process that runs e
  SetOf,     \* SetOf[e]: the tables e uses (the identity of ensure_tables)
  NoExec

ASSUME PlaceAssumption == ProcOf \in [Execs -> Procs] /\ SetOf \in [Execs -> Sets]
ASSUME NoExecAssumption == NoExec \notin Execs

VARIABLES
  pc,        \* pc[e]: where the call of ensure_tables stands
  step,      \* step[e]: the statement of _ensure_tables that comes next
  lock,      \* lock[p]: the execution that holds _ENSURE_LOCK of p
  ensured,   \* ensured[p]: _ENSURED_TABLES of p
  present    \* present[t]: what exists in BigQuery of the set of tables t

vars == <<pc, step, lock, ensured, present>>

Pc == {"check", "lock", "create", "ready", "failed"}

-----------------------------------------------------------------------------
(* The statements of _ensure_tables.  Each needs what it is part of, and     *)
(* does nothing if its object exists: a table of an older release is left    *)
(* without its later columns by CREATE TABLE IF NOT EXISTS.                  *)

Dataset == [of |-> "project", object |-> "dataset", columns |-> {}]

CreateTable(table, columns) == [of |-> "dataset", object |-> table, columns |-> columns]

AddColumn(table, column) == [of |-> table, object |-> column, columns |-> {}]

ResultColumns == {"result.file_name", "result.match_type", "result.time_created",
                  "result.gcs_updated", "result.size_bytes"}

Statements ==
  << Dataset,
     CreateTable("run", {}),
     CreateTable("manifest", {"manifest.time_created"}),
     CreateTable("result", ResultColumns),
     CreateTable("access", {}),
     AddColumn("manifest", "manifest.time_created"),
     AddColumn("result", "result.file_name"),
     AddColumn("result", "result.match_type"),
     AddColumn("result", "result.time_created"),
     AddColumn("result", "result.gcs_updated"),
     AddColumn("result", "result.size_bytes") >>

Required == {Statements[i].object : i \in DOMAIN Statements}

OldRelease == Required \ (ResultColumns \cup {"manifest.time_created"})

After(s, things) ==
  IF s.object \in things THEN things ELSE things \cup {s.object} \cup s.columns

-----------------------------------------------------------------------------
Init ==
  /\ pc = [e \in Execs |-> "check"]
  /\ step = [e \in Execs |-> 1]
  /\ lock = [p \in Procs |-> NoExec]
  /\ ensured = [p \in Procs |-> {}]
  /\ present \in [Sets -> {{}, OldRelease, Required}]

Goto(e, label) == pc' = [pc EXCEPT ![e] = label]

Free(p) == lock' = [lock EXCEPT ![p] = NoExec]

IsEnsured(e) == SetOf[e] \in ensured[ProcOf[e]]

\* The check outside the lock.
Check(e) ==
  /\ pc[e] = "check"
  /\ Goto(e, IF IsEnsured(e) THEN "ready" ELSE "lock")
  /\ UNCHANGED <<step, lock, ensured, present>>

\* Wrong: no second check under the lock.
EnterUnchecked(e) ==
  /\ pc[e] = "lock"
  /\ lock[ProcOf[e]] = NoExec
  /\ Goto(e, "create")
  /\ lock' = [lock EXCEPT ![ProcOf[e]] = e]
  /\ UNCHANGED <<step, ensured, present>>

\* The lock is taken, and kept if the tables are not ensured by now.
Enter(e) ==
  /\ pc[e] = "lock"
  /\ lock[ProcOf[e]] = NoExec
  /\ IF IsEnsured(e)
     THEN Goto(e, "ready") /\ UNCHANGED lock
     ELSE Goto(e, "create") /\ lock' = [lock EXCEPT ![ProcOf[e]] = e]
  /\ UNCHANGED <<step, ensured, present>>

\* Wrong: the lock is kept by an execution that failed.
RaiseLocked(e) == Goto(e, "failed") /\ UNCHANGED <<step, lock, ensured>>

\* Wrong: the tables are marked as ensured whatever happened.
RaiseEnsured(e) ==
  /\ Goto(e, "failed")
  /\ Free(ProcOf[e])
  /\ ensured' = [ensured EXCEPT ![ProcOf[e]] = @ \cup {SetOf[e]}]
  /\ UNCHANGED step

\* A statement raises: the with block frees the lock, and nothing is ensured.
Raise(e) == Goto(e, "failed") /\ Free(ProcOf[e]) /\ UNCHANGED <<step, ensured>>

Pending(e) == pc[e] = "create" /\ step[e] \in DOMAIN Statements

Execute(e) ==
  LET s == Statements[step[e]] IN
  /\ Pending(e)
  /\ IF s.of \in present[SetOf[e]] \cup {"project"}
     THEN /\ present' = [present EXCEPT ![SetOf[e]] = After(s, @)]
          /\ step' = [step EXCEPT ![e] = @ + 1]
          /\ UNCHANGED <<pc, lock, ensured>>
     ELSE Raise(e) /\ UNCHANGED present

\* The statement raises, having taken effect or not.
ExecuteError(e) ==
  /\ Pending(e)
  /\ present' \in {present,
                   [present EXCEPT ![SetOf[e]] = After(Statements[step[e]], @)]}
  /\ Raise(e)

Finish(e) ==
  /\ pc[e] = "create"
  /\ step[e] \notin DOMAIN Statements
  /\ ensured' = [ensured EXCEPT ![ProcOf[e]] = @ \cup {SetOf[e]}]
  /\ Free(ProcOf[e])
  /\ Goto(e, "ready")
  /\ UNCHANGED <<step, present>>

\* The process dies: its executions end, and its successor knows of nothing.
Crash(p) ==
  /\ pc' = [e \in Execs |-> IF ProcOf[e] = p /\ pc[e] \in {"lock", "create"}
                            THEN "failed" ELSE pc[e]]
  /\ Free(p)
  /\ ensured' = [ensured EXCEPT ![p] = {}]
  /\ UNCHANGED <<step, present>>

Progress(e) == Check(e) \/ Enter(e) \/ Execute(e) \/ Finish(e)

Next ==
  \/ \E e \in Execs : Progress(e) \/ ExecuteError(e)
  \/ \E p \in Procs : Crash(p)

\* A thread that can go on goes on; the lock need not be handed out fairly.
Spec == Init /\ [][Next]_vars /\ \A e \in Execs : WF_vars(Progress(e))

-----------------------------------------------------------------------------
(* Properties *)

TypeOK ==
  /\ pc \in [Execs -> Pc]
  /\ step \in [Execs -> 1 .. Len(Statements) + 1]
  /\ lock \in [Procs -> Execs \cup {NoExec}]
  /\ ensured \in [Procs -> SUBSET Sets]
  /\ DOMAIN present = Sets

\* An execution gets past ensure_tables only if everything it will read and
\* write exists: in a new and in an old deployment, although other executions
\* fail half way and mark nothing.
ReadyIsComplete == \A e \in Execs : pc[e] = "ready" => Required \subseteq present[SetOf[e]]

\* Once a process has its tables ensured, none of its executions sends another
\* statement for them, not even one that has waited for the lock meanwhile.
StatementsOnce ==
  [][\A e \in Execs : IsEnsured(e) => step'[e] = step[e]]_vars

\* No execution waits for the lock for ever, whichever statements fail and
\* whichever processes die.
Settles == \A e \in Execs : <>(pc[e] \in {"ready", "failed"})

\* The inductive invariant: the lock is held by the one execution of its process
\* that creates tables, which are not ensured yet, and by nobody else: a statement
\* that raises and a process that dies leave no lock behind.  What the holder's
\* statements up to the next have made is there, and so is everything of what is
\* ensured.
TablesInv ==
  /\ TypeOK
  /\ ReadyIsComplete
  /\ \A p \in Procs : lock[p] # NoExec => ProcOf[lock[p]] = p /\ pc[lock[p]] = "create"
  /\ \A p \in Procs : \A t \in ensured[p] : Required \subseteq present[t]
  /\ \A e \in Execs :
       /\ pc[e] \in {"check", "lock"} => step[e] = 1
       /\ pc[e] = "create" =>
            /\ lock[ProcOf[e]] = e
            /\ ~IsEnsured(e)
            /\ \A i \in 1 .. step[e] - 1 : Statements[i].object \in present[SetOf[e]]
=============================================================================

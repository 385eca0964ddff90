-------------------------- MODULE CacheTablesProofs --------------------------
(***************************************************************************)
(* Proofs about CacheTables for any executions, processes and sets of      *)
(* tables.                                                                 *)
(***************************************************************************)
EXTENDS CacheTables, TLAPS

\* The statements are a sequence of records.
LEMMA StatementsLength == Len(Statements) = 11 /\ DOMAIN Statements = 1 .. 11
BY DEF Statements

LEMMA RequiredObjects == Required = {Statements[i].object : i \in 1 .. 11}
BY StatementsLength DEF Required

\* A statement adds its object and removes nothing.
LEMMA AfterGrows ==
  ASSUME NEW s, NEW things
  PROVE  things \subseteq After(s, things) /\ s.object \in After(s, things)
BY DEF After

\* What exists in BigQuery only grows.
LEMMA PresentGrows ==
  ASSUME TypeOK, [Next]_vars
  PROVE  DOMAIN present' = Sets /\ \A t \in Sets : present[t] \subseteq present'[t]
<1> USE DEF TypeOK
<1>1. ASSUME NEW e \in Execs, NEW s,
             present' = [present EXCEPT ![SetOf[e]] = After(s, @)]
      PROVE  DOMAIN present' = Sets /\ \A t \in Sets : present[t] \subseteq present'[t]
  BY <1>1, AfterGrows
<1>2. ASSUME NEW e \in Execs, Execute(e) \/ ExecuteError(e)
      PROVE  \/ UNCHANGED present
             \/ present' = [present EXCEPT ![SetOf[e]] = After(Statements[step[e]], @)]
  BY <1>2 DEF Execute, ExecuteError
<1>3. ASSUME NEW e \in Execs, Check(e) \/ Enter(e) \/ Finish(e) PROVE UNCHANGED present
  BY <1>3 DEF Check, Enter, Finish
<1>4. ASSUME NEW p \in Procs, Crash(p) PROVE UNCHANGED present
  BY <1>4 DEF Crash
<1> QED BY <1>1, <1>2, <1>3, <1>4 DEF Next, Progress, vars

LEMMA InitType == Init => TypeOK
BY StatementsLength DEF Init, TypeOK, Pc

LEMMA NextType == TypeOK /\ [Next]_vars => TypeOK'
<1> SUFFICES ASSUME TypeOK, [Next]_vars PROVE TypeOK'
  OBVIOUS
<1>0. DOMAIN present' = Sets
  BY PresentGrows
<1> USE PlaceAssumption, StatementsLength DEF TypeOK, Pc, Goto, Free
<1>1. ASSUME NEW e \in Execs, Check(e) PROVE TypeOK'
  BY <1>0, <1>1 DEF Check
<1>2. ASSUME NEW e \in Execs, Enter(e) PROVE TypeOK'
  BY <1>0, <1>2 DEF Enter
<1>3. ASSUME NEW e \in Execs, Execute(e) \/ ExecuteError(e) PROVE TypeOK'
  BY <1>0, <1>3 DEF Execute, ExecuteError, Pending, Raise
<1>4. ASSUME NEW e \in Execs, Finish(e) PROVE TypeOK'
  BY <1>0, <1>4 DEF Finish
<1>5. ASSUME NEW p \in Procs, Crash(p) PROVE TypeOK'
  BY <1>0, <1>5 DEF Crash
<1>6. CASE UNCHANGED vars
  BY <1>6 DEF vars
<1> QED BY <1>1, <1>2, <1>3, <1>4, <1>5, <1>6 DEF Next, Progress

-----------------------------------------------------------------------------
\* The parts of TablesInv beside its type.
EnsuredInv == \A p \in Procs : \A t \in ensured[p] : Required \subseteq present[t]

LockInv == \A p \in Procs : lock[p] # NoExec => ProcOf[lock[p]] = p /\ pc[lock[p]] = "create"

CreatorInv(e) ==
  /\ pc[e] \in {"check", "lock"} => step[e] = 1
  /\ pc[e] = "create" =>
       /\ lock[ProcOf[e]] = e
       /\ ~IsEnsured(e)
       /\ \A i \in 1 .. step[e] - 1 : Statements[i].object \in present[SetOf[e]]

LEMMA Parts ==
  TablesInv <=>
    TypeOK /\ ReadyIsComplete /\ LockInv /\ EnsuredInv /\ \A e \in Execs : CreatorInv(e)
BY DEF TablesInv, LockInv, EnsuredInv, CreatorInv

\* A creator that has come to the end of the statements has made everything.
LEMMA CreatedAll ==
  ASSUME TablesInv, NEW e \in Execs, Finish(e)
  PROVE  Required \subseteq present[SetOf[e]]
<1>1. step[e] - 1 = 11
  BY StatementsLength DEF TablesInv, TypeOK, Finish
<1>2. \A i \in 1 .. 11 : Statements[i].object \in present[SetOf[e]]
  BY <1>1 DEF TablesInv, Finish
<1> QED BY <1>2, RequiredObjects

LEMMA NextReady ==
  ASSUME TablesInv, [Next]_vars
  PROVE  ReadyIsComplete' /\ EnsuredInv'
<1> USE PlaceAssumption DEF TypeOK, Goto, Free
<1>1. TypeOK /\ \A t \in Sets : present[t] \subseteq present'[t]
  BY PresentGrows DEF TablesInv
<1>2. ASSUME NEW p \in Procs, NEW t \in ensured'[p] PROVE Required \subseteq present'[t]
  <2>1. CASE t \in ensured[p]
    BY <1>1, <2>1 DEF TablesInv
  <2>2. CASE t \notin ensured[p]
    <3>1. PICK e \in Execs : Finish(e) /\ t = SetOf[e]
      <4>1. ASSUME NEW e \in Execs, Check(e) \/ Enter(e) \/ Execute(e) \/ ExecuteError(e)
            PROVE  UNCHANGED ensured
        BY <4>1 DEF Check, Enter, Execute, ExecuteError, Raise
      <4>2. ASSUME NEW q \in Procs, Crash(q) PROVE FALSE
        BY <1>1, <1>2, <2>2, <4>2 DEF Crash
      <4>3. ASSUME NEW e \in Execs, Finish(e) PROVE t = SetOf[e]
        BY <1>1, <1>2, <2>2, <4>3 DEF Finish
      <4>4. ensured' # ensured
        BY <1>2, <2>2
      <4> QED BY <4>1, <4>2, <4>3, <4>4 DEF Next, Progress, vars
    <3> QED BY <1>1, <3>1, CreatedAll
  <2> QED BY <2>1, <2>2
<1>3. ASSUME NEW e \in Execs, pc'[e] = "ready" PROVE Required \subseteq present'[SetOf[e]]
  <2>1. CASE pc[e] = "ready"
    BY <1>1, <2>1 DEF TablesInv, ReadyIsComplete
  <2>2. CASE pc[e] # "ready"
    <3>1. IsEnsured(e) \/ Finish(e)
      BY <1>1, <1>3, <2>2 DEF Next, Progress, Check, Enter, Execute, ExecuteError, Raise,
                             Finish, Crash, vars
    <3>2. Required \subseteq present[SetOf[e]]
      BY <1>1, <3>1, CreatedAll DEF TablesInv, IsEnsured
    <3> QED BY <1>1, <3>2
  <2> QED BY <2>1, <2>2
<1> QED BY <1>2, <1>3 DEF ReadyIsComplete, EnsuredInv

LEMMA NextCreator ==
  ASSUME TablesInv, [Next]_vars, NEW e \in Execs
  PROVE  CreatorInv(e)'
<1> USE PlaceAssumption, NoExecAssumption, StatementsLength
    DEF TypeOK, CreatorInv, IsEnsured, Goto, Free
<1>1. /\ TypeOK /\ CreatorInv(e)
      /\ \A t \in Sets : present[t] \subseteq present'[t]
  BY PresentGrows, Parts
<1>2. \A d \in Execs : pc[d] = "create" => lock[ProcOf[d]] = d
  BY DEF TablesInv
<1>3. CASE Check(e) \/ Enter(e) \/ Finish(e)
  BY <1>1, <1>3 DEF Check, Enter, Finish
<1>4. CASE Execute(e)
  <2>1. CASE pc'[e] = "create"
    <3>1. /\ UNCHANGED <<pc, lock, ensured>> /\ step'[e] = step[e] + 1
          /\ present' = [present EXCEPT ![SetOf[e]] = After(Statements[step[e]], @)]
          /\ pc[e] = "create"
      BY <1>1, <1>4, <2>1 DEF Execute, Pending, Raise
    <3>2. Statements[step[e]].object \in present'[SetOf[e]]
      BY <1>1, <3>1, AfterGrows
    <3>3. \A i \in 1 .. step'[e] - 1 : Statements[i].object \in present'[SetOf[e]]
      BY <1>1, <3>1, <3>2
    <3> QED BY <1>1, <3>1, <3>3
  <2>2. CASE pc'[e] # "create"
    BY <1>1, <1>4, <2>2 DEF Execute, Pending, Raise
  <2> QED BY <2>1, <2>2
<1>5. CASE ExecuteError(e)
  BY <1>1, <1>5 DEF ExecuteError, Raise
<1>6. ASSUME NEW d \in Execs \ {e}, Check(d) \/ Enter(d) \/ Execute(d) \/ ExecuteError(d) \/ Finish(d)
      PROVE  CreatorInv(e)'
  <2> SUFFICES ASSUME pc'[e] \in {"check", "lock", "create"} PROVE CreatorInv(e)'
    OBVIOUS
  <2>1. UNCHANGED <<pc[e], step[e]>>
    BY <1>1, <1>6 DEF Check, Enter, Execute, ExecuteError, Finish, Raise
  <2>2. CASE pc[e] = "create"
    <3>1. lock[ProcOf[e]] = e /\ (pc[d] = "create" => ProcOf[d] # ProcOf[e])
      BY <1>1, <1>2, <2>2
    <3>2. CASE Check(d) \/ Enter(d) \/ Finish(d)
      BY <1>1, <1>6, <2>1, <2>2, <3>1, <3>2 DEF Check, Enter, Finish
    <3>3. CASE Execute(d) \/ ExecuteError(d)
      <4>1. lock'[ProcOf[e]] = e /\ UNCHANGED ensured
        BY <1>1, <3>1, <3>3 DEF Execute, ExecuteError, Raise, Pending
      <4> QED BY <1>1, <2>1, <2>2, <4>1
    <3> QED BY <1>6, <3>2, <3>3
  <2>3. CASE pc[e] # "create"
    BY <1>1, <2>1, <2>3
  <2> QED BY <2>2, <2>3
<1>7. ASSUME NEW p \in Procs, Crash(p) PROVE CreatorInv(e)'
  BY <1>1, <1>7 DEF Crash
<1>8. CASE UNCHANGED vars
  BY <1>1, <1>8 DEF vars
<1> QED BY <1>3, <1>4, <1>5, <1>6, <1>7, <1>8 DEF Next, Progress

\* Whoever ends, or dies, between Enter and Finish gives the lock back.
LEMMA NextLock == ASSUME TablesInv, [Next]_vars PROVE LockInv'
<1> USE PlaceAssumption, NoExecAssumption DEF TypeOK, Goto, Free
<1>1. TypeOK /\ LockInv /\ \A d \in Execs : pc[d] = "create" => lock[ProcOf[d]] = d
  BY DEF TablesInv, LockInv
<1>2. SUFFICES ASSUME NEW p \in Procs, lock'[p] # NoExec
               PROVE  ProcOf[lock'[p]] = p /\ pc'[lock'[p]] = "create"
  BY DEF LockInv
<1>3. ASSUME NEW e \in Execs, Check(e)
      PROVE  ProcOf[lock'[p]] = p /\ pc'[lock'[p]] = "create"
  BY <1>1, <1>2, <1>3 DEF Check, LockInv
<1>4. ASSUME NEW e \in Execs, Enter(e)
      PROVE  ProcOf[lock'[p]] = p /\ pc'[lock'[p]] = "create"
  BY <1>1, <1>2, <1>4 DEF Enter, LockInv
<1>5. ASSUME NEW e \in Execs, Execute(e) \/ ExecuteError(e)
      PROVE  ProcOf[lock'[p]] = p /\ pc'[lock'[p]] = "create"
  BY <1>1, <1>2, <1>5 DEF Execute, ExecuteError, Raise, Pending, LockInv
<1>6. ASSUME NEW e \in Execs, Finish(e)
      PROVE  ProcOf[lock'[p]] = p /\ pc'[lock'[p]] = "create"
  BY <1>1, <1>2, <1>6 DEF Finish, LockInv
<1>7. ASSUME NEW q \in Procs, Crash(q)
      PROVE  ProcOf[lock'[p]] = p /\ pc'[lock'[p]] = "create"
  BY <1>1, <1>2, <1>7 DEF Crash, LockInv
<1>8. CASE UNCHANGED vars
  BY <1>1, <1>2, <1>8 DEF vars, LockInv
<1> QED BY <1>3, <1>4, <1>5, <1>6, <1>7, <1>8 DEF Next, Progress

-----------------------------------------------------------------------------
\* The inductive invariant of ensure_tables holds for any executions, processes
\* and sets of tables: the lock, _ENSURED_TABLES and BigQuery agree.
THEOREM TablesInvHolds == Spec => []TablesInv
<1>1. Init => TablesInv
  BY InitType DEF Init, TablesInv, ReadyIsComplete
<1>2. TablesInv /\ [Next]_vars => TablesInv'
  <2> SUFFICES ASSUME TablesInv, [Next]_vars PROVE TablesInv'
    OBVIOUS
  <2>1. TypeOK'
    BY NextType DEF TablesInv
  <2>2. ReadyIsComplete' /\ EnsuredInv'
    BY NextReady
  <2>3. \A e \in Execs : CreatorInv(e)'
    BY NextCreator
  <2>4. LockInv'
    BY NextLock
  <2> QED BY <2>1, <2>2, <2>3, <2>4 DEF TablesInv, EnsuredInv, CreatorInv, LockInv
<1> QED BY <1>1, <1>2, PTL DEF Spec

\* No execution goes on to a cache whose tables or columns are missing.
THEOREM ReadyIsCompleteHolds == Spec => []ReadyIsComplete
<1>1. TablesInv => ReadyIsComplete
  BY DEF TablesInv
<1> QED BY <1>1, TablesInvHolds, PTL

\* No statement is sent for tables that are ensured in the process.
THEOREM StatementsOnceHolds == Spec => StatementsOnce
<1> DEFINE Once == \A e \in Execs : IsEnsured(e) => step'[e] = step[e]
<1>1. TablesInv /\ [Next]_vars => [Once]_vars
  <2> SUFFICES ASSUME TablesInv, Next, NEW e \in Execs, IsEnsured(e)
               PROVE  step'[e] = step[e]
    BY DEF vars
  <2>1. pc[e] # "create"
    BY DEF TablesInv
  <2> QED BY <2>1 DEF TablesInv, TypeOK, Next, Progress, Check, Enter, Execute, ExecuteError,
                      Raise, Finish, Crash, Pending
<1> QED BY <1>1, TablesInvHolds, PTL DEF Spec, StatementsOnce
=============================================================================

--------------------------- MODULE SearchPromise ----------------------------
(***************************************************************************)
(* What a job's search promises, with or without a cache: it looks at      *)
(* versions that are current at that moment, at most one per object, and   *)
(* its answer is what a search of exactly those versions finds, or none.   *)
(***************************************************************************)
EXTENDS SourceObjects

CONSTANTS
  Execs,     \* executions of a search, one per job
  NoAnswer

VARIABLES
  view,     \* view[e]: the versions execution e has looked at
  answer    \* answer[e]: the rows it reports, NoAnswer before

vars == <<gen, live, view, answer>>

Init ==
  /\ SourcesInit
  /\ view = [e \in Execs |-> {}]
  /\ answer = [e \in Execs |-> NoAnswer]

Look(e, v) ==
  /\ answer[e] = NoAnswer
  /\ Current(v)
  /\ v[1] \notin Keys(view[e])
  /\ view' = [view EXCEPT ![e] = @ \cup {v}]
  /\ UNCHANGED <<gen, live, answer>>

Answer(e) ==
  /\ answer[e] = NoAnswer
  /\ answer' = [answer EXCEPT ![e] = RowsOf(view[e])]
  /\ UNCHANGED <<gen, live, view>>

GiveUp(e) ==
  /\ answer[e] = NoAnswer
  /\ view' = [view EXCEPT ![e] = {}]
  /\ UNCHANGED <<gen, live, answer>>

Change(o) == (PutObject(o) \/ DeleteObject(o)) /\ UNCHANGED <<view, answer>>

Next ==
  \/ \E e \in Execs, v \in Versions : Look(e, v)
  \/ \E e \in Execs : Answer(e) \/ GiveUp(e)
  \/ \E o \in Objects : Change(o)

Spec == Init /\ [][Next]_vars
=============================================================================

-------------------------------- MODULE Report --------------------------------
(***************************************************************************)
(* What becomes of one job's request on its way to the workbook: the       *)
(* request is admitted under its scope, its sources are listed, a file is  *)
(* searched for a term, the script that matched is looked up among the     *)
(* DAGs, and the sheets are written (execute in executor.py, without the   *)
(* cache, for which see SearchCache, and the copies, see CopyMatches).     *)
(* Data is chosen where it is first used, and forgotten after its last.    *)
(***************************************************************************)
EXTENDS RequestPolicy, TextMatch, DagLookup, Workbook

\* There are more titles to try than are ever taken: five are reserved, and a report
\* has at most four sheets besides those of its terms.
MaxTitles == MaxTerms + 9

ASSUME CounterAssumption == MaxTerms \in Nat /\ MaxCounter > MaxTitles

VARIABLES
  stage,   \* what the job does next
  kind,    \* search_type: content or filename
  found    \* whether a term has a row: none or some

vars == <<stage, kind, found, policyVars, textVars, dagVars, bookVars>>

Init ==
  /\ stage = "admit" /\ kind = "content" /\ found = "none"
  /\ PolicyInit /\ TextInit /\ DagInit /\ BookInit

Goto(next) == stage' = next

Keep == UNCHANGED <<kind, found>>

-----------------------------------------------------------------------------
AdmitRequest ==
  /\ stage = "admit" /\ Goto("list") /\ Keep
  /\ Admit
  /\ UNCHANGED <<textVars, dagVars, bookVars>>

List ==
  /\ stage = "list" /\ Goto("search") /\ Keep
  /\ ListSources
  /\ UNCHANGED <<textVars, dagVars, bookVars>>

\* A content search reads files, if any are listed, and then the tables, one of which
\* may be too long; a filename search has all it needs in the listing.
Search ==
  /\ stage = "search"
  /\ \/ kind' = "content" /\ listed # {} /\ Goto("read") /\ UNCHANGED found
     \/ kind' = "content" /\ listed = {} /\ (Goto("build") \/ Goto("failed")) /\ UNCHANGED found
     \/ kind' = "filename" /\ Goto("write") /\ found' \in {"none"} \cup {"some" : o \in listed}
  /\ policy' = NoPolicy /\ request' = NoRequest /\ listed' = {}
  /\ UNCHANGED <<textVars, dagVars, bookVars>>

Read ==
  /\ stage = "read" /\ Goto("read") /\ Keep
  /\ ReadLine
  /\ UNCHANGED <<policyVars, dagVars, bookVars>>

\* The end of the file.  A table that is too long ends the job before the report.
EndText ==
  /\ stage = "read" /\ UNCHANGED kind
  /\ found' = IF exact \cup partial = {} THEN "none" ELSE "some"
  /\ Goto("build") \/ Goto("failed")
  /\ text' = <<>> /\ header' = "before" /\ quote' = "none" /\ exact' = {} /\ partial' = {}
  /\ UNCHANGED <<policyVars, dagVars, bookVars>>

Build ==
  /\ stage = "build" /\ Goto("build") /\ Keep
  /\ BuildRow
  /\ UNCHANGED <<policyVars, textVars, bookVars>>

Built ==
  /\ stage = "build" /\ Goto("match") /\ Keep
  /\ FinishBuild
  /\ UNCHANGED <<policyVars, textVars, bookVars>>

\* A script is looked up for each of its rows.
Match ==
  /\ stage = "match" /\ Goto("matched") /\ Keep
  /\ IF found = "some" THEN Lookup ELSE UNCHANGED dagVars
  /\ UNCHANGED <<policyVars, textVars, bookVars>>

Matched ==
  /\ stage = "matched" /\ Goto("write") /\ Keep
  /\ table' = <<>> /\ lookup' = <<>> /\ ambiguous' = {} /\ answer' = NoAnswer
  /\ UNCHANGED <<policyVars, textVars, bookVars>>

BeginBook ==
  /\ stage = "write" /\ Goto("sheets") /\ Keep
  /\ \E terms \in TermLists : ValidTerms(terms) /\ Begin(kind, terms, found)
  /\ UNCHANGED <<policyVars, textVars, dagVars>>

Write ==
  /\ stage = "sheets" /\ Goto("sheets") /\ Keep
  /\ WriteSheet
  /\ UNCHANGED <<policyVars, textVars, dagVars>>

Finish ==
  /\ stage = "sheets" /\ plan = <<>> /\ Goto("done") /\ Keep
  /\ UNCHANGED <<policyVars, textVars, dagVars, bookVars>>

Next ==
  \/ AdmitRequest \/ List \/ Search \/ Read \/ EndText \/ Build \/ Built
  \/ Match \/ Matched \/ BeginBook \/ Write \/ Finish

\* The worker's thread goes on while it can.
Spec == Init /\ [][Next]_vars /\ WF_vars(Next)

-----------------------------------------------------------------------------
\* What the lookup holds after build_dag_lookup is what BuildExact says.
BuiltExact == stage \in {"match", "matched"} => BuildExact

\* What each stage hands to the next.
StagesInv ==
  /\ TextInv
  /\ stage = "build" => LookupFits
  /\ BuiltExact
  /\ stage \notin {"build", "match", "matched"} => DagInit
  /\ IF stage \in {"sheets", "done"} THEN BookInv(kind) ELSE BookInit

ReportInv ==
  /\ StagesInv
  /\ PolicyInv
  /\ stage = "admit" => PolicyInit
  /\ LookupWords
  /\ stage \in {"build", "match"} => answer = NoAnswer
  /\ stage \in {"sheets", "done"} => UsedFits(MaxTitles)

\* A job that is admitted ends: every loop of the pipeline, the search for a free
\* title of a sheet among them, comes to its end.
Ends == <>(stage \in {"done", "failed"})
=============================================================================

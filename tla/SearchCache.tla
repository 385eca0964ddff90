---------------------------- MODULE SearchCache -----------------------------
(***************************************************************************)
(* ProductionExecutor.execute up to the point where the results go to      *)
(* copying and reporting: list the sources, reuse or extend the newest     *)
(* completed snapshot of the BigQuery cache, persist a new one, check the  *)
(* row limit, write the audit record.  Several executions of the same      *)
(* query (the same query_key) run at the same time on different instances. *)
(* Executions of other queries touch other rows of the cache tables.       *)
(* The query_key leaves the limits of the settings out, so that instances  *)
(* with different limits share snapshots.                                  *)
(*                                                                         *)
(* Every call to Cloud Storage or BigQuery is a step of its own.  The      *)
(* locals of execute are functions on executions.                          *)
(***************************************************************************)
EXTENDS SourceObjects

CONSTANTS
  Execs,      \* executions; each persists at most one snapshot, named after it
  Roots,      \* the bucket/path rows of the request
  Below,      \* Below[r]: the objects listed for row r; rows may overlap
  MaxFiles,   \* MaxFiles[e]: max_files_per_job in the settings e runs with
  MaxRows,    \* MaxRows[e]: max_result_rows in these settings
  Stamps,     \* created_ts values; the instances' clocks are not synchronised
  NoRun,
  SearchType  \* "content" or "filename"

ASSUME NoRunAssumption == NoRun \notin Execs
ASSUME BelowAssumption == Below \in [Roots -> SUBSET Objects]
ASSUME LimitAssumption == MaxFiles \in [Execs -> Nat] /\ MaxRows \in [Execs -> Nat]
ASSUME StampAssumption == Stamps \subseteq Nat
ASSUME TypeAssumption == SearchType \in {"content", "filename"}

VARIABLES
  pc,         \* pc[e]: the next call of execution e
  listing,    \* listing[e]: the entries of the listings still to come
  manifest,   \* manifest[e]: the versions listed
  base,       \* base[e]: the snapshot the execution starts from
  prev,       \* prev[e]: the manifest of that snapshot, once loaded
  todo,       \* todo[e]: the versions still to be searched
  rows,       \* rows[e]: the results so far: cached, then merged
  found,      \* found[e]: the results of the versions searched afresh
  run,        \* run[e]: the snapshot e has written
  access      \* access[e]: the snapshot named by the audit record of e

locals == <<listing, manifest, base, prev, todo, rows, found>>

vars == <<gen, live, pc, locals, run, access>>

Pc == {"list", "latest", "manifest", "results", "search", "write_manifest",
       "write_results", "complete", "mark_failed", "audit", "done", "failed"}

NoSnapshot == [status |-> "none", created |-> 0, manifest |-> {}, results |-> {}]

Init ==
  /\ SourcesInit
  /\ pc = [e \in Execs |-> "list"]
  /\ listing = [e \in Execs |-> {x \in Roots \X Objects : x[2] \in Below[x[1]]}]
  /\ manifest = [e \in Execs |-> {}]
  /\ base = [e \in Execs |-> NoRun]
  /\ prev = [e \in Execs |-> {}]
  /\ todo = [e \in Execs |-> {}]
  /\ rows = [e \in Execs |-> {}]
  /\ found = [e \in Execs |-> {}]
  /\ run = [e \in Execs |-> NoSnapshot]
  /\ access = [e \in Execs |-> NoRun]

At(e, label) == pc[e] = label /\ UNCHANGED <<gen, live>>

Goto(e, label) == pc' = [pc EXCEPT ![e] = label]

\* execute raises (or its process dies): nothing of it remains but what it has
\* written to the cache tables.
Fail(e) ==
  /\ Goto(e, "failed")
  /\ listing' = [listing EXCEPT ![e] = {}]
  /\ manifest' = [manifest EXCEPT ![e] = {}]
  /\ base' = [base EXCEPT ![e] = NoRun]
  /\ prev' = [prev EXCEPT ![e] = {}]
  /\ todo' = [todo EXCEPT ![e] = {}]
  /\ rows' = [rows EXCEPT ![e] = {}]
  /\ found' = [found EXCEPT ![e] = {}]

-----------------------------------------------------------------------------
(* list_manifest, list_filename_manifest *)

\* Wrong: an object that does not exist (any more) is listed.
ListObjectGone(e) ==
  /\ At(e, "list")
  /\ \E entry \in listing[e] :
       /\ listing' = [listing EXCEPT ![e] = @ \ {entry}]
       /\ manifest' = [manifest EXCEPT ![e] = @ \cup {<<entry[2], gen[entry[2]]>>}]
  /\ UNCHANGED <<gen, live, pc, base, prev, todo, rows, found, run, access>>

\* Wrong: overlapping rows list an object once each.
ListObjectTwice(e) ==
  /\ At(e, "list")
  /\ \E entry \in listing[e] :
       /\ entry[2] \in live => Cardinality(manifest[e]) < MaxFiles[e]
       /\ listing' = [listing EXCEPT ![e] = @ \ {entry}]
       /\ manifest' = [manifest EXCEPT ![e] = IF entry[2] \in live THEN @ \cup {<<entry[2], gen[entry[2]]>>} ELSE @]
  /\ UNCHANGED <<gen, live, pc, base, prev, todo, rows, found, run, access>>

\* The next entry <<r, o>> of the listings: o is listed as it is now.  An object
\* that an earlier row listed keeps the version it was listed with.
ListObject(e) ==
  /\ At(e, "list")
  /\ \E entry \in listing[e] :
       LET o   == entry[2]
           new == o \in live /\ o \notin Keys(manifest[e])
       IN IF new /\ Cardinality(manifest[e]) >= MaxFiles[e]
          THEN Fail(e)
          ELSE /\ listing' = [listing EXCEPT ![e] = @ \ {entry}]
               /\ manifest' = [manifest EXCEPT ![e] =
                                 IF new THEN @ \cup {<<o, gen[o]>>} ELSE @]
               /\ UNCHANGED <<pc, base, prev, todo, rows, found>>
  /\ UNCHANGED <<run, access>>

ListEnd(e) ==
  /\ At(e, "list")
  /\ listing[e] = {}
  /\ Goto(e, "latest")
  /\ UNCHANGED <<locals, run, access>>

-----------------------------------------------------------------------------
(* The newest completed snapshot *)

Complete == {r \in Execs : run[r].status = "COMPLETE"}

\* latest_completed_run
Latest(e) ==
  /\ At(e, "latest")
  /\ \/ /\ Complete = {}
        /\ Goto(e, "search")
        /\ todo' = [todo EXCEPT ![e] = manifest[e]]
        /\ UNCHANGED base
     \/ /\ \E r \in Complete :
             /\ \A s \in Complete : run[s].created <= run[r].created
             /\ base' = [base EXCEPT ![e] = r]
        /\ Goto(e, "manifest")
        /\ UNCHANGED todo
  /\ UNCHANGED <<listing, manifest, prev, rows, found, run, access>>

LoadManifest(e) ==
  /\ At(e, "manifest")
  /\ prev' = [prev EXCEPT ![e] = run[base[e]].manifest]
  /\ Goto(e, "results")
  /\ UNCHANGED <<listing, manifest, base, todo, rows, found, run, access>>

\* diff_manifests: entries that are new or differ, and objects that are gone
Changed(e) == manifest[e] \ prev[e]

Deleted(e) == Keys(prev[e]) \ Keys(manifest[e])

\* Wrong: a snapshot is reused although objects of it are gone.
LoadResultsOfMore(e) ==
  /\ At(e, "results")
  /\ rows' = [rows EXCEPT ![e] = run[base[e]].results]
  /\ IF Changed(e) = {}
     THEN Goto(e, "audit") /\ UNCHANGED todo
     ELSE Goto(e, "search") /\ todo' = [todo EXCEPT ![e] = Changed(e)]
  /\ UNCHANGED <<listing, manifest, base, prev, found, run, access>>

\* load_results; without changes these are the results, otherwise the changed
\* versions are searched.
LoadResults(e) ==
  /\ At(e, "results")
  /\ rows' = [rows EXCEPT ![e] = run[base[e]].results]
  /\ IF Changed(e) = {} /\ Deleted(e) = {}
     THEN Goto(e, "audit") /\ UNCHANGED todo
     ELSE Goto(e, "search") /\ todo' = [todo EXCEPT ![e] = Changed(e)]
  /\ UNCHANGED <<listing, manifest, base, prev, found, run, access>>

-----------------------------------------------------------------------------
(* SearchEngine.search, SearchEngine.search_filenames *)

\* One of the downloads under way ends.  It is pinned to the generation that was
\* listed, and reports an error when that is no longer the current one.  A
\* search of file names downloads nothing.
SearchObject(e) ==
  /\ At(e, "search")
  /\ \E v \in todo[e] :
       LET all == found[e] \cup RowsOf({v})
       IN IF (SearchType = "content" => Current(v)) /\ Cardinality(all) <= MaxRows[e]
          THEN /\ todo' = [todo EXCEPT ![e] = @ \ {v}]
               /\ found' = [found EXCEPT ![e] = all]
               /\ UNCHANGED <<pc, listing, manifest, base, prev, rows>>
          ELSE Fail(e)
  /\ UNCHANGED <<run, access>>

-----------------------------------------------------------------------------
(* _merge_refreshed_results and persist_snapshot *)

\* Wrong: the rows of deleted objects stay.
ChangedAlone(e) == Keys(Changed(e))

Affected(e) == Keys(Changed(e)) \cup Deleted(e)

Merged(e) == {r \in rows[e] : r[2][1] \notin Affected(e)} \cup found[e]

\* The results are merged, and the run is inserted as PENDING.
InsertPending(e) ==
  /\ At(e, "search")
  /\ todo[e] = {}
  /\ rows' = [rows EXCEPT ![e] = Merged(e)]
  /\ \E now \in Stamps :
       run' = [run EXCEPT ![e] = [NoSnapshot EXCEPT !.status = "PENDING",
                                                    !.created = now]]
  /\ Goto(e, "write_manifest")
  /\ UNCHANGED <<listing, manifest, base, prev, todo, found, access>>

\* The effects of the three calls after the insertion.
AddManifest(e) == run' = [run EXCEPT ![e].manifest = manifest[e]]

AddResults(e) == run' = [run EXCEPT ![e].results = rows[e]]

SetStatus(e, status) == run' = [run EXCEPT ![e].status = status]

\* Wrong: the run can be marked COMPLETE before its results are written.
WriteManifestAlone(e) ==
  /\ At(e, "write_manifest")
  /\ AddManifest(e)
  /\ Goto(e, "complete")
  /\ UNCHANGED <<locals, access>>

WriteManifest(e) ==
  /\ At(e, "write_manifest")
  /\ AddManifest(e)
  /\ Goto(e, "write_results")
  /\ UNCHANGED <<locals, access>>

WriteResults(e) ==
  /\ At(e, "write_results")
  /\ AddResults(e)
  /\ Goto(e, "complete")
  /\ UNCHANGED <<locals, access>>

\* Wrong: the execution still reports the snapshot it started from.
MarkCompleteOnly(e) ==
  /\ At(e, "complete")
  /\ SetStatus(e, "COMPLETE")
  /\ Goto(e, "audit")
  /\ UNCHANGED <<locals, access>>

\* The snapshot becomes the one this execution reports.
MarkComplete(e) ==
  /\ At(e, "complete")
  /\ SetStatus(e, "COMPLETE")
  /\ base' = [base EXCEPT ![e] = e]
  /\ Goto(e, "audit")
  /\ UNCHANGED <<listing, manifest, prev, todo, rows, found, access>>

MayHave(effect) == effect \/ UNCHANGED run

\* One of the three calls raised, having taken effect or not.
PersistError(e) ==
  /\ Goto(e, "mark_failed")
  /\ \/ pc[e] = "write_manifest" /\ MayHave(AddManifest(e))
     \/ pc[e] = "write_results" /\ MayHave(AddResults(e))
     \/ pc[e] = "complete" /\ MayHave(SetStatus(e, "COMPLETE"))
  /\ UNCHANGED <<gen, live, locals, access>>

\* The except clause marks the run FAILED, unless that call raises as well.
MarkFailed(e) ==
  /\ At(e, "mark_failed")
  /\ MayHave(SetStatus(e, "FAILED"))
  /\ Fail(e)
  /\ UNCHANGED access

-----------------------------------------------------------------------------
\* The row limit, then record_access; the results go on to copying and the
\* report.  Only a job that gets here has an audit record.
RecordAccess(e) ==
  /\ At(e, "audit")
  /\ IF Cardinality(rows[e]) > MaxRows[e]
     THEN Fail(e) /\ UNCHANGED access
     ELSE /\ access' = [access EXCEPT ![e] = base[e]]
          /\ Goto(e, "done")
          /\ UNCHANGED locals
  /\ UNCHANGED run

\* A call that is not one of those above raises, or the process dies.
Stop(e) ==
  /\ pc[e] \notin {"done", "failed"}
  /\ Fail(e)
  /\ UNCHANGED <<gen, live, run, access>>

Step(e) ==
  \/ ListObject(e) \/ ListEnd(e) \/ Latest(e) \/ LoadManifest(e) \/ LoadResults(e)
  \/ SearchObject(e) \/ InsertPending(e) \/ WriteManifest(e) \/ WriteResults(e)
  \/ MarkComplete(e) \/ PersistError(e) \/ MarkFailed(e) \/ RecordAccess(e) \/ Stop(e)

Change(o) ==
  /\ PutObject(o) \/ DeleteObject(o)
  /\ UNCHANGED <<pc, locals, run, access>>

Next == (\E e \in Execs : Step(e)) \/ (\E o \in Objects : Change(o))

Spec == Init /\ [][Next]_vars

-----------------------------------------------------------------------------
(* Invariants *)

Rows == Terms \X Versions

Snapshot == [status   : {"none", "PENDING", "COMPLETE", "FAILED"},
             created  : Stamps \cup {0},
             manifest : SUBSET Versions,
             results  : SUBSET Rows]

\* The types of execute's locals and of the cache tables' rows.
TypeOK ==
  /\ gen \in [Objects -> 0 .. MaxGen]
  /\ live \subseteq {o \in Objects : gen[o] > 0}
  /\ pc \in [Execs -> Pc]
  /\ listing \in [Execs -> SUBSET (Roots \X Objects)]
  /\ manifest \in [Execs -> SUBSET Versions]
  /\ base \in [Execs -> Execs \cup {NoRun}]
  /\ prev \in [Execs -> SUBSET Versions]
  /\ todo \in [Execs -> SUBSET Versions]
  /\ rows \in [Execs -> SUBSET Rows]
  /\ found \in [Execs -> SUBSET Rows]
  /\ run \in [Execs -> Snapshot]
  /\ access \in [Execs -> Execs \cup {NoRun}]

\* No object is in a manifest twice.
OneVersionEach(versions) == \A v, w \in versions : v[1] = w[1] => v = w

Coherent(snapshot) ==
  /\ OneVersionEach(snapshot.manifest)
  /\ snapshot.results = RowsOf(snapshot.manifest)

\* A snapshot that may be reused is whole: its rows are what a search of its own
\* manifest finds.  Partly written, failed and abandoned snapshots are not
\* COMPLETE (cache.py: "only completed snapshots are eligible for reuse").
SnapshotCoherent ==
  \A e \in Execs :
    run[e].status = "COMPLETE" => Coherent(run[e])

\* Reusing a snapshot, or merging it with a search of the changed objects, gives
\* what a full search of the listed versions would give, although objects
\* change, and other executions write snapshots, between any two of its calls.
ResultsExact ==
  \A e \in Execs :
    pc[e] \in {"audit", "done"} => rows[e] = RowsOf(manifest[e])

\* Results are handed on only with an audit record that names a snapshot with
\* these very rows, and neither the files searched nor the rows exceed their
\* limits, although cached rows and fresh rows are limited apart, and the
\* snapshot may come from an instance with higher limits.
DeliveryAudited ==
  \A e \in Execs :
    pc[e] = "done" =>
      /\ access[e] # NoRun
      /\ run[access[e]].results = rows[e]
      /\ run[access[e]].manifest = manifest[e]
      /\ Cardinality(manifest[e]) <= MaxFiles[e]
      /\ Cardinality(rows[e]) <= MaxRows[e]

\* DOCUMENTATION.md:68: every search access writes an audit record.  Here: so does
\* an execution that has its results in hand and meets no error of a call.
EverySearchAudited ==
  [][\A e \in Execs : RecordAccess(e) => access'[e] # NoRun]_vars

-----------------------------------------------------------------------------
(* The inductive invariant behind them *)

\* A snapshot that is not written to any more, and was COMPLETE once: it may
\* still turn FAILED, when the answer to its last update got lost.
Settled(r) == run[r].status \in {"COMPLETE", "FAILED"} /\ Coherent(run[r])

ManifestInv(e) ==
  /\ OneVersionEach(manifest[e])
  /\ IsFiniteSet(manifest[e]) /\ Cardinality(manifest[e]) <= MaxFiles[e]
  /\ OneVersionEach(prev[e])

\* What the locals of execute hold at each of its calls.
LocalsInv(e) ==
  /\ pc[e] \in {"list", "latest", "manifest"} => prev[e] = {}
  /\ pc[e] \in {"list", "latest", "manifest", "results"} => rows[e] = {} /\ found[e] = {}
  /\ pc[e] \in {"manifest", "results", "audit"} => base[e] \in Execs /\ Settled(base[e])
  /\ pc[e] = "results" => prev[e] = run[base[e]].manifest
  /\ pc[e] = "search" => /\ rows[e] = RowsOf(prev[e])
                         /\ todo[e] \subseteq Changed(e)
                         /\ found[e] = RowsOf(Changed(e) \ todo[e])
  /\ pc[e] \in {"write_manifest", "write_results", "complete", "audit", "done"}
       => rows[e] = RowsOf(manifest[e])
  /\ pc[e] = "audit" => run[base[e]].manifest = manifest[e]

\* How far each snapshot is written.
RunInv(e) ==
  /\ pc[e] \in {"list", "latest", "manifest", "results", "search"} => run[e] = NoSnapshot
  /\ pc[e] \in {"write_manifest", "write_results", "complete"} => run[e].status = "PENDING"
  /\ pc[e] \in {"write_results", "complete"} => run[e].manifest = manifest[e]
  /\ pc[e] = "complete" => run[e].results = rows[e]
  /\ run[e].status = "COMPLETE" => Coherent(run[e])

AuditInv(e) ==
  pc[e] = "done" =>
    /\ access[e] \in Execs /\ Settled(access[e])
    /\ run[access[e]].manifest = manifest[e]
    /\ Cardinality(rows[e]) <= MaxRows[e]

ExecInv(e) == ManifestInv(e) /\ LocalsInv(e) /\ RunInv(e) /\ AuditInv(e)

\* Snapshots are whole before they can be chosen, never change afterwards, and
\* at each call the rows in hand are those of the versions dealt with.
CacheInv == \A e \in Execs : ExecInv(e)

-----------------------------------------------------------------------------
(* Refinement *)

CONSTANT NoAnswer   \* no set of rows

\* What an execution looks at are the listed versions, and it answers when its
\* results go on.
Promise == INSTANCE SearchPromise WITH
  view   <- manifest,
  answer <- [e \in Execs |-> IF pc[e] = "done" THEN rows[e] ELSE NoAnswer]

KeepsPromise == Promise!Spec
=============================================================================

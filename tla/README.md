# A TLA+ model of GCS Search Macro

GCS Search Macro searches the objects of approved Cloud Storage roots for
terms, on behalf of a signed-in owner.  A stateless API accepts jobs, Cloud
Tasks delivers them to Cloud Run workers, a worker lists and searches the
sources with the help of a BigQuery cache, copies matches, and stores an Excel
report which the owner downloads.  This directory holds TLA+ modules for the
parts of it that are hard to test, configurations for TLC, and proofs for TLAPS.

Sources are named relative to `src/src/gcs_search_macro_v4/`.

## 1. The system

| Part | State it keeps | Operations | Hard behaviour | What makes it correct |
|---|---|---|---|---|
| Job store, `jobs.py`, `models.py` | one Firestore document per job | create, get, claim, succeed, fail, cancel_if_queued; single-document transactions | a call that raises may have committed | a closed job never changes; one claim per job |
| Queue, `queueing.py` | Cloud Tasks tasks, named after the job | enqueue | at-least-once delivery, ambiguous create_task | an accepted job keeps its task until claimed or closed |
| API, `api.py` | none between requests; the locals of a request | create_job, get_job, cancel_job, download_job | record and task are written one after the other; the cancel answer uses an older read | accepted jobs get settled; downloads lead to reports |
| Worker, `worker.py`, `emailer.py`, `reports.py` | the locals of one request; settings cached per instance | run_job | duplicate attempts, instance death, lost answers, revoked policy | one execution, one mail; succeeded means a stored report |
| Search executor, `executor.py` | the locals of one execution | execute: list, look up, search, merge, persist, limit, audit, copy, report | sources and cache change between any two calls | merged results equal a full search |
| Snapshot cache, `cache.py` | runs, manifests, results, access log (BigQuery); a process-wide set of ensured tables | ensure_tables, latest_completed_run, load_*, persist_snapshot, record_access | four-call writes that may stop anywhere; client clocks | only whole snapshots are reused; whoever uses the tables finds them complete |
| Search engine, `search_engine.py` | the futures of one search; the header block of a file | list_manifest, list_filename_manifest, search, search_filenames, search_text | overlapping roots, objects replaced after the listing, thread pool, where a header ends | each listed version searched once, pinned; lines reported as defined |
| Copying, `copying.py` | destination objects | copy_sources | lost answers, preconditions | no foreign object replaced, distinct destinations |
| Policy and settings, `policy.py`, `settings.py` | configuration of an instance | validate_request, get_settings | prefixes against path segments, case | nothing outside the roots |
| Enrichment, `enrichment.py` | the lookup of one report | build_dag_lookup, find_dag_metadata | contradictory rows, suffix ambiguity | equals its reference definition |
| Workbook, `reporting.py` | the titles in use | write_report, write_filename_report | title collisions | no sheet written over another |
| Authentication, factories, browser page, deployment | none | | | |

The API and the workers share the job store and the queue and nothing else.
Executions on different instances share the Cloud Storage objects and the
BigQuery cache and nothing else.  An execution belongs to exactly one attempt
of one job: `Execute` in `Worker` stands for everything that `SearchCache`
models in detail.  The two halves are checked separately because they share no
state: `Execute` may return or raise at any time, as `SearchCache`'s
executions do.  Inside an execution everything is one thread's sequence of
calls, except for the two pools; the modules cut this sequence where state is
handed over: `CacheTables` before the cache is used, `SearchCache` up to the
audit record, `CopyMatches` for the copies, `Report` for the request, the texts,
the DAGs and the workbook.

## 2. Modules

    JobStore   TaskQueue                 SourceObjects
        \        /  \                      /        \
         JobApi      Worker         SearchCache    SearchPromise
              \      /               |      \........../  (INSTANCE)
             JobService ..... JobLifecycle   |
                  |          (INSTANCE)      |
             JobServiceProofs        MCSearchCache  SearchCacheProofs

     BoundedMap ... ManifestSearch    CopyMatches
         |       (INSTANCE)            /       \
     BoundedMapProofs        MCCopyMatches   CopyMatchesProofs

     CacheTables                            Names
      |      |                  /             |            \
      |  MCCacheTables    RequestPolicy   DagLookup   Workbook   TextMatch
      |                          \            |            |        /
     CacheTablesProofs            `------- Report --------------'
                                          /      \
                                  ReportProofs   MCReport

`LookupProofs` (requests and the lookup of DAGs) and `WorkbookProofs` have the
lemmas that `ReportProofs` uses, and `MCTextMatch` has the lines that `MCReport`
uses.

### Jobs

* `JobStore` has one operator per transaction of `FirestoreJobStore`.  A
  document is reduced to its status, whether `started_at` and `finished_at` are
  set, the error code, and whether it names an artifact.  `MayHave(commit)` is a
  call that raised: committed or not.
* `TaskQueue` is the set of jobs with an undeleted task.  Task names are
  deterministic, so a set suffices.
* `JobApi` splits `create_job` and `cancel_job` at their remote calls.
  `createPc[j]` is the call create_job makes next; `cancel[j]` is the status
  that `_owner_record` has read and the answer may be made from.  Each call has
  an action for success and one for an exception (`EnqueueTask`,
  `EnqueueError`, ...); `ApiCrash` is the death of the process.
* `Worker` splits `run_job` at its remote calls: `pc[w]` names the next one.
  Several instances run it; each handles one request
  (`containerConcurrency: 1`) and has read its settings when it started
  (`lru_cache`).  `Deliver`, `DeliverAgain` and `RespondLost` are Cloud Tasks,
  `Revoke` is the administrator, `Recycle` and `Crash` are Cloud Run.
  The locals of a request vanish with it (`Release`).
* `JobService` composes them: next-state relation, fairness, invariants, action
  properties, liveness.
* `JobLifecycle` is the promise to an owner: a job moves along
  absent, queued, running to succeeded or failed, or from queued to cancelled,
  its report comes from a search that had begun, and success follows the report.
  `JobService` implements it with `phase` = document status,
  `started` = jobs with a started search, `published` = stored reports.

### Search and cache

* `SourceObjects` is Cloud Storage as the search engine uses it: objects with
  generations, put and deleted by others at any time.  A version's content never
  changes, so what a search finds in it is a constant, `Hits`.
* `SearchCache` is `ProductionExecutor.execute` up to the audit record, one
  action per Cloud Storage or BigQuery call, several executions of the same
  query at once.  `run[e]` is the snapshot that execution `e` writes.  Listing
  is one action per object, because a listing takes time and overlapping rows
  list an object at two times.  `Fail` models an exception: the locals are
  gone, what is in BigQuery stays.  `Stop` is an exception of any other call or
  the death of the process.  The limits belong to the settings an execution runs
  with and are no part of the query key, so that executions with different
  limits share snapshots (`MaxFiles[e]`, `MaxRows[e]`).
* `SearchPromise` is what a search promises with or without a cache: it looks
  at versions that are current at that moment, at most one per object, and its
  answer is what a search of exactly these finds.  `SearchCache` implements it
  with `view` = listed manifest, `answer` = the rows of an execution that is done.

* `BoundedMap` is what happens inside the action `SearchObject` of
  `SearchCache`, for content searches: the main thread, which alternates between
  the generator `_bounded_parallel_map` and the loop of `search` that consumes
  it, and the pool.  `pc` is the place of the main thread, `future[e]` the state
  of an entry's future, `pending` and `done` the sets of these names, `left` the
  rest of the for loop over `done`, `error` an exception on its way out.
  An exception in the consumer
  closes the generator at its yield (reference counting), so both kinds of
  failure join the pool before they go on.
* `ManifestSearch` is what a search promises its caller: a loop over the entries
  in some order, each read once, which ends with the first entry that cannot be
  read or that exceeds the row limit, or after the last.  This is how
  `SearchObject` in `SearchCache` takes the search, one version at a time in any
  order.  `BoundedMap` implements it with `read` = entries whose results the
  consumer has got, and the outcome of the main thread.

* `CopyMatches` is `_copy_matches` with `copy_sources`, for several jobs at once.
  Names are sequences of segments and `Destination` is what `posixpath.join`
  makes of them, a leading slash included.  `target[p]` says which job's copy of
  which object the name `p` holds; `live[s]` says whether the version of `s` that was
  searched is still there, replaced, or deleted; `status[j][s]` is the place of the call,
  then the status of its row.  `Copy` has one outcome per way its answer may
  go: received, lost for good, or lost and tried again by the client library,
  which it does for conditional requests only.  `Skip` is PreconditionFailed, which
  both conditions of the call raise: the name is taken, or the source has been
  replaced.  A deleted source raises NotFound (`CopyError`).  How many threads a job has makes
  no difference to what is modelled, so there is no bound on calls under way.

* `CacheTables` is `ensure_tables`: the check outside the lock, the check under
  it, the eleven statements one by one, and the set of what a process has
  ensured.  `present` is what exists in BigQuery, which a process may find empty,
  as an older release left it, or complete.  CREATE TABLE IF NOT EXISTS leaves an
  old table as it is, and ADD COLUMN completes it.

### Report

`Report` is the way of one request to its workbook, in one thread.  Its stages
hand data on, and each stage is a module with a definition of what it should
produce:

* `Names` has the string methods that names are compared by: `lower`,
  `strip("/")`, and the test of `_path_is_within_allowed_root`.
* `RequestPolicy` is `validate_request` with `resolve_bucket_paths` and
  `resolve_copy_target`, followed by the listing, which takes the approved path
  as a plain string prefix in its own case, while the policy compares whole
  segments without case.
* `TextMatch` is `strip_header_block` with `search_text`, a line at a time.  A line
  is a record of what the code asks of it.  `header` stands for the two flags
  `in_header` and `header_done`, of which at most one is true.
* `DagLookup` is `build_dag_lookup`, a row at a time, and `find_dag_metadata`.
  Paths are sequences of characters, since the bisection over reversed paths is
  about them; `Code` is the order of the characters.
* `Workbook` writes the sheets one by one.  `plan` is what is left to write,
  `used` the titles that `_sheet_name` has to avoid.  The number in a suffix
  counts as one character of the title.

Definitions that begin with "Wrong:" are mistaken variants of the definition
below them; with one of them in its place, the property of the same topic
fails.  They show that the properties depend on the code.

## 3. Runs

| Configuration | Module | Bounds | Checks | Outcome |
|---|---|---|---|---|
| `JobService_safety` | `JobService` | 1 job, 3 instances, all faults | invariants, action properties, refinement of JobLifecycle, AcceptedIsSettled | holds, about 272 000 states |
| `JobService_cancel` | `JobService` | 1 job, 1 instance, no fault | RunningCancelConflicts | violated |
| `JobService_failure` | `JobService` | 1 job, 1 instance, queue errors | FailureFitsPhase | violated |
| `JobService_orphan` | `JobService` | 1 job, 1 instance, crashes | RunningIsClosed | violated |
| `JobService_revoked` | `JobService` | 1 job, 1 instance, no fault | RevocationTakesEffect | violated |
| `SearchCache_safety` | `MCSearchCache` | 2 executions with file and row limits 1 and 2, 2 objects with 2 generations, 2 overlapping rows, 2 terms, 2 clock values, content search | all invariants, refinement of SearchPromise | holds, about 419 000 states |
| `SearchCache_audit` | `MCSearchCache` | the same with one clock value | EverySearchAudited | violated |
| `CacheTables` | `MCCacheTables` | 3 executions, 2 processes, 1 set of tables | invariants, StatementsOnce, Settles | holds, about 35 000 states |
| `BoundedMap` | `BoundedMap` | 6 entries, 2 threads, 1 term, row limit 3 | invariants, refinement of ManifestSearch, Terminates | holds, about 285 000 states |
| `CopyMatches_safety` | `MCCopyMatches` | 2 jobs with one prefix that share an object, 2 more of its name in another bucket, one with a leading slash, 2 names taken | invariants, ReplacesOwnOnly | holds, about 191 000 states |
| `Report` | `MCReport` | requests of up to 2 rows, files of up to 4 lines, tables of up to 3 rows, up to 3 terms, titles of up to 3 characters | invariants, Ends | holds, about 31 000 states |
| `Report_listing` | `MCReport` | the same | ListedWithinPolicy | violated |

Run one with `tlc -config JobService_safety.cfg JobService.tla`, and the others
with the module named beside them.

**Why these bounds.**  Jobs do not interact except by sharing instances, so one
job with three attempts covers duplicate delivery (two attempts race, a third
sees the outcome).  The search starts once and a mail is sent once, so no counter
needs a bound.  In the cache an execution depends on the others through the one
snapshot it picks; two executions give reuse, merge and races with a writer, and
their limits a snapshot that is too large for the one that reuses it.  What more
executions and longer chains of snapshots could do is covered by the proofs,
which hold for any number of them.  Two objects are one that is changed and one
that is kept; two rows that share an object are an overlap.  `MaxGen` bounds how
often an object is put, and two clock values let a later snapshot look older.
The three executions of `CacheTables` are two that compete for the lock of a
process and one of another process, which has a lock of its own; that they use
the same tables is the case in which they could disturb each other.
Six entries are two more than the window of two
threads holds, so that it slides and also drains; a row limit of 3 lets searches
with few matches return and others give up in the middle.  Copies of different
jobs meet only if their names do, so two jobs with the same prefix and objects
of the same name in two buckets are the cases that could collide; one job
overwrites and one does not, each finds a name taken, and they share a source;
sources may be replaced and deleted at any time.  The name with a leading slash
leaves the prefix of its job.  With
`HeaderLimit` 2 (5 in the code) four lines (`MaxLines`) are enough for a header
that opens on the first or second line or too late, stays open and closes, with
a line behind it.  Three rows (`MaxRows`) are a path, one that contradicts it and
one that agrees, in any order, or three paths that end each other; the scripts
asked for have entries that equal them, end them, extend them, extend them inside
a segment, and sort beside them.  Titles of at most `NameLimit` = 3 characters
(31 in the code) make three terms meet in all ways: by case, by an illegal
character, by the cut, by the suffix given to another, and with a fixed sheet.
`MaxCounter` bounds the titles tried; at 13 it is one more than can ever be taken
(`MaxTitles`), so that the bound hides nothing.  `Chars` has what these names are
made of.  Deadlock checking is off because all jobs may be closed, all executions
and the search over.

**Properties of the job service.**
`AtMostOnce`: redelivery never repeats a search or a mail.
`SucceededHasReport`: a succeeded job, and a job with a download URL, has its
workbook, although succeed() may raise after its commit.
`CancelledNeverRuns`: a job cancelled while an attempt already holds its record
is never run.
`AcceptedKeepsTask`: an accepted, queued job still has its task.
`ServiceInv`: the inductive invariant (section 5).
`ClosedIsFinal`: late succeed, fail, cancel and claim calls do not change a
closed job.
`RevocationHolds`: once no instance holds settings that allow a job, it is not
started.  This is what the code keeps of the documented promise; the promise itself
is `RevocationTakesEffect` (section 4).
`OrphanedByFaultOnly`: without a failed call or a dead instance, a running job
is always in the hands of an attempt that will close it.
`StrandedByFaultOnly`: without a fault no queued job is left without a task,
whether or not its id was returned.
`AcceptedIsSettled`: when faults cease, an accepted job is closed or orphaned.

**Properties of the cache.**
`SnapshotCoherent`: a COMPLETE snapshot is what a search of its own manifest
finds, wherever its writer stopped.
`ResultsExact`: cached rows, merged or not, equal a full search of the listed
versions.
`DeliveryAudited`: what an execution hands on has an audit record naming a
snapshot with the same rows, and respects the file and the row limit.
`CacheInv`: the inductive invariant.
`KeepsPromise`: with the cache as without it.

**Properties of the pool.**
`MemoryBounded`: the promise of the docstring, at most `2 * max_workers` futures
in flight, and at most twice as many with the finished ones that the last `done`
still refers to.
`ReturnsComplete`: a search that returns has read every entry and stayed within
the row limit.
`QuietAtEnd`: no download goes on after the search has returned or raised.
`SearchesInTurn`: the refinement; each entry's matches are added once, none are
added after an error, and the outcome follows from what was read.
`Terminates`: the search ends.

**Properties of copying.**
`CopiedIsThere`: a row that says copied means that the searched version is at the
destination, and stays there.
`SkippedForCause`: what is in the way of a skipped copy is the copy itself, made by a
try whose answer was lost, or an object of an earlier time, so jobs are never in
each other's way; and if nothing is in its way, or overwrite is on, the source has
been replaced or deleted since it was searched.
`ReportIsWhole`: a report of copies has an outcome for each match.
`ReplacesOwnOnly`: nothing is replaced without overwrite, nor outside the prefix
of the job that overwrites.

**Properties of the tables.**
`ReadyIsComplete`: an execution that gets past `ensure_tables` finds every table
and column, though others failed half way.
`StatementsOnce`: once a process has ensured its tables, none of its executions
sends a statement for them, not even one that had been waiting.
`Settles`: nobody waits for the lock for ever.
`TablesInv`: the inductive invariant; among other things no lock is left behind by
an execution that raised, died or went on.

**Properties of the report.**
`WithinPolicy`: the rows of an admitted request, and the folder of its job below the
prefix it copies to, are within an approved root, by whole segments and up to case.
What a listing of these rows finds is not (`ListedWithinPolicy`, section 4).
`FoundAsDefined`: the lines reported for a file are those outside the header and
the boilerplate on which the term occurs, each under its own number and kind.
`BuiltExact`: the lookup has a path if and only if the rows naming it agree,
whatever their order.
`LookupExact`: the bisection finds what a search of all paths would: the one
entry that is the script's path, or the only one that ends it or is ended by it
at a segment.  A script whose own rows contradict each other is looked up by its
suffix like one that has none.
`WorkbookWhole`: titles are legal and differ by more than case, so no sheet is
written over another.
`TitleFree`: the loop that looks for a free title of the next sheet finds one.
`ReportInv`: the inductive invariant.
`Ends`: an admitted request ends, the search for a free title included.

**Fairness.**  A handler under way goes on (`WF` of `ApiProgress` and
`WorkerStep`): Cloud Run schedules a request it has accepted.  A waiting task is
delivered when an instance is idle (`WF` of `Deliver`): Cloud Tasks retries
until a 2xx answer.  Nothing obliges an owner or an administrator to act, nor
faults to occur.  Liveness assumes that faults cease at some time
(`FaultsCease`); otherwise every attempt could die.  `Execute` may be assumed
to end because the request has a time limit (`timeoutSeconds: 1800`), after
which the attempt is lost, a fault.  In `BoundedMap` the main thread and the pool
go on: threads are scheduled, and a download has a timeout.  In `CacheTables` each
execution goes on while it can (`WF` of `Progress`); a lock need not be handed
out fairly, as each execution asks for it once.  In `Report` the one thread goes on
(`WF` of `Next`).  Unlimited retries are an assumption on the
configuration of the queue.

## 4. Where the code departs from its documentation

* `RunningCancelConflicts` (`api.py:112`).  The documentation promises 409 for
  cancelling a job that is running.  `cancel_job` decides by the record it read
  before the transaction: a worker that claims the job in between makes the
  answer 200 with status `queued`.
* `FailureFitsPhase` (`api.py:70`).  The state diagram lets an unavailable queue
  fail queued jobs only.  A create_task call that raises after it took effect
  lets a worker claim the job first; `_finish` then closes the running job with
  QUEUE_UNAVAILABLE, and the search goes on.  A duplicate attempt with newer
  settings does the same with POLICY_REJECTED.  `FailureFitsPhaseUnlessDuplicate`
  proves that there are no other causes.
* `RunningIsClosed` (`worker.py:45`).  Running jobs are documented to end as
  succeeded or failed.  After an instance died between claim and close, the
  redelivered task is answered 204 because the job is not queued; nothing closes
  it any more.  `OrphanedByFaultOnly` shows that it takes a fault.
* `RevocationTakesEffect` (`settings.py:140`).  Revoking a scope is documented to take
  effect for jobs that are queued already.  An instance keeps the settings it read
  when it started, so one that is older than the revocation validates a waiting
  job against the old policy, and runs it.  `RevocationHolds` says that this ends
  with the last such instance.
* `EverySearchAudited` (`executor.py:93`).  Every search access is documented to be
  audited.  The record is written after the check of the row limit: an execution
  whose cached rows, alone or merged with fresh ones, exceed its limit has read
  them, and raises without a record although no call has failed.  `DeliveryAudited` shows
  that nothing is handed on without one, and `SearchAuditedUnlessOverLimit` proves
  that every search is audited where the row limit is no less than the terms times
  the file limit.
* `ListedWithinPolicy` (`search_engine.py:173`, and 210).  Searches are documented
  never to leave the approved paths, and `policy.py` compares whole segments.  A path
  is stripped of its slashes and then listed as a string prefix, so that a row `team`
  also lists, searches and copies objects below `team-b/`.
  `ListedWithinPolicyUnlessBeside` proves that nothing else beside a root is listed.
  (Case is left out of the property, as `policy.py` means to ignore it; a row `Team`
  is admitted under the root `team`, and lists what is below `Team`.)

Each of these is a run that finds the statement violated.  Three more departures are
part of the models, and what a property or a theorem says of them is how far they go:

* Copies are documented to land below the job's prefix.  `posixpath.join`
  (`copying.py:53`) drops the prefix when the object's name begins with a slash, which
  Cloud Storage allows; the copies of such objects share their names with those of
  other jobs and buckets.  `FilesLandBelowJobUnlessAbsolute` proves that all other
  copies land where they should.
* A skipped copy is reported with the words "Destination already exists and overwrite
  is disabled" (`copying.py:68`).  A source that was replaced after its search fails
  the other condition of the call, `if_source_generation_match`, with the same
  exception, so it is reported with these words although the destination is empty or
  overwrite is on.  `SkippedForCause` shows that there is no other cause.
* Only a module docstring and boilerplate lines are documented to be skipped.  A
  docstring that ends before the end of its first line (a comment behind it, say), or
  an empty one, is taken to be open (`search_engine.py:68`), and every line up to the
  next one with the same quote is skipped too.  `FoundAsDefined` shows that nothing
  else is, and `HeaderOnlyUnlessEarly` proves the documented behaviour for files
  without such a line.

## 5. Proofs

`JobServiceProofs`, `SearchCacheProofs`, `BoundedMapProofs`, `CopyMatchesProofs`,
`CacheTablesProofs`, `LookupProofs`, `WorkbookProofs` and `ReportProofs` are
checked by `tlapm` to the last step.  They hold for any constants that satisfy
the modules' assumptions: any set of jobs, instances, executions, objects, files,
tables, terms; any limits; any class of faults.

**Job service.**  `AtMostOnce` alone is not inductive: it must be known that an
attempt at "execute" is the only one that got the claim.  `ServiceInv` adds
this: `RunsInv` (started searches, mails and reports against the document),
`OwnerInv` (the attempt between claim and close is unique, has not mailed before
it mails, and has stored the report before it succeeds), `AttemptInv` (what a
request knows of its job from earlier calls) and `OwnerViewInv` (what the API
knows).  Type correctness and `ServiceInv` are proved together, one step per
action, from lemmas on what each store operation changes.  From it follow
`AtMostOnce`, `SucceededHasReport`, `CancelledNeverRuns`, `AcceptedKeepsTask`,
the action properties `ClosedIsFinal`, `RevocationHolds`, `OrphanedByFaultOnly` and
`StrandedByFaultOnly`, and `Refinement`: every step is a step of `JobLifecycle`
or changes nothing it sees.  `FailureFitsPhaseUnlessDuplicate` takes one more
invariant, `AloneInv`: without duplicates and errors of the queue there is one
attempt per job, so an attempt that rejects a job has not lost it to another.

**Cache.**  The heart is `MergeExact`: if no object occurs twice in either
manifest, the old rows outside the affected objects together with the rows of
the changed versions are the rows of the new manifest.  To use it, `CacheInv`
says what the locals hold at each call (`LocalsInv`), how far a snapshot is
written (`RunInv`), that manifests have one version per object and respect the
limit (`ManifestInv`), and that a snapshot which has been COMPLETE once is whole
and stays so even if it turns FAILED later (`Settled`, needed because a reader
may have chosen it before).  `SettledStays` shows that no step of another
execution disturbs it.  `SnapshotCoherent`, `ResultsExact`, `DeliveryAudited`
and the refinement of `SearchPromise` follow.  With `ManifestInv` the rows at the
limit check are at most the terms times the file limit (`RowsBound`), which gives
`SearchAuditedUnlessOverLimit`.

**Pool.**  `MapInv` says where every entry is (`PlacesInv`: not submitted,
pending, left in the last batch, or handed on, and nowhere twice), that there is
room for an entry whenever one is due (`WindowInv`), and that the window is
empty only when nothing is left to submit (`ProgressInv`), which makes the end
of the while loop the end of the entries.  `MemoryBounded`, `ReturnsComplete` and
`QuietAtEnd` follow for any number of entries and threads, and so does the
refinement of `ManifestSearch`: an entry that is handed on or fails was in the
last batch, so it has not been read, and no error has been met before; every
other step is invisible to the caller.

**Copying.**  The heart is `DestinationsDistinct`.  Job ids are random, and
no prefix is taken to contain one (`JobIdAssumption`; it excludes an owner who
asks for a destination inside that of another job, while prefixes may otherwise
be nested and names of objects are free): the first job id in a destination
is that of its job, at the place where its prefix ends, which fixes the root, and
with it the bucket and the name.  It takes that no name begins with a slash
(`RelativeNames`), a hypothesis of the theorems, for the reason given in section 4.  `CopyInv` says that a destination holds nothing, its own copy, or what
was there before (`OwnOrEarlier`), and that a condition of a skipped call has failed
for good (`SkippedOnCondition`: nothing is removed from a destination, and a version
that is gone does not come back); `CopiedIsThere` and `SkippedForCause` follow from it.
`FilesLandBelowJobUnlessAbsolute` has the same hypothesis.

**Tables.**  `TablesInv` says that the execution at "create" holds the lock of its
process, that the holder of a lock is at "create", that its tables are not ensured
yet, and that the objects of its statements so far exist; nothing is ever dropped, so they stay.  At the last
statement this is everything that is required.  `ReadyIsComplete` and
`StatementsOnce` follow, for any number of executions, processes and sets of
tables.

**Report.**  `ReportInv` says what each stage has handed on; `StagesInv` combines
the parts along the stages (`KindOK`: the type of search, which fixes the fixed
sheets).

*Requests.*  `PolicyInv` keeps that the rows and the copy of an admitted request are
normal, and within a root, and that what was listed begins with a row, from which
`ListedBegins` gives that it begins with the text of a root, and
`ListedWithinPolicyUnlessBeside` follows.  `WithinPolicy` compares texts, so it needs what the string methods do: `Least` (the
least-number principle, from the well-foundedness of the naturals) gives
`MinMaxIs`, and that gives `StripIs`: what is left has no slash at either end, and
a path without one is left alone.  `FoldPrefix` and `UnderIs` carry "extends the
root by whole segments" through lower case and through appending a folder.

*Text.*  `TextInv` describes the loop of `strip_header_block` after any number
of lines: `HeaderFits` says which line opened the header and whether it is still
unclosed, and from it each line is classified as `FoundAsDefined` has it.  A header
that is still open although its docstring has ended was opened by a line that ends
its docstring early, which gives `HeaderOnlyUnlessEarly`.

*Lookup.*  `LookupFits` does the same as `TextInv` for the rows of the DAG table: an
entry has what the first row of its path says, and a path is ambiguous if a later
row says something else; removing the ambiguous ones gives `BuiltExact`.
For `LookupExact` the index must be sorted.  `Before`, the order of strings, is a
strict total order (`BeforeIrreflexive`, `BeforeTransitive`, `BeforeTotal`);
`Sortable` gives a word as its place one more than the number of words before it,
so that no induction over the index is needed, and `ReversedPathsAre` follows for
the sequence the model chooses.  The places before the bisection point are an
initial segment (`DownClosed`), the paths that extend the key are next to each other
behind it (`Between`), so that the first two places there show whether
there are none, one or more (`BisectionFinds`).  Together with the paths that the
key extends (`EndingIs`) this is what a search of all paths finds (`FindExact`).
`LookupWords` is the invariant needed: all paths of the lookup are words over
`Chars`.

*Workbook.*  `BookInv` keeps fixed sheets and sheets of terms apart: a fixed title is
in `used` before any term gets one, and each term's title is new.
`CandidateLegal` shows that a title is legal after its characters are replaced, its
end cut and its suffix added, for any limit and counter.  For `TitleFree`,
`CandidateEnds` shows that candidates with different counters differ by more than
case, although their ends are cut; `UsedFits` that fewer titles are taken than there
are counters; the rest is counting (`TitleIsFree`).

**Assumptions** of these proofs are those of the modules, which TLC evaluates in the
runs.  What the report takes from the code's string methods: lower case maps
characters to characters and leaves the slash alone (`LowerAssumption`,
`SlashAssumption`), characters have different places in their order
(`CodeAssumption`), different numbers have different digits in lower case too
(`DigitsAssumption`), digits and the underscore are legal in a title
(`LimitsAssumption`), fixed titles are legal and differ by more than case
(`TitleAssumption`).  `PlacesAssumption`, `PathsAssumption`, `TermListsAssumption`,
`LinesAssumption` and `JobFolderAssumption` are types of inputs.
`CounterAssumption` makes the bound on titles tried larger than what can be taken.

**Only model-checked.**  Liveness (`AcceptedIsSettled`, `Terminates`, `Settles`,
`Ends`): temporal properties under fairness and `ENABLED` are outside what the
installed provers do.  What keeps them from failing is proved as far as it is safety:
the lock of `CacheTables` is held only by an execution at work on it
(`TablesInv`), the window of `BoundedMap` is empty only at the end (`MapInv`), the
search for a title finds one (`TitleFree`), an accepted job keeps its task
(`AcceptedKeepsTask`).  The violated statements of section 4 are shown by
TLC's traces; those whose causes can be told from the constants are proved where
the causes are absent.

## 6. Not modelled, and the plan

Not modelled:

* Authentication (`auth.py`): tokens are verified by a library; every modelled
  request is one of the owner.  The service factories construct clients, the
  browser page polls, deployment files configure; none has a state of its own.
* `InMemoryJobStore` and the other development doubles.
* Of the policy: which regular expressions are safe, the domains of recipients,
  null characters, and how settings are parsed.  They are tests of one value by
  itself, which unit tests reach.
* Of the search: the exclusion of names, how an occurrence of a term is found in
  a line, and the classification of filenames.  They are pure functions of one
  name or line and are in the models as what a search of a version or line finds.
* Of the report: the values and order of rows, truncated cells, styles; which
  column of a table is taken for which purpose; a metadata value that differs
  from itself (NaN), which makes agreeing rows look contradictory.
* Metadata changes of an object without a new generation make `diff_manifests`
  search the same version again, with the same result; the model identifies them.
* An audit record whose load job raised after taking effect; it would belong to a
  failed job.

The plan:

1. *Done:* the job service, the search and the cache, the creation of its tables,
   the bounded pool, the copies, and the report from the request to the workbook,
   each with proofs.
2. *Dropped:* one module composed of `Worker`, `SearchCache` and `CopyMatches`.  The
   calls of an execution are made by one thread one after the other, so that
   composing them adds no interleaving: what `Execute` in `Worker` assumes of them
   is only that they return or raise.
3. *Done:* the proofs of all the safety properties that the runs check, and of the
   refinements of `JobLifecycle`, `SearchPromise` and `ManifestSearch`.
4. *Open:* measures that every step decreases, for the loops of `BoundedMap` and
   `CacheTables`: with them, what is left of liveness is that some step is enabled.

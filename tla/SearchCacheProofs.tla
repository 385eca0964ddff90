------------------------- MODULE SearchCacheProofs --------------------------
(***************************************************************************)
(* Proofs about SearchCache for any objects, terms, rows of the request,   *)
(* limits and clocks, and any number of executions.                        *)
(***************************************************************************)
EXTENDS SearchCache, FiniteSetTheorems, TLAPS

-----------------------------------------------------------------------------
(* Manifests and their rows *)

LEMMA KeysOf ==
  ASSUME NEW M, NEW v \in M
  PROVE  v[1] \in Keys(M)
BY DEF Keys

\* _merge_refreshed_results: the old rows of the objects that are neither changed
\* nor deleted, with the rows of the changed ones, are the rows of the new
\* manifest.
LEMMA MergeExact ==
  ASSUME NEW old \in SUBSET Versions, NEW new \in SUBSET Versions,
         OneVersionEach(old), OneVersionEach(new),
         NEW affected, affected = Keys(new \ old) \cup (Keys(old) \ Keys(new))
  PROVE  {r \in RowsOf(old) : r[2][1] \notin affected} \cup RowsOf(new \ old) = RowsOf(new)
<1>1. ASSUME NEW v \in old, v[1] \notin affected
      PROVE  v \in new
  <2>1. v[1] \in Keys(new)
    BY <1>1 DEF Keys
  <2>2. PICK w \in new : w[1] = v[1]
    BY <2>1 DEF Keys
  <2>3. w \in old
    BY <1>1, <2>2 DEF Keys
  <2> QED BY <1>1, <2>2, <2>3 DEF OneVersionEach
<1>2. ASSUME NEW v \in new, v \in old
      PROVE  v[1] \notin affected
  <2>1. v[1] \notin Keys(old) \ Keys(new)
    BY <1>2 DEF Keys
  <2>2. v[1] \notin Keys(new \ old)
    BY <1>2 DEF Keys, OneVersionEach
  <2> QED BY <2>1, <2>2
<1> QED
  BY <1>1, <1>2 DEF RowsOf

\* diff_manifests: no difference means the same manifest.
LEMMA NoDifference ==
  ASSUME NEW old, NEW new, OneVersionEach(old),
         new \ old = {}, Keys(old) \ Keys(new) = {}
  PROVE  old = new
<1>1. ASSUME NEW v \in old
      PROVE  v \in new
  <2>1. PICK w \in new : w[1] = v[1]
    BY DEF Keys
  <2> QED BY <2>1 DEF OneVersionEach
<1> QED BY <1>1

LEMMA RowsOfUnion ==
  ASSUME NEW M, NEW N
  PROVE  RowsOf(M) \cup RowsOf(N) = RowsOf(M \cup N)
BY DEF RowsOf

LEMMA RowsType ==
  ASSUME NEW M \in SUBSET Versions
  PROVE  RowsOf(M) \in SUBSET Rows
BY DEF RowsOf, Rows

LEMMA RowsFinite ==
  ASSUME NEW M, IsFiniteSet(M)
  PROVE  IsFiniteSet(RowsOf(M)) /\ Cardinality(RowsOf(M)) \in Nat
<1>1. IsFiniteSet(Terms \X M)
  BY TermsAssumption, FS_Product
<1>2. RowsOf(M) \in SUBSET (Terms \X M)
  BY DEF RowsOf
<1> QED BY <1>1, <1>2, FS_Subset, FS_CardinalityType

-----------------------------------------------------------------------------
(* Types *)

LEMMA InitType == Init => TypeOK
BY MaxGenAssumption
   DEF Init, TypeOK, SourcesInit, Pc, NoSnapshot, Snapshot

\* The updates of a snapshot in the cache tables.
LEMMA AddManifestEffect ==
  ASSUME NEW e \in Execs, run \in [Execs -> Snapshot], manifest[e] \in SUBSET Versions,
         AddManifest(e)
  PROVE  /\ run' \in [Execs -> Snapshot]
         /\ run'[e].status = run[e].status
         /\ run'[e].manifest = manifest[e]
         /\ run'[e].results = run[e].results
         /\ \A k \in Execs \ {e} : run'[k] = run[k]
BY DEF AddManifest, Snapshot

LEMMA AddResultsEffect ==
  ASSUME NEW e \in Execs, run \in [Execs -> Snapshot], rows[e] \in SUBSET Rows,
         AddResults(e)
  PROVE  /\ run' \in [Execs -> Snapshot]
         /\ run'[e].status = run[e].status
         /\ run'[e].manifest = run[e].manifest
         /\ run'[e].results = rows[e]
         /\ \A k \in Execs \ {e} : run'[k] = run[k]
BY DEF AddResults, Snapshot

LEMMA SetStatusEffect ==
  ASSUME NEW e \in Execs, run \in [Execs -> Snapshot],
         NEW status \in {"COMPLETE", "FAILED"}, SetStatus(e, status)
  PROVE  /\ run' \in [Execs -> Snapshot]
         /\ run'[e].status = status
         /\ run'[e].manifest = run[e].manifest
         /\ run'[e].results = run[e].results
         /\ \A k \in Execs \ {e} : run'[k] = run[k]
BY DEF SetStatus, Snapshot

LEMMA StepType ==
  ASSUME TypeOK, CacheInv, NEW e \in Execs, Step(e)
  PROVE  TypeOK'
<1> USE DEF TypeOK, locals, At, Goto, Pc
<1>1. CASE ListObject(e)
  BY <1>1 DEF ListObject, Fail, Versions
<1>2. CASE ListEnd(e)
  BY <1>2 DEF ListEnd
<1>3. CASE Latest(e)
  BY <1>3 DEF Latest, Complete
<1>4. CASE LoadManifest(e) \/ LoadResults(e)
  <2>1. base[e] \in Execs
    BY <1>4 DEF LoadManifest, LoadResults, CacheInv, ExecInv, LocalsInv
  <2>2. run[base[e]].manifest \in SUBSET Versions /\ run[base[e]].results \in SUBSET Rows
    BY <2>1 DEF Snapshot
  <2> QED BY <1>4, <2>2 DEF LoadManifest, LoadResults, Changed
<1>5. CASE SearchObject(e)
  BY <1>5, RowsType DEF SearchObject, Fail
<1>6. CASE InsertPending(e)
  <2>1. PICK now \in Stamps :
          run' = [run EXCEPT ![e] = [NoSnapshot EXCEPT !.status = "PENDING", !.created = now]]
    BY <1>6 DEF InsertPending
  <2>2. [NoSnapshot EXCEPT !.status = "PENDING", !.created = now] \in Snapshot
    BY DEF NoSnapshot, Snapshot
  <2>3. run' \in [Execs -> Snapshot]
    BY <2>1, <2>2
  <2> QED BY <1>6, <2>3 DEF InsertPending, Merged
<1>7. CASE WriteManifest(e) \/ WriteResults(e) \/ MarkComplete(e)
  <2>1. run' \in [Execs -> Snapshot]
    BY <1>7, AddManifestEffect, AddResultsEffect, SetStatusEffect
       DEF WriteManifest, WriteResults, MarkComplete
  <2> QED BY <1>7, <2>1 DEF WriteManifest, WriteResults, MarkComplete
<1>8. CASE PersistError(e)
  <2>1. run' \in [Execs -> Snapshot]
    BY <1>8, AddManifestEffect, AddResultsEffect, SetStatusEffect DEF PersistError, MayHave
  <2> QED BY <1>8, <2>1 DEF PersistError
<1>9. CASE MarkFailed(e)
  <2>1. run' \in [Execs -> Snapshot]
    BY <1>9, SetStatusEffect DEF MarkFailed, MayHave
  <2> QED BY <1>9, <2>1 DEF MarkFailed, Fail
<1>10. CASE RecordAccess(e) \/ Stop(e)
  BY <1>10 DEF RecordAccess, Stop, Fail
<1> QED
  BY <1>1, <1>2, <1>3, <1>4, <1>5, <1>6, <1>7, <1>8, <1>9, <1>10 DEF Step

LEMMA ChangeType ==
  ASSUME TypeOK, NEW o \in Objects, Change(o)
  PROVE  TypeOK'
<1>1. gen' \in [Objects -> 0 .. MaxGen] /\ live' \subseteq {x \in Objects : gen'[x] > 0}
  BY MaxGenAssumption DEF TypeOK, Change, PutObject, DeleteObject
<1> QED BY <1>1 DEF TypeOK, Change, locals

-----------------------------------------------------------------------------
(* The invariant *)

LEMMA InitInv == Init => CacheInv
BY FS_EmptySet, LimitAssumption
   DEF Init, CacheInv, ExecInv, ManifestInv, LocalsInv, RunInv, AuditInv,
       OneVersionEach, NoSnapshot

\* A step of one execution leaves the locals and the snapshot of another alone.
Same(k) ==
  /\ pc'[k] = pc[k] /\ manifest'[k] = manifest[k] /\ base'[k] = base[k]
  /\ prev'[k] = prev[k] /\ todo'[k] = todo[k] /\ rows'[k] = rows[k]
  /\ found'[k] = found[k] /\ run'[k] = run[k] /\ access'[k] = access[k]

LEMMA OthersSame ==
  ASSUME TypeOK, NEW e \in Execs, Step(e), NEW k \in Execs \ {e}
  PROVE  Same(k)
<1> USE DEF TypeOK, locals, Goto, Same
<1>1. CASE ListObject(e) \/ ListEnd(e) \/ SearchObject(e) \/ RecordAccess(e) \/ Stop(e)
  BY <1>1 DEF ListObject, ListEnd, SearchObject, RecordAccess, Stop, Fail
<1>2. CASE Latest(e) \/ LoadManifest(e) \/ LoadResults(e) \/ InsertPending(e)
  BY <1>2 DEF Latest, LoadManifest, LoadResults, InsertPending
<1>3. CASE WriteManifest(e) \/ WriteResults(e) \/ MarkComplete(e)
  BY <1>3 DEF WriteManifest, WriteResults, MarkComplete, AddManifest, AddResults, SetStatus
<1>4. CASE PersistError(e) \/ MarkFailed(e)
  BY <1>4 DEF PersistError, MarkFailed, Fail, MayHave, AddManifest, AddResults, SetStatus
<1> QED BY <1>1, <1>2, <1>3, <1>4 DEF Step

\* What a snapshot is used for does not change any more.
Kept(r) ==
  Settled(r) => /\ Settled(r)'
                /\ run'[r].manifest = run[r].manifest
                /\ run'[r].results = run[r].results

LEMMA SettledStays ==
  ASSUME TypeOK, CacheInv, NEW e \in Execs, Step(e), NEW r \in Execs
  PROVE  Kept(r)
<1>1. CASE r # e
  BY <1>1, OthersSame DEF Same, Kept, Settled, Coherent
<1>2. CASE r = e /\ ~UNCHANGED run
  <2>1. RunInv(e)
    BY DEF CacheInv, ExecInv
  <2>2. CASE MarkFailed(e)
    <3>1. SetStatus(e, "FAILED")
      BY <1>2, <2>2 DEF MarkFailed, MayHave
    <3> QED
      BY <1>2, <3>1, SetStatusEffect DEF TypeOK, Kept, Settled, Coherent
  <2>3. CASE ~MarkFailed(e)
    <3>1. pc[e] \in {"search", "write_manifest", "write_results", "complete"}
      BY <1>2, <2>3
         DEF Step, ListObject, ListEnd, Latest, LoadManifest, LoadResults, SearchObject,
             InsertPending, WriteManifest, WriteResults, MarkComplete, PersistError,
             RecordAccess, Stop, At
    <3>2. run[e].status \notin {"COMPLETE", "FAILED"}
      BY <2>1, <3>1 DEF RunInv, NoSnapshot
    <3> QED BY <1>2, <3>2 DEF Kept, Settled
  <2> QED BY <2>2, <2>3
<1>3. CASE UNCHANGED run
  BY <1>3 DEF Kept, Settled, Coherent
<1> QED BY <1>1, <1>2, <1>3

LEMMA OthersInv ==
  ASSUME TypeOK, CacheInv, NEW e \in Execs, Step(e), NEW k \in Execs \ {e}
  PROVE  ExecInv(k)'
<1>1. Same(k)
  BY OthersSame
<1>2. \A r \in Execs : Kept(r)
  BY SettledStays
<1>3. ExecInv(k)
  BY DEF CacheInv
<1>4. ManifestInv(k)'
  BY <1>1, <1>3 DEF ExecInv, ManifestInv, Same
<1>5. LocalsInv(k)'
  BY <1>1, <1>2, <1>3 DEF ExecInv, LocalsInv, Same, Kept, Changed
<1>6. RunInv(k)'
  BY <1>1, <1>3 DEF ExecInv, RunInv, Same
<1>7. AuditInv(k)'
  BY <1>1, <1>2, <1>3 DEF ExecInv, AuditInv, Same, Kept
<1> QED BY <1>4, <1>5, <1>6, <1>7 DEF ExecInv

\* An execution that failed leaves at most a whole snapshot behind.
LEMMA FailInv ==
  ASSUME TypeOK, NEW e \in Execs, Fail(e),
         run'[e].status = "COMPLETE" => Coherent(run'[e])
  PROVE  ExecInv(e)'
<1>1. /\ pc'[e] = "failed" /\ manifest'[e] = {} /\ prev'[e] = {}
  BY DEF Fail, Goto, TypeOK
<1>2. ManifestInv(e)'
  BY <1>1, FS_EmptySet, LimitAssumption DEF ManifestInv, OneVersionEach
<1>3. LocalsInv(e)' /\ RunInv(e)' /\ AuditInv(e)'
  BY <1>1 DEF LocalsInv, RunInv, AuditInv
<1> QED BY <1>2, <1>3 DEF ExecInv

LEMMA ListInv ==
  ASSUME TypeOK, CacheInv, NEW e \in Execs, ListObject(e) \/ ListEnd(e)
  PROVE  ExecInv(e)'
<1> USE DEF TypeOK, locals, At, Goto
<1>1. ExecInv(e) /\ pc[e] = "list" /\ UNCHANGED run
  BY DEF CacheInv, ListObject, ListEnd
<1>2. CASE Fail(e)
  BY <1>1, <1>2, FailInv DEF ExecInv, RunInv
<1>3. CASE ~Fail(e)
  <2>1. PICK M : M = manifest'[e]
    OBVIOUS
  <2>2. OneVersionEach(M) /\ IsFiniteSet(M) /\ Cardinality(M) <= MaxFiles[e]
    <3>1. CASE UNCHANGED manifest
      BY <1>1, <2>1, <3>1 DEF ExecInv, ManifestInv
    <3>2. CASE ~UNCHANGED manifest
      <4>1. PICK v :
              /\ v[1] \notin Keys(manifest[e]) /\ ~(Cardinality(manifest[e]) >= MaxFiles[e])
              /\ M = manifest[e] \cup {v}
        <5>1. PICK entry \in listing[e] :
                /\ entry[2] \notin Keys(manifest[e]) /\ ~(Cardinality(manifest[e]) >= MaxFiles[e])
                /\ manifest' = [manifest EXCEPT ![e] = @ \cup {<<entry[2], gen[entry[2]]>>}]
          BY <1>3, <3>2 DEF ListObject, ListEnd
        <5>2. <<entry[2], gen[entry[2]]>>[1] = entry[2]
          OBVIOUS
        <5>3. M = manifest[e] \cup {<<entry[2], gen[entry[2]]>>}
          BY <2>1, <5>1
        <5> WITNESS <<entry[2], gen[entry[2]]>>
        <5> QED BY <5>1, <5>2, <5>3
      <4>2. OneVersionEach(M)
        BY <1>1, <4>1 DEF ExecInv, ManifestInv, OneVersionEach, Keys
      <4>3. IsFiniteSet(manifest[e]) /\ Cardinality(manifest[e]) \in Nat
        BY <1>1, FS_CardinalityType DEF ExecInv, ManifestInv
      <4>4. IsFiniteSet(M) /\ Cardinality(M) <= Cardinality(manifest[e]) + 1
        <5>1. /\ IsFiniteSet(manifest[e] \cup {v})
              /\ Cardinality(manifest[e] \cup {v}) =
                   IF v \in manifest[e] THEN Cardinality(manifest[e])
                                       ELSE Cardinality(manifest[e]) + 1
          BY <4>3, FS_AddElement
        <5> QED BY <4>1, <4>3, <5>1
      <4>5. Cardinality(M) \in Nat
        BY <4>4, FS_CardinalityType
      <4> QED BY <4>1, <4>2, <4>3, <4>4, <4>5, LimitAssumption
    <3> QED BY <3>1, <3>2
  <2>3. /\ pc'[e] \in {"list", "latest"}
        /\ prev'[e] = prev[e] /\ rows'[e] = rows[e] /\ found'[e] = found[e]
    BY <1>1, <1>3 DEF ListObject, ListEnd
  <2>4. ManifestInv(e)'
    BY <1>1, <2>1, <2>2, <2>3 DEF ExecInv, ManifestInv
  <2>5. LocalsInv(e)' /\ RunInv(e)' /\ AuditInv(e)'
    BY <1>1, <2>3 DEF ExecInv, LocalsInv, RunInv, AuditInv
  <2> QED BY <2>4, <2>5 DEF ExecInv
<1> QED BY <1>2, <1>3

LEMMA LatestInv ==
  ASSUME TypeOK, CacheInv, NEW e \in Execs, Latest(e)
  PROVE  ExecInv(e)'
<1> USE DEF TypeOK, locals, At, Goto
<1>1. /\ ExecInv(e) /\ pc[e] = "latest" /\ UNCHANGED <<run, manifest, prev, rows, found>>
  BY DEF CacheInv, Latest
<1>2. ManifestInv(e)' /\ RunInv(e)' /\ AuditInv(e)'
  BY <1>1 DEF Latest, ExecInv, ManifestInv, RunInv, AuditInv
<1>3. LocalsInv(e)'
  <2>1. CASE Complete = {} /\ pc'[e] = "search" /\ todo'[e] = manifest[e]
    BY <1>1, <2>1 DEF ExecInv, LocalsInv, Changed, RowsOf
  <2>2. CASE pc'[e] = "manifest" /\ base'[e] \in Complete
    <3>1. Settled(base'[e])
      BY <2>2 DEF CacheInv, ExecInv, RunInv, Complete, Settled
    <3> QED BY <1>1, <2>2, <3>1 DEF ExecInv, LocalsInv, Settled, Complete
  <2> QED BY <2>1, <2>2 DEF Latest
<1> QED BY <1>2, <1>3 DEF ExecInv

LEMMA LoadManifestInv ==
  ASSUME TypeOK, CacheInv, NEW e \in Execs, LoadManifest(e)
  PROVE  ExecInv(e)'
<1> USE DEF TypeOK, locals, At, Goto, LoadManifest
<1>1. /\ ExecInv(e) /\ pc[e] = "manifest" /\ pc'[e] = "results"
      /\ UNCHANGED <<run, manifest, base, rows, found>>
      /\ prev'[e] = run[base[e]].manifest
  BY DEF CacheInv
<1>2. base[e] \in Execs /\ Settled(base[e])
  BY <1>1 DEF ExecInv, LocalsInv
<1>3. ManifestInv(e)'
  BY <1>1, <1>2 DEF ExecInv, ManifestInv, Settled, Coherent
<1>4. LocalsInv(e)' /\ RunInv(e)' /\ AuditInv(e)'
  BY <1>1, <1>2 DEF ExecInv, LocalsInv, RunInv, AuditInv, Settled
<1> QED BY <1>3, <1>4 DEF ExecInv

LEMMA LoadResultsInv ==
  ASSUME TypeOK, CacheInv, NEW e \in Execs, LoadResults(e)
  PROVE  ExecInv(e)'
<1> USE DEF TypeOK, locals, At, Goto, LoadResults
<1>1. /\ ExecInv(e) /\ pc[e] = "results"
      /\ UNCHANGED <<run, manifest, base, prev, found>>
      /\ rows'[e] = run[base[e]].results
  BY DEF CacheInv
<1>2. /\ base[e] \in Execs /\ Settled(base[e]) /\ prev[e] = run[base[e]].manifest
      /\ found[e] = {}
  BY <1>1 DEF ExecInv, LocalsInv
<1>3. rows'[e] = RowsOf(prev[e])
  BY <1>1, <1>2 DEF Settled, Coherent
<1>4. ManifestInv(e)' /\ RunInv(e)' /\ AuditInv(e)'
  BY <1>1 DEF ExecInv, ManifestInv, RunInv, AuditInv
<1>5. LocalsInv(e)'
  <2>1. CASE pc'[e] = "audit" /\ Changed(e) = {} /\ Deleted(e) = {}
    <3>1. prev[e] = manifest[e]
      BY <1>1, <2>1, NoDifference DEF ExecInv, ManifestInv, Changed, Deleted
    <3> QED BY <1>1, <1>2, <1>3, <2>1, <3>1 DEF LocalsInv, Settled
  <2>2. CASE pc'[e] = "search" /\ todo'[e] = Changed(e)
    BY <1>1, <1>2, <1>3, <2>2 DEF LocalsInv, Changed, RowsOf
  <2> QED BY <1>1, <2>1, <2>2
<1> QED BY <1>4, <1>5 DEF ExecInv

LEMMA SearchInv ==
  ASSUME TypeOK, CacheInv, NEW e \in Execs, SearchObject(e)
  PROVE  ExecInv(e)'
<1> USE DEF TypeOK, locals, At, Goto
<1>1. ExecInv(e) /\ pc[e] = "search" /\ UNCHANGED run
  BY DEF CacheInv, SearchObject
<1>2. CASE Fail(e)
  BY <1>1, <1>2, FailInv DEF ExecInv, RunInv
<1>3. CASE ~Fail(e)
  <2>1. PICK v \in todo[e] : /\ todo'[e] = todo[e] \ {v}
                             /\ found'[e] = found[e] \cup RowsOf({v})
                             /\ UNCHANGED <<pc, manifest, prev, rows>>
    BY <1>3 DEF SearchObject
  <2>2. todo[e] \subseteq Changed(e) /\ found[e] = RowsOf(Changed(e) \ todo[e])
    BY <1>1 DEF ExecInv, LocalsInv
  <2>3. (Changed(e) \ todo[e]) \cup {v} = Changed(e) \ (todo[e] \ {v})
    BY <2>2
  <2>4. found'[e] = RowsOf(Changed(e) \ todo'[e])
    BY <2>1, <2>2, <2>3, RowsOfUnion
  <2>5. LocalsInv(e)'
    BY <1>1, <2>1, <2>2, <2>4 DEF ExecInv, LocalsInv, Changed
  <2>6. ManifestInv(e)' /\ RunInv(e)' /\ AuditInv(e)'
    BY <1>1, <2>1 DEF ExecInv, ManifestInv, RunInv, AuditInv
  <2> QED BY <2>5, <2>6 DEF ExecInv
<1> QED BY <1>2, <1>3

LEMMA InsertPendingInv ==
  ASSUME TypeOK, CacheInv, NEW e \in Execs, InsertPending(e)
  PROVE  ExecInv(e)'
<1> USE DEF TypeOK, locals, At, Goto
<1>1. /\ ExecInv(e) /\ pc[e] = "search" /\ pc'[e] = "write_manifest"
      /\ UNCHANGED <<manifest, prev>> /\ rows'[e] = Merged(e) /\ todo[e] = {}
  BY DEF CacheInv, InsertPending
<1>2. run'[e].status = "PENDING"
  BY DEF InsertPending, NoSnapshot
<1>3. rows'[e] = RowsOf(manifest[e])
  <2>1. rows[e] = RowsOf(prev[e]) /\ found[e] = RowsOf(Changed(e))
    BY <1>1 DEF ExecInv, LocalsInv
  <2>2. Affected(e) = Keys(manifest[e] \ prev[e]) \cup (Keys(prev[e]) \ Keys(manifest[e]))
    BY DEF Affected, Changed, Deleted
  <2>3. OneVersionEach(prev[e]) /\ OneVersionEach(manifest[e])
    BY <1>1 DEF ExecInv, ManifestInv
  <2>4. /\ prev[e] \in SUBSET Versions /\ manifest[e] \in SUBSET Versions
    OBVIOUS
  <2>5. {r \in RowsOf(prev[e]) : r[2][1] \notin Affected(e)} \cup RowsOf(manifest[e] \ prev[e])
          = RowsOf(manifest[e])
    BY <2>2, <2>3, <2>4, MergeExact
  <2> QED BY <1>1, <2>1, <2>5 DEF Merged, Changed
<1>4. ManifestInv(e)' /\ LocalsInv(e)' /\ RunInv(e)' /\ AuditInv(e)'
  BY <1>1, <1>2, <1>3 DEF ExecInv, ManifestInv, LocalsInv, RunInv, AuditInv
<1> QED BY <1>4 DEF ExecInv

LEMMA WriteInv ==
  ASSUME TypeOK, CacheInv, NEW e \in Execs, WriteManifest(e) \/ WriteResults(e)
  PROVE  ExecInv(e)'
<1> USE DEF TypeOK, locals, At, Goto
<1>1. ExecInv(e) /\ UNCHANGED <<manifest, prev, rows>>
  BY DEF CacheInv, WriteManifest, WriteResults
<1>2. CASE WriteManifest(e)
  <2>1. /\ pc[e] = "write_manifest" /\ pc'[e] = "write_results"
        /\ run'[e].status = "PENDING" /\ run'[e].manifest = manifest[e]
    BY <1>1, <1>2, AddManifestEffect DEF WriteManifest, ExecInv, RunInv
  <2> QED
    BY <1>1, <2>1 DEF ExecInv, ManifestInv, LocalsInv, RunInv, AuditInv
<1>3. CASE WriteResults(e)
  <2>1. /\ pc[e] = "write_results" /\ pc'[e] = "complete"
        /\ run'[e].status = "PENDING" /\ run'[e].manifest = manifest[e]
        /\ run'[e].results = rows[e]
    BY <1>1, <1>3, AddResultsEffect DEF WriteResults, ExecInv, RunInv
  <2> QED
    BY <1>1, <2>1 DEF ExecInv, ManifestInv, LocalsInv, RunInv, AuditInv
<1> QED BY <1>2, <1>3

\* The update to COMPLETE comes last, so it makes a whole snapshot eligible.
LEMMA CompleteIsCoherent ==
  ASSUME TypeOK, CacheInv, NEW e \in Execs, pc[e] = "complete", SetStatus(e, "COMPLETE")
  PROVE  /\ run'[e].status = "COMPLETE"
         /\ run'[e].manifest = manifest[e]
         /\ Coherent(run'[e])
<1>1. ExecInv(e)
  BY DEF CacheInv
<1>2. /\ run[e].manifest = manifest[e] /\ run[e].results = RowsOf(manifest[e])
      /\ OneVersionEach(manifest[e])
  BY <1>1 DEF ExecInv, ManifestInv, LocalsInv, RunInv
<1> QED BY <1>2, SetStatusEffect DEF TypeOK, Coherent

LEMMA MarkCompleteInv ==
  ASSUME TypeOK, CacheInv, NEW e \in Execs, MarkComplete(e)
  PROVE  ExecInv(e)'
<1> USE DEF TypeOK, locals, At, Goto, MarkComplete
<1>1. /\ ExecInv(e) /\ pc[e] = "complete" /\ pc'[e] = "audit" /\ base'[e] = e
      /\ UNCHANGED <<manifest, prev, rows>>
  BY DEF CacheInv
<1>2. run'[e].status = "COMPLETE" /\ run'[e].manifest = manifest[e] /\ Coherent(run'[e])
  BY <1>1, CompleteIsCoherent
<1>3. LocalsInv(e)'
  BY <1>1, <1>2 DEF ExecInv, LocalsInv, Settled
<1>4. ManifestInv(e)' /\ RunInv(e)' /\ AuditInv(e)'
  BY <1>1, <1>2 DEF ExecInv, ManifestInv, RunInv, AuditInv
<1> QED BY <1>3, <1>4 DEF ExecInv

LEMMA PersistErrorInv ==
  ASSUME TypeOK, CacheInv, NEW e \in Execs, PersistError(e)
  PROVE  ExecInv(e)'
<1> USE DEF TypeOK, locals, Goto, PersistError
<1>1. ExecInv(e) /\ pc'[e] = "mark_failed" /\ UNCHANGED <<manifest, prev>>
  BY DEF CacheInv
<1>2. run'[e].status = "COMPLETE" => Coherent(run'[e])
  <2>1. CASE UNCHANGED run
    BY <1>1, <2>1 DEF ExecInv, RunInv
  <2>2. CASE AddManifest(e) /\ pc[e] = "write_manifest"
    BY <1>1, <2>2, AddManifestEffect DEF ExecInv, RunInv
  <2>3. CASE AddResults(e) /\ pc[e] = "write_results"
    BY <1>1, <2>3, AddResultsEffect DEF ExecInv, RunInv
  <2>4. CASE SetStatus(e, "COMPLETE") /\ pc[e] = "complete"
    BY <2>4, CompleteIsCoherent
  <2> QED BY <2>1, <2>2, <2>3, <2>4 DEF MayHave
<1>3. ManifestInv(e)' /\ LocalsInv(e)' /\ RunInv(e)' /\ AuditInv(e)'
  BY <1>1, <1>2 DEF ExecInv, ManifestInv, LocalsInv, RunInv, AuditInv
<1> QED BY <1>3 DEF ExecInv

LEMMA EndInv ==
  ASSUME TypeOK, CacheInv, NEW e \in Execs, MarkFailed(e) \/ RecordAccess(e) \/ Stop(e)
  PROVE  ExecInv(e)'
<1> USE DEF TypeOK, locals, At, Goto
<1>1. ExecInv(e)
  BY DEF CacheInv
<1>2. CASE Fail(e)
  <2>1. UNCHANGED run \/ SetStatus(e, "FAILED")
    BY DEF MarkFailed, RecordAccess, Stop, MayHave
  <2>2. run'[e].status = "COMPLETE" => Coherent(run'[e])
    BY <1>1, <2>1, SetStatusEffect DEF ExecInv, RunInv
  <2> QED BY <1>2, <2>2, FailInv
<1>3. CASE ~Fail(e)
  <2>1. /\ pc[e] = "audit" /\ pc'[e] = "done" /\ access'[e] = base[e]
        /\ ~(Cardinality(rows[e]) > MaxRows[e])
        /\ UNCHANGED <<run, manifest, prev, rows>>
    BY <1>3 DEF MarkFailed, RecordAccess, Stop
  <2>2. /\ base[e] \in Execs /\ Settled(base[e])
        /\ run[base[e]].manifest = manifest[e] /\ rows[e] = RowsOf(manifest[e])
    BY <1>1, <2>1 DEF ExecInv, LocalsInv
  <2>3. Cardinality(rows[e]) <= MaxRows[e]
    <3>1. Cardinality(rows[e]) \in Nat
      BY <1>1, <2>2, RowsFinite DEF ExecInv, ManifestInv
    <3> QED BY <2>1, <3>1, LimitAssumption
  <2>4. AuditInv(e)'
    BY <2>1, <2>2, <2>3 DEF AuditInv, Settled
  <2>5. ManifestInv(e)' /\ LocalsInv(e)' /\ RunInv(e)'
    BY <1>1, <2>1, <2>2 DEF ExecInv, ManifestInv, LocalsInv, RunInv
  <2> QED BY <2>4, <2>5 DEF ExecInv
<1> QED BY <1>2, <1>3

LEMMA ChangeInv ==
  ASSUME CacheInv, NEW o \in Objects, Change(o)
  PROVE  CacheInv'
<1>1. UNCHANGED <<pc, locals, run, access>>
  BY DEF Change
<1>2. \A e \in Execs : ManifestInv(e)' /\ RunInv(e)' /\ AuditInv(e)'
  BY <1>1 DEF locals, CacheInv, ExecInv, ManifestInv, RunInv, AuditInv, Settled
<1>3. \A e \in Execs : LocalsInv(e)'
  BY <1>1 DEF locals, CacheInv, ExecInv, LocalsInv, Settled, Changed
<1> QED BY <1>2, <1>3 DEF CacheInv, ExecInv

LEMMA NextInv == TypeOK /\ CacheInv /\ [Next]_vars => TypeOK' /\ CacheInv'
<1> SUFFICES ASSUME TypeOK, CacheInv, [Next]_vars
             PROVE  TypeOK' /\ CacheInv'
  OBVIOUS
<1>1. ASSUME NEW e \in Execs, Step(e)
      PROVE  TypeOK' /\ CacheInv'
  <2>1. ExecInv(e)'
    BY <1>1, ListInv, LatestInv, LoadManifestInv, LoadResultsInv, SearchInv, InsertPendingInv,
       WriteInv, MarkCompleteInv, PersistErrorInv, EndInv DEF Step
  <2>2. \A k \in Execs \ {e} : ExecInv(k)'
    BY <1>1, OthersInv
  <2>3. CacheInv'
    BY <2>1, <2>2 DEF CacheInv
  <2> QED BY <1>1, <2>3, StepType
<1>2. ASSUME NEW o \in Objects, Change(o)
      PROVE  TypeOK' /\ CacheInv'
  BY <1>2, ChangeType, ChangeInv
<1>3. CASE UNCHANGED vars
  <2>1. TypeOK'
    BY <1>3 DEF vars, locals, TypeOK
  <2>2. CacheInv'
    BY <1>3 DEF vars, locals, CacheInv, ExecInv, ManifestInv, LocalsInv, RunInv, AuditInv,
                Settled, Changed
  <2> QED BY <2>1, <2>2
<1> QED BY <1>1, <1>2, <1>3 DEF Next

THEOREM Invariance == Spec => [](TypeOK /\ CacheInv)
<1>1. Init => TypeOK /\ CacheInv
  BY InitType, InitInv
<1> QED BY <1>1, NextInv, PTL DEF Spec

\* The locals of execute and the cache tables keep their types.
THEOREM TypeCorrect == Spec => []TypeOK
BY Invariance, PTL

\* At each call the rows in hand are those of the versions dealt with, and a
\* snapshot that was chosen stays as it is.
THEOREM CacheInvariant == Spec => []CacheInv
BY Invariance, PTL

\* A COMPLETE snapshot is whole, whatever fails while it is written.
THEOREM SnapshotCoherentHolds == Spec => []SnapshotCoherent
<1>1. CacheInv => SnapshotCoherent
  BY DEF CacheInv, ExecInv, RunInv, SnapshotCoherent
<1> QED BY <1>1, Invariance, PTL

\* Cached rows merged with fresh ones are what a full search would find.
THEOREM ResultsExactHolds == Spec => []ResultsExact
<1>1. CacheInv => ResultsExact
  BY DEF CacheInv, ExecInv, LocalsInv, ResultsExact
<1> QED BY <1>1, Invariance, PTL

\* What is handed on has an audit record for the same rows, within the limits.
THEOREM DeliveryAuditedHolds == Spec => []DeliveryAudited
<1>1. CacheInv => DeliveryAudited
  <2> SUFFICES ASSUME CacheInv, NEW e \in Execs, pc[e] = "done"
               PROVE  /\ access[e] # NoRun
                      /\ run[access[e]].results = rows[e]
                      /\ run[access[e]].manifest = manifest[e]
                      /\ Cardinality(manifest[e]) <= MaxFiles[e]
                      /\ Cardinality(rows[e]) <= MaxRows[e]
    BY DEF DeliveryAudited
  <2>1. ExecInv(e)
    BY DEF CacheInv
  <2>2. rows[e] = RowsOf(manifest[e])
    BY <2>1 DEF ExecInv, LocalsInv
  <2>3. /\ access[e] \in Execs /\ run[access[e]].manifest = manifest[e]
        /\ run[access[e]].results = RowsOf(manifest[e])
        /\ Cardinality(rows[e]) <= MaxRows[e]
    BY <2>1 DEF ExecInv, AuditInv, Settled, Coherent
  <2>4. Cardinality(manifest[e]) <= MaxFiles[e]
    BY <2>1 DEF ExecInv, ManifestInv
  <2> QED BY <2>2, <2>3, <2>4, NoRunAssumption
<1> QED BY <1>1, Invariance, PTL

-----------------------------------------------------------------------------
(* What may leave a search without its audit record *)

LEMMA RowsBound ==
  ASSUME NEW M, IsFiniteSet(M)
  PROVE  Cardinality(RowsOf(M)) <= Cardinality(Terms) * Cardinality(M)
<1>1. IsFiniteSet(Terms \X M) /\ Cardinality(Terms \X M) = Cardinality(Terms) * Cardinality(M)
  BY TermsAssumption, FS_Product
<1>2. RowsOf(M) \in SUBSET (Terms \X M)
  BY DEF RowsOf
<1> QED BY <1>1, <1>2, FS_Subset

\* It takes a row limit that the files within the other limit can exceed for a
\* search to end without an audit record, its results in hand: where every term may
\* hit every file that max_files_per_job admits, each search is audited.
THEOREM SearchAuditedUnlessOverLimit ==
  ASSUME \A e \in Execs : MaxRows[e] >= Cardinality(Terms) * MaxFiles[e]
  PROVE  Spec => EverySearchAudited
<1> DEFINE Audited == \A e \in Execs : RecordAccess(e) => access'[e] # NoRun
<1>1. TypeOK /\ CacheInv /\ [Next]_vars => Audited
  <2> SUFFICES ASSUME TypeOK, CacheInv, NEW e \in Execs, RecordAccess(e)
               PROVE  access'[e] # NoRun
    OBVIOUS
  <2>1. ManifestInv(e) /\ LocalsInv(e) /\ pc[e] = "audit"
    BY DEF CacheInv, ExecInv, RecordAccess, At
  <2>2. base[e] \in Execs /\ rows[e] = RowsOf(manifest[e])
    BY <2>1 DEF LocalsInv
  <2>3. /\ IsFiniteSet(manifest[e]) /\ Cardinality(manifest[e]) \in Nat
        /\ Cardinality(manifest[e]) <= MaxFiles[e]
    BY <2>1, FS_CardinalityType DEF ManifestInv
  <2>4. Cardinality(Terms) \in Nat /\ MaxFiles[e] \in Nat /\ MaxRows[e] \in Nat
    BY TermsAssumption, LimitAssumption, FS_CardinalityType
  <2>5. Cardinality(Terms) * Cardinality(manifest[e]) <= Cardinality(Terms) * MaxFiles[e]
    <3> HIDE DEF TypeOK
    <3>1. \A t, m, n \in Nat : m <= n => t * m <= t * n
      OBVIOUS
    <3> QED BY <2>3, <2>4, <3>1
  <2>6. Cardinality(rows[e]) \in Nat /\ Cardinality(rows[e]) <= MaxRows[e]
    <3>1. /\ Cardinality(rows[e]) \in Nat
          /\ Cardinality(rows[e]) <= Cardinality(Terms) * Cardinality(manifest[e])
      BY <2>2, <2>3, RowsBound, RowsFinite
    <3>2. /\ Cardinality(Terms) * MaxFiles[e] <= MaxRows[e]
          /\ Cardinality(Terms) * Cardinality(manifest[e]) \in Nat
          /\ Cardinality(Terms) * MaxFiles[e] \in Nat
      BY <2>3, <2>4
    <3> QED BY <2>4, <2>5, <3>1, <3>2
  <2>7. access' = [access EXCEPT ![e] = base[e]]
    BY <2>4, <2>6 DEF RecordAccess
  <2> QED BY <2>2, <2>7, NoRunAssumption DEF TypeOK
<1> QED
  BY <1>1, Invariance, PTL DEF Spec, EverySearchAudited

-----------------------------------------------------------------------------
(* Refinement *)

AnswerBar == [e \in Execs |-> IF pc[e] = "done" THEN rows[e] ELSE NoAnswer]

\* A step that leaves the manifests alone and ends no execution is invisible.
LEMMA Invisible ==
  ASSUME TypeOK, NEW e \in Execs, UNCHANGED <<gen, live, manifest>>,
         pc[e] # "done", pc'[e] # "done", \A k \in Execs \ {e} : Same(k)
  PROVE  UNCHANGED Promise!vars
<1>1. AnswerBar' = AnswerBar
  BY DEF AnswerBar, Same
<1> QED BY <1>1 DEF Promise!vars, AnswerBar

LEMMA FailRefines ==
  ASSUME TypeOK, NEW e \in Execs, Fail(e), UNCHANGED <<gen, live>>, pc[e] # "done",
         \A k \in Execs \ {e} : Same(k)
  PROVE  Promise!GiveUp(e)
<1>1. AnswerBar' = AnswerBar /\ AnswerBar[e] = NoAnswer
  BY DEF AnswerBar, Same, Fail, Goto, TypeOK
<1>2. manifest' = [manifest EXCEPT ![e] = {}]
  BY DEF Fail
<1> QED BY <1>1, <1>2 DEF Promise!GiveUp, AnswerBar

LEMMA StepRefines ==
  ASSUME TypeOK, CacheInv, NEW e \in Execs, Step(e)
  PROVE  [Promise!Next]_(Promise!vars)
<1> USE DEF locals, At, Goto
<1>1. \A k \in Execs \ {e} : Same(k)
  BY OthersSame
<1>2. UNCHANGED <<gen, live>> /\ pc[e] # "done"
  BY DEF Step, ListObject, ListEnd, Latest, LoadManifest, LoadResults, SearchObject,
         InsertPending, WriteManifest, WriteResults, MarkComplete, PersistError, MarkFailed,
         RecordAccess, Stop
<1>3. CASE Fail(e)
  BY <1>1, <1>2, <1>3, FailRefines DEF Promise!Next
<1>4. CASE UNCHANGED manifest /\ pc'[e] # "done"
  BY <1>1, <1>2, <1>4, Invisible
<1>5. CASE ListObject(e) /\ ~Fail(e) /\ ~UNCHANGED manifest
  <2>1. PICK entry \in listing[e] :
          /\ entry[2] \in live /\ entry[2] \notin Keys(manifest[e])
          /\ manifest' = [manifest EXCEPT ![e] = @ \cup {<<entry[2], gen[entry[2]]>>}]
    BY <1>5 DEF ListObject, TypeOK
  <2> DEFINE v == <<entry[2], gen[entry[2]]>>
  <2>2. v \in Versions /\ v[1] = entry[2] /\ v[2] = gen[entry[2]]
    BY <2>1 DEF TypeOK, Versions
  <2>3. AnswerBar' = AnswerBar /\ AnswerBar[e] = NoAnswer
    BY <1>1, <1>2, <1>5 DEF AnswerBar, Same, ListObject
  <2>4. Promise!Look(e, v)
    BY <1>2, <2>1, <2>2, <2>3 DEF Promise!Look, Promise!Current, Promise!Keys, Keys, AnswerBar
  <2> QED BY <2>2, <2>4 DEF Promise!Next, Promise!Versions, Versions
<1>6. CASE RecordAccess(e) /\ ~Fail(e)
  <2>1. rows[e] = RowsOf(manifest[e])
    BY <1>6 DEF RecordAccess, CacheInv, ExecInv, LocalsInv
  <2>2. AnswerBar' = [AnswerBar EXCEPT ![e] = RowsOf(manifest[e])] /\ AnswerBar[e] = NoAnswer
    BY <1>1, <1>2, <1>6, <2>1 DEF AnswerBar, Same, RecordAccess, TypeOK
  <2>3. Promise!Answer(e)
    BY <1>2, <1>6, <2>2
       DEF RecordAccess, Promise!Answer, Promise!RowsOf, RowsOf, AnswerBar
  <2> QED BY <2>3 DEF Promise!Next
<1> QED
  BY <1>3, <1>4, <1>5, <1>6
     DEF Step, ListObject, ListEnd, Latest, LoadManifest, LoadResults, SearchObject,
         InsertPending, WriteManifest, WriteResults, MarkComplete, PersistError, MarkFailed,
         RecordAccess, Stop, TypeOK

\* An execution answers with what a search of the listed versions finds, each of
\* them current when it was listed, whatever the cache held.
THEOREM Refinement == Spec => KeepsPromise
<1>1. Init => Promise!Init
  BY DEF Init, Promise!Init, SourcesInit, Promise!SourcesInit
<1>2. TypeOK /\ CacheInv /\ [Next]_vars => [Promise!Next]_(Promise!vars)
  <2> SUFFICES ASSUME TypeOK, CacheInv, [Next]_vars
               PROVE  [Promise!Next]_(Promise!vars)
    OBVIOUS
  <2>1. CASE \E e \in Execs : Step(e)
    BY <2>1, StepRefines
  <2>2. ASSUME NEW o \in Objects, Change(o)
        PROVE  Promise!Next
    BY <2>2 DEF Change, locals, Promise!Next, Promise!Change, PutObject, DeleteObject,
                   Promise!PutObject, Promise!DeleteObject
  <2>3. CASE UNCHANGED vars
    BY <2>3 DEF vars, locals, Promise!vars
  <2> QED BY <2>1, <2>2, <2>3 DEF Next
<1> QED BY <1>1, <1>2, Invariance, PTL DEF Spec, KeepsPromise, Promise!Spec
=============================================================================

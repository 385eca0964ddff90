----------------------------- MODULE CopyMatches ----------------------------
(***************************************************************************)
(* ProductionExecutor._copy_matches and copy_sources: each matched object, *)
(* in the version that was searched, is copied below a prefix of the job.  *)
(* The calls of a job run in a pool, those of several jobs on different    *)
(* instances, in any order; the names of objects are sequences of          *)
(* segments, split at "/".                                                 *)
(*                                                                         *)
(* Cloud Storage and the client library's retry are external: copy_blob is *)
(* tried again without a word if its answer is lost and if_generation_match*)
(* makes that safe.                                                        *)
(***************************************************************************)
EXTENDS Integers, Sequences

CONSTANTS
  Segments,   \* what stands between slashes: bucket names, job ids, "jobs", ""
  Jobs,       \* ids of the jobs that copy
  Prefix,     \* Prefix[j]: copy_request.prefix
  Overwrite,  \* Overwrite[j]: copy_request.overwrite
  Matched,    \* Matched[j]: the searched versions of the matched objects
  Earlier,    \* names that exist in the target bucket beforehand
  Foreign,    \* an object that no job has put there
  NoObject

Sources == UNION {Matched[j] : j \in Jobs}

ASSUME SegmentsAssumption == Jobs \cup {"jobs", ""} \subseteq Segments
ASSUME MatchedAssumption ==
  \A j \in Jobs : \A s \in Matched[j] :
    /\ s = [bucket |-> s.bucket, name |-> s.name]
    /\ s.bucket \in Segments /\ s.name \in Seq(Segments) /\ s.name # <<>>
ASSUME OverwriteAssumption == Overwrite \in [Jobs -> BOOLEAN]
ASSUME NoObjectAssumption == NoObject # Foreign /\ {NoObject, Foreign} \cap (Jobs \X Sources) = {}

\* Job ids are random (uuid4): none is "jobs", and no prefix that an owner asks for
\* contains one, which would place its copies inside those of another job.
ASSUME JobIdAssumption == "jobs" \notin Jobs /\ Prefix \in [Jobs -> Seq(Segments \ Jobs)]

VARIABLES
  live,     \* live[s]: whether the searched version of s is still the live one
  target,   \* target[p]: what the target bucket holds under the name p: which copy
  status,   \* status[j][s]: where copy_one(s) of job j is, then its report row
  phase     \* phase[j]: where copy_sources is

vars == <<live, target, status, phase>>

-----------------------------------------------------------------------------
(* Names *)

\* Wrong: jobs with the same prefix share it.
RootOfPrefix(j) == Prefix[j]

\* «prefix»/jobs/«job id»
Root(j) == Prefix[j] \o <<"jobs", j>>

\* posixpath.join: a part that begins with "/" discards those before it.
Absolute(name) == Head(name) = ""

Destination(j, s) ==
  IF Absolute(s.name) THEN s.name ELSE Root(j) \o (<<s.bucket>> \o s.name)

Names == Earlier \cup UNION {{Destination(j, s) : s \in Matched[j]} : j \in Jobs}

Init ==
  /\ live = [s \in Sources |-> "searched"]
  /\ target = [p \in Names |-> IF p \in Earlier THEN Foreign ELSE NoObject]
  /\ status = [j \in Jobs |-> [s \in Matched[j] |-> "waiting"]]
  /\ phase = [j \in Jobs |-> "copying"]

-----------------------------------------------------------------------------
(* copy_one *)

Calling(j, s) == phase[j] = "copying" /\ status[j][s] \in {"waiting", "retrying"}

Set(j, s, value) == status' = [status EXCEPT ![j][s] = value]

\* Wrong: whatever is live now is copied.
CopyLatest(j, s) ==
  /\ Calling(j, s)
  /\ Overwrite[j] \/ target[Destination(j, s)] = NoObject
  /\ target' = [target EXCEPT ![Destination(j, s)] = IF live[s] = "searched" THEN <<j, s>> ELSE Foreign]
  /\ Set(j, s, "copied")
  /\ UNCHANGED <<live, phase>>

\* Wrong: if_generation_match is left out.
CopyOver(j, s) ==
  /\ Calling(j, s) /\ live[s] = "searched"
  /\ target' = [target EXCEPT ![Destination(j, s)] = <<j, s>>]
  /\ Set(j, s, "copied")
  /\ UNCHANGED <<live, phase>>

\* The copy is made.  Its answer may be lost: the call is tried again if it is
\* conditional and there is time left, and raises otherwise.
Copy(j, s) ==
  /\ Calling(j, s) /\ live[s] = "searched"
  /\ Overwrite[j] \/ target[Destination(j, s)] = NoObject
  /\ target' = [target EXCEPT ![Destination(j, s)] = <<j, s>>]
  /\ \/ Set(j, s, "copied")
     \/ Set(j, s, "failed")
     \/ ~Overwrite[j] /\ Set(j, s, "retrying")
  /\ UNCHANGED <<live, phase>>

\* PreconditionFailed, from either condition of the call: the name is taken
\* (if_generation_match), or another version of the source is live
\* (if_source_generation_match).
Skip(j, s) ==
  /\ Calling(j, s)
  /\ \/ ~Overwrite[j] /\ target[Destination(j, s)] # NoObject
     \/ live[s] = "replaced"
  /\ Set(j, s, "skipped_existing")
  /\ UNCHANGED <<live, target, phase>>

\* Any other exception; NotFound, for a source that is deleted, is one of them.
CopyError(j, s) ==
  /\ Calling(j, s)
  /\ Set(j, s, "failed")
  /\ UNCHANGED <<live, target, phase>>

\* The thread's client cannot be made, before the try block.
NoClient(j, s) ==
  /\ Calling(j, s) /\ status[j][s] = "waiting"
  /\ Set(j, s, "raised")
  /\ UNCHANGED <<live, target, phase>>

-----------------------------------------------------------------------------
(* copy_sources *)

Raised(j) == \E s \in Matched[j] : status[j][s] = "raised"

\* Wrong: a missing row goes unnoticed.
FinishAnyway(j) ==
  /\ phase[j] = "copying"
  /\ \A s \in Matched[j] : ~Calling(j, s)
  /\ phase' = [phase EXCEPT ![j] = "reported"]
  /\ UNCHANGED <<live, target, status>>

\* An exception of a thread is raised in the place of its row; calls that have not
\* begun are cancelled then.  The pool is joined in any case.
Finish(j) ==
  /\ phase[j] = "copying"
  /\ \A s \in Matched[j] : Calling(j, s) => Raised(j) /\ status[j][s] = "waiting"
  /\ phase' = [phase EXCEPT ![j] = IF Raised(j) THEN "raised" ELSE "reported"]
  /\ UNCHANGED <<live, target, status>>

\* The instance dies.
Die(j) ==
  /\ phase[j] = "copying"
  /\ phase' = [phase EXCEPT ![j] = "dead"]
  /\ UNCHANGED <<live, target, status>>

\* Somebody puts another version in the place of a source, or deletes it.
Change(s) ==
  /\ \E now \in {"replaced", "deleted"} : live[s] # now /\ live' = [live EXCEPT ![s] = now]
  /\ UNCHANGED <<target, status, phase>>

CopyOne(j, s) == Copy(j, s) \/ Skip(j, s) \/ CopyError(j, s) \/ NoClient(j, s)

Next ==
  \/ \E j \in Jobs : Finish(j) \/ Die(j) \/ \E s \in Matched[j] : CopyOne(j, s)
  \/ \E s \in Sources : Change(s)

Spec == Init /\ [][Next]_vars

-----------------------------------------------------------------------------
(* Properties *)

Status == {"waiting", "retrying", "copied", "skipped_existing", "failed", "raised"}

\* Every variable has its type.
TypeOK ==
  /\ live \in [Sources -> {"searched", "replaced", "deleted"}]
  /\ target \in [Names -> (Jobs \X Sources) \cup {Foreign, NoObject}]
  /\ status \in [Jobs -> UNION {[Matched[j] -> Status] : j \in Jobs}]
  /\ \A j \in Jobs : status[j] \in [Matched[j] -> Status]
  /\ phase \in [Jobs -> {"copying", "reported", "raised", "dead"}]

\* No object has a name that begins with a slash.
RelativeNames == \A s \in Sources : ~Absolute(s.name)

Below(p, root) == Len(p) > Len(root) /\ SubSeq(p, 1, Len(root)) = root

\* What the report calls copied is at its destination, in the version that was
\* searched, although sources are replaced and other jobs copy in the meantime.
CopiedIsThere ==
  \A j \in Jobs : \A s \in Matched[j] :
    status[j][s] = "copied" => target[Destination(j, s)] = <<j, s>>

\* What a skipped copy would have replaced is the copy itself, made by a try whose
\* answer was lost, or was there before: never a copy of another job or another
\* source.  And where nothing stood in the way, which overwrite makes of everything,
\* the searched version was no longer there to be copied.
SkippedForCause ==
  \A j \in Jobs : \A s \in Matched[j] :
    LET p == Destination(j, s)
    IN status[j][s] = "skipped_existing" =>
         /\ \/ target[p] \in {NoObject, <<j, s>>}
            \/ p \in Earlier /\ target[p] = Foreign
         /\ Overwrite[j] \/ target[p] = NoObject => live[s] # "searched"

\* Only a job with overwrite replaces an object, and only below its own prefix.
ReplacesOwnOnly ==
  [][\A p \in Names :
       target[p] # NoObject /\ target'[p] # target[p] =>
         \E j \in Jobs : Overwrite[j] /\ Below(p, Root(j))]_vars

\* A job that reports its copies has a row with an outcome for each match.
ReportIsWhole ==
  \A j \in Jobs : phase[j] = "reported" =>
    \A s \in Matched[j] : status[j][s] \in {"copied", "skipped_existing", "failed"}

\* DOCUMENTATION.md: "Files land under «prefix»/jobs/«job-id»/ so runs never
\* collide."
FilesLandBelowJob ==
  \A j \in Jobs : \A s \in Matched[j] :
    status[j][s] = "copied" => Below(Destination(j, s), Root(j))

-----------------------------------------------------------------------------
(* The inductive invariant behind the safety properties *)

\* A destination holds nothing, its own copy, or what was there before.
OwnOrEarlier ==
  \A j \in Jobs : \A s \in Matched[j] :
    LET p == Destination(j, s)
    IN target[p] # NoObject => target[p] = <<j, s>> \/ (p \in Earlier /\ target[p] = Foreign)

\* What a skipped copy was conditional on has failed for good: the name is taken, or
\* the searched version is gone.
SkippedOnCondition ==
  \A j \in Jobs : \A s \in Matched[j] :
    status[j][s] = "skipped_existing" =>
      (~Overwrite[j] /\ target[Destination(j, s)] # NoObject) \/ live[s] # "searched"

CopyInv == OwnOrEarlier /\ CopiedIsThere /\ SkippedOnCondition
=============================================================================

---------------------------- MODULE RequestPolicy ----------------------------
(***************************************************************************)
(* policy.py: which requests a scope's policy admits, and what an admitted *)
(* job then lists and where it copies to.  The API and the worker apply    *)
(* the same test, each with the settings it has read (see Worker).         *)
(***************************************************************************)
EXTENDS Names

CONSTANTS
  Policies,      \* the scopes: [buckets: a sequence of roots, targets: a set of roots]
  Requests,      \* what may be asked for: [rows: a sequence, copy: a set of one or none]
  Objects,       \* the objects that exist, of every bucket: [bucket, name]
  TermLists,     \* the terms that may be asked for, as sequences
  MaxPaths,      \* max_bucket_paths
  MaxTerms,      \* max_terms
  MaxTermLength  \* max_term_length

ASSUME TermListsAssumption == TermLists \subseteq Seq(Seq(Chars))

Place == [bucket : Chars, prefix : Seq(Chars)]

ASSUME PlacesAssumption ==
  /\ Policies \subseteq [buckets : Seq(Place), targets : SUBSET Place]
  /\ Requests \subseteq [rows : Seq(Place), copy : SUBSET Place]
  /\ Objects \subseteq [bucket : Chars, name : Seq(Chars)]

VARIABLES
  policy,    \* the scope of the job
  request,   \* the job's request, rows resolved and paths normalised
  listed     \* the objects the job lists

policyVars == <<policy, request, listed>>

NoPolicy == [buckets |-> <<>>, targets |-> {}]

NoRequest == [rows |-> <<>>, copy |-> {}]

PolicyInit == policy = NoPolicy /\ request = NoRequest /\ listed = {}

-----------------------------------------------------------------------------
\* normalise_prefix of BucketPath and CopyRequest
Normal(row) == [bucket |-> row.bucket, prefix |-> Strip(row.prefix)]

\* Without rows a job searches every root of its scope.
Resolved(r, p) ==
  LET rows == IF r.rows = <<>> THEN p.buckets ELSE r.rows
  IN [rows |-> [i \in DOMAIN rows |-> Normal(rows[i])], copy |-> {Normal(c) : c \in r.copy}]

SameBucket(row, root) == Lower[row.bucket] = Lower[root.bucket]

\* Wrong: a string prefix that does not end with a segment.
WithinByText(row, root) ==
  SameBucket(row, root) /\ IsPrefix(Fold(Strip(root.prefix)), Fold(Strip(row.prefix)))

\* _path_is_within_allowed_root, and the test of resolve_copy_target
Within(row, root) ==
  SameBucket(row, root) /\ Under(Fold(Strip(row.prefix)), Fold(Strip(root.prefix)))

Identity(row) == <<Lower[row.bucket], Fold(row.prefix)>>

ValidRows(rows, p) ==
  /\ Len(rows) <= MaxPaths
  /\ IsInjective([i \in DOMAIN rows |-> Identity(rows[i])])
  /\ \A i \in DOMAIN rows : \E k \in DOMAIN p.buckets : Within(rows[i], p.buckets[k])

ValidCopy(copy, p) == \A c \in copy : \E target \in p.targets : Within(c, target)

\* The terms differ by more than case.  (Which expressions are safe, and which
\* recipients are allowed, is left out.)
ValidTerms(terms) ==
  /\ Len(terms) \in 1 .. MaxTerms
  /\ IsInjective([i \in DOMAIN terms |-> Fold(terms[i])])
  /\ \A i \in DOMAIN terms : Len(terms[i]) \in 1 .. MaxTermLength

-----------------------------------------------------------------------------
\* validate_request admits the request under its scope.
Admit ==
  \E p \in Policies, r \in Requests :
    /\ ValidRows(Resolved(r, p).rows, p)
    /\ ValidCopy(Resolved(r, p).copy, p)
    /\ policy' = p
    /\ request' = Resolved(r, p)
    /\ UNCHANGED listed

\* list_blobs takes a row's path as a plain string prefix, case as it is.
ListSources ==
  /\ listed' = {o \in Objects :
                  \E i \in DOMAIN request.rows :
                    /\ o.bucket = request.rows[i].bucket
                    /\ IsPrefix(request.rows[i].prefix, o.name)}
  /\ UNCHANGED <<policy, request>>

-----------------------------------------------------------------------------
\* The folder of a job below the root it copies to; JobFolder stands for jobs/<id>.
JobFolder == <<"j">>

ASSUME JobFolderAssumption == JobFolder \in Seq(Chars)

CopyRoot(copy) == Strip(Strip(copy.prefix) \o <<"/">> \o JobFolder)

\* The rows of an admitted job are whole-segment extensions of an approved root,
\* and so is the folder it copies to, the job's own folder included.
WithinPolicy ==
  /\ \A i \in DOMAIN request.rows : \E k \in DOMAIN policy.buckets :
       /\ SameBucket(request.rows[i], policy.buckets[k])
       /\ Under(Fold(request.rows[i].prefix), Fold(Strip(policy.buckets[k].prefix)))
  /\ \A c \in request.copy : \E target \in policy.targets :
       SameBucket(c, target) /\ Under(Fold(CopyRoot(c)), Fold(Strip(target.prefix)))

\* DOCUMENTATION.md:385: users "can never search a different bucket or a
\* shallower/altered path"; policy.py:22: they cannot "escape that root".  So what a
\* job lists lies below an approved root, segment by segment and up to case.
ListedWithinPolicy ==
  \A o \in listed : \E k \in DOMAIN policy.buckets :
    SameBucket(o, policy.buckets[k]) /\ Under(Fold(o.name), Fold(Strip(policy.buckets[k].prefix)))

\* What is known of an admitted request: its rows and its copy are normal and have
\* passed the test against the roots of its scope, and what it lists has the text of
\* one of its rows.
PolicyInv ==
  /\ policy \in Policies \cup {NoPolicy}
  /\ \A i \in DOMAIN request.rows :
       LET row == request.rows[i] IN
       /\ row \in Place /\ row.prefix = Strip(row.prefix)
       /\ \E k \in DOMAIN policy.buckets : Within(row, policy.buckets[k])
  /\ \A c \in request.copy :
       /\ c \in Place /\ c.prefix = Strip(c.prefix)
       /\ \E target \in policy.targets : Within(c, target)
  /\ \A o \in listed :
       /\ o \in Objects
       /\ \E i \in DOMAIN request.rows :
            o.bucket = request.rows[i].bucket /\ IsPrefix(request.rows[i].prefix, o.name)
=============================================================================

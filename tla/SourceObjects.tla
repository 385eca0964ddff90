--------------------------- MODULE SourceObjects ----------------------------
(***************************************************************************)
(* The Cloud Storage objects a search reads, as search_engine.py uses      *)
(* them: their owners put and delete them at any time, every put makes a   *)
(* new generation, and a version <<object, generation>> never changes.     *)
(*                                                                         *)
(* Only the objects that the name filters of list_manifest and             *)
(* list_filename_manifest keep are Objects: the filters look at names      *)
(* alone.                                                                  *)
(***************************************************************************)
EXTENDS Naturals, FiniteSets

CONSTANTS
  Objects,   \* object names below the searched roots
  MaxGen,    \* bound: how often an object is put
  Terms,     \* the search terms of the one query
  Hits       \* Hits[v]: the terms that search_text finds in version v

ASSUME MaxGenAssumption == MaxGen \in Nat \ {0}
ASSUME TermsAssumption == IsFiniteSet(Terms)

Versions == Objects \X (1 .. MaxGen)

ASSUME HitsAssumption == Hits \in [Versions -> SUBSET Terms]

VARIABLES
  gen,   \* gen[o]: the newest generation of o, 0 before the first
  live   \* the objects that exist now

SourcesInit ==
  /\ gen \in [Objects -> 0 .. 1]
  /\ live = {o \in Objects : gen[o] = 1}

PutObject(o) ==
  /\ gen[o] < MaxGen
  /\ gen' = [gen EXCEPT ![o] = @ + 1]
  /\ live' = live \cup {o}

DeleteObject(o) ==
  /\ o \in live
  /\ live' = live \ {o}
  /\ UNCHANGED gen

Current(v) == v[1] \in live /\ gen[v[1]] = v[2]

Keys(manifest) == {v[1] : v \in manifest}

\* The rows a search of the versions in manifest finds: one per version and
\* term that occurs in it.
RowsOf(manifest) == {r \in Terms \X manifest : r[1] \in Hits[r[2]]}
=============================================================================

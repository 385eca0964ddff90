------------------------------ MODULE DagLookup ------------------------------
(***************************************************************************)
(* enrichment.py: the lookup of a script's DAG in the rows of the scope's  *)
(* DAG table.  A row names its script by any of several kinds of path.     *)
(***************************************************************************)
EXTENDS Names

CONSTANTS
  Rows,     \* the rows a table may have: [scheme: "gs" or "none", path, dag]
  Scripts,  \* the paths of the scripts that matched
  Code,     \* Code[c]: the place of character c in the order of strings
  MaxRows,  \* bound: the rows of the table
  NoDag     \* DagMetadata()

ASSUME CodeAssumption == Code \in [Chars -> Nat] /\ IsInjective(Code)

ASSUME PathsAssumption == (\A row \in Rows : row.path \in Seq(Chars)) /\ Scripts \subseteq Seq(Chars)

VARIABLES
  table,      \* the rows read so far
  lookup,     \* the function from paths to metadata
  ambiguous,  \* the paths with different metadata
  answer      \* the script that was looked up, and what was found for it

dagVars == <<table, lookup, ambiguous, answer>>

NoAnswer == [script |-> <<>>, dag |-> NoDag]

DagInit == table = <<>> /\ lookup = <<>> /\ ambiguous = {} /\ answer = NoAnswer

-----------------------------------------------------------------------------
\* What follows the bucket of a gs:// path.
Unbucket(path) ==
  IF Contains(path, "/") THEN SubSeq(path, SelectInSeq(path, LAMBDA c : c = "/") + 1, Len(path))
  ELSE <<>>

\* normalise_gcs_path
Normalise(scheme, path) ==
  Fold(Strip(IF scheme = "gs" THEN Unbucket(path) ELSE path))

Key(row) == Normalise(row.scheme, row.path)

\* Wrong: the last of several rows counts.
ConflictsNever(key, row) == FALSE

Conflicts(key, row) == key \in DOMAIN lookup /\ lookup[key] # row.dag

BuildRow ==
  /\ Len(table) < MaxRows
  /\ \E row \in Rows :
       /\ table' = Append(table, row)
       /\ IF Key(row) = <<>> THEN UNCHANGED <<lookup, ambiguous>>
          ELSE IF Conflicts(Key(row), row)
          THEN ambiguous' = ambiguous \cup {Key(row)} /\ UNCHANGED lookup
          ELSE /\ lookup' = [k \in DOMAIN lookup \cup {Key(row)} |->
                               IF k = Key(row) THEN row.dag ELSE lookup[k]]
               /\ UNCHANGED ambiguous
  /\ UNCHANGED answer

FinishBuild ==
  /\ lookup' = [k \in DOMAIN lookup \ ambiguous |-> lookup[k]]
  /\ UNCHANGED <<table, ambiguous, answer>>

-----------------------------------------------------------------------------
\* s sorts before t.
Before(s, t) ==
  \/ IsStrictPrefix(s, t)
  \/ \E i \in DOMAIN s \cap DOMAIN t :
       Code[s[i]] < Code[t[i]] /\ \A k \in 1 .. i - 1 : s[k] = t[k]

\* The paths of the lookup, read backwards and sorted.
ReversedPaths ==
  LET paths == {Reverse(k) : k \in DOMAIN lookup}
  IN CHOOSE s \in [1 .. Cardinality(paths) -> paths] :
       \A i, j \in DOMAIN s : i < j => Before(s[i], s[j])

\* The paths of the lookup that end the key after one of its slashes.
Endings(key) ==
  {SubSeq(key, i + 1, Len(key)) : i \in {j \in DOMAIN key : key[j] = "/"}} \cap DOMAIN lookup

\* Wrong: the prefix may end within a segment.
ReversedPrefixOpen(key) == Reverse(key)

ReversedPrefix(key) == Append(Reverse(key), "/")

\* The first two reversed paths at the place that bisect_left finds for the
\* prefix, as far as they begin with it.
Extensions(key) ==
  LET paths == ReversedPaths
      prefix == ReversedPrefix(key)
      index == 1 + Cardinality({i \in DOMAIN paths : Before(paths[i], prefix)})
      at(i) == IF i \in DOMAIN paths /\ IsPrefix(prefix, paths[i]) THEN {Reverse(paths[i])} ELSE {}
  IN IF at(index) = {} THEN {} ELSE at(index) \cup at(index + 1)

Matches(key) == Endings(key) \cup Extensions(key)

\* find_dag_metadata, with unique_suffix_match if there is no direct entry.
Find(key) ==
  IF key \in DOMAIN lookup THEN lookup[key]
  ELSE IF Cardinality(Matches(key)) = 1 THEN lookup[CHOOSE k \in Matches(key) : TRUE] ELSE NoDag

Lookup ==
  /\ \E script \in Scripts :
       answer' = [script |-> script, dag |-> Find(Normalise("none", script))]
  /\ UNCHANGED <<table, lookup, ambiguous>>

-----------------------------------------------------------------------------
\* The rows that name a path, whether all of them agree.
RowsOf(key) == {i \in DOMAIN table : Key(table[i]) = key}

Agreed(key) == \A i, j \in RowsOf(key) : table[i].dag = table[j].dag

\* build_dag_lookup: once built, the lookup has a path if and only if rows name
\* it and all of them agree, whatever their order and the kind of their paths,
\* and it gives what they say.
BuildExact ==
  /\ DOMAIN lookup = {k \in {Key(table[i]) : i \in DOMAIN table} \ {<<>>} : Agreed(k)}
  /\ \A i \in DOMAIN table : Key(table[i]) \in DOMAIN lookup => lookup[Key(table[i])] = table[i].dag

\* One path ends the other, and begins there after a slash.
Aligned(a, b) == IsSuffix(<<"/">> \o a, b) \/ IsSuffix(<<"/">> \o b, a)

\* unique_suffix_match: the DAG of a script is the one of its own path, or else
\* of the one path of the lookup that ends with it, or that it ends with, at a
\* segment; if there are several such paths, or none, the report shows no DAG.
LookupExact ==
  answer # NoAnswer =>
    LET key == Normalise("none", answer.script)
        aligned == {k \in DOMAIN lookup : Aligned(k, key)}
    IN answer.dag = IF key \in DOMAIN lookup THEN lookup[key]
                    ELSE IF \E k \in aligned : aligned = {k}
                         THEN lookup[CHOOSE k \in aligned : TRUE] ELSE NoDag

\* While the table is read: the lookup has what the first row of each path says,
\* and the ambiguous paths are those of which a later row says something else.
LookupFits ==
  /\ table \in Seq(Rows)
  /\ DOMAIN lookup = {Key(table[i]) : i \in DOMAIN table} \ {<<>>}
  /\ \A k \in DOMAIN lookup : \E i \in RowsOf(k) : lookup[k] = table[i].dag
  /\ ambiguous = {k \in DOMAIN lookup : \E i \in RowsOf(k) : table[i].dag # lookup[k]}

\* The paths of the lookup are finitely many words.
LookupWords == IsFiniteSet(DOMAIN lookup) /\ DOMAIN lookup \subseteq Seq(Chars)
=============================================================================

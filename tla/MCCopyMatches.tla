--------------------------- MODULE MCCopyMatches ----------------------------
(***************************************************************************)
(* CopyMatches for TLC: two jobs with the same prefix, one of which may    *)
(* overwrite, that share a source; objects of the same name in two         *)
(* buckets; and an object whose name begins with a slash.                  *)
(***************************************************************************)
EXTENDS CopyMatches

MCSegments == {"out", "jobs", "", "j1", "j2", "b1", "b2", "a"}

MCPrefix == [j \in Jobs |-> <<"out">>]

MCOverwrite == [j \in Jobs |-> j = "j2"]

Object(bucket, name) == [bucket |-> bucket, name |-> name]

Shared == Object("b1", <<"a">>)

MCMatched ==
  [j \in Jobs |-> {Shared, IF j = "j1" THEN Object("b2", <<"", "a">>) ELSE Object("b2", <<"a">>)}]

\* One destination of each job is taken.
MCEarlier == {<<"out", "jobs", "j1", "b1", "a">>, <<"out", "jobs", "j2", "b1", "a">>}
=============================================================================

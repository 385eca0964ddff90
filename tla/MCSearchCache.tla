---------------------------- MODULE MCSearchCache ---------------------------
(***************************************************************************)
(* SearchCache for TLC: two rows that both cover object "b", and versions  *)
(* that gain the term with a generation, searched by executions with       *)
(* different limits.                                                       *)
(***************************************************************************)
EXTENDS SearchCache

MCObjects == {"a", "b"}

MCBelow == [r \in {"r1", "r2"} |-> IF r = "r1" THEN {"a", "b"} ELSE {"b"}]

\* "a" has both terms from the start, "b" one from its second generation on.
MCHits == [v \in MCObjects \X (1 .. MaxGen) |->
             IF v[1] = "a" THEN {"t", "u"} ELSE IF v[2] > 1 THEN {"t"} ELSE {}]

\* One instance has lower limits than the other: a snapshot of "a" alone is
\* within the limits of "high" and beyond the row limit of "low", and one of both
\* objects may exceed either's.
Limits == [e \in Execs |-> IF e = "low" THEN 1 ELSE 2]
=============================================================================

-------------------------------- MODULE Names --------------------------------
(***************************************************************************)
(* Paths and titles as sequences of characters, with the few string        *)
(* methods that policy.py, enrichment.py and reporting.py compare them by. *)
(***************************************************************************)
EXTENDS SequencesExt

CONSTANTS
  Chars,   \* the characters, among them "/"
  Lower    \* Lower[c]: the lower-case form of character c

ASSUME LowerAssumption == Lower \in [Chars -> Chars]

ASSUME SlashAssumption == "/" \in Chars /\ Lower["/"] = "/"

\* str.lower
Fold(name) == [i \in DOMAIN name |-> Lower[name[i]]]

\* str.strip("/")
Strip(name) ==
  LET kept == {i \in DOMAIN name : name[i] # "/"}
  IN IF kept = {} THEN <<>> ELSE SubSeq(name, Min(kept), Max(kept))

\* path is root itself or lies below it, segment by segment.
Under(path, root) ==
  root = <<>> \/ path = root \/ IsPrefix(Append(root, "/"), path)
=============================================================================

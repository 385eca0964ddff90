--------------------------- MODULE ManifestSearch ---------------------------
(***************************************************************************)
(* What a search of a manifest promises its caller, however many threads   *)
(* read the entries: they are read one at a time in some order, each at    *)
(* most once, until all are read or the first one that cannot be read, or  *)
(* that exceeds the row limit, ends the search with an exception.          *)
(***************************************************************************)
EXTENDS Integers

CONSTANTS
  Files,    \* number of entries to search
  Terms,    \* an entry gives at most so many rows
  MaxRows   \* max_result_rows

Entries == 1 .. Files

VARIABLES
  read,     \* the entries whose rows are counted
  rows,     \* their rows, at most one too many
  error,    \* what went wrong
  outcome   \* how search has ended

vars == <<read, rows, error, outcome>>

Init ==
  /\ read = {}
  /\ rows = 0
  /\ error = "none"
  /\ outcome = "searching"

Read(e) ==
  /\ error = "none" /\ e \notin read
  /\ read' = read \cup {e}
  /\ \E matches \in 0 .. Terms :
       \/ /\ rows + matches <= MaxRows
          /\ rows' = rows + matches
          /\ UNCHANGED error
       \/ /\ rows + matches > MaxRows
          /\ rows' = MaxRows + 1
          /\ error' = "limit"
  /\ UNCHANGED outcome

Unreadable(e) ==
  /\ error = "none" /\ e \notin read
  /\ error' = "unreadable"
  /\ UNCHANGED <<read, rows, outcome>>

End ==
  /\ outcome = "searching"
  /\ \/ error = "none" /\ read = Entries /\ outcome' = "returned"
     \/ error # "none" /\ outcome' = "raised"
  /\ UNCHANGED <<read, rows, error>>

Next == End \/ \E e \in Entries : Read(e) \/ Unreadable(e)

Spec == Init /\ [][Next]_vars
=============================================================================

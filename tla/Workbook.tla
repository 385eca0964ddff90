------------------------------ MODULE Workbook ------------------------------
(***************************************************************************)
(* reporting.py: the sheets of a job's workbook, in the order in which     *)
(* write_report and write_filename_report write them.  Titles must differ  *)
(* by more than case; to_excel with a title that is there already writes   *)
(* onto that sheet.                                                        *)
(***************************************************************************)
EXTENDS Names

CONSTANTS
  Illegal,     \* the characters a title may not have
  NameLimit,   \* the longest title: 31
  MaxCounter,  \* bound: the titles tried for a term
  Title        \* Title[s]: the title of the fixed sheet s

Legal(title) ==
  Len(title) \in 1 .. NameLimit /\ \A i \in DOMAIN title : title[i] \notin Illegal

ASSUME LimitsAssumption ==
  /\ NameLimit \in Nat /\ NameLimit >= 2 /\ MaxCounter \in Nat
  /\ "_" \notin Illegal /\ \A n \in 1 .. MaxCounter : ToString(n) \notin Illegal

\* Numbers that differ are written differently, in lower case too.
ASSUME DigitsAssumption ==
  \A m, n \in 1 .. MaxCounter : Lower[ToString(m)] = Lower[ToString(n)] => m = n

ASSUME TitleAssumption ==
  /\ DOMAIN Title = {"Summary", "All_Matches", "All_Files", "No_Matches", "Job_Inventory",
                     "Copied_Files"}
  /\ \A s \in DOMAIN Title : Legal(Title[s])
  /\ \A s, t \in DOMAIN Title : Fold(Title[s]) = Fold(Title[t]) => s = t

VARIABLES
  plan,   \* the sheets still to be written
  used,   \* the titles that are taken, in lower case
  sheets  \* what has been written under which title

bookVars == <<plan, used, sheets>>

BookInit == plan = <<>> /\ used = {} /\ sheets = {}

-----------------------------------------------------------------------------
FixedSheets(kind) ==
  IF kind = "content"
  THEN {"Summary", "All_Matches", "No_Matches", "Job_Inventory", "Copied_Files"}
  ELSE {"Summary", "All_Files", "No_Matches", "Copied_Files"}

Fixed(sheet) == [sheet |-> sheet, term |-> <<>>]

OfTerm(term) == [sheet |-> "term", term |-> term]

All(kind) == IF kind = "content" THEN "All_Matches" ELSE "All_Files"

\* The sheets of a report on terms; found: whether any term has a row.  extra are
\* the sheets at the end: the inventory, if it is not empty, and the copied files,
\* if the job copies.
Sheets(kind, terms, found, extra) ==
  LET matches == IF found = "some"
                 THEN <<Fixed(All(kind))>> \o [i \in DOMAIN terms |-> OfTerm(terms[i])]
                 ELSE <<Fixed("No_Matches")>>
  IN <<Fixed("Summary")>> \o matches \o [i \in DOMAIN extra |-> Fixed(extra[i])]

\* The sheets that a report may end with.
Extras(kind) ==
  {<<>>, <<"Copied_Files">>}
  \cup IF kind = "content" THEN {<<"Job_Inventory">>, <<"Job_Inventory", "Copied_Files">>} ELSE {}

\* Wrong: the fixed sheets that are written later are forgotten.
BeginUnreserved(kind, terms, found) ==
  /\ \E extra \in Extras(kind) : plan' = Sheets(kind, terms, found, extra)
  /\ used' = {Fold(Title["Summary"]), Fold(Title[All(kind)])}
  /\ UNCHANGED sheets

Begin(kind, terms, found) ==
  /\ \E extra \in Extras(kind) : plan' = Sheets(kind, terms, found, extra)
  /\ used' = {Fold(Title[s]) : s \in FixedSheets(kind)}
  /\ UNCHANGED sheets

-----------------------------------------------------------------------------
Cut(name, length) == SubSeq(name, 1, IF Len(name) < length THEN Len(name) ELSE length)

Legalise(term) == [i \in DOMAIN term |-> IF term[i] \in Illegal THEN "_" ELSE term[i]]

Suffix(counter) == <<"_", ToString(counter)>>

\* Wrong: the suffix is cut off with the rest.
CandidateCut(term, counter) ==
  LET base == Cut(Legalise(term), NameLimit)
  IN IF counter = 1 THEN base ELSE Cut(base \o Suffix(counter), NameLimit)

\* The titles that _sheet_name tries for a term, one after the other.
Candidate(term, counter) ==
  LET base == Cut(Legalise(term), NameLimit)
  IN IF counter = 1 THEN base
     ELSE Cut(base, NameLimit - Len(Suffix(counter))) \o Suffix(counter)

Free(term, counter) == Fold(Candidate(term, counter)) \notin used

WriteFixed ==
  /\ Head(plan).sheet # "term"
  /\ sheets' = sheets \cup {[title |-> Title[Head(plan).sheet], holds |-> Head(plan)]}
  /\ UNCHANGED used

\* The first title that is free.  While none is, the loop goes on.
WriteTerm ==
  /\ Head(plan).sheet = "term"
  /\ \E counter \in 1 .. MaxCounter :
       LET title == Candidate(Head(plan).term, counter) IN
       /\ Free(Head(plan).term, counter)
       /\ \A earlier \in 1 .. counter - 1 : ~Free(Head(plan).term, earlier)
       /\ used' = used \cup {Fold(title)}
       /\ sheets' = sheets \cup {[title |-> title, holds |-> Head(plan)]}

WriteSheet ==
  /\ plan # <<>>
  /\ plan' = Tail(plan)
  /\ WriteFixed \/ WriteTerm

-----------------------------------------------------------------------------
\* Every title is one a workbook can have, and no two sheets of the workbook share
\* one, not even up to case: terms that become the same title, or the title of a
\* fixed sheet, get sheets of their own.
WorkbookWhole ==
  /\ \A s \in sheets : Legal(s.title)
  /\ \A s, t \in sheets : Fold(s.title) = Fold(t.title) => s = t

\* _sheet_name: the loop that tries titles for the next sheet of a term ends, however
\* many of them are taken.
TitleFree ==
  plan # <<>> /\ Head(plan).sheet = "term" =>
    \E counter \in 1 .. MaxCounter : Free(Head(plan).term, counter)

Reserved(kind) == {Fold(Title[s]) : s \in FixedSheets(kind)}

Planned(kind, item) ==
  \/ item.sheet \in FixedSheets(kind) /\ item = Fixed(item.sheet)
  \/ item.term # <<>> /\ item = OfTerm(item.term)

\* A fixed sheet has its title; the title of a term's sheet is taken, is no fixed
\* sheet's, and no other's.
BookInv(kind) ==
  /\ plan \in Seq([sheet : DOMAIN Title \cup {"term"}, term : Seq(Chars)])
  /\ \A i \in DOMAIN plan : Planned(kind, plan[i])
  /\ Reserved(kind) \subseteq used
  /\ \A s \in sheets :
       /\ Legal(s.title) /\ s = [title |-> s.title, holds |-> s.holds]
       /\ \/ /\ s.holds.sheet \in FixedSheets(kind)
             /\ s.holds = Fixed(s.holds.sheet) /\ s.title = Title[s.holds.sheet]
          \/ /\ s.holds.sheet = "term"
             /\ Fold(s.title) \in used \ Reserved(kind)
  /\ \A s, t \in sheets :
       (s.holds.sheet = "term" /\ t.holds.sheet = "term" /\ Fold(s.title) = Fold(t.title)) => s = t

\* No more titles are taken than reserved at first, and one for each sheet written.
UsedFits(limit) == IsFiniteSet(used) /\ Cardinality(used) + Len(plan) <= limit
=============================================================================

----------------------------- MODULE ReportProofs -----------------------------
(***************************************************************************)
(* What a job's report says, for any scopes, files, DAG tables and terms:  *)
(* what search_text reports of a file of any length, and what each stage   *)
(* of the job hands to the next.                                           *)
(***************************************************************************)
EXTENDS Report, LookupProofs, WorkbookProofs

-----------------------------------------------------------------------------
(* The text of a file *)

\* A line more: the sequence that ReadLine makes.
LEMMA Appended ==
  ASSUME NEW t \in Seq(Lines), NEW line \in Lines
  PROVE  /\ Append(t, line) \in Seq(Lines)
         /\ DOMAIN t = 1 .. Len(t) /\ Len(t) \in Nat
         /\ Len(Append(t, line)) = Len(t) + 1
         /\ DOMAIN Append(t, line) = 1 .. Len(t) + 1
         /\ \A i \in 1 .. Len(t) : Append(t, line)[i] = t[i]
         /\ Append(t, line)[Len(t) + 1] = line
  OBVIOUS

\* There is one line that opens the header.
LEMMA OneOpener ==
  ASSUME NEW t \in Seq(Lines), NEW o, NEW p, Opener(t, o), Opener(t, p)
  PROVE  o = p
  <1>1. o \in Nat /\ p \in Nat /\ o >= 1 /\ p >= 1 BY DEF Opener
  <1>2. ~ o < p BY <1>1 DEF Opener
  <1>3. ~ p < o BY <1>1 DEF Opener
  <1> QED BY <1>1, <1>2, <1>3

\* What opens the header, and what is in it, does not depend on later lines.
LEMMA OpenerStays ==
  ASSUME NEW t \in Seq(Lines), NEW line \in Lines, NEW o \in 1 .. Len(t)
  PROVE  Opener(Append(t, line), o) <=> Opener(t, o)
  <1>1. \A i \in 1 .. o : Append(t, line)[i] = t[i] BY Appended
  <1>2. o \in DOMAIN t /\ o \in DOMAIN Append(t, line) BY Appended
  <1> QED BY <1>1, <1>2, Appended DEF Opener

LEMMA UnclosedStays ==
  ASSUME NEW t \in Seq(Lines), NEW line \in Lines,
         NEW o \in 1 .. Len(t), NEW i \in 1 .. Len(t) + 1
  PROVE  Unclosed(Append(t, line), o, i) <=> Unclosed(t, o, i)
  <1>1. \A k \in o + 1 .. i - 1 : k \in 1 .. Len(t) BY Appended
  <1> QED BY <1>1, Appended DEF Unclosed

LEMMA InBlockStays ==
  ASSUME NEW t \in Seq(Lines), NEW line \in Lines, NEW i \in 1 .. Len(t)
  PROVE  InBlock(Append(t, line), i) <=> InBlock(t, i)
  <1>1. \A o \in 1 .. i : o \in 1 .. Len(t) /\ i \in 1 .. Len(t) + 1 BY Appended
  <1>2. \A o \in 1 .. i : Append(t, line)[o] = t[o] BY Appended
  <1> QED BY <1>1, <1>2, OpenerStays, UnclosedStays DEF InBlock

\* The line just read is in the header block if and only if it opens the header
\* or in_header holds.
LEMMA LastInBlock ==
  ASSUME TextInv, NEW line \in Lines
  PROVE  InBlock(Append(text, line), Len(text) + 1) <=> (Opens(line) \/ header = "in")
  <1> DEFINE t == Append(text, line)
             n == Len(text)
  <1>0. text \in Seq(Lines) /\ HeaderFits BY DEF TextInv
  <1>1. /\ n \in Nat /\ DOMAIN text = 1 .. n /\ DOMAIN t = 1 .. n + 1
        /\ t[n + 1] = line /\ \A i \in 1 .. n : t[i] = text[i]
        BY <1>0, Appended
  <1>2. HeaderLimit \in Nat BY LimitAssumption
  <1>3. CASE header = "before"
    <2>1. \A i \in 1 .. n : i <= HeaderLimit => text[i].opens = "none"
          BY <1>0, <1>1, <1>3 DEF HeaderFits
    <2>2. \A o \in 1 .. n : ~ Opener(t, o) BY <1>1, <2>1 DEF Opener
    <2>3. /\ n + 1 \in 1 .. n + 1
          /\ \A o \in 1 .. n + 1 : o \in 1 .. n \/ o = n + 1
          BY <1>1
    <2> HIDE DEF t, n
    <2>4. InBlock(t, n + 1) <=> Opener(t, n + 1) BY <2>2, <2>3, Zenon DEF InBlock
    <2>5. Opener(t, n + 1) <=> Opens(line)
          BY <1>1, <1>2, <1>3, <2>1 DEF Opener, Opens, n
    <2> QED BY <1>3, <2>4, <2>5 DEF t, n
  <1>4. CASE header # "before"
    <2>1. PICK o \in 1 .. n :
            /\ Opener(text, o)
            /\ header = "in" <=> (text[o].ends # "with line" /\ Unclosed(text, o, n + 1))
          BY <1>0, <1>1, <1>4 DEF HeaderFits
    <2>2. Opener(t, o) BY <1>0, <2>1, OpenerStays
    <2>3. t \in Seq(Lines) BY <1>0, Appended
    <2>4. \A p : Opener(t, p) => p = o BY <2>2, <2>3, OneOpener
    <2>5. o \in 1 .. n + 1 /\ o # n + 1 BY <1>1
    <2>6. InBlock(t, n + 1) <=> (t[o].ends # "with line" /\ Unclosed(t, o, n + 1))
      <3> HIDE DEF t, n
      <3> QED BY <2>2, <2>4, <2>5, Zenon DEF InBlock
    <2>7. Unclosed(t, o, n + 1) <=> Unclosed(text, o, n + 1) BY <1>0, <1>1, UnclosedStays
    <2>8. ~ Opens(line) BY <1>4 DEF Opens
    <2> QED BY <1>1, <2>1, <2>6, <2>7, <2>8
  <1> QED BY <1>3, <1>4

\* A line joins the reported ones if it is kept and the term occurs in it.
LEMMA ListsGrow ==
  ASSUME TextInv, NEW line \in Lines, NEW hit
  PROVE  Lists(Append(text, line), hit) = Lists(text, hit) \cup Found(line, hit)
  <1> DEFINE t == Append(text, line)
             n == Len(text)
  <1>0. text \in Seq(Lines) BY DEF TextInv
  <1>1. /\ n \in Nat /\ DOMAIN text = 1 .. n /\ DOMAIN t = 1 .. n + 1
        /\ t[n + 1] = line /\ \A i \in 1 .. n : t[i] = text[i]
        BY <1>0, Appended
  <1>2. \A i \in 1 .. n : i \in Lists(t, hit) <=> i \in Lists(text, hit)
        BY <1>0, <1>1, InBlockStays DEF Lists
  <1>3. n + 1 \in Lists(t, hit) <=> Kept(line) /\ hit \in line.hits
        BY <1>1, LastInBlock DEF Lists, Kept
  <1>4. Lists(t, hit) \subseteq 1 .. n + 1 /\ Lists(text, hit) \subseteq 1 .. n
        BY <1>1 DEF Lists
  <1> QED BY <1>1, <1>2, <1>3, <1>4 DEF Found

\* The header's state after a line fits the lines with that line.
LEMMA HeaderStep ==
  ASSUME TextInv, ReadLine
  PROVE  HeaderFits' /\ header' \in {"before", "in", "done"}
  <1>1. PICK line \in Lines :
          /\ text' = Append(text, line)
          /\ header' = IF Enters(line) THEN "in"
                       ELSE IF Opens(line) \/ Leaves(line) THEN "done" ELSE header
          /\ quote' = IF Enters(line) THEN line.opens ELSE quote
        BY DEF ReadLine
  <1> DEFINE t == Append(text, line)
             n == Len(text)
  <1>2. text \in Seq(Lines) /\ HeaderFits /\ header \in {"before", "in", "done"} BY DEF TextInv
  <1>3. /\ n \in Nat /\ DOMAIN text = 1 .. n /\ DOMAIN t = 1 .. n + 1 /\ Len(t) = n + 1
        /\ t[n + 1] = line /\ \A i \in 1 .. n : t[i] = text[i]
        BY <1>2, Appended
  <1>4. HeaderLimit \in Nat BY LimitAssumption
  <1>5. CASE Opens(line)
    <2>1. header = "before" /\ n < HeaderLimit /\ line.opens # "none" BY <1>5 DEF Opens
    <2>2. Opener(t, n + 1)
          BY <1>2, <1>3, <1>4, <2>1 DEF Opener, HeaderFits
    <2>3. Unclosed(t, n + 1, n + 2) BY <1>3 DEF Unclosed
    <2>4. \E p \in DOMAIN t :
            /\ Opener(t, p)
            /\ header' = "in" <=> (t[p].ends # "with line" /\ Unclosed(t, p, Len(t) + 1))
            /\ header' = "in" => quote' = t[p].opens
      <3>1. Len(t) + 1 = n + 2 /\ n + 1 \in DOMAIN t BY <1>3
      <3>2. header' = "in" <=> line.ends # "with line"
        <4>1. Enters(line) <=> line.ends # "with line" BY <1>5, Zenon DEF Enters
        <4>2. Enters(line) => header' = "in" BY <1>1, Zenon
        <4>3. ~ Enters(line) => header' = "done" BY <1>1, <1>5
        <4> QED BY <4>1, <4>2, <4>3
      <3>3. header' = "in" => quote' = line.opens BY <1>1, <1>5, <3>2, Zenon DEF Enters
      <3> HIDE DEF t, n
      <3> QED BY <1>3, <2>2, <2>3, <3>1, <3>2, <3>3, Zenon
    <2>5. header' \in {"in", "done"} BY <1>1, <1>5, Zenon
    <2>6. text' = t BY <1>1
    <2> HIDE DEF t
    <2> QED BY <2>4, <2>5, <2>6 DEF HeaderFits
  <1>6. CASE ~ Opens(line) /\ header = "before"
    <2>1. header' = "before" BY <1>1, <1>6 DEF Enters, Leaves
    <2>2. \A i \in 1 .. n + 1 : i <= HeaderLimit => t[i].opens = "none"
          BY <1>2, <1>3, <1>4, <1>6 DEF HeaderFits, Opens
    <2> QED BY <1>1, <1>3, <2>1, <2>2 DEF HeaderFits
  <1>7. CASE header # "before"
    <2>1. PICK o \in 1 .. n :
            /\ Opener(text, o)
            /\ header = "in" <=> (text[o].ends # "with line" /\ Unclosed(text, o, n + 1))
            /\ header = "in" => quote = text[o].opens
          BY <1>2, <1>3, <1>7 DEF HeaderFits
    <2>2. Opener(t, o) BY <1>2, <2>1, OpenerStays
    <2>3. Unclosed(t, o, n + 2) <=> Unclosed(text, o, n + 1) /\ text[o].opens \notin line.holds
      <3>1. Unclosed(t, o, n + 1) <=> Unclosed(text, o, n + 1) BY <1>2, <1>3, UnclosedStays
      <3>2. Unclosed(t, o, n + 2) <=> Unclosed(t, o, n + 1) /\ t[o].opens \notin t[n + 1].holds
            BY <1>3 DEF Unclosed
      <3> QED BY <1>3, <3>1, <3>2
    <2>4. ~ Opens(line) /\ ~ Enters(line) BY <1>7 DEF Opens, Enters
    <2>5. header' = (IF Leaves(line) THEN "done" ELSE header) /\ quote' = quote BY <1>1, <2>4
    <2>6. header' = "in" <=> (header = "in" /\ quote \notin line.holds) BY <2>5 DEF Leaves
    <2>7. header' = "in" <=> (t[o].ends # "with line" /\ Unclosed(t, o, n + 2))
          BY <1>3, <2>1, <2>3, <2>6
    <2>8. header' = "in" => quote' = t[o].opens BY <1>3, <2>1, <2>5, <2>6
    <2>9. header' \in {"in", "done"} BY <1>2, <1>7, <2>5
    <2>10. o \in 1 .. n + 1 BY <1>3
    <2>11. \E p \in DOMAIN t :
             /\ Opener(t, p)
             /\ header' = "in" <=> (t[p].ends # "with line" /\ Unclosed(t, p, Len(t) + 1))
             /\ header' = "in" => quote' = t[p].opens
      <3>1. Len(t) + 1 = n + 2 /\ DOMAIN t = 1 .. n + 1 BY <1>3
      <3> HIDE DEF t, n
      <3> QED BY <2>2, <2>7, <2>8, <2>10, <3>1, Zenon
    <2>12. header' # "before" /\ text' = t BY <1>1, <2>9
    <2> HIDE DEF t
    <2> QED BY <2>9, <2>11, <2>12 DEF HeaderFits
  <1> QED BY <1>5, <1>6, <1>7

LEMMA TextStart == ASSUME TextInit PROVE TextInv
  <1>1. text = <<>> /\ header = "before" /\ exact = {} /\ partial = {} BY DEF TextInit
  <1>2. HeaderFits BY <1>1 DEF HeaderFits
  <1>3. FoundAsDefined BY <1>1 DEF FoundAsDefined, Lists
  <1> QED BY <1>1, <1>2, <1>3 DEF TextInv

LEMMA TextStep == ASSUME TextInv, ReadLine PROVE TextInv'
  <1>1. PICK line \in Lines :
          /\ text' = Append(text, line)
          /\ exact' = exact \cup Found(line, "exact")
          /\ partial' = partial \cup Found(line, "partial")
        BY DEF ReadLine
  <1>2. text' \in Seq(Lines) BY <1>1 DEF TextInv
  <1>3. FoundAsDefined' BY <1>1, ListsGrow DEF TextInv, FoundAsDefined
  <1> QED BY <1>2, <1>3, HeaderStep DEF TextInv

LEMMA TextKept == ASSUME TextInv, UNCHANGED textVars PROVE TextInv'
  BY DEF TextInv, HeaderFits, FoundAsDefined, textVars

\* search_text reports the lines outside the header block on which the term
\* occurs, under their own numbers, whatever the file.
THEOREM FoundAsDefinedHolds == TextSpec => []FoundAsDefined
  <1>1. TextInit => TextInv BY TextStart
  <1>2. TextInv /\ [ReadLine]_textVars => TextInv' BY TextStep, TextKept
  <1>3. TextInv => FoundAsDefined BY DEF TextInv
  <1> QED BY <1>1, <1>2, <1>3, PTL DEF TextSpec

\* Only a docstring that ends early hides other lines (search_engine.py:68): if no line
\* ends the docstring it opens before its own end, only the header and boilerplate
\* lines are skipped.
THEOREM HeaderOnlyUnlessEarly ==
  ASSUME \A line \in Lines : line.ends # "early"
  PROVE  TextSpec => []HeaderOnly
  <1>1. TextInv => HeaderOnly
    <2> SUFFICES ASSUME TextInv, NEW i \in DOMAIN text, text[i].meta # "yes", text[i].hits # {},
                        i \notin exact \cup partial
                 PROVE  \E o \in 1 .. i :
                          Opener(text, o) /\ (i = o \/ (text[o].ends = "later" /\ Unclosed(text, o, i)))
      BY DEF HeaderOnly
    <2>1. text \in Seq(Lines) /\ FoundAsDefined BY DEF TextInv
    <2>2. \A k \in DOMAIN text :
            /\ text[k].ends \in {"with line", "later"} /\ text[k].meta \in {"yes", "no"}
            /\ text[k].hits \subseteq {"exact", "partial"}
      <3>1. \A k \in DOMAIN text : text[k] \in Lines BY <2>1
      <3>2. \A line \in Lines :
              /\ line.ends \in {"with line", "later"} /\ line.meta \in {"yes", "no"}
              /\ line.hits \subseteq {"exact", "partial"}
            BY LinesAssumption
      <3> QED BY <3>1, <3>2
    <2>3. InBlock(text, i) BY <2>1, <2>2 DEF FoundAsDefined, Lists
    <2>4. PICK o \in 1 .. i :
            Opener(text, o) /\ (i = o \/ (text[o].ends # "with line" /\ Unclosed(text, o, i)))
          BY <2>3 DEF InBlock
    <2>5. text[o].ends \in {"with line", "later"} BY <2>2, <2>4 DEF Opener
    <2> QED BY <2>4, <2>5
  <1>2. TextInit => TextInv BY TextStart
  <1>3. TextInv /\ [ReadLine]_textVars => TextInv' BY TextStep, TextKept
  <1> QED BY <1>1, <1>2, <1>3, PTL DEF TextSpec

-----------------------------------------------------------------------------
(* The stages *)

InBuild == {"build", "match", "matched"}

InBook == {"sheets", "done"}

LEMMA StagesStart == ASSUME Init PROVE StagesInv
  <1>1. TextInv /\ DagInit /\ BookInit /\ stage = "admit" BY TextStart DEF Init
  <1> QED BY <1>1 DEF StagesInv, BuiltExact

\* A step that leaves text, table and book alone, and goes from one stage without
\* a table or a book to another.
LEMMA Elsewhere ==
  ASSUME StagesInv, stage \notin InBuild \cup InBook, stage' \notin InBuild \cup InBook,
         UNCHANGED <<textVars, dagVars, bookVars>>
  PROVE  StagesInv'
  <1>1. TextInv' BY TextKept DEF StagesInv
  <1>2. DagInit' BY DEF StagesInv, InBuild, DagInit, dagVars
  <1>3. BookInit' BY DEF StagesInv, InBook, BookInit, bookVars
  <1> QED BY <1>1, <1>2, <1>3 DEF StagesInv, BuiltExact, InBuild, InBook

\* The tables are read before anything has been found in them.
LEMMA TablesStart ==
  ASSUME StagesInv, stage \notin InBuild \cup InBook, stage' = "build",
         TextInv', UNCHANGED <<dagVars, bookVars>>
  PROVE  StagesInv'
  <1>1. DagInit' BY DEF StagesInv, InBuild, DagInit, dagVars
  <1>2. LookupFits'
    <2>1. (DagInit => LookupFits)' BY BuildStart, PTL
    <2> QED BY <1>1, <2>1
  <1>3. BookInit' BY DEF StagesInv, InBook, BookInit, bookVars
  <1> QED BY <1>2, <1>3 DEF StagesInv, BuiltExact

LEMMA SearchStep == ASSUME StagesInv, Search PROVE StagesInv'
  <1>1. /\ stage = "search" /\ stage' \in {"read", "build", "failed", "write"}
        /\ UNCHANGED <<textVars, dagVars, bookVars>>
        BY DEF Search, Goto
  <1>2. TextInv' BY <1>1, TextKept DEF StagesInv
  <1>3. CASE stage' = "build" BY <1>1, <1>2, <1>3, TablesStart DEF InBuild, InBook
  <1>4. CASE stage' # "build" BY <1>1, <1>4, Elsewhere DEF InBuild, InBook
  <1> QED BY <1>3, <1>4

LEMMA ReadStep == ASSUME StagesInv, Read PROVE StagesInv'
  <1>1. stage = "read" /\ stage' = "read" /\ ReadLine /\ UNCHANGED <<dagVars, bookVars>>
        BY DEF Read, Goto
  <1>2. TextInv' BY <1>1, TextStep DEF StagesInv
  <1>3. DagInit' BY <1>1 DEF StagesInv, DagInit, dagVars
  <1>4. BookInit' BY <1>1 DEF StagesInv, BookInit, bookVars
  <1> QED BY <1>1, <1>2, <1>3, <1>4 DEF StagesInv, BuiltExact

LEMMA EndTextStep == ASSUME StagesInv, EndText PROVE StagesInv'
  <1>1. /\ stage = "read" /\ stage' \in {"build", "failed"} /\ TextInit'
        /\ UNCHANGED <<dagVars, bookVars>>
        BY DEF EndText, Goto, TextInit
  <1>2. TextInv'
    <2>1. (TextInit => TextInv)' BY TextStart, PTL
    <2> QED BY <1>1, <2>1
  <1>3. CASE stage' = "build" BY <1>1, <1>2, <1>3, TablesStart DEF InBuild, InBook
  <1>4. CASE stage' = "failed"
    <2>1. DagInit' BY <1>1 DEF StagesInv, DagInit, dagVars
    <2>2. BookInit' BY <1>1 DEF StagesInv, BookInit, bookVars
    <2> QED BY <1>2, <1>4, <2>1, <2>2 DEF StagesInv, BuiltExact
  <1> QED BY <1>1, <1>3, <1>4

LEMMA BuildingStep == ASSUME StagesInv, Build PROVE StagesInv'
  <1>1. stage = "build" /\ stage' = "build" /\ BuildRow /\ UNCHANGED <<textVars, bookVars>>
        BY DEF Build, Goto
  <1>2. TextInv' BY <1>1, TextKept DEF StagesInv
  <1>3. LookupFits' BY <1>1, BuildStep DEF StagesInv
  <1>4. BookInit' BY <1>1 DEF StagesInv, BookInit, bookVars
  <1> QED BY <1>1, <1>2, <1>3, <1>4 DEF StagesInv, BuiltExact

LEMMA BuiltStep == ASSUME StagesInv, Built PROVE StagesInv'
  <1>1. stage = "build" /\ stage' = "match" /\ FinishBuild /\ UNCHANGED <<textVars, bookVars>>
        BY DEF Built, Goto
  <1>2. TextInv' BY <1>1, TextKept DEF StagesInv
  <1>3. BuildExact' BY <1>1, BuildEnd DEF StagesInv
  <1>4. BookInit' BY <1>1 DEF StagesInv, BookInit, bookVars
  <1> QED BY <1>1, <1>2, <1>3, <1>4 DEF StagesInv, BuiltExact

LEMMA MatchStep == ASSUME StagesInv, Match PROVE StagesInv'
  <1>1. /\ stage = "match" /\ stage' = "matched" /\ UNCHANGED <<textVars, bookVars>>
        /\ UNCHANGED <<table, lookup, ambiguous>>
        BY DEF Match, Goto, Lookup, dagVars
  <1>2. TextInv' BY <1>1, TextKept DEF StagesInv
  <1>3. BuildExact' BY <1>1, DagKept DEF StagesInv, BuiltExact
  <1>4. BookInit' BY <1>1 DEF StagesInv, BookInit, bookVars
  <1> QED BY <1>1, <1>2, <1>3, <1>4 DEF StagesInv, BuiltExact

LEMMA MatchedStep == ASSUME StagesInv, Matched PROVE StagesInv'
  <1>1. stage = "matched" /\ stage' = "write" /\ DagInit' /\ UNCHANGED <<textVars, bookVars>>
        BY DEF Matched, Goto, DagInit
  <1>2. TextInv' BY <1>1, TextKept DEF StagesInv
  <1>3. BookInit' BY <1>1 DEF StagesInv, BookInit, bookVars
  <1> QED BY <1>1, <1>2, <1>3 DEF StagesInv, BuiltExact

\* The kind of a job is one of the two from the start.
KindOK == kind \in Kinds

LEMMA KindStep == ASSUME KindOK, [Next]_vars PROVE KindOK'
  BY DEF KindOK, Kinds, Next, vars, AdmitRequest, List, Search, Read, EndText, Build, Built,
         Match, Matched, BeginBook, Write, Finish, Keep

LEMMA TermsNamed ==
  ASSUME NEW terms \in TermLists, ValidTerms(terms)
  PROVE  terms \in Seq(Seq(Chars)) /\ \A i \in DOMAIN terms : terms[i] # <<>>
  <1>1. terms \in Seq(Seq(Chars)) BY TermListsAssumption
  <1>2. \A i \in DOMAIN terms : Len(terms[i]) # 0 BY DEF ValidTerms
  <1> QED BY <1>1, <1>2

LEMMA BeginStep == ASSUME StagesInv, KindOK, BeginBook PROVE StagesInv'
  <1>1. /\ stage = "write" /\ stage' = "sheets" /\ kind' = kind
        /\ UNCHANGED <<textVars, dagVars>>
        BY DEF BeginBook, Goto, Keep
  <1>2. TextInv' BY <1>1, TextKept DEF StagesInv
  <1>3. DagInit' BY <1>1 DEF StagesInv, DagInit, dagVars
  <1>4. BookInv(kind)'
    <2>1. PICK terms \in TermLists : ValidTerms(terms) /\ Begin(kind, terms, found)
          BY DEF BeginBook
    <2>2. PICK k \in Kinds : k = kind BY DEF KindOK
    <2>3. PICK f : f = found OBVIOUS
    <2>4. Begin(k, terms, f) BY <2>1, <2>2, <2>3
    <2>5. BookInit BY <1>1 DEF StagesInv
    <2>6. BookInv(k)' BY <2>1, <2>4, <2>5, TermsNamed, BookBegin
    <2>7. kind' = k BY <1>1, <2>2
    <2> QED BY <2>6, <2>7
  <1> QED BY <1>1, <1>2, <1>3, <1>4 DEF StagesInv, BuiltExact

LEMMA WriteStep == ASSUME StagesInv, KindOK, Write PROVE StagesInv'
  <1>1. /\ stage = "sheets" /\ stage' = "sheets" /\ kind' = kind /\ WriteSheet
        /\ UNCHANGED <<textVars, dagVars>>
        BY DEF Write, Goto, Keep
  <1>2. TextInv' BY <1>1, TextKept DEF StagesInv
  <1>3. DagInit' BY <1>1 DEF StagesInv, DagInit, dagVars
  <1>4. BookInv(kind)'
    <2>1. PICK k \in Kinds : k = kind BY DEF KindOK
    <2>2. BookInv(k) BY <1>1, <2>1 DEF StagesInv
    <2>3. BookInv(k)' BY <1>1, <2>2, BookStep
    <2>4. kind' = k BY <1>1, <2>1
    <2> QED BY <2>3, <2>4
  <1> QED BY <1>1, <1>2, <1>3, <1>4 DEF StagesInv, BuiltExact

LEMMA BookKept ==
  ASSUME UNCHANGED <<kind, plan, used, sheets>>
  PROVE  BookInv(kind)' <=> BookInv(kind)
  BY DEF BookInv, Reserved, Planned, FixedSheets

LEMMA FinishStep == ASSUME StagesInv, Finish PROVE StagesInv'
  <1>1. /\ stage = "sheets" /\ stage' = "done"
        /\ UNCHANGED <<kind, textVars, dagVars, bookVars>>
        BY DEF Finish, Goto, Keep
  <1>2. TextInv' BY <1>1, TextKept DEF StagesInv
  <1>3. DagInit' BY <1>1 DEF StagesInv, DagInit, dagVars
  <1>4. BookInv(kind)' BY <1>1, BookKept DEF StagesInv, bookVars
  <1> QED BY <1>1, <1>2, <1>3, <1>4 DEF StagesInv, BuiltExact

LEMMA StutterStep == ASSUME StagesInv, UNCHANGED vars PROVE StagesInv'
  <1>1. UNCHANGED <<stage, kind, textVars, dagVars, bookVars>> BY DEF vars
  <1>2. TextInv' BY <1>1, TextKept DEF StagesInv
  <1>3. (LookupFits' <=> LookupFits) /\ (BuildExact' <=> BuildExact)
        BY <1>1, DagKept DEF dagVars
  <1>4. DagInit' <=> DagInit BY <1>1 DEF DagInit, dagVars
  <1>5. BookInit' <=> BookInit BY <1>1 DEF BookInit, bookVars
  <1>6. BookInv(kind)' <=> BookInv(kind) BY <1>1, BookKept DEF bookVars
  <1> QED BY <1>1, <1>2, <1>3, <1>4, <1>5, <1>6 DEF StagesInv, BuiltExact

LEMMA StagesStep == ASSUME StagesInv, KindOK, [Next]_vars PROVE StagesInv'
  <1>1. CASE AdmitRequest \/ List
    <2>1. /\ stage \in {"admit", "list"} /\ stage' \in {"list", "search"}
          /\ UNCHANGED <<textVars, dagVars, bookVars>>
          BY <1>1 DEF AdmitRequest, List, Goto
    <2> QED BY <2>1, Elsewhere DEF InBuild, InBook
  <1>2. CASE Search BY <1>2, SearchStep
  <1>3. CASE Read BY <1>3, ReadStep
  <1>4. CASE EndText BY <1>4, EndTextStep
  <1>5. CASE Build BY <1>5, BuildingStep
  <1>6. CASE Built BY <1>6, BuiltStep
  <1>7. CASE Match BY <1>7, MatchStep
  <1>8. CASE Matched BY <1>8, MatchedStep
  <1>9. CASE BeginBook BY <1>9, BeginStep
  <1>10. CASE Write BY <1>10, WriteStep
  <1>11. CASE Finish BY <1>11, FinishStep
  <1>12. CASE UNCHANGED vars BY <1>12, StutterStep
  <1> QED BY <1>1, <1>2, <1>3, <1>4, <1>5, <1>6, <1>7, <1>8, <1>9, <1>10, <1>11, <1>12 DEF Next

\* The request is what its scope admits, from its admission until it is forgotten.
LEMMA PolicyStep ==
  ASSUME PolicyInv, stage = "admit" => PolicyInit, [Next]_vars
  PROVE  PolicyInv' /\ (stage' = "admit" => PolicyInit')
  <1>1. CASE AdmitRequest
    <2>1. stage = "admit" /\ stage' = "list" /\ Admit BY <1>1 DEF AdmitRequest, Goto
    <2> QED BY <2>1, AdmitStep
  <1>2. CASE List
    <2>1. stage' = "search" /\ ListSources BY <1>2 DEF List, Goto
    <2> QED BY <2>1, ListStep
  <1>3. CASE Search
    <2>1. PolicyInit' BY <1>3 DEF Search, PolicyInit, NoPolicy, NoRequest
    <2>2. (PolicyInit => PolicyInv)' BY PolicyStart, PTL
    <2> QED BY <2>1, <2>2
  <1>4. CASE UNCHANGED policyVars /\ (stage' = "admit" => stage = "admit")
    <2>1. UNCHANGED <<policy, request, listed>> BY <1>4 DEF policyVars
    <2>2. PolicyInv' <=> PolicyInv BY <2>1 DEF PolicyInv, Within, SameBucket
    <2>3. PolicyInit' <=> PolicyInit BY <2>1 DEF PolicyInit, NoPolicy, NoRequest
    <2> QED BY <1>4, <2>2, <2>3
  <1>5. CASE Read \/ EndText \/ Build \/ Built \/ Match \/ Matched \/ BeginBook \/ Write \/ Finish
    <2>1. UNCHANGED policyVars /\ stage' # "admit"
          BY <1>5 DEF Read, EndText, Build, Built, Match, Matched, BeginBook, Write, Finish, Goto
    <2> QED BY <1>4, <2>1
  <1>6. CASE UNCHANGED vars
    <2>1. UNCHANGED <<stage, policyVars>> BY <1>6 DEF vars
    <2> QED BY <1>4, <2>1
  <1> QED BY <1>1, <1>2, <1>3, <1>5, <1>6 DEF Next

\* What the lookup of a script relies on, and when it has been looked up.
WordsInv ==
  LookupWords /\ (stage \in {"build", "match"} => answer = NoAnswer) /\ LookupExact

LEMMA NoAnswerExact == ASSUME answer = NoAnswer PROVE LookupExact
  BY DEF LookupExact

LEMMA WordsStep == ASSUME StagesInv, WordsInv, [Next]_vars PROVE WordsInv'
  <1>1. CASE UNCHANGED dagVars /\ (stage' \in {"build", "match"} => answer = NoAnswer)
    <2>1. lookup' = lookup /\ answer' = answer BY <1>1 DEF dagVars
    <2>2. NoAnswer' = NoAnswer BY DEF NoAnswer
    <2> QED BY <1>1, <2>1, <2>2, AnswerKept DEF WordsInv
  <1>2. CASE AdmitRequest \/ List \/ Read \/ BeginBook \/ Write \/ Finish
    <2>1. UNCHANGED dagVars /\ stage' \notin {"build", "match"}
          BY <1>2 DEF AdmitRequest, List, Read, BeginBook, Write, Finish, Goto
    <2> QED BY <1>1, <2>1
  <1>3. CASE Search \/ EndText
    <2>1. stage \in {"search", "read"} /\ UNCHANGED dagVars BY <1>3 DEF Search, EndText
    <2>2. answer = NoAnswer BY <2>1 DEF StagesInv, DagInit
    <2> QED BY <1>1, <2>1, <2>2
  <1>4. CASE Build
    <2>1. stage = "build" /\ BuildRow BY <1>4 DEF Build
    <2>2. LookupWords' /\ answer' = answer BY <2>1, WordsBuild DEF WordsInv
    <2>3. answer' = NoAnswer' BY <2>1, <2>2 DEF WordsInv, NoAnswer
    <2>4. (answer = NoAnswer => LookupExact)' BY NoAnswerExact, PTL
    <2> QED BY <2>2, <2>3, <2>4 DEF WordsInv
  <1>5. CASE Built
    <2>1. stage = "build" /\ FinishBuild BY <1>5 DEF Built
    <2>2. LookupWords' /\ answer' = answer BY <2>1, WordsEnd DEF WordsInv
    <2>3. answer' = NoAnswer' BY <2>1, <2>2 DEF WordsInv, NoAnswer
    <2>4. (answer = NoAnswer => LookupExact)' BY NoAnswerExact, PTL
    <2> QED BY <2>2, <2>3, <2>4 DEF WordsInv
  <1>6. CASE Match
    <2>1. stage' = "matched" BY <1>6 DEF Match, Goto
    <2>2. CASE found = "some"
      <3>1. Lookup BY <1>6, <2>2 DEF Match
      <3>2. lookup' = lookup BY <3>1 DEF Lookup
      <3>3. LookupWords' BY <3>2 DEF WordsInv, LookupWords
      <3>4. LookupExact' BY <3>1, LookupStep DEF WordsInv
      <3> QED BY <2>1, <3>3, <3>4 DEF WordsInv
    <2>3. CASE found # "some"
      <3>1. UNCHANGED dagVars BY <1>6, <2>3 DEF Match
      <3> QED BY <1>1, <2>1, <3>1
    <2> QED BY <2>2, <2>3
  <1>7. CASE Matched
    <2>1. DagInit' BY <1>7 DEF Matched, DagInit, NoAnswer
    <2>2. (DagInit => LookupWords /\ answer = NoAnswer)' BY WordsStart, PTL
    <2>3. LookupWords' /\ answer' = NoAnswer' BY <2>1, <2>2
    <2>4. (answer = NoAnswer => LookupExact)' BY NoAnswerExact, PTL
    <2> QED BY <2>3, <2>4 DEF WordsInv
  <1>8. CASE UNCHANGED vars
    <2>1. UNCHANGED <<stage, dagVars>> BY <1>8 DEF vars
    <2> QED BY <1>1, <2>1 DEF WordsInv
  <1> QED BY <1>2, <1>3, <1>4, <1>5, <1>6, <1>7, <1>8 DEF Next

\* The titles a report takes are bounded from its first sheet to its last.
LEMMA UsedStep ==
  ASSUME StagesInv, KindOK, stage \in InBook => UsedFits(MaxTitles), [Next]_vars
  PROVE  stage' \in InBook => UsedFits(MaxTitles)'
  <1>1. MaxTerms \in Nat /\ MaxTitles \in Nat /\ MaxTitles = MaxTerms + 9
        BY CounterAssumption DEF MaxTitles
  <1>2. CASE BeginBook
    <2>1. PICK terms \in TermLists : ValidTerms(terms) /\ Begin(kind, terms, found)
          BY <1>2 DEF BeginBook
    <2>2. PICK k \in Kinds : k = kind BY DEF KindOK
    <2>3. PICK f : f = found OBVIOUS
    <2>4. Begin(k, terms, f) BY <2>1, <2>2, <2>3
    <2>5. terms \in Seq(Seq(Chars)) BY <2>1, TermsNamed
    <2>6. Len(terms) <= MaxTerms
      <3>1. Len(terms) \in 1 .. MaxTerms BY <2>1 DEF ValidTerms
      <3> QED BY <1>1, <3>1
    <2>7. UsedFits(MaxTerms + 9)' BY <1>1, <2>4, <2>5, <2>6, BeginFits
    <2> QED BY <2>7 DEF MaxTitles
  <1>3. CASE Write
    <2>1. stage = "sheets" /\ WriteSheet BY <1>3 DEF Write
    <2>2. BookInv(kind) /\ UsedFits(MaxTitles) BY <2>1 DEF StagesInv, InBook
    <2>3. PICK k : k = kind OBVIOUS
    <2>4. BookInv(k) BY <2>2, <2>3
    <2> QED BY <1>1, <2>1, <2>2, <2>4, FitsStep
  <1>4. CASE AdmitRequest \/ List \/ Search \/ Read \/ EndText \/ Build \/ Built \/ Match \/ Matched
    BY <1>4 DEF AdmitRequest, List, Search, Read, EndText, Build, Built, Match, Matched, Goto, InBook
  <1>5. CASE Finish \/ UNCHANGED vars
    <2>1. UNCHANGED bookVars /\ (stage' \in InBook => stage \in InBook)
          BY <1>5 DEF Finish, Goto, InBook, vars
    <2>2. used' = used /\ plan' = plan BY <2>1 DEF bookVars
    <2>3. UsedFits(MaxTitles)' <=> UsedFits(MaxTitles) BY <2>2 DEF UsedFits, MaxTitles
    <2> QED BY <2>1, <2>3
  <1> QED BY <1>2, <1>3, <1>4, <1>5 DEF Next

\* All of it: ReportInv, the kind, and the script that was looked up.
LookedUp == ReportInv /\ KindOK /\ LookupExact

LEMMA LookedUpStart == ASSUME Init PROVE LookedUp
  <1>1. StagesInv /\ PolicyInit /\ DagInit /\ stage = "admit" BY StagesStart DEF Init
  <1>2. PolicyInv BY <1>1, PolicyStart
  <1>3. LookupWords /\ answer = NoAnswer BY <1>1, WordsStart
  <1>4. KindOK BY DEF Init, KindOK, Kinds
  <1> QED BY <1>1, <1>2, <1>3, <1>4, NoAnswerExact DEF LookedUp, ReportInv

LEMMA LookedUpStep == ASSUME LookedUp, [Next]_vars PROVE LookedUp'
  <1>1. /\ StagesInv /\ PolicyInv /\ (stage = "admit" => PolicyInit) /\ KindOK /\ WordsInv
        /\ (stage \in InBook => UsedFits(MaxTitles))
        BY DEF LookedUp, ReportInv, WordsInv, InBook
  <1>2. StagesInv' BY <1>1, StagesStep
  <1>3. PolicyInv' /\ (stage' = "admit" => PolicyInit') BY <1>1, PolicyStep
  <1>4. WordsInv' BY <1>1, WordsStep
  <1>5. stage' \in InBook => UsedFits(MaxTitles)' BY <1>1, UsedStep
  <1>6. KindOK' BY <1>1, KindStep
  <1> QED BY <1>2, <1>3, <1>4, <1>5, <1>6 DEF LookedUp, ReportInv, WordsInv, InBook

-----------------------------------------------------------------------------
\* Every stage hands on what the next relies on: the request is one its scope admits,
\* the header's state fits the text read, the lookup fits the rows read, the titles
\* taken are those of the sheets, and they are not too many.
THEOREM ReportInvHolds == Spec => [](ReportInv /\ KindOK)
  <1>1. Init => LookedUp BY LookedUpStart
  <1>2. LookedUp /\ [Next]_vars => LookedUp' BY LookedUpStep
  <1>3. LookedUp => ReportInv /\ KindOK BY DEF LookedUp
  <1> QED BY <1>1, <1>2, <1>3, PTL DEF Spec

\* validate_request and resolve_copy_target: whatever the scopes and the requests, the
\* rows and the copy folder of an admitted job extend approved roots by whole segments.
THEOREM WithinPolicyHolds == Spec => []WithinPolicy
  <1>1. ReportInv => WithinPolicy BY PolicyWithin DEF ReportInv
  <1> QED BY <1>1, ReportInvHolds, PTL

\* Objects whose names go on inside the last segment of a root are the only cause of
\* ListedWithinPolicy's violation: where there are none, list_blobs, for all its plain
\* string prefixes, finds nothing beside the approved roots.
THEOREM ListedWithinPolicyUnlessBeside ==
  ASSUME \A p \in Policies : \A k \in DOMAIN p.buckets : \A o \in Objects :
           /\ SameBucket(o, p.buckets[k])
           /\ IsPrefix(Fold(Strip(p.buckets[k].prefix)), Fold(o.name))
           => Under(Fold(o.name), Fold(Strip(p.buckets[k].prefix)))
  PROVE  Spec => []ListedWithinPolicy
  <1>1. ReportInv => ListedWithinPolicy
    <2> SUFFICES ASSUME ReportInv, NEW o \in listed
                 PROVE  \E k \in DOMAIN policy.buckets :
                          /\ SameBucket(o, policy.buckets[k])
                          /\ Under(Fold(o.name), Fold(Strip(policy.buckets[k].prefix)))
      BY DEF ListedWithinPolicy
    <2>1. PolicyInv BY DEF ReportInv
    <2>2. PICK k \in DOMAIN policy.buckets :
            /\ SameBucket(o, policy.buckets[k])
            /\ IsPrefix(Fold(Strip(policy.buckets[k].prefix)), Fold(o.name))
          BY <2>1, ListedBegins
    <2>3. policy # NoPolicy
      <3>1. NoPolicy.buckets = <<>> /\ DOMAIN <<>> = {} BY DEF NoPolicy
      <3> QED BY <2>2, <3>1
    <2>4. policy \in Policies /\ o \in Objects BY <2>1, <2>3 DEF PolicyInv
    <2> QED BY <2>2, <2>4
  <1> QED BY <1>1, ReportInvHolds, PTL

\* The lines that a report shows are those that the search of its files defines.
THEOREM ReportFindsAsDefined == Spec => []FoundAsDefined
  <1>1. ReportInv => FoundAsDefined BY DEF ReportInv, StagesInv, TextInv
  <1> QED BY <1>1, ReportInvHolds, PTL

\* build_dag_lookup keeps the paths whose rows agree, and no others.
THEOREM BuiltExactHolds == Spec => []BuiltExact
  <1>1. ReportInv => BuiltExact BY DEF ReportInv, StagesInv
  <1> QED BY <1>1, ReportInvHolds, PTL

\* unique_suffix_match: bisection in the sorted index of reversed paths finds, for any
\* lookup and any script, the paths that the script's path ends or is ended by, and a
\* script has a DAG if and only if that is one path.
THEOREM LookupExactHolds == Spec => []LookupExact
  <1>1. Init => LookedUp BY LookedUpStart
  <1>2. LookedUp /\ [Next]_vars => LookedUp' BY LookedUpStep
  <1>3. LookedUp => LookupExact BY DEF LookedUp
  <1> QED BY <1>1, <1>2, <1>3, PTL DEF Spec

\* No two sheets of a workbook share a title, and every title is one it can have.
THEOREM WorkbookWholeHolds == Spec => []WorkbookWhole
  <1>1. ReportInv /\ KindOK => WorkbookWhole
    <2> SUFFICES ASSUME ReportInv, KindOK PROVE WorkbookWhole OBVIOUS
    <2>1. CASE stage \in {"sheets", "done"}
      <3>1. PICK k \in Kinds : k = kind BY DEF KindOK
      <3>2. BookInv(k) BY <2>1, <3>1 DEF ReportInv, StagesInv
      <3> QED BY <3>2, BookWhole
    <2>2. CASE stage \notin {"sheets", "done"}
      <3>1. sheets = {} BY <2>2 DEF ReportInv, StagesInv, BookInit
      <3> QED BY <3>1 DEF WorkbookWhole
    <2> QED BY <2>1, <2>2
  <1> QED BY <1>1, ReportInvHolds, PTL

\* _sheet_name always finds a free title for the next term, among MaxTitles + 1 at most.
THEOREM TitleFreeHolds == Spec => []TitleFree
  <1>1. ReportInv /\ KindOK => TitleFree
    <2> SUFFICES ASSUME ReportInv, KindOK PROVE TitleFree OBVIOUS
    <2>1. CASE stage \in {"sheets", "done"}
      <3>1. PICK k \in Kinds : k = kind BY DEF KindOK
      <3>2. BookInv(k) /\ UsedFits(MaxTitles) BY <2>1, <3>1 DEF ReportInv, StagesInv
      <3>3. MaxTitles \in Nat /\ MaxCounter > MaxTitles BY CounterAssumption DEF MaxTitles
      <3> QED BY <3>2, <3>3, TitleIsFree
    <2>2. CASE stage \notin {"sheets", "done"}
      <3>1. plan = <<>> BY <2>2 DEF ReportInv, StagesInv, BookInit
      <3> QED BY <3>1 DEF TitleFree
    <2> QED BY <2>1, <2>2
  <1> QED BY <1>1, ReportInvHolds, PTL
=============================================================================

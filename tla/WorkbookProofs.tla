---------------------------- MODULE WorkbookProofs ----------------------------
(***************************************************************************)
(* The titles of a workbook's sheets, for any terms, any fixed titles and  *)
(* any limit of at least two characters.                                   *)
(***************************************************************************)
EXTENDS Workbook, FiniteSetTheorems, SequenceTheorems, TLAPS

Kinds == {"content", "filename"}

Item == [sheet : DOMAIN Title \cup {"term"}, term : Seq(Chars)]

PlanOf(kind) == {item \in Item : Planned(kind, item)}

LEMMA FixedTitles ==
  ASSUME NEW kind \in Kinds
  PROVE  /\ FixedSheets(kind) \subseteq DOMAIN Title
         /\ "term" \notin DOMAIN Title
         /\ {"Summary", All(kind), "No_Matches"} \subseteq FixedSheets(kind)
  BY TitleAssumption DEF Kinds, FixedSheets, All

LEMMA OneOrTwo ==
  ASSUME NEW S, NEW a \in S, NEW b \in S
  PROVE  <<>> \in Seq(S) /\ <<a>> \in Seq(S) /\ <<a, b>> \in Seq(S) /\ Len(<<a, b>>) = 2
  OBVIOUS

LEMMA Joined ==
  ASSUME NEW S, NEW a \in Seq(S), NEW b \in Seq(S)
  PROVE  a \o b \in Seq(S) /\ Len(a \o b) = Len(a) + Len(b)
  BY ConcatProperties

\* A sequence of planned sheets is one whose members are planned.
LEMMA SeqOfPlanned ==
  ASSUME NEW kind, NEW p
  PROVE  p \in Seq(PlanOf(kind)) <=> p \in Seq(Item) /\ \A i \in DOMAIN p : Planned(kind, p[i])
  <1>1. ASSUME p \in Seq(PlanOf(kind))
        PROVE  p \in Seq(Item) /\ \A i \in DOMAIN p : Planned(kind, p[i])
    <2>1. p \in [1 .. Len(p) -> PlanOf(kind)] BY <1>1, LenProperties
    <2>2. \A i \in DOMAIN p : p[i] \in PlanOf(kind) BY <2>1
    <2>3. PlanOf(kind) \subseteq Item BY DEF PlanOf
    <2>4. p \in Seq(Item) BY <1>1, <2>3, SeqMonotonic
    <2> QED BY <2>2, <2>4 DEF PlanOf
  <1>2. ASSUME p \in Seq(Item), \A i \in DOMAIN p : Planned(kind, p[i])
        PROVE  p \in Seq(PlanOf(kind))
    <2>1. p \in [1 .. Len(p) -> Item] /\ Len(p) \in Nat BY <1>2, LenProperties
    <2>2. p \in [1 .. Len(p) -> PlanOf(kind)] BY <1>2, <2>1 DEF PlanOf
    <2> QED BY <2>1, <2>2, SeqDef
  <1> QED BY <1>1, <1>2

LEMMA FixedPlanned ==
  ASSUME NEW kind \in Kinds, NEW s \in FixedSheets(kind)
  PROVE  Fixed(s) \in PlanOf(kind)
  <1>1. s \in DOMAIN Title BY FixedTitles
  <1>2. <<>> \in Seq(Chars) BY EmptySeq
  <1>3. Fixed(s) \in Item /\ Fixed(s).sheet = s BY <1>1, <1>2 DEF Fixed, Item
  <1> QED BY <1>3 DEF PlanOf, Planned

LEMMA TermPlanned ==
  ASSUME NEW kind, NEW t \in Seq(Chars), t # <<>>
  PROVE  OfTerm(t) \in PlanOf(kind)
  <1>1. OfTerm(t) \in Item /\ OfTerm(t).term = t BY DEF OfTerm, Item
  <1> QED BY <1>1 DEF PlanOf, Planned

\* The plan of a report has planned sheets alone.
LEMMA SheetsPlanned ==
  ASSUME NEW kind \in Kinds, NEW terms \in Seq(Seq(Chars)), \A i \in DOMAIN terms : terms[i] # <<>>,
         NEW found, NEW extra \in Extras(kind)
  PROVE  Sheets(kind, terms, found, extra) \in Seq(PlanOf(kind))
  <1> DEFINE P == PlanOf(kind)
  <1>1. ASSUME NEW s \in FixedSheets(kind) PROVE <<Fixed(s)>> \in Seq(P)
    <2>1. Fixed(s) \in P BY FixedPlanned
    <2> HIDE DEF P
    <2> QED BY <2>1
  <1>2. [i \in DOMAIN terms |-> OfTerm(terms[i])] \in Seq(P)
    <2>1. terms \in [1 .. Len(terms) -> Seq(Chars)] /\ Len(terms) \in Nat BY LenProperties
    <2>2. \A i \in 1 .. Len(terms) : OfTerm(terms[i]) \in P BY <2>1, TermPlanned
    <2> HIDE DEF P
    <2>3. [i \in DOMAIN terms |-> OfTerm(terms[i])] \in [1 .. Len(terms) -> P] BY <2>1, <2>2
    <2> QED BY <2>1, <2>3, SeqDef
  <1>3. [i \in DOMAIN extra |-> Fixed(extra[i])] \in Seq(P)
    <2>1. extra \in Seq(FixedSheets(kind))
      <3>1. CASE extra \in {<<>>, <<"Copied_Files">>}
        <4>1. "Copied_Files" \in FixedSheets(kind) BY DEF FixedSheets
        <4> QED BY <3>1, <4>1, OneOrTwo
      <3>2. CASE kind = "content" /\ extra \in {<<"Job_Inventory">>, <<"Job_Inventory", "Copied_Files">>}
        <4>1. "Copied_Files" \in FixedSheets(kind) /\ "Job_Inventory" \in FixedSheets(kind)
              BY <3>2 DEF FixedSheets
        <4> QED BY <3>2, <4>1, OneOrTwo
      <3> QED BY <3>1, <3>2 DEF Extras
    <2>2. extra \in [1 .. Len(extra) -> FixedSheets(kind)] /\ Len(extra) \in Nat
          BY <2>1, LenProperties
    <2>3. \A i \in 1 .. Len(extra) : Fixed(extra[i]) \in P BY <2>2, FixedPlanned
    <2> HIDE DEF P
    <2>4. [i \in DOMAIN extra |-> Fixed(extra[i])] \in [1 .. Len(extra) -> P] BY <2>2, <2>3
    <2> QED BY <2>2, <2>4, SeqDef
  <1>4. /\ <<Fixed("Summary")>> \in Seq(P) /\ <<Fixed(All(kind))>> \in Seq(P)
        /\ <<Fixed("No_Matches")>> \in Seq(P)
        BY <1>1, FixedTitles
  <1> DEFINE matches == IF found = "some"
                        THEN <<Fixed(All(kind))>> \o [i \in DOMAIN terms |-> OfTerm(terms[i])]
                        ELSE <<Fixed("No_Matches")>>
  <1>5. matches \in Seq(P)
    <2> HIDE DEF P
    <2>1. <<Fixed(All(kind))>> \o [i \in DOMAIN terms |-> OfTerm(terms[i])] \in Seq(P)
          BY <1>2, <1>4, Joined
    <2> QED BY <1>4, <2>1
  <1>6. <<Fixed("Summary")>> \o matches \o [i \in DOMAIN extra |-> Fixed(extra[i])] \in Seq(P)
    <2> HIDE DEF P, matches
    <2>1. <<Fixed("Summary")>> \o matches \in Seq(P) BY <1>4, <1>5, Joined
    <2> QED BY <1>3, <2>1, Joined
  <1> QED BY <1>6 DEF Sheets

LEMMA BookBegin ==
  ASSUME NEW kind \in Kinds, NEW terms \in Seq(Seq(Chars)), \A i \in DOMAIN terms : terms[i] # <<>>,
         NEW found, BookInit, Begin(kind, terms, found)
  PROVE  BookInv(kind)'
  <1>1. plan' \in Seq(PlanOf(kind)) BY SheetsPlanned DEF Begin
  <1>2. plan' \in Seq(Item) /\ \A i \in DOMAIN plan' : Planned(kind, plan'[i])
        BY <1>1, SeqOfPlanned
  <1>3. used' = Reserved(kind) /\ sheets' = {} BY DEF Begin, BookInit, Reserved
  <1> QED BY <1>2, <1>3 DEF BookInv, Item

-----------------------------------------------------------------------------
(* Titles *)

LEMMA CutIs ==
  ASSUME NEW S, NEW name \in Seq(S), NEW length \in Nat
  PROVE  /\ Cut(name, length) \in Seq(S)
         /\ Len(Cut(name, length)) = IF Len(name) < length THEN Len(name) ELSE length
         /\ \A i \in 1 .. Len(Cut(name, length)) : Cut(name, length)[i] = name[i]
  <1> DEFINE m == IF Len(name) < length THEN Len(name) ELSE length
  <1>1. Len(name) \in Nat /\ m \in Nat /\ m <= Len(name) BY LenProperties
  <1> HIDE DEF m
  <1>2. /\ SubSeq(name, 1, m) \in Seq(S) /\ Len(SubSeq(name, 1, m)) = m
        /\ \A i \in 1 .. m : SubSeq(name, 1, m)[i] = name[i]
    <2>1. \A i \in 1 .. m : i \in 1 .. Len(name) BY <1>1
    <2> QED BY <1>1, <2>1, SubSeqProperties
  <1> QED BY <1>2 DEF Cut, m

Clean == {c \in Chars \cup {"_"} \cup {ToString(n) : n \in 1 .. MaxCounter} : c \notin Illegal}

LEMMA CleanIsLegal ==
  ASSUME NEW title \in Seq(Clean), Len(title) >= 1, Len(title) <= NameLimit
  PROVE  Legal(title)
  <1>1. title \in [1 .. Len(title) -> Clean] /\ Len(title) \in Nat BY LenProperties
  <1>2. NameLimit \in Nat BY LimitsAssumption
  <1>3. Len(title) \in 1 .. NameLimit BY <1>1, <1>2
  <1>4. \A c \in Clean : c \notin Illegal BY DEF Clean
  <1>5. \A i \in DOMAIN title : title[i] \notin Illegal BY <1>1, <1>4
  <1> QED BY <1>3, <1>5 DEF Legal

\* Every title tried for a term is one that a sheet may have.
LEMMA CandidateLegal ==
  ASSUME NEW term \in Seq(Chars), term # <<>>, NEW counter \in 1 .. MaxCounter
  PROVE  Legal(Candidate(term, counter))
  <1> DEFINE raw == Legalise(term)
             base == Cut(raw, NameLimit)
             suffix == Suffix(counter)
  <1>1. NameLimit \in Nat /\ NameLimit >= 2 /\ MaxCounter \in Nat BY LimitsAssumption
  <1>2. raw \in Seq(Clean) /\ Len(raw) = Len(term) /\ Len(term) >= 1 /\ Len(term) \in Nat
    <2>1. term \in [1 .. Len(term) -> Chars] /\ Len(term) \in Nat BY LenProperties
    <2>2. Len(term) # 0 BY EmptySeq
    <2>3. "_" \in Clean BY LimitsAssumption DEF Clean
    <2>4. \A c \in Chars : c \notin Illegal => c \in Clean BY DEF Clean
    <2>5. raw \in [1 .. Len(term) -> Clean] BY <2>1, <2>3, <2>4 DEF Legalise
    <2> HIDE DEF raw
    <2>6. raw \in Seq(Clean) BY <2>1, <2>5, SeqDef
    <2>7. Len(raw) = Len(term) BY <2>1, <2>5, <2>6, LenProperties
    <2> QED BY <2>1, <2>2, <2>6, <2>7
  <1> HIDE DEF raw
  <1>3. base \in Seq(Clean) /\ Len(base) \in 1 .. NameLimit BY <1>1, <1>2, CutIs
  <1>4. suffix \in Seq(Clean) /\ Len(suffix) = 2
    <2>1. "_" \in Clean /\ ToString(counter) \in Clean BY LimitsAssumption DEF Clean
    <2> QED BY <2>1, OneOrTwo DEF Suffix
  <1> HIDE DEF base, suffix
  <1>5. CASE counter = 1
    <2>1. Legal(base) BY <1>1, <1>3, CleanIsLegal
    <2> QED BY <1>5, <2>1 DEF Candidate, base, raw
  <1>6. CASE counter # 1
    <2> DEFINE front == Cut(base, NameLimit - Len(suffix))
    <2>1. NameLimit - Len(suffix) \in Nat /\ NameLimit - Len(suffix) = NameLimit - 2
          BY <1>1, <1>4
    <2>2. front \in Seq(Clean) /\ Len(front) \in 0 .. NameLimit - 2 BY <1>1, <1>3, <2>1, CutIs
    <2> HIDE DEF front
    <2>3. front \o suffix \in Seq(Clean) /\ Len(front \o suffix) = Len(front) + 2
          BY <1>4, <2>2, Joined
    <2>4. Len(front \o suffix) >= 1 /\ Len(front \o suffix) <= NameLimit BY <1>1, <2>2, <2>3
    <2>5. Legal(front \o suffix) BY <2>3, <2>4, CleanIsLegal
    <2> QED BY <1>6, <2>5 DEF Candidate, base, raw, suffix, front
  <1> QED BY <1>5, <1>6

-----------------------------------------------------------------------------
\* The next sheet of the plan, and the rest of it.
LEMMA NextPlanned ==
  ASSUME NEW kind, BookInv(kind), plan # <<>>
  PROVE  /\ Head(plan) \in Item /\ Planned(kind, Head(plan))
         /\ Tail(plan) \in Seq(Item)
         /\ \A i \in DOMAIN Tail(plan) : Planned(kind, Tail(plan)[i])
  <1>1. plan \in Seq(PlanOf(kind)) BY SeqOfPlanned DEF BookInv, Item
  <1>2. Head(plan) \in PlanOf(kind) /\ Tail(plan) \in Seq(PlanOf(kind))
        BY <1>1, HeadTailProperties
  <1> QED BY <1>2, SeqOfPlanned DEF PlanOf

LEMMA FixedStep ==
  ASSUME NEW kind \in Kinds, BookInv(kind), plan # <<>>, plan' = Tail(plan), WriteFixed
  PROVE  BookInv(kind)'
  <1> DEFINE item == Head(plan)
             new == [title |-> Title[item.sheet], holds |-> item]
  <1>1. item \in Item /\ item.sheet # "term" /\ Planned(kind, item)
        BY NextPlanned DEF WriteFixed
  <1>2. item.sheet \in FixedSheets(kind) /\ item = Fixed(item.sheet)
        BY <1>1 DEF Planned, OfTerm
  <1>3. Legal(new.title) BY <1>2, FixedTitles, TitleAssumption
  <1>4. sheets' = sheets \cup {new} /\ used' = used BY DEF WriteFixed
  <1>5. plan' \in Seq(Item) /\ \A i \in DOMAIN plan' : Planned(kind, plan'[i]) BY NextPlanned
  <1>6. new = [title |-> new.title, holds |-> new.holds] /\ new.holds = item
        /\ new.title = Title[item.sheet]
        OBVIOUS
  <1> HIDE DEF new, item
  <1> QED BY <1>1, <1>2, <1>3, <1>4, <1>5, <1>6 DEF BookInv, Item

LEMMA TermStep ==
  ASSUME NEW kind \in Kinds, BookInv(kind), plan # <<>>, plan' = Tail(plan), WriteTerm
  PROVE  BookInv(kind)'
  <1> DEFINE item == Head(plan)
  <1>1. item \in Item /\ item.sheet = "term" /\ Planned(kind, item)
        BY NextPlanned DEF WriteTerm
  <1>2. item.term \in Seq(Chars) /\ item.term # <<>>
        BY <1>1, FixedTitles DEF Planned, Item
  <1>3. PICK counter \in 1 .. MaxCounter :
          /\ Fold(Candidate(item.term, counter)) \notin used
          /\ used' = used \cup {Fold(Candidate(item.term, counter))}
          /\ sheets' = sheets \cup {[title |-> Candidate(item.term, counter), holds |-> item]}
        BY DEF WriteTerm, Free
  <1> DEFINE title == Candidate(item.term, counter)
             new == [title |-> title, holds |-> item]
  <1>4. Legal(title) BY <1>2, CandidateLegal
  <1>5. plan' \in Seq(Item) /\ \A i \in DOMAIN plan' : Planned(kind, plan'[i]) BY NextPlanned
  <1>6. new = [title |-> new.title, holds |-> new.holds] /\ new.holds = item /\ new.title = title
        OBVIOUS
  <1>7. sheets' = sheets \cup {new} /\ used' = used \cup {Fold(title)} /\ Fold(title) \notin used
        BY <1>3
  <1>8. Reserved(kind) \subseteq used BY DEF BookInv
  <1> HIDE DEF new, item, title
  <1>9. (/\ plan \in Seq([sheet : DOMAIN Title \cup {"term"}, term : Seq(Chars)])
         /\ \A i \in DOMAIN plan : Planned(kind, plan[i]))'
        BY <1>5 DEF Item
  <1>10. Reserved(kind)' \subseteq used' BY <1>7, <1>8 DEF Reserved
  <1>11. \A s \in sheets :
           /\ Legal(s.title) /\ s = [title |-> s.title, holds |-> s.holds]
           /\ \/ /\ s.holds.sheet \in FixedSheets(kind)
                 /\ s.holds = Fixed(s.holds.sheet) /\ s.title = Title[s.holds.sheet]
              \/ /\ s.holds.sheet = "term"
                 /\ Fold(s.title) \in used \ Reserved(kind)
         BY DEF BookInv
  <1>12. /\ Legal(new.title) /\ new.holds.sheet = "term"
         /\ Fold(new.title) \in used' \ Reserved(kind)
         BY <1>1, <1>4, <1>6, <1>7, <1>8
  <1>13. \A s \in sheets' :
           /\ Legal(s.title) /\ s = [title |-> s.title, holds |-> s.holds]
           /\ \/ /\ s.holds.sheet \in FixedSheets(kind)
                 /\ s.holds = Fixed(s.holds.sheet) /\ s.title = Title[s.holds.sheet]
              \/ /\ s.holds.sheet = "term"
                 /\ Fold(s.title) \in used' \ Reserved(kind)
    <2>1. ASSUME NEW s \in sheets
          PROVE  /\ Legal(s.title) /\ s = [title |-> s.title, holds |-> s.holds]
                 /\ \/ /\ s.holds.sheet \in FixedSheets(kind)
                       /\ s.holds = Fixed(s.holds.sheet) /\ s.title = Title[s.holds.sheet]
                    \/ /\ s.holds.sheet = "term"
                       /\ Fold(s.title) \in used' \ Reserved(kind)
          BY <1>7, <1>11
    <2> QED BY <1>6, <1>7, <1>12, <2>1
  <1>14. \A s \in sheets : s.holds.sheet = "term" => Fold(s.title) # Fold(new.title)
    <2>1. \A s \in sheets : s.holds.sheet = "term" => Fold(s.title) \in used
          BY <1>11, FixedTitles
    <2> QED BY <1>6, <1>7, <2>1
  <1>15. \A s, t \in sheets :
           (s.holds.sheet = "term" /\ t.holds.sheet = "term" /\ Fold(s.title) = Fold(t.title))
             => s = t
         BY DEF BookInv
  <1>16. \A s, t \in sheets' :
           (s.holds.sheet = "term" /\ t.holds.sheet = "term" /\ Fold(s.title) = Fold(t.title))
             => s = t
         BY <1>7, <1>14, <1>15
  <1> QED BY <1>9, <1>10, <1>13, <1>16 DEF BookInv, Reserved

LEMMA BookStep ==
  ASSUME NEW kind \in Kinds, BookInv(kind), WriteSheet
  PROVE  BookInv(kind)'
  BY FixedStep, TermStep DEF WriteSheet

\* Sheets whose titles differ by case alone are one sheet.
LEMMA BookWhole ==
  ASSUME NEW kind \in Kinds, BookInv(kind)
  PROVE  WorkbookWhole
  <1>1. ASSUME NEW s \in sheets, NEW t \in sheets, Fold(s.title) = Fold(t.title)
        PROVE  s = t
    <2>1. CASE s.holds.sheet = "term" /\ t.holds.sheet = "term" BY <1>1, <2>1 DEF BookInv
    <2>2. CASE s.holds.sheet # "term" /\ t.holds.sheet # "term"
      <3>1. /\ s.holds.sheet \in FixedSheets(kind) /\ s.holds = Fixed(s.holds.sheet)
            /\ s.title = Title[s.holds.sheet] /\ s = [title |-> s.title, holds |-> s.holds]
            BY <2>2 DEF BookInv
      <3>2. /\ t.holds.sheet \in FixedSheets(kind) /\ t.holds = Fixed(t.holds.sheet)
            /\ t.title = Title[t.holds.sheet] /\ t = [title |-> t.title, holds |-> t.holds]
            BY <2>2 DEF BookInv
      <3>3. s.holds.sheet = t.holds.sheet BY <1>1, <3>1, <3>2, FixedTitles, TitleAssumption
      <3> QED BY <3>1, <3>2, <3>3
    <2>3. \A x, y \in sheets :
            x.holds.sheet = "term" /\ y.holds.sheet # "term" => Fold(x.title) # Fold(y.title)
      <3>1. \A y \in sheets : y.holds.sheet # "term" => Fold(y.title) \in Reserved(kind)
            BY DEF BookInv, Reserved
      <3>2. \A x \in sheets : x.holds.sheet = "term" => Fold(x.title) \notin Reserved(kind)
            BY FixedTitles DEF BookInv
      <3> QED BY <3>1, <3>2
    <2> QED BY <1>1, <2>1, <2>2, <2>3
  <1>2. \A s \in sheets : Legal(s.title) BY DEF BookInv
  <1> QED BY <1>1, <1>2 DEF WorkbookWhole

-----------------------------------------------------------------------------
(* Free titles *)

LEMMA FcnIsSeq ==
  ASSUME NEW S, NEW n \in Nat, NEW f \in [1 .. n -> S]
  PROVE  f \in Seq(S) /\ Len(f) = n
  OBVIOUS

LEMMA JoinedAt ==
  ASSUME NEW S, NEW a \in Seq(S), NEW b \in Seq(S), Len(b) = 2
  PROVE  a \o b \in Seq(S) /\ Len(a \o b) = Len(a) + 2 /\ (a \o b)[Len(a) + 2] = b[2]
  <1>1. Len(a) \in Nat BY LenProperties
  <1>2. a \o b \in Seq(S) /\ Len(a \o b) = Len(a) + Len(b) BY ConcatProperties
  <1>3. \A i \in 1 .. Len(a) + Len(b) : (a \o b)[i] = IF i <= Len(a) THEN a[i] ELSE b[i - Len(a)]
        BY ConcatProperties
  <1> DEFINE n == Len(a)
             last == n + 2
  <1>4. last \in 1 .. n + Len(b) /\ ~ (last <= n) /\ last - n = 2 BY <1>1
  <1> HIDE DEF last
  <1>5. (a \o b)[last] = IF last <= n THEN a[last] ELSE b[last - n]
        BY <1>3, <1>4, Zenon
  <1> QED BY <1>2, <1>4, <1>5 DEF last

\* At most five titles are reserved, and a report has four sheets besides its terms'.
LEMMA BeginFits ==
  ASSUME NEW kind \in Kinds, NEW terms \in Seq(Seq(Chars)), NEW most \in Nat, Len(terms) <= most,
         NEW found, Begin(kind, terms, found)
  PROVE  UsedFits(most + 9)'
  <1> DEFINE fixed == <<"Summary", All(kind), "No_Matches", "Copied_Files",
                        IF kind = "content" THEN "Job_Inventory" ELSE "Summary">>
             name == [i \in 1 .. 5 |-> Fold(Title[fixed[i]])]
  <1>1. used' = {Fold(Title[s]) : s \in FixedSheets(kind)} BY DEF Begin
  <1>2. \A s : s \in FixedSheets(kind) <=> \E i \in 1 .. 5 : fixed[i] = s
    <2>1. FixedSheets(kind) = {fixed[1], fixed[2], fixed[3], fixed[4], fixed[5]}
          BY DEF Kinds, FixedSheets, All
    <2>2. 1 .. 5 = {1, 2, 3, 4, 5} OBVIOUS
    <2> HIDE DEF fixed
    <2> QED BY <2>1, <2>2
  <1>3. name \in Surjection(1 .. 5, used')
    <2> HIDE DEF fixed
    <2>1. \A i \in 1 .. 5 : name[i] \in used' BY <1>1, <1>2
    <2>2. \A t \in used' : \E i \in 1 .. 5 : name[i] = t BY <1>1, <1>2
    <2>3. name \in [1 .. 5 -> used'] BY <2>1
    <2> HIDE DEF name
    <2> QED BY <2>2, <2>3 DEF Surjection
  <1>4. IsFiniteSet(used') /\ Cardinality(used') <= 5 /\ Cardinality(used') \in Nat
    <2>1. IsFiniteSet(1 .. 5) /\ Cardinality(1 .. 5) = 5
      <3>1. 1 \in Int /\ 5 \in Int OBVIOUS
      <3>2. IsFiniteSet(1 .. 5) /\ Cardinality(1 .. 5) = IF 1 > 5 THEN 0 ELSE 5 - 1 + 1
            BY <3>1, FS_Interval
      <3> QED BY <3>2
    <2>2. IsFiniteSet(used') /\ Cardinality(used') <= 5 BY <1>3, <2>1, FS_Surjection
    <2> QED BY <2>2, FS_CardinalityType
  <1>5. Len(plan') \in Nat /\ Len(plan') <= most + 4
    <2>1. PICK extra \in Extras(kind) : plan' = Sheets(kind, terms, found, extra) BY DEF Begin
    <2> DEFINE own == [i \in DOMAIN terms |-> OfTerm(terms[i])]
               matches == IF found = "some" THEN <<Fixed(All(kind))>> \o own
                          ELSE <<Fixed("No_Matches")>>
               last == [i \in DOMAIN extra |-> Fixed(extra[i])]
               AnySheet == {OfTerm(terms[i]) : i \in DOMAIN terms} \cup {Fixed(s) : s \in FixedSheets(kind)}
                      \cup {Fixed(extra[i]) : i \in DOMAIN extra}
    <2>2. Len(terms) \in Nat /\ DOMAIN terms = 1 .. Len(terms) OBVIOUS
    <2>3. own \in Seq(AnySheet) /\ Len(own) = Len(terms)
      <3>1. own \in [1 .. Len(terms) -> AnySheet] BY <2>2
      <3> HIDE DEF own, AnySheet
      <3> QED BY <2>2, <3>1, FcnIsSeq
    <2>4. last \in Seq(AnySheet) /\ Len(last) <= 2 /\ Len(last) \in Nat
      <3>1. extra \in {<<>>, <<"Copied_Files">>, <<"Job_Inventory">>,
                       <<"Job_Inventory", "Copied_Files">>}
            BY DEF Extras
      <3>2. DOMAIN extra = 1 .. Len(extra) /\ Len(extra) \in {0, 1, 2} BY <3>1
      <3>3. last \in [1 .. Len(extra) -> AnySheet] BY <3>2
      <3>4. Len(extra) \in Nat BY <3>2
      <3> HIDE DEF last, AnySheet
      <3>5. last \in Seq(AnySheet) /\ Len(last) = Len(extra) BY <3>3, <3>4, FcnIsSeq
      <3> QED BY <3>2, <3>5
    <2>5. /\ Fixed("Summary") \in AnySheet /\ Fixed("No_Matches") \in AnySheet /\ Fixed(All(kind)) \in AnySheet
          BY FixedTitles
    <2>6. matches \in Seq(AnySheet) /\ Len(matches) \in Nat /\ Len(matches) <= most + 1
      <3> HIDE DEF own, AnySheet
      <3>1. <<Fixed(All(kind))>> \in Seq(AnySheet) /\ Len(<<Fixed(All(kind))>>) = 1
            /\ <<Fixed("No_Matches")>> \in Seq(AnySheet) /\ Len(<<Fixed("No_Matches")>>) = 1
            BY <2>5
      <3>2. /\ <<Fixed(All(kind))>> \o own \in Seq(AnySheet)
            /\ Len(<<Fixed(All(kind))>> \o own) = 1 + Len(own)
            BY <2>3, <3>1, Joined
      <3> QED BY <2>2, <2>3, <3>1, <3>2
    <2>7. plan' = <<Fixed("Summary")>> \o matches \o last BY <2>1 DEF Sheets
    <2> HIDE DEF own, matches, last, AnySheet
    <2>8. <<Fixed("Summary")>> \in Seq(AnySheet) /\ Len(<<Fixed("Summary")>>) = 1 BY <2>5
    <2>9. /\ <<Fixed("Summary")>> \o matches \in Seq(AnySheet)
          /\ Len(<<Fixed("Summary")>> \o matches) = 1 + Len(matches)
          BY <2>6, <2>8, Joined
    <2>10. Len(plan') = 1 + Len(matches) + Len(last) BY <2>4, <2>7, <2>9, Joined
    <2> QED BY <2>4, <2>6, <2>10
  <1>6. Cardinality(used') + Len(plan') <= most + 9 BY <1>4, <1>5
  <1> QED BY <1>4, <1>6 DEF UsedFits

\* A sheet that is written takes one title at most.
LEMMA FitsStep ==
  ASSUME NEW kind, BookInv(kind), NEW limit \in Nat, UsedFits(limit), WriteSheet
  PROVE  UsedFits(limit)'
  <1>1. plan # <<>> /\ plan' = Tail(plan) BY DEF WriteSheet
  <1>2. plan \in Seq(Item) BY DEF BookInv, Item
  <1>3. Len(plan) \in Nat /\ Len(plan') \in Nat /\ Len(plan') = Len(plan) - 1
        BY <1>1, <1>2, HeadTailProperties, EmptySeq
  <1>4. \E title : used' \in {used, used \cup {title}} BY DEF WriteSheet, WriteFixed, WriteTerm
  <1>5. IsFiniteSet(used) /\ Cardinality(used) + Len(plan) <= limit BY DEF UsedFits
  <1>6. /\ IsFiniteSet(used') /\ Cardinality(used) \in Nat
        /\ Cardinality(used') \in {Cardinality(used), Cardinality(used) + 1}
        BY <1>4, <1>5, FS_AddElement, FS_CardinalityType
  <1>7. Cardinality(used') + Len(plan') <= limit BY <1>3, <1>5, <1>6
  <1> QED BY <1>6, <1>7 DEF UsedFits

\* The titles tried for a term after the first end with their numbers.
LEMMA CandidateEnds ==
  ASSUME NEW term \in Seq(Chars), NEW counter \in 2 .. MaxCounter
  PROVE  \E n \in Nat \ {0} :
           /\ DOMAIN Fold(Candidate(term, counter)) = 1 .. n
           /\ Fold(Candidate(term, counter))[n] = Lower[ToString(counter)]
  <1> DEFINE S == Chars \cup {"_", ToString(counter)}
             base == Cut(Legalise(term), NameLimit)
             front == Cut(base, NameLimit - Len(Suffix(counter)))
  <1>1. NameLimit \in Nat /\ NameLimit >= 2 /\ NameLimit - 2 \in Nat
    <2>1. NameLimit \in Nat /\ NameLimit >= 2 BY LimitsAssumption
    <2> QED BY <2>1
  <1>2. Legalise(term) \in Seq(S)
    <2>1. term \in [1 .. Len(term) -> Chars] /\ Len(term) \in Nat BY LenProperties
    <2>2. Legalise(term) \in [1 .. Len(term) -> S] BY <2>1 DEF Legalise
    <2> HIDE DEF S
    <2> QED BY <2>1, <2>2, SeqDef
  <1>3. Suffix(counter) = <<"_", ToString(counter)>> /\ Len(Suffix(counter)) = 2 BY DEF Suffix
  <1>4. base \in Seq(S)
    <2> HIDE DEF S
    <2> QED BY <1>1, <1>2, CutIs
  <1>5. front \in Seq(S)
    <2> HIDE DEF S, base
    <2> QED BY <1>1, <1>3, <1>4, CutIs
  <1>6. Candidate(term, counter) = front \o Suffix(counter)
    <2>1. counter # 1 OBVIOUS
    <2> QED BY <2>1 DEF Candidate
  <1>7. Suffix(counter) \in Seq(S) /\ Suffix(counter)[2] = ToString(counter)
    <2>1. "_" \in S /\ ToString(counter) \in S OBVIOUS
    <2> HIDE DEF S
    <2>2. <<"_", ToString(counter)>> \in Seq(S) BY <2>1, OneOrTwo
    <2>3. <<"_", ToString(counter)>>[2] = ToString(counter) OBVIOUS
    <2> QED BY <1>3, <2>2, <2>3, Zenon
  <1> HIDE DEF front, S
  <1> DEFINE title == front \o Suffix(counter)
             n == Len(front) + 2
  <1>8. n \in Nat \ {0} /\ Len(front) \in Nat BY <1>5
  <1>9. title \in Seq(S) /\ Len(title) = n /\ title[n] = ToString(counter)
    <2>1. /\ title \in Seq(S) /\ Len(title) = Len(front) + 2
          /\ title[Len(front) + 2] = Suffix(counter)[2]
      <3> DEFINE suffix == Suffix(counter)
      <3>1. suffix \in Seq(S) /\ Len(suffix) = 2 BY <1>3, <1>7
      <3> HIDE DEF suffix
      <3>2. /\ front \o suffix \in Seq(S) /\ Len(front \o suffix) = Len(front) + 2
            /\ (front \o suffix)[Len(front) + 2] = suffix[2]
            BY <1>5, <1>8, <3>1, JoinedAt
      <3> QED BY <3>2 DEF suffix
    <2> QED BY <1>7, <2>1
  <1> HIDE DEF title, n
  <1>10. DOMAIN title = 1 .. n BY <1>9
  <1>11. DOMAIN Fold(title) = 1 .. n /\ Fold(title)[n] = Lower[ToString(counter)]
         BY <1>8, <1>9, <1>10 DEF Fold
  <1> QED BY <1>6, <1>8, <1>11 DEF title

\* Fewer titles are taken than are tried, and no two tries after the first are the same.
LEMMA TitleIsFree ==
  ASSUME NEW kind \in Kinds, BookInv(kind), NEW limit \in Nat, UsedFits(limit), MaxCounter > limit
  PROVE  TitleFree
  <1>1. SUFFICES ASSUME plan # <<>>, Head(plan).sheet = "term",
                        \A counter \in 1 .. MaxCounter : ~ Free(Head(plan).term, counter)
                 PROVE  FALSE
        BY DEF TitleFree
  <1> DEFINE term == Head(plan).term
             tried == [counter \in 2 .. MaxCounter |-> Fold(Candidate(term, counter))]
  <1>2. plan \in Seq(Item) BY DEF BookInv, Item
  <1>3. term \in Seq(Chars)
    <2>1. Head(plan) \in Item BY <1>1, NextPlanned
    <2> QED BY <2>1 DEF Item
  <1> HIDE DEF term
  <1>4. MaxCounter \in Nat BY LimitsAssumption
  <1>5. \A counter \in 2 .. MaxCounter : tried[counter] \in used
    <2>1. \A counter \in 2 .. MaxCounter : counter \in 1 .. MaxCounter BY <1>4
    <2> QED BY <1>1, <2>1 DEF Free, term
  <1>6. \A c, d \in 2 .. MaxCounter : tried[c] = tried[d] => c = d
    <2>1. SUFFICES ASSUME NEW c \in 2 .. MaxCounter, NEW d \in 2 .. MaxCounter,
                          Fold(Candidate(term, c)) = Fold(Candidate(term, d))
                   PROVE  c = d
          OBVIOUS
    <2>2. PICK m \in Nat \ {0} :
            /\ DOMAIN Fold(Candidate(term, c)) = 1 .. m
            /\ Fold(Candidate(term, c))[m] = Lower[ToString(c)]
          BY <1>3, CandidateEnds
    <2>3. PICK n \in Nat \ {0} :
            /\ DOMAIN Fold(Candidate(term, d)) = 1 .. n
            /\ Fold(Candidate(term, d))[n] = Lower[ToString(d)]
          BY <1>3, CandidateEnds
    <2>4. m = n
      <3>1. 1 .. m = 1 .. n BY <2>1, <2>2, <2>3
      <3>2. m \in 1 .. n /\ n \in 1 .. m BY <3>1
      <3> QED BY <3>2
    <2>5. Lower[ToString(c)] = Lower[ToString(d)] BY <2>1, <2>2, <2>3, <2>4
    <2>6. c \in 1 .. MaxCounter /\ d \in 1 .. MaxCounter BY <1>4
    <2> QED BY <2>5, <2>6, DigitsAssumption
  <1>7. tried \in Injection(2 .. MaxCounter, used)
    <2>1. tried \in [2 .. MaxCounter -> used] BY <1>5
    <2>2. DOMAIN tried = 2 .. MaxCounter OBVIOUS
    <2> HIDE DEF tried
    <2> QED BY <1>6, <2>1, <2>2 DEF Injection, IsInjective
  <1>8. IsFiniteSet(used) /\ Cardinality(used) + Len(plan) <= limit BY DEF UsedFits
  <1>9. Cardinality(2 .. MaxCounter) <= Cardinality(used) BY <1>7, <1>8, FS_Injection
  <1>10. Cardinality(2 .. MaxCounter) >= MaxCounter - 1
    <2>1. 2 \in Int /\ MaxCounter \in Int BY <1>4
    <2>2. Cardinality(2 .. MaxCounter) = IF 2 > MaxCounter THEN 0 ELSE MaxCounter - 2 + 1
          BY <2>1, FS_Interval
    <2> QED BY <1>4, <2>2
  <1>11. Len(plan) \in Nat /\ Len(plan) >= 1 BY <1>1, <1>2, EmptySeq
  <1>12. Cardinality(used) \in Nat /\ Cardinality(2 .. MaxCounter) \in Int
    <2>1. Cardinality(used) \in Nat BY <1>8, FS_CardinalityType
    <2>2. 2 \in Int /\ MaxCounter \in Int BY <1>4
    <2>3. IsFiniteSet(2 .. MaxCounter) BY <2>2, FS_Interval
    <2> QED BY <2>1, <2>3, FS_CardinalityType
  <1> QED BY <1>4, <1>8, <1>9, <1>10, <1>11, <1>12
=============================================================================

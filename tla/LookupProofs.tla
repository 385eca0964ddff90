----------------------------- MODULE LookupProofs -----------------------------
(***************************************************************************)
(* Requests and the lookup of DAGs, for any words: what strip and lower    *)
(* leave of a path, what the test of a request admits, and what bisection  *)
(* finds in the sorted index of reversed paths.                            *)
(***************************************************************************)
EXTENDS RequestPolicy, DagLookup, FiniteSetTheorems, SequenceTheorems, WellFoundedInduction, TLAPS

-----------------------------------------------------------------------------
(* Numbers and words *)

Words == Seq(Chars)

LEMMA Least ==
  ASSUME NEW T \in SUBSET Nat, T # {}
  PROVE  \E m \in T : \A n \in T : m <= n
  <1>1. PICK x \in T : \A y \in T : ~ (<<y, x>> \in OpToRel(<, Nat))
        BY NatLessThanWellFounded, WFMin, Zenon
  <1>2. \A y \in T : ~ (y < x) BY <1>1, Zenon DEF OpToRel
  <1> QED BY <1>2

LEMMA Greatest ==
  ASSUME NEW n \in Nat, NEW T \in SUBSET (0 .. n), T # {}
  PROVE  \E m \in T : \A i \in T : i <= m
  <1> DEFINE rest == {n - i : i \in T}
  <1>1. rest \in SUBSET Nat /\ rest # {}
    <2>1. \A i \in T : n - i \in Nat OBVIOUS
    <2>2. PICK i \in T : TRUE OBVIOUS
    <2>3. n - i \in rest OBVIOUS
    <2> QED BY <2>1, <2>3
  <1>2. PICK l \in rest : \A i \in rest : l <= i
    <2> HIDE DEF rest
    <2> QED BY <1>1, Least
  <1>3. PICK m \in T : l = n - m BY <1>2
  <1>4. \A i \in T : n - m <= n - i BY <1>2, <1>3
  <1> QED BY <1>3, <1>4

LEMMA MinMaxIs ==
  ASSUME NEW n \in Nat, NEW T \in SUBSET (1 .. n), T # {}
  PROVE  /\ Min(T) \in T /\ \A i \in T : Min(T) <= i
         /\ Max(T) \in T /\ \A i \in T : i <= Max(T)
  <1>1. T \in SUBSET Nat /\ T \in SUBSET (0 .. n) OBVIOUS
  <1>2. (\E m \in T : \A i \in T : m <= i) /\ \E m \in T : \A i \in T : i <= m
        BY <1>1, Least, Greatest
  <1>3. Min(T) \in T /\ \A i \in T : Min(T) <= i BY <1>2, Zenon DEF Min
  <1>4. Max(T) \in T /\ \A i \in T : i <= Max(T)
    <2>1. \E m \in T : \A i \in T : m >= i BY <1>1, <1>2
    <2>2. Max(T) \in T /\ \A i \in T : Max(T) >= i BY <2>1, Zenon DEF Max
    <2> QED BY <1>1, <2>2
  <1> QED BY <1>3, <1>4

LEMMA NatOrder == \A a, b \in Nat : a # b => (a < b \/ b < a) /\ (a <= b => a + 1 <= b)
  OBVIOUS

LEMMA SameWord ==
  ASSUME NEW s \in Words, NEW t \in Words, Len(s) = Len(t), \A i \in 1 .. Len(s) : s[i] = t[i]
  PROVE  s = t
  BY DEF Words

LEMMA PrefixIs ==
  ASSUME NEW s \in Words, NEW t \in Words
  PROVE  IsPrefix(s, t) <=> Len(s) <= Len(t) /\ \A i \in 1 .. Len(s) : s[i] = t[i]
  <1>1. CASE Len(s) <= Len(t)
    <2>1. /\ SubSeq(s, 1, Len(s)) \in Words /\ Len(SubSeq(s, 1, Len(s))) = Len(s)
          /\ SubSeq(t, 1, Len(s)) \in Words /\ Len(SubSeq(t, 1, Len(s))) = Len(s)
          /\ \A i \in 1 .. Len(s) : SubSeq(s, 1, Len(s))[i] = s[i] /\ SubSeq(t, 1, Len(s))[i] = t[i]
          BY <1>1 DEF Words
    <2>2. (\A i \in 1 .. Len(s) : s[i] = t[i]) => SubSeq(s, 1, Len(s)) = SubSeq(t, 1, Len(s))
          BY <2>1, SameWord
    <2> QED BY <1>1, <2>1, <2>2 DEF IsPrefix
  <1> QED BY <1>1 DEF IsPrefix

LEMMA PrefixTransitive ==
  ASSUME NEW s \in Words, NEW t \in Words, NEW u \in Words, IsPrefix(s, t), IsPrefix(t, u)
  PROVE  IsPrefix(s, u)
  <1>1. /\ Len(s) \in Nat /\ Len(t) \in Nat /\ Len(u) \in Nat BY DEF Words
  <1>2. Len(s) <= Len(t) /\ \A i \in 1 .. Len(s) : s[i] = t[i] BY PrefixIs
  <1>3. Len(t) <= Len(u) /\ \A i \in 1 .. Len(t) : t[i] = u[i] BY PrefixIs
  <1>4. Len(s) <= Len(u) /\ \A i \in 1 .. Len(s) : s[i] = u[i] BY <1>1, <1>2, <1>3
  <1> QED BY <1>4, PrefixIs

LEMMA ConcatIs ==
  ASSUME NEW s \in Words, NEW t \in Words
  PROVE  /\ s \o t \in Words /\ Len(s \o t) = Len(s) + Len(t)
         /\ \A i \in 1 .. Len(s) : (s \o t)[i] = s[i]
         /\ \A i \in 1 .. Len(t) : (s \o t)[Len(s) + i] = t[i]
         /\ IsPrefix(s, s \o t)
  <1>1. /\ s \o t \in Words /\ Len(s \o t) = Len(s) + Len(t)
        /\ \A i \in 1 .. Len(s) : (s \o t)[i] = s[i]
        /\ \A i \in 1 .. Len(t) : (s \o t)[Len(s) + i] = t[i]
        /\ Len(s) \in Nat /\ Len(t) \in Nat
        BY DEF Words
  <1>2. Len(s) <= Len(s \o t) BY <1>1
  <1> QED BY <1>1, <1>2, PrefixIs

LEMMA SlashWord ==
  ASSUME NEW s \in Words
  PROVE  Append(s, "/") \in Words /\ IsPrefix(s, Append(s, "/"))
  <1>1. Append(s, "/") = s \o <<"/">> /\ <<"/">> \in Words BY SlashAssumption DEF Words
  <1> QED BY <1>1, ConcatIs

LEMMA SubWord ==
  ASSUME NEW s \in Words, NEW a \in 1 .. Len(s), NEW b \in 1 .. Len(s), a <= b
  PROVE  /\ SubSeq(s, a, b) \in Words /\ Len(SubSeq(s, a, b)) = b - a + 1
         /\ SubSeq(s, a, b)[1] = s[a] /\ SubSeq(s, a, b)[b - a + 1] = s[b]
         /\ SubSeq(s, 1, Len(s)) = s
  <1>1. a \in Int /\ b \in Int /\ Len(s) \in Nat /\ \A i \in 1 .. Len(s) : s[i] \in Chars
        BY DEF Words
  <1>2. \A i \in a .. b : s[i] \in Chars BY <1>1
  <1>3. /\ SubSeq(s, a, b) \in Seq(Chars) /\ Len(SubSeq(s, a, b)) = b - a + 1
        /\ \A i \in 1 .. b - a + 1 : SubSeq(s, a, b)[i] = s[a + i - 1]
        BY <1>1, <1>2, SubSeqProperties
  <1>4. /\ 1 \in 1 .. b - a + 1 /\ b - a + 1 \in 1 .. b - a + 1
        /\ a + 1 - 1 = a /\ a + (b - a + 1) - 1 = b
        BY <1>1
  <1>5. SubSeq(s, 1, Len(s)) = s
    <2>1. /\ SubSeq(s, 1, Len(s)) \in Seq(Chars) /\ Len(SubSeq(s, 1, Len(s))) = Len(s)
          /\ \A i \in 1 .. Len(s) : SubSeq(s, 1, Len(s))[i] = s[i]
          BY <1>1 DEF Words
    <2> QED BY <2>1, SameWord DEF Words
  <1> QED BY <1>3, <1>4, <1>5 DEF Words

LEMMA ReverseIs ==
  ASSUME NEW s \in Words
  PROVE  /\ Reverse(s) \in Words /\ Len(Reverse(s)) = Len(s)
         /\ \A i \in 1 .. Len(s) : Reverse(s)[i] = s[Len(s) - i + 1]
         /\ Reverse(Reverse(s)) = s
  <1>1. /\ Len(s) \in Nat /\ s \in [1 .. Len(s) -> Chars] BY DEF Words
  <1>2. ASSUME NEW t \in Words
        PROVE  /\ Reverse(t) \in Words /\ Len(Reverse(t)) = Len(t)
               /\ \A i \in 1 .. Len(t) : Reverse(t)[i] = t[Len(t) - i + 1]
    <2>1. Len(t) \in Nat /\ \A i \in 1 .. Len(t) : Len(t) - i + 1 \in 1 .. Len(t) BY DEF Words
    <2>2. t \in [1 .. Len(t) -> Chars] BY DEF Words
    <2>3. Reverse(t) \in [1 .. Len(t) -> Chars] BY <2>1, <2>2 DEF Reverse
    <2> QED BY <2>1, <2>3 DEF Words, Reverse
  <1>3. Reverse(Reverse(s)) = s
    <2>1. \A i \in 1 .. Len(s) : Reverse(Reverse(s))[i] = s[i]
      <3>1. SUFFICES ASSUME NEW i \in 1 .. Len(s) PROVE Reverse(Reverse(s))[i] = s[i] OBVIOUS
      <3>2. Len(s) - i + 1 \in 1 .. Len(s) /\ Len(s) - (Len(s) - i + 1) + 1 = i BY <1>1
      <3>3. Reverse(Reverse(s))[i] = Reverse(s)[Len(s) - i + 1] BY <1>2
      <3>4. Reverse(s)[Len(s) - i + 1] = s[Len(s) - (Len(s) - i + 1) + 1] BY <1>2, <3>2
      <3> QED BY <3>2, <3>3, <3>4
    <2>2. Reverse(Reverse(s)) \in Words /\ Len(Reverse(Reverse(s))) = Len(s) BY <1>2
    <2> QED BY <2>1, <2>2, SameWord
  <1> QED BY <1>2, <1>3

LEMMA ReverseOne == ASSUME NEW s \in Words, NEW t \in Words, Reverse(s) = Reverse(t) PROVE s = t
  BY ReverseIs

\* A path without slashes around it.
Trim(s) == s \in Words /\ (s = <<>> \/ (s[1] # "/" /\ s[Len(s)] # "/"))

\* strip takes the slashes off both ends, and leaves a path without them alone.
LEMMA StripIs ==
  ASSUME NEW s \in Words
  PROVE  Trim(Strip(s)) /\ (Trim(s) => Strip(s) = s)
  <1> DEFINE kept == {i \in DOMAIN s : s[i] # "/"}
  <1>1. Len(s) \in Nat /\ DOMAIN s = 1 .. Len(s) BY DEF Words
  <1>2. kept \in SUBSET (1 .. Len(s)) /\ \A i \in kept : s[i] # "/" BY <1>1
  <1>3. CASE kept = {}
    <2>1. Strip(s) = <<>> BY <1>3 DEF Strip
    <2>2. <<>> \in Words BY DEF Words
    <2>3. ASSUME Trim(s), s # <<>> PROVE FALSE
      <3>1. s[1] # "/" BY <2>3 DEF Trim
      <3>2. Len(s) # 0 BY <2>3, EmptySeq DEF Words
      <3>3. 1 \in kept BY <1>1, <3>1, <3>2
      <3> QED BY <1>3, <3>3
    <2> QED BY <2>1, <2>2, <2>3 DEF Trim
  <1>4. CASE kept # {}
    <2> DEFINE a == Min(kept)
               b == Max(kept)
    <2>1. Strip(s) = SubSeq(s, a, b) BY <1>4 DEF Strip
    <2> HIDE DEF kept
    <2>2. a \in kept /\ b \in kept /\ (\A i \in kept : a <= i) /\ (\A i \in kept : i <= b)
          BY <1>1, <1>2, <1>4, MinMaxIs
    <2> HIDE DEF a, b
    <2>3. a \in 1 .. Len(s) /\ b \in 1 .. Len(s) /\ a <= b /\ s[a] # "/" /\ s[b] # "/"
          BY <1>2, <2>2
    <2>4. /\ SubSeq(s, a, b) \in Words /\ Len(SubSeq(s, a, b)) = b - a + 1
          /\ SubSeq(s, a, b)[1] = s[a] /\ SubSeq(s, a, b)[b - a + 1] = s[b]
          /\ SubSeq(s, 1, Len(s)) = s
          BY <2>3, SubWord
    <2>5. Trim(Strip(s)) BY <2>1, <2>3, <2>4 DEF Trim
    <2>6. ASSUME Trim(s) PROVE Strip(s) = s
      <3>1. s # <<>> BY <1>1, <2>3
      <3>2. s[1] # "/" /\ s[Len(s)] # "/" BY <2>6, <3>1 DEF Trim
      <3>3. 1 \in kept /\ Len(s) \in kept BY <1>1, <2>3, <3>2 DEF kept
      <3>4. a <= 1 /\ Len(s) <= b BY <2>2, <3>3
      <3>5. a = 1 /\ b = Len(s)
        <4>1. a \in Nat /\ 1 <= a /\ b \in Nat /\ b <= Len(s) /\ Len(s) \in Nat BY <1>1, <2>3
        <4>2. \A x, y \in Nat : x <= y /\ y <= x => x = y OBVIOUS
        <4> QED BY <3>4, <4>1, <4>2
      <3> QED BY <2>1, <2>4, <3>5
    <2> QED BY <2>5, <2>6
  <1> QED BY <1>3, <1>4

LEMMA FoldIs ==
  ASSUME NEW s \in Words
  PROVE  /\ Fold(s) \in Words /\ Len(Fold(s)) = Len(s)
         /\ \A i \in 1 .. Len(s) : Fold(s)[i] = Lower[s[i]]
  <1>1. Len(s) \in Nat /\ s \in [1 .. Len(s) -> Chars] BY DEF Words
  <1>2. Fold(s) \in [1 .. Len(s) -> Chars] BY <1>1, LowerAssumption DEF Fold
  <1> QED BY <1>1, <1>2 DEF Fold, Words

LEMMA FoldPrefix ==
  ASSUME NEW s \in Words, NEW t \in Words, IsPrefix(s, t)
  PROVE  IsPrefix(Fold(s), Fold(t))
  <1>1. /\ Len(s) \in Nat /\ Len(t) \in Nat BY DEF Words
  <1>2. Len(s) <= Len(t) /\ \A i \in 1 .. Len(s) : s[i] = t[i] BY PrefixIs
  <1>3. /\ Fold(s) \in Words /\ Len(Fold(s)) = Len(s) /\ Fold(t) \in Words /\ Len(Fold(t)) = Len(t)
        /\ \A i \in 1 .. Len(s) : Fold(s)[i] = Lower[s[i]]
        /\ \A i \in 1 .. Len(t) : Fold(t)[i] = Lower[t[i]]
        BY FoldIs
  <1>4. \A i \in 1 .. Len(s) : Fold(s)[i] = Fold(t)[i] BY <1>1, <1>2, <1>3
  <1> QED BY <1>2, <1>3, <1>4, PrefixIs

\* What lies below a root begins with it, and what extends it by whole segments
\* lies below it too.
LEMMA UnderIs ==
  ASSUME NEW s \in Words, NEW root \in Words, Under(s, root)
  PROVE  /\ IsPrefix(root, s)
         /\ \A t \in Words : IsPrefix(Append(s, "/"), t) => Under(t, root)
  <1>1. Append(s, "/") \in Words /\ IsPrefix(s, Append(s, "/")) BY SlashWord
  <1>2. Append(root, "/") \in Words /\ IsPrefix(root, Append(root, "/")) BY SlashWord
  <1>3. CASE root = <<>>
    <2>1. <<>> \in Words /\ Len(<<>>) = 0 /\ Len(s) \in Nat BY DEF Words
    <2>2. IsPrefix(<<>>, s) BY <2>1, PrefixIs
    <2> QED BY <1>3, <2>2 DEF Under
  <1>4. CASE s = root
    <2>1. IsPrefix(s, s) BY PrefixIs DEF Words
    <2> QED BY <1>4, <2>1 DEF Under
  <1>5. CASE IsPrefix(Append(root, "/"), s)
    <2>1. IsPrefix(root, s) BY <1>2, <1>5, PrefixTransitive
    <2>2. ASSUME NEW t \in Words, IsPrefix(Append(s, "/"), t) PROVE Under(t, root)
      <3>1. IsPrefix(s, t) BY <1>1, <2>2, PrefixTransitive
      <3>2. IsPrefix(Append(root, "/"), t) BY <1>2, <1>5, <3>1, PrefixTransitive
      <3> QED BY <3>2 DEF Under
    <2> QED BY <2>1, <2>2
  <1> QED BY <1>3, <1>4, <1>5 DEF Under

-----------------------------------------------------------------------------
(* Requests *)

LEMMA WithinIs ==
  ASSUME NEW row \in Place, NEW root \in Place, Within(row, root), row.prefix = Strip(row.prefix)
  PROVE  /\ row.prefix \in Words /\ Trim(row.prefix) /\ Strip(root.prefix) \in Words
         /\ SameBucket(row, root)
         /\ Under(Fold(row.prefix), Fold(Strip(root.prefix)))
  <1>1. row.prefix \in Words /\ root.prefix \in Words BY DEF Place, Words
  <1>2. Trim(Strip(row.prefix)) /\ Trim(Strip(root.prefix)) BY <1>1, StripIs
  <1> QED BY <1>1, <1>2 DEF Within, Trim

\* The folder of a job is the place it asked for, one segment further.
LEMMA CopyRootIs ==
  ASSUME NEW copy, Trim(copy.prefix)
  PROVE  /\ CopyRoot(copy) \in Words
         /\ copy.prefix # <<>> => IsPrefix(Append(copy.prefix, "/"), CopyRoot(copy))
  <1> DEFINE p == copy.prefix
             tail == <<"/">> \o JobFolder
             whole == p \o <<"/">> \o JobFolder
  <1>1. JobFolder \in Words /\ <<"/">> \in Words /\ JobFolder = <<"j">>
        BY JobFolderAssumption, SlashAssumption DEF JobFolder, Words
  <1>2. p \in Words /\ Strip(p) = p BY StripIs DEF Trim
  <1>3. p \o <<"/">> \in Words /\ p \o <<"/">> = Append(p, "/") BY <1>1, <1>2, ConcatIs DEF Words
  <1>4. whole \in Words /\ IsPrefix(Append(p, "/"), whole)
    <2> HIDE DEF p
    <2>1. Append(p, "/") \o JobFolder \in Words
          /\ IsPrefix(Append(p, "/"), Append(p, "/") \o JobFolder)
          BY <1>1, <1>3, ConcatIs
    <2> QED BY <1>3, <2>1
  <1>5. CopyRoot(copy) = Strip(whole) BY <1>2 DEF CopyRoot
  <1> HIDE DEF whole, p
  <1>6. Strip(whole) \in Words BY <1>4, StripIs DEF Trim
  <1>7. ASSUME p # <<>> PROVE Strip(whole) = whole
    <2>1. /\ Len(p) \in Nat /\ Len(p) >= 1
          BY <1>2, <1>7, EmptySeq DEF Words
    <2>2. p[1] # "/" BY <1>7 DEF Trim, p
    <2>3. /\ Append(p, "/") \in Words /\ Len(Append(p, "/")) = Len(p) + 1
          /\ Append(p, "/")[1] = p[1]
          BY <1>2, <1>3, <2>1 DEF Words
    <2>4. whole = Append(p, "/") \o JobFolder BY <1>3 DEF whole
    <2>5. Len(JobFolder) = 1 /\ JobFolder[1] = "j" BY <1>1
    <2>6. /\ Len(whole) = Len(p) + 2 /\ whole[1] = p[1] /\ whole[Len(p) + 2] = "j"
      <3>1. /\ Len(whole) = (Len(p) + 1) + 1
            /\ \A i \in 1 .. Len(p) + 1 : whole[i] = Append(p, "/")[i]
            /\ whole[(Len(p) + 1) + 1] = JobFolder[1]
            BY <1>1, <2>3, <2>4, <2>5, ConcatIs
      <3>2. 1 \in 1 .. Len(p) + 1 /\ (Len(p) + 1) + 1 = Len(p) + 2 BY <2>1
      <3> QED BY <2>3, <2>5, <3>1, <3>2
    <2>7. whole[1] # "/" /\ whole[Len(whole)] # "/" BY <2>2, <2>6
    <2>8. Trim(whole) BY <1>4, <2>7 DEF Trim
    <2> QED BY <1>4, <2>8, StripIs
  <1> QED BY <1>4, <1>5, <1>6, <1>7 DEF p

LEMMA PolicyPlaces ==
  ASSUME PolicyInv
  PROVE  (\A k \in DOMAIN policy.buckets : policy.buckets[k] \in Place) /\ policy.targets \subseteq Place
  <1>1. CASE policy = NoPolicy
    <2>1. policy.buckets = <<>> /\ policy.targets = {} BY <1>1 DEF NoPolicy
    <2> QED BY <2>1
  <1>2. CASE policy \in Policies
    <2>1. policy.buckets \in Seq(Place) /\ policy.targets \subseteq Place BY <1>2, PlacesAssumption
    <2> QED BY <2>1
  <1> QED BY <1>1, <1>2 DEF PolicyInv

\* Every row has passed the test against one of the roots.
LEMMA RowWithin ==
  ASSUME PolicyInv, NEW i \in DOMAIN request.rows
  PROVE  \E k \in DOMAIN policy.buckets :
           /\ policy.buckets[k] \in Place /\ request.rows[i] \in Place
           /\ Within(request.rows[i], policy.buckets[k])
           /\ request.rows[i].prefix = Strip(request.rows[i].prefix)
  BY PolicyPlaces DEF PolicyInv

LEMMA PolicyWithin == ASSUME PolicyInv PROVE WithinPolicy
  <1>2. \A i \in DOMAIN request.rows : \E k \in DOMAIN policy.buckets :
          /\ SameBucket(request.rows[i], policy.buckets[k])
          /\ Under(Fold(request.rows[i].prefix), Fold(Strip(policy.buckets[k].prefix)))
        BY RowWithin, WithinIs
  <1>3. ASSUME NEW c \in request.copy
        PROVE  \E target \in policy.targets :
                 SameBucket(c, target) /\ Under(Fold(CopyRoot(c)), Fold(Strip(target.prefix)))
    <2>1. PICK target \in policy.targets :
            c \in Place /\ target \in Place /\ c.prefix = Strip(c.prefix) /\ Within(c, target)
          BY PolicyPlaces DEF PolicyInv
    <2> DEFINE p == c.prefix
               root == Strip(target.prefix)
    <2>2. /\ p \in Words /\ Trim(p) /\ root \in Words /\ SameBucket(c, target)
          /\ Under(Fold(p), Fold(root))
          BY <2>1, WithinIs
    <2>3. CopyRoot(c) \in Words /\ (p # <<>> => IsPrefix(Append(p, "/"), CopyRoot(c)))
          BY <2>2, CopyRootIs
    <2> HIDE DEF p, root
    <2>4. Fold(p) \in Words /\ Fold(root) \in Words /\ Fold(CopyRoot(c)) \in Words
          BY <2>2, <2>3, FoldIs
    <2>5. CASE p = <<>>
      <3>1. Len(Fold(p)) = 0 BY <2>2, <2>5, FoldIs
      <3>2. IsPrefix(Fold(root), Fold(p)) BY <2>2, <2>4, UnderIs
      <3>3. Len(Fold(root)) = 0 /\ Fold(root) = <<>>
        <4>1. Len(Fold(root)) <= Len(Fold(p)) BY <2>4, <3>2, PrefixIs
        <4>2. Len(Fold(root)) \in Nat BY <2>4 DEF Words
        <4>3. Len(Fold(root)) = 0 BY <3>1, <4>1, <4>2
        <4> QED BY <2>4, <4>3, EmptySeq DEF Words
      <3>4. Under(Fold(CopyRoot(c)), Fold(root)) BY <3>3 DEF Under
      <3> QED BY <2>2, <3>4 DEF root
    <2>6. CASE p # <<>>
      <3>1. Append(p, "/") \in Words BY <2>2, SlashWord
      <3>2. IsPrefix(Fold(Append(p, "/")), Fold(CopyRoot(c))) BY <2>3, <2>6, <3>1, FoldPrefix
      <3>3. Fold(Append(p, "/")) = Append(Fold(p), "/")
        <4>1. /\ Len(p) \in Nat /\ Len(Append(p, "/")) = Len(p) + 1
              /\ \A i \in 1 .. Len(p) : Append(p, "/")[i] = p[i]
              /\ Append(p, "/")[Len(p) + 1] = "/"
              BY <2>2 DEF Words
        <4>2. /\ Append(Fold(p), "/") \in Words /\ Len(Fold(p)) = Len(p)
              /\ \A i \in 1 .. Len(p) : Fold(p)[i] = Lower[p[i]]
              BY <2>2, <2>4, FoldIs, SlashWord
        <4>3. /\ Len(Append(Fold(p), "/")) = Len(p) + 1
              /\ \A i \in 1 .. Len(p) : Append(Fold(p), "/")[i] = Fold(p)[i]
              /\ Append(Fold(p), "/")[Len(p) + 1] = "/"
              BY <2>4, <4>1, <4>2 DEF Words
        <4>4. /\ Fold(Append(p, "/")) \in Words /\ Len(Fold(Append(p, "/"))) = Len(p) + 1
              /\ \A i \in 1 .. Len(p) + 1 : Fold(Append(p, "/"))[i] = Lower[Append(p, "/")[i]]
              BY <3>1, <4>1, FoldIs
        <4>5. \A i \in 1 .. Len(p) + 1 : Fold(Append(p, "/"))[i] = Append(Fold(p), "/")[i]
              BY <4>1, <4>2, <4>3, <4>4, SlashAssumption
        <4> QED BY <4>2, <4>3, <4>4, <4>5, SameWord
      <3>4. Under(Fold(CopyRoot(c)), Fold(root)) BY <2>2, <2>4, <3>2, <3>3, UnderIs
      <3> QED BY <2>2, <3>4 DEF root
    <2> QED BY <2>5, <2>6
  <1> QED BY <1>2, <1>3 DEF WithinPolicy

\* A listing goes by the text of a row, and so by the text of the row's root.
LEMMA ListedBegins ==
  ASSUME PolicyInv, NEW o \in listed
  PROVE  \E k \in DOMAIN policy.buckets :
           /\ SameBucket(o, policy.buckets[k])
           /\ IsPrefix(Fold(Strip(policy.buckets[k].prefix)), Fold(o.name))
  <1>1. o \in Objects BY DEF PolicyInv
  <1>2. PICK i \in DOMAIN request.rows :
          o.bucket = request.rows[i].bucket /\ IsPrefix(request.rows[i].prefix, o.name)
        BY DEF PolicyInv
  <1>3. PICK k \in DOMAIN policy.buckets :
          /\ policy.buckets[k] \in Place /\ request.rows[i] \in Place
          /\ Within(request.rows[i], policy.buckets[k])
          /\ request.rows[i].prefix = Strip(request.rows[i].prefix)
        BY RowWithin
  <1> DEFINE s == request.rows[i].prefix
             root == Strip(policy.buckets[k].prefix)
  <1>4. /\ s \in Words /\ root \in Words /\ SameBucket(request.rows[i], policy.buckets[k])
        /\ Under(Fold(s), Fold(root))
        BY <1>3, WithinIs
  <1>5. o.name \in Words BY <1>1, PlacesAssumption DEF Words
  <1> HIDE DEF s, root
  <1>6. Fold(s) \in Words /\ Fold(root) \in Words /\ Fold(o.name) \in Words
        BY <1>4, <1>5, FoldIs
  <1>7. IsPrefix(Fold(s), Fold(o.name)) BY <1>2, <1>4, <1>5, FoldPrefix DEF s
  <1>8. IsPrefix(Fold(root), Fold(s)) BY <1>4, <1>6, UnderIs
  <1>9. IsPrefix(Fold(root), Fold(o.name)) BY <1>6, <1>7, <1>8, PrefixTransitive
  <1>10. SameBucket(o, policy.buckets[k]) BY <1>2, <1>4 DEF SameBucket
  <1> QED BY <1>9, <1>10 DEF root

LEMMA PolicyStart == ASSUME PolicyInit PROVE PolicyInv
  <1>1. policy = NoPolicy /\ request = NoRequest /\ listed = {} BY DEF PolicyInit
  <1>2. /\ policy.buckets = <<>> /\ policy.targets = {}
        /\ request.rows = <<>> /\ request.copy = {}
        BY <1>1 DEF NoPolicy, NoRequest
  <1>3. DOMAIN policy.buckets = {} /\ DOMAIN request.rows = {} BY <1>2
  <1> QED BY <1>1, <1>2, <1>3 DEF PolicyInv

LEMMA NormalIs ==
  ASSUME NEW row \in Place
  PROVE  Normal(row) \in Place /\ Normal(row).prefix = Strip(Normal(row).prefix)
  <1>1. row.bucket \in Chars /\ row.prefix \in Words BY DEF Place, Words
  <1>2. Trim(Strip(row.prefix)) BY <1>1, StripIs
  <1>3. Strip(row.prefix) \in Words /\ Strip(Strip(row.prefix)) = Strip(row.prefix)
        BY <1>2, StripIs DEF Trim
  <1> QED BY <1>1, <1>3 DEF Normal, Place, Words

LEMMA AdmitStep == ASSUME PolicyInit, Admit PROVE PolicyInv'
  <1>1. PICK p \in Policies, r \in Requests :
          /\ ValidRows(Resolved(r, p).rows, p) /\ ValidCopy(Resolved(r, p).copy, p)
          /\ policy' = p /\ request' = Resolved(r, p) /\ listed' = listed
        BY DEF Admit
  <1>2. p.buckets \in Seq(Place) /\ p.targets \subseteq Place BY PlacesAssumption
  <1>3. r.rows \in Seq(Place) /\ r.copy \subseteq Place BY PlacesAssumption
  <1> DEFINE asked == IF r.rows = <<>> THEN p.buckets ELSE r.rows
             q == Resolved(r, p)
  <1>4. asked \in Seq(Place) BY <1>2, <1>3
  <1>5. \A i \in DOMAIN asked : asked[i] \in Place
    <2> HIDE DEF asked
    <2> QED BY <1>4
  <1>6. q.rows = [i \in DOMAIN asked |-> Normal(asked[i])] /\ q.copy = {Normal(c) : c \in r.copy}
        BY DEF Resolved
  <1> HIDE DEF asked, q
  <1>7. ASSUME NEW i \in DOMAIN q.rows
        PROVE  /\ q.rows[i] \in Place /\ q.rows[i].prefix = Strip(q.rows[i].prefix)
               /\ \E k \in DOMAIN p.buckets : Within(q.rows[i], p.buckets[k])
    <2>1. q.rows[i] = Normal(asked[i]) /\ asked[i] \in Place BY <1>5, <1>6
    <2>2. q.rows[i] \in Place /\ q.rows[i].prefix = Strip(q.rows[i].prefix) BY <2>1, NormalIs
    <2>3. \E k \in DOMAIN p.buckets : Within(q.rows[i], p.buckets[k]) BY <1>1 DEF ValidRows, q
    <2> QED BY <2>2, <2>3
  <1>8. ASSUME NEW c \in q.copy
        PROVE  /\ c \in Place /\ c.prefix = Strip(c.prefix)
               /\ \E target \in p.targets : Within(c, target)
    <2>1. PICK d \in r.copy : c = Normal(d) BY <1>6
    <2>2. c \in Place /\ c.prefix = Strip(c.prefix) BY <1>3, <2>1, NormalIs
    <2>3. \E target \in p.targets : Within(c, target) BY <1>1 DEF ValidCopy, q
    <2> QED BY <2>2, <2>3
  <1>9. policy' = p /\ request' = q /\ listed' = {} BY <1>1 DEF PolicyInit, q
  <1> QED BY <1>7, <1>8, <1>9, Zenon DEF PolicyInv

LEMMA ListStep == ASSUME PolicyInv, ListSources PROVE PolicyInv'
  <1>1. policy' = policy /\ request' = request BY DEF ListSources
  <1>2. \A o \in listed' :
          /\ o \in Objects
          /\ \E i \in DOMAIN request.rows :
               o.bucket = request.rows[i].bucket /\ IsPrefix(request.rows[i].prefix, o.name)
        BY DEF ListSources
  <1> QED BY <1>1, <1>2, Zenon DEF PolicyInv

-----------------------------------------------------------------------------
(* The lookup of DAGs *)

LEMMA UnbucketIs == ASSUME NEW s \in Words PROVE Unbucket(s) \in Words
  <1>1. CASE Contains(s, "/")
    <2> DEFINE T == {i \in 1 .. Len(s) : s[i] = "/"}
               x == SelectInSeq(s, LAMBDA c : c = "/")
    <2>1. x = IF T # {} THEN Min(T) ELSE 0 BY DEF SelectInSeq
    <2>2. Len(s) \in Nat /\ T \in SUBSET (1 .. Len(s)) BY DEF Words
    <2>3. T # {} => Min(T) \in T
      <3> HIDE DEF T
      <3> QED BY <2>2, MinMaxIs
    <2>4. x \in Nat BY <2>1, <2>2, <2>3
    <2>5. Unbucket(s) = SubSeq(s, x + 1, Len(s)) BY <1>1 DEF Unbucket
    <2> HIDE DEF x, T
    <2>6. x + 1 \in Int /\ Len(s) \in Int /\ \A i \in (x + 1) .. Len(s) : s[i] \in Chars
          BY <2>2, <2>4 DEF Words
    <2>7. SubSeq(s, x + 1, Len(s)) \in Seq(Chars) BY <2>6, SubSeqProperties
    <2> QED BY <2>5, <2>7 DEF Words
  <1>2. CASE ~ Contains(s, "/")
    <2>1. <<>> \in Words BY DEF Words
    <2> QED BY <1>2, <2>1 DEF Unbucket
  <1> QED BY <1>1, <1>2

LEMMA NormaliseIs == ASSUME NEW s \in Words, NEW scheme PROVE Normalise(scheme, s) \in Words
  <1> DEFINE t == IF scheme = "gs" THEN Unbucket(s) ELSE s
  <1>1. t \in Words BY UnbucketIs
  <1> HIDE DEF t
  <1>2. Strip(t) \in Words BY <1>1, StripIs DEF Trim
  <1>3. Fold(Strip(t)) \in Words BY <1>2, FoldIs
  <1> QED BY <1>3 DEF Normalise, t

\* s sorts before t because of its place d.
BeforeAt(s, t, d) ==
  /\ d <= Len(s) + 1 /\ d <= Len(t)
  /\ \A k \in 1 .. d - 1 : s[k] = t[k]
  /\ d = Len(s) + 1 \/ Code[s[d]] < Code[t[d]]

LEMMA BeforeIs ==
  ASSUME NEW s \in Words, NEW t \in Words
  PROVE  Before(s, t) <=> \E d \in Nat \ {0} : BeforeAt(s, t, d)
  <1> USE DEF Words
  <1>1. DOMAIN s = 1 .. Len(s) /\ DOMAIN t = 1 .. Len(t) /\ Len(s) \in Nat /\ Len(t) \in Nat
        OBVIOUS
  <1>2. ASSUME IsStrictPrefix(s, t) PROVE BeforeAt(s, t, Len(s) + 1)
    <2>1. Len(s) <= Len(t) /\ (\A i \in 1 .. Len(s) : s[i] = t[i]) /\ s # t
          BY <1>2, PrefixIs DEF IsStrictPrefix
    <2>2. Len(s) # Len(t) BY <2>1, SameWord
    <2>3. Len(s) + 1 <= Len(t) BY <1>1, <2>1, <2>2, NatOrder, Zenon
    <2>4. \A k \in 1 .. (Len(s) + 1) - 1 : s[k] = t[k] BY <1>1, <2>1
    <2> QED BY <2>3, <2>4 DEF BeforeAt
  <1>3. ASSUME NEW d \in Nat \ {0}, BeforeAt(s, t, d) PROVE Before(s, t)
    <2>1. CASE d = Len(s) + 1
      <3>1. IsPrefix(s, t) BY <1>1, <1>3, <2>1, PrefixIs DEF BeforeAt
      <3>2. s # t BY <1>1, <1>3, <2>1 DEF BeforeAt
      <3> QED BY <3>1, <3>2 DEF Before, IsStrictPrefix
    <2>2. CASE d # Len(s) + 1
      <3>1. d \in DOMAIN s \cap DOMAIN t BY <1>1, <1>3, <2>2 DEF BeforeAt
      <3>2. Code[s[d]] < Code[t[d]] /\ \A k \in 1 .. d - 1 : s[k] = t[k]
            BY <1>3, <2>2 DEF BeforeAt
      <3> QED BY <3>1, <3>2, Zenon DEF Before
    <2> QED BY <2>1, <2>2
  <1>4. ASSUME NEW i \in DOMAIN s \cap DOMAIN t, Code[s[i]] < Code[t[i]],
               \A k \in 1 .. i - 1 : s[k] = t[k]
        PROVE  BeforeAt(s, t, i)
        BY <1>1, <1>4 DEF BeforeAt
  <1>5. Len(s) + 1 \in Nat \ {0} /\ \A i \in DOMAIN s : i \in Nat \ {0} BY <1>1
  <1> QED BY <1>2, <1>3, <1>4, <1>5 DEF Before

LEMMA BeforeIrreflexive == ASSUME NEW s \in Words PROVE ~ Before(s, s)
  <1>1. SUFFICES ASSUME NEW d \in Nat \ {0}, BeforeAt(s, s, d) PROVE FALSE BY BeforeIs
  <1>2. d \in 1 .. Len(s) /\ s[d] \in Chars BY <1>1 DEF BeforeAt, Words
  <1>3. Code[s[d]] \in Nat BY <1>2, CodeAssumption
  <1> QED BY <1>1, <1>2, <1>3 DEF BeforeAt, Words

LEMMA BeforeTransitive ==
  ASSUME NEW s \in Words, NEW t \in Words, NEW u \in Words, Before(s, t), Before(t, u)
  PROVE  Before(s, u)
  <1> USE DEF Words
  <1>1. PICK d \in Nat \ {0} : BeforeAt(s, t, d) BY BeforeIs
  <1>2. PICK e \in Nat \ {0} : BeforeAt(t, u, e) BY BeforeIs
  <1>3. /\ Len(s) \in Nat /\ Len(t) \in Nat /\ Len(u) \in Nat
        /\ \A i \in 1 .. Len(s) : Code[s[i]] \in Nat
        /\ \A i \in 1 .. Len(t) : Code[t[i]] \in Nat
        /\ \A i \in 1 .. Len(u) : Code[u[i]] \in Nat
        BY CodeAssumption
  <1>4. CASE d < e
    <2>1. BeforeAt(s, u, d)
      <3>1. /\ d <= Len(s) + 1 /\ d <= Len(t) /\ e <= Len(t) + 1 /\ e <= Len(u) /\ d <= Len(u)
            BY <1>1, <1>2, <1>3, <1>4 DEF BeforeAt
      <3>2. \A k \in 1 .. d : t[k] = u[k] BY <1>2, <1>4, <3>1 DEF BeforeAt
      <3> QED BY <1>1, <1>3, <3>1, <3>2 DEF BeforeAt
    <2> QED BY <2>1, BeforeIs
  <1>5. CASE e < d
    <2>1. BeforeAt(s, u, e)
      <3>1. /\ d <= Len(s) + 1 /\ d <= Len(t) /\ e <= Len(s) /\ e <= Len(u) /\ e <= Len(t)
            BY <1>1, <1>2, <1>3, <1>5 DEF BeforeAt
      <3>2. \A k \in 1 .. e : s[k] = t[k] BY <1>1, <1>5, <3>1 DEF BeforeAt
      <3>3. Code[t[e]] < Code[u[e]] BY <1>2, <3>1, <1>3 DEF BeforeAt
      <3> QED BY <1>2, <1>3, <3>1, <3>2, <3>3 DEF BeforeAt
    <2> QED BY <2>1, BeforeIs
  <1>6. CASE e = d
    <2>1. BeforeAt(s, u, e)
      <3>1. /\ e <= Len(s) + 1 /\ e <= Len(u) /\ e <= Len(t) BY <1>1, <1>2, <1>3, <1>6 DEF BeforeAt
      <3>2. \A k \in 1 .. e - 1 : s[k] = u[k] BY <1>1, <1>2, <1>6 DEF BeforeAt
      <3>3. Code[t[e]] < Code[u[e]] BY <1>2, <3>1, <1>3 DEF BeforeAt
      <3>4. e # Len(s) + 1 => Code[s[e]] < Code[u[e]]
        <4>1. e # Len(s) + 1 => Code[s[e]] < Code[t[e]] BY <1>1, <1>6 DEF BeforeAt
        <4>2. e # Len(s) + 1 => e \in 1 .. Len(s) BY <3>1, <1>3
        <4>3. e \in 1 .. Len(t) /\ e \in 1 .. Len(u) BY <3>1, <1>3
        <4> QED BY <1>3, <3>3, <4>1, <4>2, <4>3
      <3> QED BY <3>1, <3>2, <3>4 DEF BeforeAt
    <2> QED BY <2>1, BeforeIs
  <1> QED BY <1>4, <1>5, <1>6

LEMMA BeforeTotal ==
  ASSUME NEW s \in Words, NEW t \in Words, s # t
  PROVE  Before(s, t) \/ Before(t, s)
  <1> USE DEF Words
  <1> DEFINE differ == {i \in DOMAIN s \cap DOMAIN t : s[i] # t[i]}
  <1>1. Len(s) \in Nat /\ Len(t) \in Nat /\ DOMAIN s = 1 .. Len(s) /\ DOMAIN t = 1 .. Len(t)
        OBVIOUS
  <1>2. CASE differ = {}
    <2>1. \A i \in 1 .. Len(s) : i <= Len(t) => s[i] = t[i] BY <1>1, <1>2
    <2>2. Len(s) # Len(t) BY <2>1, SameWord
    <2>3. CASE Len(s) < Len(t)
      <3>1. IsPrefix(s, t) BY <1>1, <2>1, <2>3, PrefixIs
      <3> QED BY <3>1 DEF Before, IsStrictPrefix
    <2>4. CASE Len(t) < Len(s)
      <3>1. IsPrefix(t, s) BY <1>1, <2>1, <2>4, PrefixIs
      <3> QED BY <3>1 DEF Before, IsStrictPrefix
    <2>5. Len(s) < Len(t) \/ Len(t) < Len(s) BY <1>1, <2>2, NatOrder, Zenon
    <2> QED BY <2>3, <2>4, <2>5, Zenon
  <1>3. CASE differ # {}
    <2>1. differ \in SUBSET Nat BY <1>1
    <2>2. PICK m \in differ : \A i \in differ : m <= i
      <3> HIDE DEF differ
      <3> QED BY <1>3, <2>1, Least
    <2>3. m \in 1 .. Len(s) /\ m \in 1 .. Len(t) /\ s[m] # t[m] BY <1>1, <2>2
    <2>4. \A k \in 1 .. m - 1 : s[k] = t[k]
      <3>1. SUFFICES ASSUME NEW k \in 1 .. m - 1, s[k] # t[k] PROVE FALSE OBVIOUS
      <3>2. k \in differ BY <1>1, <2>3, <3>1
      <3> QED BY <2>2, <2>3, <3>2
    <2>5. /\ Code[s[m]] \in Nat /\ Code[t[m]] \in Nat /\ Code[s[m]] # Code[t[m]]
          BY <2>3, CodeAssumption DEF IsInjective
    <2> QED BY <1>1, <2>3, <2>4, <2>5 DEF Before
  <1> QED BY <1>2, <1>3

\* Any finite set of words can be listed in their order: a word's place is one more
\* than the number of words before it.
LEMMA Sortable ==
  ASSUME NEW R \in SUBSET Words, IsFiniteSet(R)
  PROVE  \E s \in [1 .. Cardinality(R) -> R] :
           \A i, j \in DOMAIN s : i < j => Before(s[i], s[j])
  <1> DEFINE n == Cardinality(R)
             lower(t) == {u \in R : Before(u, t)}
             place == [t \in R |-> Cardinality(lower(t)) + 1]
  <1>1. n \in Nat BY FS_CardinalityType
  <1>2. ASSUME NEW t \in R
        PROVE  IsFiniteSet(lower(t)) /\ Cardinality(lower(t)) \in Nat /\ Cardinality(lower(t)) < n
    <2>1. lower(t) \in SUBSET R /\ t \notin lower(t) BY BeforeIrreflexive
    <2>2. /\ IsFiniteSet(lower(t)) /\ Cardinality(lower(t)) <= n
          /\ Cardinality(lower(t)) = n => R = lower(t)
          BY <2>1, FS_Subset
    <2>3. Cardinality(lower(t)) \in Nat BY <2>2, FS_CardinalityType
    <2>4. Cardinality(lower(t)) # n BY <2>1, <2>2
    <2> HIDE DEF lower, n
    <2> QED BY <1>1, <2>2, <2>3, <2>4
  <1>3. ASSUME NEW t \in R, NEW u \in R, Before(t, u)
        PROVE  place[t] < place[u]
    <2>1. lower(t) \in SUBSET lower(u) BY <1>3, BeforeTransitive
    <2>2. t \in lower(u) /\ t \notin lower(t) BY <1>3, BeforeIrreflexive
    <2>3. /\ Cardinality(lower(t)) <= Cardinality(lower(u))
          /\ Cardinality(lower(u)) = Cardinality(lower(t)) => lower(u) = lower(t)
          BY <1>2, <2>1, FS_Subset
    <2>4. Cardinality(lower(t)) # Cardinality(lower(u)) BY <2>2, <2>3
    <2>5. Cardinality(lower(t)) \in Nat /\ Cardinality(lower(u)) \in Nat BY <1>2
    <2>6. place[t] = Cardinality(lower(t)) + 1 /\ place[u] = Cardinality(lower(u)) + 1 OBVIOUS
    <2> HIDE DEF lower, place
    <2> QED BY <2>3, <2>4, <2>5, <2>6
  <1>4. place \in [R -> 1 .. n]
    <2>1. \A t \in R : Cardinality(lower(t)) + 1 \in 1 .. n
      <3> HIDE DEF lower, n
      <3> QED BY <1>1, <1>2
    <2> HIDE DEF lower, n
    <2> QED BY <2>1
  <1> HIDE DEF place, lower, n
  <1>5. \A t \in R : place[t] \in Nat BY <1>1, <1>4
  <1>6. IsInjective(place)
    <2>1. \A t, u \in R : t # u => Before(t, u) \/ Before(u, t) BY BeforeTotal
    <2>2. \A t, u \in R : place[t] = place[u] => t = u BY <1>3, <1>5, <2>1
    <2>3. DOMAIN place = R BY <1>4
    <2> QED BY <2>2, <2>3 DEF IsInjective
  <1>7. \A i \in 1 .. n : \E t \in R : place[t] = i
    <2>1. place \in Injection(R, 1 .. n) BY <1>4, <1>6 DEF Injection
    <2>2. IsFiniteSet(1 .. n) /\ Cardinality(1 .. n) = n
      <3>1. 1 \in Int /\ n \in Int BY <1>1
      <3>2. IsFiniteSet(1 .. n) /\ Cardinality(1 .. n) = IF 1 > n THEN 0 ELSE n - 1 + 1
            BY <3>1, FS_Interval
      <3> QED BY <1>1, <3>2
    <2>3. Cardinality(R) = n BY DEF n
    <2>4. place \in Surjection(R, 1 .. n) BY <2>1, <2>2, <2>3, FS_Injection
    <2> QED BY <2>4 DEF Surjection
  <1> DEFINE at == [i \in 1 .. n |-> CHOOSE t \in R : place[t] = i]
  <1>8. \A i \in 1 .. n : at[i] \in R /\ place[at[i]] = i BY <1>7
  <1>9. at \in [1 .. n -> R] /\ DOMAIN at = 1 .. n BY <1>8
  <1> HIDE DEF at
  <1>10. ASSUME NEW i \in 1 .. n, NEW j \in 1 .. n, i < j PROVE Before(at[i], at[j])
    <2>1. at[i] \in R /\ at[j] \in R /\ place[at[i]] = i /\ place[at[j]] = j BY <1>8
    <2>2. at[i] \in Words /\ at[j] \in Words BY <2>1
    <2>3. at[i] # at[j] BY <1>10, <2>1
    <2>4. ~ Before(at[j], at[i])
      <3>1. SUFFICES ASSUME Before(at[j], at[i]) PROVE FALSE OBVIOUS
      <3>2. place[at[j]] < place[at[i]] BY <1>3, <2>1, <3>1
      <3> QED BY <1>1, <1>10, <2>1, <3>2
    <2> QED BY <2>2, <2>3, <2>4, BeforeTotal
  <1> QED BY <1>9, <1>10 DEF n

Reversed == {Reverse(k) : k \in DOMAIN lookup}

\* The index of the lookup has each of its paths once, in order.
LEMMA ReversedPathsAre ==
  ASSUME LookupWords
  PROVE  \E n \in Nat :
           /\ ReversedPaths \in [1 .. n -> Reversed]
           /\ \A i, j \in 1 .. n : i < j => Before(ReversedPaths[i], ReversedPaths[j])
           /\ \A t \in Reversed : \E i \in 1 .. n : ReversedPaths[i] = t
  <1> DEFINE n == Cardinality(Reversed)
             Sorted(s) == \A i, j \in DOMAIN s : i < j => Before(s[i], s[j])
  <1>1. DOMAIN lookup \subseteq Words /\ IsFiniteSet(DOMAIN lookup) BY DEF LookupWords, Words
  <1>2. Reversed \in SUBSET Words BY <1>1, ReverseIs DEF Reversed
  <1>3. IsFiniteSet(Reversed)
    <2> DEFINE f == [k \in DOMAIN lookup |-> Reverse(k)]
    <2>1. f \in Surjection(DOMAIN lookup, Reversed) BY DEF Surjection, Reversed
    <2> QED BY <1>1, <2>1, FS_Surjection
  <1>4. n \in Nat BY <1>3, FS_CardinalityType
  <1>5. \E s \in [1 .. n -> Reversed] : Sorted(s) BY <1>2, <1>3, Sortable
  <1>6. ReversedPaths = CHOOSE s \in [1 .. n -> Reversed] : Sorted(s) BY DEF ReversedPaths, Reversed
  <1>7. ReversedPaths \in [1 .. n -> Reversed] /\ Sorted(ReversedPaths)
    <2> HIDE DEF n, Sorted
    <2> QED BY <1>5, <1>6
  <1>8. \A i, j \in 1 .. n : i < j => Before(ReversedPaths[i], ReversedPaths[j])
    <2>1. DOMAIN ReversedPaths = 1 .. n BY <1>7
    <2> QED BY <1>7, <2>1
  <1> HIDE DEF n, Sorted
  <1>9. ReversedPaths \in Injection(1 .. n, Reversed)
    <2>1. SUFFICES ASSUME NEW i \in 1 .. n, NEW j \in 1 .. n, ReversedPaths[i] = ReversedPaths[j]
                   PROVE  i = j
          BY <1>7 DEF Injection, IsInjective
    <2>2. ReversedPaths[i] \in Words BY <1>2, <1>7
    <2>3. ~ (i < j) /\ ~ (j < i) BY <1>8, <2>1, <2>2, BeforeIrreflexive
    <2> QED BY <1>4, <2>3
  <1>10. \A t \in Reversed : \E i \in 1 .. n : ReversedPaths[i] = t
    <2>1. IsFiniteSet(1 .. n) /\ Cardinality(1 .. n) = n
      <3>1. 1 \in Int /\ n \in Int BY <1>4
      <3>2. IsFiniteSet(1 .. n) /\ Cardinality(1 .. n) = IF 1 > n THEN 0 ELSE n - 1 + 1
            BY <3>1, FS_Interval
      <3> QED BY <1>4, <3>2
    <2>2. ReversedPaths \in Surjection(1 .. n, Reversed)
          BY <1>3, <1>9, <2>1, FS_Injection DEF n
    <2> QED BY <2>2 DEF Surjection
  <1> QED BY <1>4, <1>7, <1>8, <1>10

\* What lies between a prefix and one of its extensions extends it too.
LEMMA Between ==
  ASSUME NEW p \in Words, NEW u \in Words, NEW v \in Words,
         IsPrefix(p, v), ~ Before(u, p), u = v \/ Before(u, v)
  PROVE  IsPrefix(p, u)
  <1>1. CASE u = v \/ u = p
    <2>1. IsPrefix(p, p) BY PrefixIs DEF Words
    <2> QED BY <1>1, <2>1
  <1>2. CASE u # v /\ u # p
    <2>1. Before(p, u) BY <1>2, BeforeTotal
    <2>2. CASE IsStrictPrefix(p, u) BY <2>2 DEF IsStrictPrefix
    <2>3. CASE ~ IsStrictPrefix(p, u)
      <3>1. PICK i \in DOMAIN p \cap DOMAIN u :
              Code[p[i]] < Code[u[i]] /\ \A k \in 1 .. i - 1 : p[k] = u[k]
            BY <2>1, <2>3 DEF Before
      <3>2. /\ i \in 1 .. Len(p) /\ i \in 1 .. Len(u) /\ Len(p) \in Nat /\ Len(u) \in Nat
            /\ Len(v) \in Nat /\ DOMAIN v = 1 .. Len(v)
            BY DEF Words
      <3>3. Len(p) <= Len(v) /\ \A k \in 1 .. Len(p) : p[k] = v[k] BY PrefixIs
      <3>4. i \in DOMAIN v /\ v[i] = p[i] /\ \A k \in 1 .. i - 1 : v[k] = u[k]
            BY <3>1, <3>2, <3>3
      <3>5. Before(v, u) BY <3>1, <3>4, Zenon DEF Before
      <3>6. Before(u, u) BY <1>2, <3>5, BeforeTransitive
      <3> QED BY <3>6, BeforeIrreflexive
    <2> QED BY <2>2, <2>3
  <1> QED BY <1>1, <1>2

\* The places before the one bisect_left finds.
LEMMA DownClosed ==
  ASSUME NEW n \in Nat, NEW D \in SUBSET (1 .. n),
         \A i, j \in 1 .. n : i < j /\ j \in D => i \in D
  PROVE  Cardinality(D) \in 0 .. n /\ D = 1 .. Cardinality(D)
  <1>1. \A m \in 0 .. n : Cardinality(1 .. m) = m
    <2>1. SUFFICES ASSUME NEW m \in 0 .. n PROVE Cardinality(1 .. m) = m OBVIOUS
    <2>2. 1 \in Int /\ m \in Int BY <2>1
    <2>3. Cardinality(1 .. m) = IF 1 > m THEN 0 ELSE m - 1 + 1 BY <2>2, FS_Interval
    <2> QED BY <2>3
  <1>2. SUFFICES \E m \in 0 .. n : D = 1 .. m BY <1>1
  <1>3. CASE D = 1 .. n BY <1>3
  <1>4. CASE D # 1 .. n
    <2> DEFINE rest == (1 .. n) \ D
    <2>1. rest \in SUBSET Nat /\ rest # {}
      <3>1. PICK i \in 1 .. n : i \notin D BY <1>4, Zenon
      <3> QED BY <3>1
    <2>2. PICK m \in rest : \A i \in rest : m <= i
      <3> HIDE DEF rest
      <3> QED BY <2>1, Least
    <2>3. m \in 1 .. n /\ m \notin D BY <2>2
    <2>4. \A i \in D : i < m BY <2>3
    <2>5. \A i \in 1 .. m - 1 : i \in D
      <3>1. SUFFICES ASSUME NEW i \in 1 .. m - 1, i \notin D PROVE FALSE OBVIOUS
      <3>2. i \in rest BY <2>3, <3>1
      <3> QED BY <2>2, <2>3, <3>2
    <2>6. D = 1 .. m - 1
      <3>1. \A i \in D : i \in 1 .. m - 1 BY <2>3, <2>4
      <3> QED BY <2>5, <3>1, Zenon
    <2>7. m - 1 \in 0 .. n BY <2>3
    <2> QED BY <2>6, <2>7
  <1> QED BY <1>3, <1>4

\* The paths of the lookup that the key ends, after a slash.
Extended(key) == {k \in DOMAIN lookup : IsSuffix(<<"/">> \o key, k)}

LEMMA ReversedPrefixIs ==
  ASSUME NEW key \in Words, "/" \in Chars
  PROVE  /\ ReversedPrefix(key) \in Words /\ Reverse(<<"/">> \o key) = ReversedPrefix(key)
         /\ <<"/">> \o key \in Words
  <1>1. /\ Len(key) \in Nat /\ Len(<<"/">>) = 1 /\ <<"/">>[1] = "/" /\ <<"/">> \in Words
        BY DEF Words
  <1>2. /\ <<"/">> \o key \in Words /\ Len(<<"/">> \o key) = Len(key) + 1
        /\ (<<"/">> \o key)[1] = "/"
        /\ \A i \in 1 .. Len(key) : (<<"/">> \o key)[i + 1] = key[i]
        BY <1>1 DEF Words
  <1> DEFINE r == Reverse(key)
  <1>3. r \in Words /\ Len(r) = Len(key) /\ \A i \in 1 .. Len(key) : r[i] = key[Len(key) - i + 1]
        BY ReverseIs
  <1> HIDE DEF r
  <1>4. /\ Append(r, "/") \in Words /\ Len(Append(r, "/")) = Len(key) + 1
        /\ Append(r, "/")[Len(key) + 1] = "/"
        /\ \A i \in 1 .. Len(key) : Append(r, "/")[i] = r[i]
        BY <1>1, <1>3 DEF Words
  <1> DEFINE w == <<"/">> \o key
             a == Append(r, "/")
  <1>w. w \in Words /\ Len(w) = Len(key) + 1 BY <1>2
  <1> HIDE DEF w, a
  <1>5. /\ Reverse(w) \in Words /\ Len(Reverse(w)) = Len(key) + 1
        /\ \A i \in 1 .. Len(key) + 1 : Reverse(w)[i] = w[Len(key) + 1 - i + 1]
        BY <1>w, ReverseIs
  <1>6. \A i \in 1 .. Len(key) + 1 : Reverse(w)[i] = a[i]
    <2>1. Reverse(w)[Len(key) + 1] = a[Len(key) + 1]
      <3>1. Len(key) + 1 \in 1 .. Len(key) + 1 /\ Len(key) + 1 - (Len(key) + 1) + 1 = 1 BY <1>1
      <3> QED BY <1>2, <1>4, <1>5, <3>1 DEF w, a
    <2>2. ASSUME NEW i \in 1 .. Len(key) PROVE Reverse(w)[i] = a[i]
      <3>1. /\ i \in 1 .. Len(key) + 1 /\ Len(key) + 1 - i + 1 = (Len(key) - i + 1) + 1
            /\ Len(key) - i + 1 \in 1 .. Len(key)
            BY <1>1
      <3>2. Reverse(w)[i] = w[(Len(key) - i + 1) + 1] BY <1>5, <3>1
      <3>3. w[(Len(key) - i + 1) + 1] = key[Len(key) - i + 1] BY <1>2, <3>1 DEF w
      <3> QED BY <1>3, <1>4, <3>2, <3>3 DEF a
    <2> QED BY <1>1, <2>1, <2>2
  <1>7. Reverse(w) = a BY <1>4, <1>5, <1>6, SameWord DEF a
  <1> QED BY <1>2, <1>4, <1>7 DEF w, a, r, ReversedPrefix

\* The paths that the loop over the key's slashes tries are those that end it there.
LEMMA EndingIs ==
  ASSUME NEW key \in Words, NEW k \in Words, "/" \in Chars
  PROVE  (\E i \in DOMAIN key : key[i] = "/" /\ k = SubSeq(key, i + 1, Len(key)))
           <=> IsSuffix(<<"/">> \o k, key)
  <1> DEFINE L == Len(key)
             n == Len(k)
             p == ReversedPrefix(k)
             r == Reverse(key)
  <1>1. /\ L \in Nat /\ n \in Nat /\ DOMAIN key = 1 .. L BY DEF Words
  <1>2. /\ p \in Words /\ Len(p) = n + 1 /\ p[n + 1] = "/"
        /\ \A i \in 1 .. n : p[i] = k[n - i + 1]
    <2>1. /\ Reverse(k) \in Words /\ Len(Reverse(k)) = n
          /\ \A i \in 1 .. n : Reverse(k)[i] = k[n - i + 1]
          BY ReverseIs
    <2>2. /\ Append(Reverse(k), "/") \in Words /\ Len(Append(Reverse(k), "/")) = n + 1
          /\ Append(Reverse(k), "/")[n + 1] = "/"
          /\ \A i \in 1 .. n : Append(Reverse(k), "/")[i] = Reverse(k)[i]
      <3> HIDE DEF n
      <3> QED BY <1>1, <2>1 DEF Words
    <2> QED BY <2>1, <2>2 DEF ReversedPrefix
  <1>3. r \in Words /\ Len(r) = L /\ \A i \in 1 .. L : r[i] = key[L - i + 1] BY ReverseIs
  <1>4. IsSuffix(<<"/">> \o k, key) <=> n + 1 <= L /\ \A i \in 1 .. n + 1 : p[i] = r[i]
    <2>1. Reverse(<<"/">> \o k) = p BY ReversedPrefixIs
    <2>2. IsSuffix(<<"/">> \o k, key) <=> IsPrefix(p, r) BY <2>1 DEF IsSuffix
    <2> HIDE DEF p, r
    <2> QED BY <1>2, <1>3, <2>2, PrefixIs
  <1>5. \A i \in 1 .. L :
          /\ SubSeq(key, i + 1, L) \in Words /\ Len(SubSeq(key, i + 1, L)) = L - i
          /\ \A j \in 1 .. L - i : SubSeq(key, i + 1, L)[j] = key[i + j]
    <2>1. SUFFICES ASSUME NEW i \in 1 .. L
                   PROVE  /\ SubSeq(key, i + 1, L) \in Words
                          /\ Len(SubSeq(key, i + 1, L)) = L - i
                          /\ \A j \in 1 .. L - i : SubSeq(key, i + 1, L)[j] = key[i + j]
          OBVIOUS
    <2>2. i + 1 \in Int /\ L \in Int /\ \A j \in (i + 1) .. L : key[j] \in Chars
          BY <1>1 DEF Words
    <2> HIDE DEF L
    <2>3. /\ L - (i + 1) + 1 = L - i /\ i <= L
          /\ \A j \in 1 .. L - i : (i + 1) + j - 1 = i + j
          /\ L - i = IF i + 1 <= L THEN L - (i + 1) + 1 ELSE 0
          BY <1>1
    <2>4. /\ SubSeq(key, i + 1, L) \in Seq(Chars)
          /\ Len(SubSeq(key, i + 1, L)) = IF i + 1 <= L THEN L - (i + 1) + 1 ELSE 0
          /\ \A j \in 1 .. L - (i + 1) + 1 : SubSeq(key, i + 1, L)[j] = key[(i + 1) + j - 1]
          BY <2>2, SubSeqProperties
    <2> QED BY <2>3, <2>4 DEF Words
  <1> HIDE DEF L, n, p, r
  <1>6. ASSUME NEW i \in 1 .. L, key[i] = "/", k = SubSeq(key, i + 1, L)
        PROVE  n + 1 <= L /\ \A j \in 1 .. n + 1 : p[j] = r[j]
    <2>1. n = L - i /\ \A j \in 1 .. n : k[j] = key[i + j] BY <1>5, <1>6 DEF n
    <2>2. p[n + 1] = r[n + 1]
      <3>1. n + 1 \in 1 .. L /\ L - (n + 1) + 1 = i BY <1>1, <2>1
      <3> QED BY <1>2, <1>3, <1>6, <3>1
    <2>3. ASSUME NEW j \in 1 .. n PROVE p[j] = r[j]
      <3>1. n - j + 1 \in 1 .. n /\ j \in 1 .. L /\ i + (n - j + 1) = L - j + 1
            BY <1>1, <2>1
      <3>2. p[j] = k[n - j + 1] /\ k[n - j + 1] = key[i + (n - j + 1)] BY <1>2, <2>1, <3>1
      <3> QED BY <1>3, <3>1, <3>2
    <2> QED BY <1>1, <2>1, <2>2, <2>3
  <1>7. ASSUME n + 1 <= L, \A i \in 1 .. n + 1 : p[i] = r[i]
        PROVE  \E i \in 1 .. L : key[i] = "/" /\ k = SubSeq(key, i + 1, L)
    <2>1. L - n \in 1 .. L /\ L - (n + 1) + 1 = L - n /\ n + 1 \in 1 .. L /\ L - (L - n) = n
          BY <1>1, <1>7
    <2>2. key[L - n] = "/" BY <1>1, <1>2, <1>3, <1>7, <2>1
    <2>3. \A j \in 1 .. n : k[j] = SubSeq(key, (L - n) + 1, L)[j]
      <3>1. SUFFICES ASSUME NEW j \in 1 .. n PROVE k[j] = SubSeq(key, (L - n) + 1, L)[j] OBVIOUS
      <3>2. /\ n - j + 1 \in 1 .. n /\ n - j + 1 \in 1 .. n + 1 /\ n - j + 1 \in 1 .. L
            /\ n - (n - j + 1) + 1 = j /\ L - (n - j + 1) + 1 = (L - n) + j
            BY <1>1, <1>7
      <3>3. p[n - j + 1] = k[j] BY <1>2, <3>2
      <3>4. p[n - j + 1] = r[n - j + 1] BY <1>7, <3>2
      <3>5. r[n - j + 1] = key[(L - n) + j] BY <1>3, <3>2
      <3>6. SubSeq(key, (L - n) + 1, L)[j] = key[(L - n) + j] BY <1>5, <2>1, <3>1
      <3> QED BY <3>3, <3>4, <3>5, <3>6
    <2>4. k = SubSeq(key, (L - n) + 1, L)
      <3>1. SubSeq(key, (L - n) + 1, L) \in Words /\ Len(SubSeq(key, (L - n) + 1, L)) = n
            BY <1>5, <2>1
      <3> QED BY <2>3, <3>1, SameWord DEF n
    <2> QED BY <2>1, <2>2, <2>4
  <1> QED BY <1>1, <1>4, <1>6, <1>7 DEF L

\* Of the paths that extend the key, the two places at the bisection show none,
\* the only one, or more than one.
LEMMA BisectionFinds ==
  ASSUME LookupWords, NEW key \in Words, "/" \in Chars
  PROVE  /\ Extensions(key) \subseteq Extended(key)
         /\ Extended(key) # {} => Extensions(key) # {}
         /\ (\E a, b \in Extended(key) : a # b) => \E a, b \in Extensions(key) : a # b
  <1> DEFINE paths == ReversedPaths
             prefix == ReversedPrefix(key)
             D == {i \in DOMAIN paths : Before(paths[i], prefix)}
             index == 1 + Cardinality(D)
             at(i) == IF i \in DOMAIN paths /\ IsPrefix(prefix, paths[i])
                      THEN {Reverse(paths[i])} ELSE {}
  <1>1. PICK n \in Nat :
          /\ paths \in [1 .. n -> Reversed]
          /\ \A i, j \in 1 .. n : i < j => Before(paths[i], paths[j])
          /\ \A t \in Reversed : \E i \in 1 .. n : paths[i] = t
        BY ReversedPathsAre
  <1>2. Extensions(key) = IF at(index) = {} THEN {} ELSE at(index) \cup at(index + 1)
        BY DEF Extensions
  <1>3. prefix \in Words BY ReversedPrefixIs
  <1>4. Reversed \subseteq Words BY ReverseIs DEF Reversed, LookupWords, Words
  <1>5. Cardinality(D) \in 0 .. n /\ D = 1 .. Cardinality(D)
    <2>1. DOMAIN paths = 1 .. n BY <1>1
    <2>2. D \in SUBSET (1 .. n) BY <2>1
    <2>3. \A i, j \in 1 .. n : i < j /\ j \in D => i \in D
      <3>1. SUFFICES ASSUME NEW i \in 1 .. n, NEW j \in 1 .. n, i < j, j \in D PROVE i \in D
            OBVIOUS
      <3>2. paths[i] \in Words /\ paths[j] \in Words BY <1>1, <1>4
      <3>3. Before(paths[i], paths[j]) /\ Before(paths[j], prefix) BY <1>1, <3>1
      <3>4. Before(paths[i], prefix) BY <1>3, <3>2, <3>3, BeforeTransitive
      <3> QED BY <2>1, <3>4
    <2> HIDE DEF D
    <2> QED BY <2>2, <2>3, DownClosed
  <1>6. \A i \in 1 .. n : i \in D <=> Before(paths[i], prefix) BY <1>1
  <1> DEFINE m == Cardinality(D)
             Ext(i) == IsPrefix(prefix, paths[i])
  <1>7. \A i \in 1 .. n : Before(paths[i], prefix) <=> i <= m
    <2> HIDE DEF D, paths, prefix
    <2> QED BY <1>5, <1>6
  <1>8. \A k : k \in Extended(key) <=> \E i \in 1 .. n : Ext(i) /\ k = Reverse(paths[i])
    <2>1. \A i \in 1 .. n : Reverse(paths[i]) \in DOMAIN lookup
                            /\ Reverse(Reverse(paths[i])) = paths[i]
          BY <1>1, ReverseIs DEF Reversed, LookupWords, Words
    <2>2. \A k \in DOMAIN lookup : \E i \in 1 .. n : paths[i] = Reverse(k) /\ k = Reverse(paths[i])
          BY <1>1, ReverseIs DEF Reversed, LookupWords, Words
    <2>3. \A k : k \in Extended(key) <=> k \in DOMAIN lookup /\ IsPrefix(prefix, Reverse(k))
          BY ReversedPrefixIs DEF Extended, IsSuffix
    <2> HIDE DEF paths, prefix
    <2> QED BY <2>1, <2>2, <2>3
  <1>9. \A i \in 1 .. n : Ext(i) => m < i
    <2>1. SUFFICES ASSUME NEW i \in 1 .. n, Ext(i), i <= m PROVE FALSE
          BY <1>5
    <2>2. paths[i] \in Words /\ Before(paths[i], prefix) BY <1>1, <1>4, <1>7, <2>1
    <2>3. paths[i] # prefix => Before(prefix, paths[i]) BY <2>1 DEF Before, IsStrictPrefix
    <2>4. Before(prefix, prefix) BY <1>3, <2>2, <2>3, BeforeTransitive
    <2> QED BY <1>3, <2>4, BeforeIrreflexive
  <1>10. \A i, j \in 1 .. n : m < i /\ i <= j /\ Ext(j) => Ext(i)
    <2>1. SUFFICES ASSUME NEW i \in 1 .. n, NEW j \in 1 .. n, m < i, i <= j, Ext(j) PROVE Ext(i)
          OBVIOUS
    <2>2. paths[i] \in Words /\ paths[j] \in Words BY <1>1, <1>4
    <2>3. ~ Before(paths[i], prefix) BY <1>5, <1>7, <2>1
    <2>4. paths[i] = paths[j] \/ Before(paths[i], paths[j])
      <3>1. i = j \/ i < j BY <2>1
      <3> QED BY <1>1, <3>1
    <2> QED BY <1>3, <2>1, <2>2, <2>3, <2>4, Between
  <1>11. \A i, j \in 1 .. n : i # j => Reverse(paths[i]) # Reverse(paths[j])
    <2>1. SUFFICES ASSUME NEW i \in 1 .. n, NEW j \in 1 .. n, i # j,
                          Reverse(paths[i]) = Reverse(paths[j])
                   PROVE  FALSE
          OBVIOUS
    <2>2. paths[i] \in Words /\ paths[j] \in Words BY <1>1, <1>4
    <2>3. paths[i] = paths[j] BY <2>1, <2>2, ReverseOne
    <2>4. i < j \/ j < i BY <2>1
    <2> QED BY <1>1, <2>2, <2>3, <2>4, BeforeIrreflexive
  <1>12. \A i : at(i) = IF i \in 1 .. n /\ Ext(i) THEN {Reverse(paths[i])} ELSE {}
         BY <1>1
  <1>13. m \in 0 .. n /\ index = m + 1 BY <1>5
  <1> HIDE DEF paths, prefix, D, index, at, m, Ext
  <1>14. ASSUME NEW k \in Extensions(key) PROVE k \in Extended(key)
    <2>1. k \in at(index) \/ k \in at(index + 1) BY <1>2, <1>14
    <2> QED BY <1>8, <1>12, <2>1
  <1>15. ASSUME NEW k \in Extended(key)
         PROVE  m + 1 \in 1 .. n /\ at(m + 1) = {Reverse(paths[m + 1])}
    <2>1. PICK i \in 1 .. n : Ext(i) BY <1>8
    <2>2. m < i BY <1>9, <2>1
    <2>3. m + 1 \in 1 .. n /\ m < m + 1 /\ m + 1 <= i BY <1>13, <2>2
    <2> QED BY <1>10, <1>12, <2>1, <2>3
  <1>16. Extended(key) # {} => Extensions(key) # {} BY <1>2, <1>13, <1>15
  <1>17. ASSUME NEW a \in Extended(key), NEW b \in Extended(key), a # b
         PROVE  \E c, d \in Extensions(key) : c # d
    <2>1. PICK i \in 1 .. n : Ext(i) /\ a = Reverse(paths[i]) BY <1>8
    <2>2. PICK j \in 1 .. n : Ext(j) /\ b = Reverse(paths[j]) BY <1>8
    <2>3. i # j /\ m < i /\ m < j BY <1>9, <1>17, <2>1, <2>2
    <2>4. PICK l \in 1 .. n : Ext(l) /\ m + 2 <= l
      <3>1. m + 2 <= i \/ m + 2 <= j BY <1>13, <2>3
      <3> QED BY <2>1, <2>2, <3>1
    <2>5. m + 2 \in 1 .. n /\ m < m + 2 BY <1>13, <2>4
    <2>6. at(m + 2) = {Reverse(paths[m + 2])} BY <1>10, <1>12, <2>4, <2>5
    <2>7. m + 1 \in 1 .. n /\ at(m + 1) = {Reverse(paths[m + 1])} BY <1>15
    <2>8. Reverse(paths[m + 1]) # Reverse(paths[m + 2]) BY <1>11, <1>13, <2>5, <2>7
    <2>9. index + 1 = m + 2 BY <1>13
    <2>10. /\ Reverse(paths[m + 1]) \in Extensions(key)
           /\ Reverse(paths[m + 2]) \in Extensions(key)
           BY <1>2, <1>13, <2>6, <2>7, <2>9
    <2> QED BY <2>8, <2>10
  <1> QED BY <1>14, <1>16, <1>17

\* The lookup of a script finds what a search of all its paths would.
LEMMA FindExact ==
  ASSUME LookupWords, NEW key \in Words, "/" \in Chars,
         NEW aligned, aligned = {k \in DOMAIN lookup : Aligned(k, key)}
  PROVE  Find(key) = IF key \in DOMAIN lookup THEN lookup[key]
                     ELSE IF \E k \in aligned : aligned = {k}
                          THEN lookup[CHOOSE k \in aligned : TRUE] ELSE NoDag
  <1>1. DOMAIN lookup \subseteq Words /\ IsFiniteSet(DOMAIN lookup) BY DEF LookupWords, Words
  <1>2. Endings(key) = {k \in DOMAIN lookup : IsSuffix(<<"/">> \o k, key)}
    <2>1. \A k \in DOMAIN lookup :
            k \in Endings(key) <=> IsSuffix(<<"/">> \o k, key)
      <3>1. SUFFICES ASSUME NEW k \in DOMAIN lookup
                     PROVE  k \in Endings(key) <=> IsSuffix(<<"/">> \o k, key)
            OBVIOUS
      <3>2. k \in Endings(key)
              <=> \E i \in DOMAIN key : key[i] = "/" /\ k = SubSeq(key, i + 1, Len(key))
            BY DEF Endings
      <3> QED BY <1>1, <3>2, EndingIs
    <2>2. Endings(key) \subseteq DOMAIN lookup BY DEF Endings
    <2> QED BY <2>1, <2>2
  <1>3. aligned = Endings(key) \cup Extended(key) BY <1>2 DEF Extended, Aligned
  <1>4. /\ Extensions(key) \subseteq Extended(key)
        /\ Extended(key) # {} => Extensions(key) # {}
        /\ (\E a, b \in Extended(key) : a # b) => \E a, b \in Extensions(key) : a # b
        BY BisectionFinds
  <1>5. Matches(key) = Endings(key) \cup Extensions(key) BY DEF Matches
  <1> DEFINE matches == Matches(key)
  <1>6. Cardinality(matches) = 1 <=> \E k : matches = {k}
    <2>1. matches \in SUBSET (DOMAIN lookup) BY <1>2, <1>4, <1>5 DEF Extended
    <2>2. IsFiniteSet(matches) BY <1>1, <2>1, FS_Subset
    <2> HIDE DEF matches
    <2> QED BY <2>2, FS_Singleton
  <1>7. (\E k : matches = {k}) \/ (\E k : aligned = {k}) => matches = aligned
    <2>1. ASSUME NEW k, matches = {k} PROVE matches = aligned
      <3>1. \A a, b \in Extensions(key) : a = b BY <1>5, <2>1
      <3>2. \A a, b \in Extended(key) : a = b BY <1>4, <3>1
      <3>3. Extended(key) = Extensions(key) BY <1>4, <3>2
      <3> QED BY <1>3, <1>5, <3>3
    <2>2. ASSUME NEW k, aligned = {k} PROVE matches = aligned
      <3>1. \A a, b \in Extended(key) : a = b BY <1>3, <2>2
      <3>2. Extended(key) = Extensions(key) BY <1>4, <3>1
      <3> QED BY <1>3, <1>5, <3>2
    <2> QED BY <2>1, <2>2
  <1>8. Cardinality(matches) = 1 <=> \E k \in aligned : aligned = {k}
    <2> HIDE DEF matches
    <2> QED BY <1>6, <1>7
  <1>9. Cardinality(matches) = 1 => matches = aligned
    <2> HIDE DEF matches
    <2> QED BY <1>6, <1>7
  <1> HIDE DEF matches
  <1>10. Find(key) = IF key \in DOMAIN lookup THEN lookup[key]
                     ELSE IF Cardinality(matches) = 1
                          THEN lookup[CHOOSE k \in matches : TRUE] ELSE NoDag
         BY DEF Find, matches
  <1> QED BY <1>8, <1>9, <1>10

-----------------------------------------------------------------------------
(* The building of the lookup *)

LEMMA RowAppended ==
  ASSUME LookupFits, NEW row \in Rows, table' = Append(table, row)
  PROVE  /\ table' \in Seq(Rows)
         /\ DOMAIN table = 1 .. Len(table) /\ Len(table) \in Nat
         /\ DOMAIN table' = 1 .. Len(table) + 1
         /\ \A i \in 1 .. Len(table) : table'[i] = table[i]
         /\ table'[Len(table) + 1] = row
  <1>1. table \in Seq(Rows) BY DEF LookupFits
  <1> QED BY <1>1

\* The rows of a path after one more row.
LEMMA RowsOfAppended ==
  ASSUME LookupFits, NEW row \in Rows, table' = Append(table, row), NEW k
  PROVE  RowsOf(k)' = RowsOf(k) \cup (IF Key(row) = k THEN {Len(table) + 1} ELSE {})
  BY RowAppended DEF RowsOf

LEMMA BuildStart == ASSUME DagInit PROVE LookupFits
  <1>1. table = <<>> /\ lookup = <<>> /\ ambiguous = {} BY DEF DagInit
  <1>2. DOMAIN table = {} /\ DOMAIN lookup = {} /\ table \in Seq(Rows) BY <1>1
  <1> QED BY <1>1, <1>2 DEF LookupFits

\* A row more: its path is new, or has the same DAG, or becomes ambiguous.
LEMMA BuildStep == ASSUME LookupFits, BuildRow PROVE LookupFits'
  <1>1. PICK row \in Rows :
          /\ table' = Append(table, row)
          /\ IF Key(row) = <<>> THEN UNCHANGED <<lookup, ambiguous>>
             ELSE IF Conflicts(Key(row), row)
             THEN ambiguous' = ambiguous \cup {Key(row)} /\ UNCHANGED lookup
             ELSE /\ lookup' = [k \in DOMAIN lookup \cup {Key(row)} |->
                                  IF k = Key(row) THEN row.dag ELSE lookup[k]]
                  /\ UNCHANGED ambiguous
        BY DEF BuildRow
  <1> DEFINE n == Len(table)
             K == Key(row)
             Keys == {Key(table[i]) : i \in DOMAIN table}
             KeysNext == {Key(table'[i]) : i \in DOMAIN table'}
             Says(k, i) == lookup[k] = table[i].dag
  <1>2. /\ table' \in Seq(Rows) /\ n \in Nat /\ DOMAIN table = 1 .. n /\ DOMAIN table' = 1 .. n + 1
        /\ table'[n + 1] = row /\ \A i \in 1 .. n : table'[i] = table[i]
        BY <1>1, RowAppended
  <1>3. KeysNext = Keys \cup {K} BY <1>2
  <1>4. \A k : RowsOf(k)' = RowsOf(k) \cup (IF K = k THEN {n + 1} ELSE {})
        BY <1>1, RowsOfAppended
  <1>5. \A k : RowsOf(k) \subseteq 1 .. n BY <1>2 DEF RowsOf
  <1>6. /\ DOMAIN lookup = Keys \ {<<>>}
        /\ \A k \in DOMAIN lookup : \E i \in RowsOf(k) : lookup[k] = table[i].dag
        /\ ambiguous = {k \in DOMAIN lookup : \E i \in RowsOf(k) : table[i].dag # lookup[k]}
        BY DEF LookupFits
  <1>7. SUFFICES /\ DOMAIN lookup' = KeysNext \ {<<>>}
                 /\ \A k \in DOMAIN lookup' : \E i \in RowsOf(k)' : lookup'[k] = table'[i].dag
                 /\ ambiguous' = {k \in DOMAIN lookup' :
                                    \E i \in RowsOf(k)' : table'[i].dag # lookup'[k]}
        BY <1>2 DEF LookupFits
  <1> HIDE DEF n, K, Keys, KeysNext
  <1>8. CASE K = <<>>
    <2>1. lookup' = lookup /\ ambiguous' = ambiguous BY <1>1, <1>8 DEF K
    <2>2. \A k \in DOMAIN lookup : RowsOf(k)' = RowsOf(k) BY <1>4, <1>6, <1>8
    <2>3. \A k : \A i \in RowsOf(k) : table'[i] = table[i] BY <1>2, <1>5
    <2> QED BY <1>3, <1>6, <1>8, <2>1, <2>2, <2>3
  <1>9. CASE K # <<>> /\ Conflicts(K, row)
    <2>1. lookup' = lookup /\ ambiguous' = ambiguous \cup {K} BY <1>1, <1>9 DEF K
    <2>2. K \in DOMAIN lookup /\ lookup[K] # row.dag BY <1>9 DEF Conflicts
    <2>3. \A k : \A i \in RowsOf(k) : table'[i] = table[i] /\ i \in RowsOf(k)' BY <1>2, <1>4, <1>5
    <2>4. \A k \in DOMAIN lookup : k # K => RowsOf(k)' = RowsOf(k) BY <1>4
    <2>5. n + 1 \in RowsOf(K)' BY <1>4
    <2>6. DOMAIN lookup' = KeysNext \ {<<>>} BY <1>3, <1>6, <2>1, <2>2
    <2>7. \A k \in DOMAIN lookup' : \E i \in RowsOf(k)' : lookup'[k] = table'[i].dag
          BY <1>6, <2>1, <2>3
    <2>8. \A k \in DOMAIN lookup' :
            k \in ambiguous' <=> \E i \in RowsOf(k)' : table'[i].dag # lookup'[k]
      <3>1. \E i \in RowsOf(K)' : table'[i].dag # lookup'[K] BY <1>2, <2>1, <2>2, <2>5
      <3>2. \A k \in DOMAIN lookup : k # K =>
              (k \in ambiguous <=> \E i \in RowsOf(k)' : table'[i].dag # lookup[k])
            BY <1>6, <2>3, <2>4
      <3> QED BY <2>1, <3>1, <3>2
    <2>9. ambiguous' \subseteq DOMAIN lookup' BY <1>6, <2>1, <2>2
    <2> QED BY <2>6, <2>7, <2>8, <2>9
  <1>10. CASE K # <<>> /\ ~ Conflicts(K, row)
    <2>1. /\ lookup' = [k \in DOMAIN lookup \cup {K} |-> IF k = K THEN row.dag ELSE lookup[k]]
          /\ ambiguous' = ambiguous
          BY <1>1, <1>10 DEF K
    <2>2. DOMAIN lookup' = DOMAIN lookup \cup {K} /\ lookup'[K] = row.dag
          /\ \A k \in DOMAIN lookup : lookup'[k] = lookup[k]
          BY <1>10, <2>1 DEF Conflicts
    <2>3. \A k : \A i \in RowsOf(k) : table'[i] = table[i] /\ i \in RowsOf(k)' BY <1>2, <1>4, <1>5
    <2>4. \A k \in DOMAIN lookup : k # K => RowsOf(k)' = RowsOf(k) BY <1>4
    <2>5. RowsOf(K)' = RowsOf(K) \cup {n + 1} /\ table'[n + 1] = row BY <1>2, <1>4
    <2>6. DOMAIN lookup' = KeysNext \ {<<>>} BY <1>3, <1>6, <1>10, <2>2
    <2>7. \A k \in DOMAIN lookup' : \E i \in RowsOf(k)' : lookup'[k] = table'[i].dag
      <3>1. \E i \in RowsOf(K)' : lookup'[K] = table'[i].dag BY <2>2, <2>5
      <3>2. \A k \in DOMAIN lookup : \E i \in RowsOf(k)' : lookup'[k] = table'[i].dag
            BY <1>6, <2>2, <2>3
      <3> QED BY <2>2, <3>1, <3>2
    <2>8. \A k \in DOMAIN lookup : k # K =>
            (k \in ambiguous <=> \E i \in RowsOf(k)' : table'[i].dag # lookup'[k])
          BY <1>6, <2>2, <2>3, <2>4
    <2>9. K \in ambiguous <=> \E i \in RowsOf(K)' : table'[i].dag # lookup'[K]
      <3>1. CASE K \in DOMAIN lookup
        <4>1. K \in ambiguous <=> \E i \in RowsOf(K) : table[i].dag # lookup[K] BY <1>6, <3>1
        <4> QED BY <2>2, <2>3, <2>5, <3>1, <4>1
      <3>2. CASE K \notin DOMAIN lookup
        <4>1. RowsOf(K) = {} BY <1>6, <1>10, <3>2 DEF RowsOf, Keys
        <4>2. K \notin ambiguous BY <1>6, <3>2
        <4> QED BY <2>2, <2>5, <4>1, <4>2
      <3> QED BY <3>1, <3>2
    <2>10. ambiguous' \subseteq DOMAIN lookup' BY <1>6, <2>1, <2>2
    <2>11. \A k \in DOMAIN lookup' :
             k \in ambiguous' <=> \E i \in RowsOf(k)' : table'[i].dag # lookup'[k]
           BY <2>1, <2>2, <2>8, <2>9
    <2> QED BY <2>6, <2>7, <2>10, <2>11
  <1> QED BY <1>8, <1>9, <1>10

\* Without its ambiguous paths the lookup is the one that BuildExact defines.
LEMMA BuildEnd == ASSUME LookupFits, FinishBuild PROVE BuildExact'
  <1>1. /\ table' = table /\ DOMAIN lookup' = DOMAIN lookup \ ambiguous
        /\ \A k \in DOMAIN lookup \ ambiguous : lookup'[k] = lookup[k]
        BY DEF FinishBuild
  <1>2. /\ DOMAIN lookup = {Key(table[i]) : i \in DOMAIN table} \ {<<>>}
        /\ \A k \in DOMAIN lookup : \E i \in RowsOf(k) : lookup[k] = table[i].dag
        /\ ambiguous = {k \in DOMAIN lookup : \E i \in RowsOf(k) : table[i].dag # lookup[k]}
        BY DEF LookupFits
  <1>3. \A k \in DOMAIN lookup : k \notin ambiguous <=> Agreed(k)
    <2>1. ASSUME NEW k \in DOMAIN lookup, k \notin ambiguous PROVE Agreed(k)
      <3>1. \A i \in RowsOf(k) : table[i].dag = lookup[k] BY <1>2, <2>1
      <3> QED BY <3>1 DEF Agreed
    <2>2. ASSUME NEW k \in DOMAIN lookup, Agreed(k) PROVE k \notin ambiguous
      <3>1. PICK i \in RowsOf(k) : lookup[k] = table[i].dag BY <1>2, <2>2
      <3>2. \A j \in RowsOf(k) : table[j].dag = lookup[k] BY <2>2, <3>1 DEF Agreed
      <3> QED BY <1>2, <3>2
    <2> QED BY <2>1, <2>2
  <1>4. \A k : RowsOf(k)' = RowsOf(k) /\ (Agreed(k)' <=> Agreed(k)) BY <1>1 DEF RowsOf, Agreed
  <1>5. DOMAIN lookup' = {k \in {Key(table[i]) : i \in DOMAIN table} \ {<<>>} : Agreed(k)}
        BY <1>1, <1>2, <1>3
  <1>6. ASSUME NEW i \in DOMAIN table, Key(table[i]) \in DOMAIN lookup'
        PROVE  lookup'[Key(table[i])] = table[i].dag
    <2>1. i \in RowsOf(Key(table[i])) BY DEF RowsOf
    <2>2. Key(table[i]) \in DOMAIN lookup \ ambiguous BY <1>1, <1>6
    <2> QED BY <1>1, <1>2, <2>1, <2>2
  <1> QED BY <1>1, <1>4, <1>5, <1>6 DEF BuildExact

LEMMA DagKept ==
  ASSUME UNCHANGED <<table, lookup, ambiguous>>
  PROVE  (LookupFits' <=> LookupFits) /\ (BuildExact' <=> BuildExact)
  BY DEF LookupFits, BuildExact, RowsOf, Agreed

LEMMA WordsStart == ASSUME DagInit PROVE LookupWords /\ answer = NoAnswer
  <1>1. lookup = <<>> /\ answer = NoAnswer BY DEF DagInit
  <1>2. DOMAIN lookup = {} BY <1>1
  <1> QED BY <1>1, <1>2, FS_EmptySet DEF LookupWords

LEMMA WordsBuild == ASSUME LookupWords, BuildRow PROVE LookupWords' /\ answer' = answer
  <1>1. PICK row \in Rows :
          \/ UNCHANGED lookup
          \/ lookup' = [k \in DOMAIN lookup \cup {Key(row)} |->
                          IF k = Key(row) THEN row.dag ELSE lookup[k]]
        BY DEF BuildRow
  <1>2. Key(row) \in Seq(Chars)
    <2>1. row.path \in Words BY PathsAssumption DEF Words
    <2> QED BY <2>1, NormaliseIs DEF Key, Words
  <1>3. DOMAIN lookup' \in {DOMAIN lookup, DOMAIN lookup \cup {Key(row)}} BY <1>1
  <1>4. IsFiniteSet(DOMAIN lookup) /\ DOMAIN lookup \subseteq Seq(Chars) BY DEF LookupWords, Words
  <1>5. IsFiniteSet(DOMAIN lookup \cup {Key(row)}) BY <1>4, FS_AddElement
  <1>6. IsFiniteSet(DOMAIN lookup') /\ DOMAIN lookup' \subseteq Seq(Chars)
        BY <1>2, <1>3, <1>4, <1>5
  <1> QED BY <1>6 DEF LookupWords, BuildRow

LEMMA WordsEnd == ASSUME LookupWords, FinishBuild PROVE LookupWords' /\ answer' = answer
  <1>1. DOMAIN lookup' \in SUBSET (DOMAIN lookup) /\ answer' = answer BY DEF FinishBuild
  <1>2. IsFiniteSet(DOMAIN lookup) /\ DOMAIN lookup \subseteq Seq(Chars) BY DEF LookupWords, Words
  <1>3. IsFiniteSet(DOMAIN lookup') BY <1>1, <1>2, FS_Subset
  <1> QED BY <1>1, <1>2, <1>3 DEF LookupWords

\* The script that was looked up has the answer that its paths define.
LEMMA LookupStep == ASSUME LookupWords, Lookup PROVE LookupExact'
  <1>1. PICK script \in Scripts :
          answer' = [script |-> script, dag |-> Find(Normalise("none", script))]
        BY DEF Lookup
  <1> DEFINE key == Normalise("none", script)
             aligned == {k \in DOMAIN lookup : Aligned(k, key)}
  <1>2. lookup' = lookup BY DEF Lookup
  <1>3. key \in Words
    <2>1. script \in Words BY PathsAssumption DEF Words
    <2> QED BY <2>1, NormaliseIs
  <1>4. answer'.script = script /\ answer'.dag = Find(key) BY <1>1
  <1>5. Find(key) = IF key \in DOMAIN lookup THEN lookup[key]
                    ELSE IF \E k \in aligned : aligned = {k}
                         THEN lookup[CHOOSE k \in aligned : TRUE] ELSE NoDag
    <2> HIDE DEF key
    <2> QED BY <1>3, FindExact, SlashAssumption
  <1> HIDE DEF key
  <1>6. Normalise("none", answer'.script) = key BY <1>4 DEF key
  <1> QED BY <1>2, <1>4, <1>5, <1>6 DEF LookupExact

LEMMA AnswerKept ==
  ASSUME UNCHANGED <<lookup, answer>>
  PROVE  (LookupExact' <=> LookupExact) /\ (LookupWords' <=> LookupWords)
  BY DEF LookupExact, LookupWords
=============================================================================

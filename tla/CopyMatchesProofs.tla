------------------------- MODULE CopyMatchesProofs --------------------------
(***************************************************************************)
(* Proofs about CopyMatches for any jobs, prefixes and matches, provided   *)
(* that no object's name begins with a slash.                              *)
(***************************************************************************)
EXTENDS CopyMatches, SequenceTheorems, TLAPS

-----------------------------------------------------------------------------
(* Concatenation *)

LEMMA Concat ==
  ASSUME NEW S, NEW a \in Seq(S), NEW b \in Seq(S)
  PROVE  /\ a \o b \in Seq(S)
         /\ Len(a) \in Nat /\ Len(b) \in Nat /\ Len(a \o b) = Len(a) + Len(b)
         /\ \A i \in 1 .. Len(a) : (a \o b)[i] = a[i]
         /\ \A i \in 1 .. Len(b) : (a \o b)[Len(a) + i] = b[i]
<1>1. Len(a) \in Nat /\ Len(b) \in Nat
  BY LenProperties
<1>2. /\ a \o b \in Seq(S) /\ Len(a \o b) = Len(a) + Len(b)
      /\ \A i \in 1 .. Len(a) + Len(b) :
           (a \o b)[i] = IF i <= Len(a) THEN a[i] ELSE b[i - Len(a)]
  BY ConcatProperties
<1>3. ASSUME NEW i \in 1 .. Len(b)
      PROVE  (a \o b)[Len(a) + i] = b[i]
  <2>1. Len(a) + i \in 1 .. Len(a) + Len(b) /\ ~(Len(a) + i <= Len(a)) /\ (Len(a) + i) - Len(a) = i
    BY <1>1
  <2> QED BY <1>2, <2>1
<1>4. ASSUME NEW i \in 1 .. Len(a)
      PROVE  (a \o b)[i] = a[i]
  BY <1>1, <1>2
<1> QED
  BY <1>1, <1>2, <1>3, <1>4

LEMMA FirstOfPair ==
  ASSUME NEW S, NEW x \in S, NEW b \in Seq(S)
  PROVE  (<<x>> \o b)[1] = x
<1>1. <<x>> \in Seq(S) /\ Len(<<x>>) = 1 /\ <<x>>[1] = x
  OBVIOUS
<1> QED
  BY <1>1, Concat

LEMMA CancelLeft ==
  ASSUME NEW S, NEW a \in Seq(S), NEW b \in Seq(S), NEW c \in Seq(S), a \o b = a \o c
  PROVE  b = c
<1>1. /\ Len(a) \in Nat /\ Len(b) \in Nat /\ Len(c) \in Nat
      /\ Len(a \o b) = Len(a) + Len(b) /\ Len(a \o c) = Len(a) + Len(c)
      /\ \A i \in 1 .. Len(b) : (a \o b)[Len(a) + i] = b[i]
      /\ \A i \in 1 .. Len(c) : (a \o c)[Len(a) + i] = c[i]
  BY Concat
<1>2. Len(b) = Len(c)
  BY <1>1
<1>3. \A i \in 1 .. Len(b) : b[i] = c[i]
  BY <1>1, <1>2
<1> QED
  BY <1>2, <1>3, SeqEqual

-----------------------------------------------------------------------------
(* Names *)

LEMMA RootType ==
  ASSUME NEW j \in Jobs
  PROVE  /\ Prefix[j] \in Seq(Segments) /\ Root(j) \in Seq(Segments)
         /\ Len(Prefix[j]) \in Nat /\ Len(Root(j)) = Len(Prefix[j]) + 2
         /\ \A i \in 1 .. Len(Prefix[j]) : Root(j)[i] = Prefix[j][i] /\ Prefix[j][i] \notin Jobs
         /\ Root(j)[Len(Prefix[j]) + 1] = "jobs"
         /\ Root(j)[Len(Prefix[j]) + 2] = j
<1>1. Prefix[j] \in Seq(Segments \ Jobs)
  BY JobIdAssumption
<1>2. Prefix[j] \in Seq(Segments) /\ Len(Prefix[j]) \in Nat
  BY <1>1, SeqMonotonic, LenProperties
<1>3. /\ <<"jobs", j>> \in Seq(Segments) /\ Len(<<"jobs", j>>) = 2
      /\ <<"jobs", j>>[1] = "jobs" /\ <<"jobs", j>>[2] = j
  <2>1. "jobs" \in Segments /\ j \in Segments
    BY SegmentsAssumption
  <2> QED BY <2>1
<1>4. /\ Root(j) \in Seq(Segments) /\ Len(Root(j)) = Len(Prefix[j]) + 2
      /\ \A i \in 1 .. Len(Prefix[j]) : Root(j)[i] = Prefix[j][i]
      /\ \A i \in 1 .. 2 : Root(j)[Len(Prefix[j]) + i] = <<"jobs", j>>[i]
  BY <1>2, <1>3, Concat DEF Root
<1>5. \A i \in 1 .. Len(Prefix[j]) : Prefix[j][i] \notin Jobs
  BY <1>1, ElementOfSeq
<1>6. /\ Root(j)[Len(Prefix[j]) + 1] = "jobs"
      /\ Root(j)[Len(Prefix[j]) + 2] = j
  BY <1>3, <1>4
<1> QED
  BY <1>2, <1>4, <1>5, <1>6

\* A destination is the job's root, followed by the bucket and the name.
LEMMA DestinationType ==
  ASSUME RelativeNames, NEW j \in Jobs, NEW s \in Matched[j]
  PROVE  /\ s \in Sources
         /\ Destination(j, s) \in Names
         /\ <<s.bucket>> \o s.name \in Seq(Segments)
         /\ Len(<<s.bucket>> \o s.name) \in Nat \ {0}
         /\ Destination(j, s) = Root(j) \o (<<s.bucket>> \o s.name)
         /\ Destination(j, s) \in Seq(Segments)
         /\ Len(Destination(j, s)) > Len(Root(j))
         /\ \A i \in 1 .. Len(Root(j)) : Destination(j, s)[i] = Root(j)[i]
<1>1. s \in Sources /\ Destination(j, s) \in Names
  BY DEF Sources, Names
<1>2. <<s.bucket>> \in Seq(Segments) /\ Len(<<s.bucket>>) = 1 /\ s.name \in Seq(Segments)
  BY MatchedAssumption
<1>3. /\ <<s.bucket>> \o s.name \in Seq(Segments)
      /\ Len(<<s.bucket>> \o s.name) \in Nat \ {0}
  BY <1>2, Concat
<1>4. Destination(j, s) = Root(j) \o (<<s.bucket>> \o s.name)
  BY <1>1 DEF RelativeNames, Destination
<1>5. Root(j) \in Seq(Segments) /\ Len(Root(j)) \in Nat
  BY RootType, LenProperties
<1>6. /\ Destination(j, s) \in Seq(Segments)
      /\ Len(Destination(j, s)) = Len(Root(j)) + Len(<<s.bucket>> \o s.name)
      /\ \A i \in 1 .. Len(Root(j)) : Destination(j, s)[i] = Root(j)[i]
  BY <1>3, <1>4, <1>5, Concat
<1> QED
  BY <1>1, <1>3, <1>4, <1>5, <1>6

\* The first job id in a destination is that of its job.
LEMMA DestinationJob ==
  ASSUME RelativeNames,
         NEW j \in Jobs, NEW s \in Matched[j],
         NEW k \in Jobs, NEW t \in Matched[k],
         Destination(j, s) = Destination(k, t)
  PROVE  Len(Prefix[j]) >= Len(Prefix[k])
<1> DEFINE m == Len(Prefix[k])
<1> SUFFICES ASSUME Len(Prefix[j]) < m
             PROVE  FALSE
  BY RootType
<1>1. /\ Len(Prefix[j]) \in Nat /\ m \in Nat
      /\ Len(Root(j)) = Len(Prefix[j]) + 2 /\ Len(Root(k)) = m + 2
      /\ Root(j)[Len(Prefix[j]) + 2] = j
      /\ Root(k)[m + 1] = "jobs"
      /\ \A i \in 1 .. m : Root(k)[i] \notin Jobs
  BY RootType
<1>2. /\ \A i \in 1 .. Len(Root(j)) : Destination(j, s)[i] = Root(j)[i]
      /\ \A i \in 1 .. Len(Root(k)) : Destination(k, t)[i] = Root(k)[i]
  BY DestinationType
<1>3. /\ Destination(j, s)[Len(Prefix[j]) + 2] = j
      /\ Destination(k, t)[Len(Prefix[j]) + 2] = Root(k)[Len(Prefix[j]) + 2]
  BY <1>1, <1>2
<1>4. Root(k)[Len(Prefix[j]) + 2] \notin Jobs
  BY <1>1, JobIdAssumption
<1> QED
  BY <1>3, <1>4

\* Copies of different jobs, and of different objects, have different names.
THEOREM DestinationsDistinct ==
  ASSUME RelativeNames,
         NEW j \in Jobs, NEW s \in Matched[j],
         NEW k \in Jobs, NEW t \in Matched[k],
         Destination(j, s) = Destination(k, t)
  PROVE  j = k /\ s = t
<1>1. Len(Prefix[j]) = Len(Prefix[k])
  BY DestinationJob, RootType
<1>2. /\ \A i \in 1 .. Len(Root(j)) : Destination(j, s)[i] = Root(j)[i]
      /\ \A i \in 1 .. Len(Root(k)) : Destination(k, t)[i] = Root(k)[i]
  BY DestinationType
<1>3. /\ Len(Prefix[j]) \in Nat /\ Len(Prefix[k]) \in Nat
      /\ Len(Root(j)) = Len(Prefix[j]) + 2 /\ Len(Root(k)) = Len(Prefix[k]) + 2
      /\ Root(j)[Len(Prefix[j]) + 2] = j /\ Root(k)[Len(Prefix[k]) + 2] = k
  BY RootType
<1>4. j = k
  BY <1>1, <1>2, <1>3
<1>5. <<s.bucket>> \o s.name = <<t.bucket>> \o t.name
  <2>1. Root(j) \in Seq(Segments)
    BY RootType
  <2>2. Root(j) \o (<<s.bucket>> \o s.name) = Root(j) \o (<<t.bucket>> \o t.name)
    <3>1. /\ Destination(j, s) = Root(j) \o (<<s.bucket>> \o s.name)
          /\ Destination(k, t) = Root(k) \o (<<t.bucket>> \o t.name)
      BY DestinationType
    <3> QED BY <1>4, <3>1, Zenon
  <2>3. <<s.bucket>> \o s.name \in Seq(Segments) /\ <<t.bucket>> \o t.name \in Seq(Segments)
    BY DestinationType
  <2> QED BY <2>1, <2>2, <2>3, CancelLeft
<1>6. /\ <<s.bucket>> \in Seq(Segments) /\ s.name \in Seq(Segments)
      /\ <<t.bucket>> \in Seq(Segments) /\ t.name \in Seq(Segments)
      /\ s.bucket \in Segments /\ t.bucket \in Segments
  BY MatchedAssumption
<1>7. s.bucket = t.bucket
  <2>1. (<<s.bucket>> \o s.name)[1] = s.bucket
    BY <1>6, FirstOfPair
  <2>2. (<<t.bucket>> \o t.name)[1] = t.bucket
    BY <1>6, FirstOfPair
  <2> QED BY <1>5, <2>1, <2>2
<1>8. s.name = t.name
  BY <1>5, <1>6, <1>7, CancelLeft
<1>9. /\ s = [bucket |-> s.bucket, name |-> s.name]
      /\ t = [bucket |-> t.bucket, name |-> t.name]
  BY MatchedAssumption
<1> QED
  BY <1>4, <1>7, <1>8, <1>9

LEMMA BelowRoot ==
  ASSUME RelativeNames, NEW j \in Jobs, NEW s \in Matched[j]
  PROVE  Below(Destination(j, s), Root(j))
<1>1. /\ Root(j) \in Seq(Segments) /\ Destination(j, s) \in Seq(Segments)
      /\ Len(Root(j)) \in Nat /\ Len(Destination(j, s)) \in Nat
      /\ Len(Destination(j, s)) > Len(Root(j))
      /\ \A i \in 1 .. Len(Root(j)) : Destination(j, s)[i] = Root(j)[i]
  BY RootType, DestinationType, LenProperties
<1>2. \A i \in 1 .. Len(Root(j)) : Destination(j, s)[i] \in Segments
  BY <1>1, ElementOfSeq
<1>3. /\ SubSeq(Destination(j, s), 1, Len(Root(j))) \in Seq(Segments)
      /\ Len(SubSeq(Destination(j, s), 1, Len(Root(j)))) = Len(Root(j))
      /\ \A i \in 1 .. Len(Root(j)) : SubSeq(Destination(j, s), 1, Len(Root(j)))[i] = Root(j)[i]
  BY <1>1, <1>2, SubSeqProperties
<1>4. SubSeq(Destination(j, s), 1, Len(Root(j))) = Root(j)
  BY <1>1, <1>3, SeqEqual
<1> QED
  BY <1>1, <1>4 DEF Below

-----------------------------------------------------------------------------
(* Types *)

\* What an action does to the one call it is about.
LEMMA SetChanges ==
  ASSUME TypeOK, NEW j \in Jobs, NEW s \in Matched[j], NEW value, Set(j, s, value)
  PROVE  \A k \in Jobs : \A t \in Matched[k] :
           status'[k][t] = IF k = j /\ t = s THEN value ELSE status[k][t]
BY DEF Set, TypeOK

LEMMA SetType ==
  ASSUME TypeOK, NEW j \in Jobs, NEW s \in Matched[j], NEW value \in Status, Set(j, s, value)
  PROVE  /\ status' \in [Jobs -> UNION {[Matched[k] -> Status] : k \in Jobs}]
         /\ \A k \in Jobs : status'[k] \in [Matched[k] -> Status]
<1>1. status[j] \in [Matched[j] -> Status]
  BY DEF TypeOK
<1>2. [status[j] EXCEPT ![s] = value] \in [Matched[j] -> Status]
  BY <1>1
<1>3. status' = [status EXCEPT ![j] = [status[j] EXCEPT ![s] = value]]
  BY DEF Set
<1>4. \A k \in Jobs : status'[k] \in [Matched[k] -> Status]
  BY <1>2, <1>3 DEF TypeOK
<1>5. DOMAIN status' = Jobs /\ status' = [k \in Jobs |-> status'[k]]
  BY <1>3 DEF TypeOK
<1> QED
  BY <1>4, <1>5

LEMMA TypeInit == Init => TypeOK
<1> SUFFICES ASSUME Init
             PROVE  TypeOK
  OBVIOUS
<1>1. \A k \in Jobs : [s \in Matched[k] |-> "waiting"] \in [Matched[k] -> Status]
  BY DEF Status
<1> QED
  BY <1>1 DEF Init, TypeOK

LEMMA TypeStep == TypeOK /\ [Next]_vars => TypeOK'
<1> SUFFICES ASSUME TypeOK, [Next]_vars
             PROVE  TypeOK'
  OBVIOUS
<1>1. ASSUME NEW j \in Jobs, NEW s \in Matched[j], CopyOne(j, s)
      PROVE  TypeOK'
  <2>1. PICK value \in Status : Set(j, s, value)
    BY <1>1 DEF CopyOne, Copy, Skip, CopyError, NoClient, Status
  <2>2. target' \in [Names -> (Jobs \X Sources) \cup {Foreign, NoObject}]
    <3>1. <<j, s>> \in Jobs \X Sources
      BY DEF Sources
    <3>2. CASE Copy(j, s)
      BY <3>1, <3>2 DEF Copy, TypeOK
    <3>3. CASE ~Copy(j, s)
      BY <1>1, <3>3 DEF CopyOne, Skip, CopyError, NoClient, TypeOK
    <3> QED BY <3>2, <3>3
  <2>3. UNCHANGED <<live, phase>>
    BY <1>1 DEF CopyOne, Copy, Skip, CopyError, NoClient
  <2> QED BY <2>1, <2>2, <2>3, SetType DEF TypeOK
<1>2. ASSUME NEW j \in Jobs, Finish(j) \/ Die(j)
      PROVE  TypeOK'
  BY <1>2 DEF Finish, Die, TypeOK
<1>3. ASSUME NEW s \in Sources, Change(s)
      PROVE  TypeOK'
  BY <1>3 DEF Change, TypeOK
<1>4. CASE UNCHANGED vars
  BY <1>4 DEF vars, TypeOK
<1> QED
  BY <1>1, <1>2, <1>3, <1>4 DEF Next

\* Every variable keeps its type.
THEOREM TypeCorrect == Spec => []TypeOK
BY TypeInit, TypeStep, PTL DEF Spec

-----------------------------------------------------------------------------
(* The inductive invariant *)

LEMMA InitInv == RelativeNames /\ Init => CopyInv
<1> SUFFICES ASSUME RelativeNames, Init
             PROVE  CopyInv
  OBVIOUS
<1>1. \A j \in Jobs : \A s \in Matched[j] : Destination(j, s) \in Names
  BY DestinationType
<1> QED
  BY <1>1 DEF Init, CopyInv, OwnOrEarlier, CopiedIsThere, SkippedOnCondition

\* A copy is made at one name, which no other call uses.
LEMMA CopyStep ==
  ASSUME RelativeNames, TypeOK, CopyInv, NEW j \in Jobs, NEW s \in Matched[j], Copy(j, s)
  PROVE  CopyInv'
<1> USE DEF CopyInv
<1>1. /\ phase[j] = "copying" /\ phase' = phase
      /\ target' = [target EXCEPT ![Destination(j, s)] = <<j, s>>]
  BY DEF Copy, Calling
<1>2. PICK value \in {"copied", "failed", "retrying"} : Set(j, s, value)
  BY DEF Copy
<1>3. \A k \in Jobs : \A t \in Matched[k] :
        status'[k][t] = IF k = j /\ t = s THEN value ELSE status[k][t]
  BY <1>2, SetChanges
<1>4. \A k \in Jobs : \A t \in Matched[k] :
        /\ Destination(k, t) \in Names
        /\ Destination(k, t) = Destination(j, s) => k = j /\ t = s
  BY DestinationType, DestinationsDistinct
<1>5. \A k \in Jobs : \A t \in Matched[k] :
        target'[Destination(k, t)] =
          IF k = j /\ t = s THEN <<j, s>> ELSE target[Destination(k, t)]
  BY <1>1, <1>4 DEF TypeOK
<1>6. <<j, s>> # NoObject
  <2>1. <<j, s>> \in Jobs \X Sources
    BY DestinationType
  <2> QED BY <2>1, NoObjectAssumption
<1>7. OwnOrEarlier'
  BY <1>5 DEF OwnOrEarlier
<1>8. CopiedIsThere'
  BY <1>3, <1>5 DEF CopiedIsThere
<1>9. SkippedOnCondition'
  BY <1>1, <1>3, <1>5, <1>6 DEF SkippedOnCondition, Copy
<1> QED
  BY <1>7, <1>8, <1>9

\* A call that copies nothing.
LEMMA NoCopyStep ==
  ASSUME TypeOK, CopyInv, NEW j \in Jobs, NEW s \in Matched[j],
         Skip(j, s) \/ CopyError(j, s) \/ NoClient(j, s)
  PROVE  CopyInv'
<1> USE DEF CopyInv
<1>1. phase[j] = "copying" /\ UNCHANGED <<live, target, phase>>
  BY DEF Skip, CopyError, NoClient, Calling
<1>2. PICK value \in {"skipped_existing", "failed", "raised"} :
        /\ Set(j, s, value)
        /\ value = "skipped_existing" =>
             (~Overwrite[j] /\ target[Destination(j, s)] # NoObject) \/ live[s] # "searched"
  BY DEF Skip, CopyError, NoClient
<1>3. \A k \in Jobs : \A t \in Matched[k] :
        status'[k][t] = IF k = j /\ t = s THEN value ELSE status[k][t]
  BY <1>2, SetChanges
<1>4. OwnOrEarlier'
  BY <1>1 DEF OwnOrEarlier
<1>5. CopiedIsThere'
  BY <1>1, <1>3 DEF CopiedIsThere
<1>6. SkippedOnCondition'
  BY <1>1, <1>2, <1>3 DEF SkippedOnCondition
<1> QED
  BY <1>4, <1>5, <1>6

\* A source that has been replaced or deleted does not come back in its old version.
LEMMA ChangeStep ==
  ASSUME TypeOK, CopyInv, NEW s \in Sources, Change(s)
  PROVE  CopyInv'
<1>1. UNCHANGED <<target, status, phase>>
  BY DEF Change
<1>2. \A t \in Sources : live[t] # "searched" => live'[t] # "searched"
  BY DEF Change, TypeOK
<1>3. \A j \in Jobs : \A t \in Matched[j] : t \in Sources
  BY DEF Sources
<1>4. OwnOrEarlier' /\ CopiedIsThere'
  BY <1>1 DEF CopyInv, OwnOrEarlier, CopiedIsThere
<1>5. SkippedOnCondition'
  BY <1>1, <1>2, <1>3 DEF CopyInv, SkippedOnCondition
<1> QED
  BY <1>4, <1>5 DEF CopyInv

LEMMA StepInv == RelativeNames /\ TypeOK /\ CopyInv /\ [Next]_vars => CopyInv'
<1> SUFFICES ASSUME RelativeNames, TypeOK, CopyInv, [Next]_vars
             PROVE  CopyInv'
  OBVIOUS
<1>1. ASSUME NEW j \in Jobs, NEW s \in Matched[j], CopyOne(j, s)
      PROVE  CopyInv'
  BY <1>1, CopyStep, NoCopyStep DEF CopyOne
<1>2. ASSUME NEW j \in Jobs, Finish(j) \/ Die(j)
      PROVE  CopyInv'
  BY <1>2 DEF Finish, Die, CopyInv, OwnOrEarlier, CopiedIsThere, SkippedOnCondition
<1>3. ASSUME NEW s \in Sources, Change(s)
      PROVE  CopyInv'
  BY <1>3, ChangeStep
<1>4. CASE UNCHANGED vars
  BY <1>4 DEF vars, CopyInv, OwnOrEarlier, CopiedIsThere, SkippedOnCondition
<1> QED
  BY <1>1, <1>2, <1>3, <1>4 DEF Next

\* Every destination holds nothing, its own copy, or what was there before; what is
\* reported as copied is there; and one of the two conditions of a call that was
\* reported as skipped has failed for good.
THEOREM CopyInvariant ==
  ASSUME RelativeNames
  PROVE  Spec => []CopyInv
<1>1. Init => CopyInv
  BY InitInv
<1>2. TypeOK /\ CopyInv /\ [Next]_vars => CopyInv'
  BY StepInv
<1> QED
  BY <1>1, <1>2, TypeCorrect, PTL DEF Spec

-----------------------------------------------------------------------------
(* What follows *)

\* What is reported as copied is there.
THEOREM CopiedIsThereHolds ==
  ASSUME RelativeNames
  PROVE  Spec => []CopiedIsThere
<1>1. CopyInv => CopiedIsThere
  BY DEF CopyInv
<1> QED
  BY <1>1, CopyInvariant, PTL

\* Only objects whose names begin with a slash can leave the prefix of their job
\* (posixpath.join, copying.py:53): the files of all others land below it.
THEOREM FilesLandBelowJobUnlessAbsolute ==
  ASSUME RelativeNames
  PROVE  Spec => []FilesLandBelowJob
<1>1. FilesLandBelowJob
  BY BelowRoot DEF FilesLandBelowJob
<1> QED
  BY <1>1, PTL

\* No copy is skipped for one of another job or source, and where no object stood in
\* the way, only because the searched version had been replaced or deleted.
THEOREM SkippedForCauseHolds ==
  ASSUME RelativeNames
  PROVE  Spec => []SkippedForCause
<1>1. CopyInv => SkippedForCause
  BY DEF CopyInv, OwnOrEarlier, SkippedOnCondition, SkippedForCause
<1> QED
  BY <1>1, CopyInvariant, PTL

LEMMA ReportStep == TypeOK /\ ReportIsWhole /\ [Next]_vars => ReportIsWhole'
<1> SUFFICES ASSUME TypeOK, ReportIsWhole, [Next]_vars,
                    NEW k \in Jobs, phase'[k] = "reported", NEW t \in Matched[k]
             PROVE  status'[k][t] \in {"copied", "skipped_existing", "failed"}
  BY DEF ReportIsWhole
<1>1. ASSUME NEW j \in Jobs, NEW s \in Matched[j], CopyOne(j, s)
      PROVE  status'[k][t] \in {"copied", "skipped_existing", "failed"}
  <2>1. phase[j] = "copying" /\ phase' = phase
    BY <1>1 DEF CopyOne, Copy, Skip, CopyError, NoClient, Calling
  <2>2. PICK value \in Status : Set(j, s, value)
    BY <1>1 DEF CopyOne, Copy, Skip, CopyError, NoClient, Status
  <2>3. status'[k][t] = status[k][t]
    BY <2>1, <2>2, SetChanges
  <2> QED BY <2>1, <2>3 DEF ReportIsWhole
<1>2. CASE phase[k] = "copying" /\ Finish(k)
  <2>1. ~Raised(k)
    BY <1>2 DEF Finish, TypeOK
  <2>2. status[k][t] \in Status \ {"raised"} /\ ~Calling(k, t)
    BY <1>2, <2>1 DEF Finish, Raised, TypeOK
  <2> QED BY <1>2, <2>2 DEF Calling, Status, Finish
<1>3. ASSUME NEW j \in Jobs, Finish(j) \/ Die(j), ~(j = k /\ Finish(k))
      PROVE  status'[k][t] \in {"copied", "skipped_existing", "failed"}
  <2>1. phase[k] = "reported" /\ status' = status
    BY <1>3 DEF Finish, Die, TypeOK
  <2> QED BY <2>1 DEF ReportIsWhole
<1>4. CASE UNCHANGED vars \/ \E s \in Sources : Change(s)
  BY <1>4 DEF vars, Change, ReportIsWhole
<1> QED
  BY <1>1, <1>2, <1>3, <1>4 DEF Next, Finish

\* Reports have a row with an outcome for each match.
THEOREM ReportIsWholeHolds == Spec => []ReportIsWhole
<1>1. Init => ReportIsWhole
  BY DEF Init, ReportIsWhole
<1> QED
  BY <1>1, ReportStep, TypeCorrect, PTL DEF Spec

\* Objects are replaced by jobs with overwrite alone, below their own prefix.
THEOREM ReplacesOwnOnlyHolds ==
  ASSUME RelativeNames
  PROVE  Spec => ReplacesOwnOnly
<1>1. TypeOK /\ [Next]_vars =>
        [\A p \in Names :
           target[p] # NoObject /\ target'[p] # target[p] =>
             \E j \in Jobs : Overwrite[j] /\ Below(p, Root(j))]_vars
  <2> SUFFICES ASSUME TypeOK, Next,
                      NEW p \in Names, target[p] # NoObject, target'[p] # target[p]
               PROVE  \E j \in Jobs : Overwrite[j] /\ Below(p, Root(j))
    OBVIOUS
  <2>1. PICK j \in Jobs : \E s \in Matched[j] : Copy(j, s)
    BY DEF Next, CopyOne, Skip, CopyError, NoClient, Finish, Die, Change
  <2>2. PICK s \in Matched[j] : Copy(j, s)
    BY <2>1
  <2>3. p = Destination(j, s)
    BY <2>2 DEF Copy, TypeOK
  <2>4. Overwrite[j]
    BY <2>2, <2>3 DEF Copy
  <2> QED BY <2>3, <2>4, BelowRoot
<1> QED
  BY <1>1, TypeCorrect, PTL DEF Spec, ReplacesOwnOnly
=============================================================================

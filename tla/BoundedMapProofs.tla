-------------------------- MODULE BoundedMapProofs --------------------------
(***************************************************************************)
(* Proofs about BoundedMap for any number of entries, threads and terms    *)
(* and any row limit.                                                      *)
(***************************************************************************)
EXTENDS BoundedMap, FiniteSetTheorems, TLAPS

\* The finite sets whose cardinality is spoken of.
LEMMA FiniteEntries ==
  ASSUME NEW S \in SUBSET Entries
  PROVE  IsFiniteSet(S) /\ Cardinality(S) \in Nat
<1>1. IsFiniteSet(Entries)
  BY FS_Interval, FilesAssumption DEF Entries
<1> QED
  BY <1>1, FS_Subset, FS_CardinalityType

\* What submitting one entry does to the window.
LEMMA SubmitAdds ==
  ASSUME TypeOK, PlacesInv, Submit, UNCHANGED handed
  PROVE  /\ submitted' \in Entries
         /\ future' \in [Entries -> Future]
         /\ \A e \in Entries : future'[e] = IF e = submitted' THEN "queued" ELSE future[e]
         /\ submitted' \notin InFlight \cup handed \cup done
         /\ InFlight' = InFlight \cup {submitted'}
         /\ Cardinality(InFlight') = Cardinality(InFlight) + 1
<1>1. submitted' \in Entries /\ submitted' = submitted + 1
  BY FilesAssumption DEF Submit, TypeOK, Entries
<1>2. future' \in [Entries -> Future]
  BY <1>1 DEF Submit, TypeOK, Future
<1>3. \A e \in Entries : future'[e] = IF e = submitted' THEN "queued" ELSE future[e]
  BY <1>1 DEF Submit, TypeOK
<1>4. future[submitted'] = "none"
  BY <1>1, FilesAssumption DEF PlacesInv, TypeOK, Entries
<1>5. submitted' \notin InFlight \cup handed \cup done
  BY <1>1, <1>4 DEF PlacesInv, InFlight
<1>6. InFlight' = InFlight \cup {submitted'}
  BY <1>1, <1>3, <1>5 DEF InFlight
<1>7. IsFiniteSet(InFlight)
  BY FiniteEntries DEF InFlight
<1> QED
  BY <1>1, <1>2, <1>3, <1>5, <1>6, <1>7, FS_AddElement

-----------------------------------------------------------------------------
(* Types *)

LEMMA TypeInit == Init => TypeOK
BY FilesAssumption, RowsAssumption DEF Init, TypeOK, Pc, Future

LEMMA TypeStep == TypeOK /\ [Next]_vars => TypeOK'
<1> SUFFICES ASSUME TypeOK, [Next]_vars
             PROVE  TypeOK'
  OBVIOUS
<1> USE DEF TypeOK, Pc
<1>1. ASSUME Submit
      PROVE  /\ submitted' \in 0 .. Files
             /\ future' \in [Entries -> Future]
             /\ pending' \subseteq Entries
  <2>1. submitted' \in Entries
    BY <1>1, FilesAssumption DEF Submit, Entries
  <2> QED BY <1>1, <2>1, FilesAssumption DEF Submit, Entries, Future
<1>2. CASE Fill
  BY <1>1, <1>2 DEF Fill
<1>3. CASE Wait
  BY <1>3 DEF Wait
<1>4. CASE Exhausted
  BY <1>4 DEF Exhausted
<1>5. CASE Refill
  BY <1>1, <1>5 DEF Refill
<1>6. CASE Join
  BY <1>6 DEF Join
<1>7. ASSUME NEW e \in Entries, Hand(e)
      PROVE  TypeOK'
  BY <1>7, TermsAssumption, RowsAssumption DEF Hand
<1>8. ASSUME NEW e \in Entries, Error(e)
      PROVE  TypeOK'
  BY <1>8 DEF Error
<1>9. CASE Pool
  BY <1>9 DEF Pool, Start, Finish, Future
<1>10. CASE UNCHANGED vars
  BY <1>10 DEF vars
<1> QED
  BY <1>2, <1>3, <1>4, <1>5, <1>6, <1>7, <1>8, <1>9, <1>10 DEF Next, Main

\* Every variable keeps its type.
THEOREM TypeCorrect == Spec => []TypeOK
BY TypeInit, TypeStep, PTL DEF Spec

-----------------------------------------------------------------------------
(* The inductive invariant *)

LEMMA InitInv == Init => MapInv
<1> SUFFICES ASSUME Init
             PROVE  MapInv
  OBVIOUS
<1>1. InFlight = {} /\ Unfinished = {}
  BY DEF Init, InFlight, Unfinished
<1>2. Cardinality({}) = 0
  BY FS_EmptySet
<1>3. PlacesInv
  BY <1>1, FilesAssumption DEF Init, PlacesInv, Entries
<1>4. WindowInv
  BY <1>1, <1>2, WorkersAssumption DEF Init, WindowInv, Window
<1>5. ProgressInv
  BY RowsAssumption DEF Init, ProgressInv, Looping
<1> QED
  BY <1>1, <1>3, <1>4, <1>5 DEF MapInv, QuietAtEnd

LEMMA FillInv == TypeOK /\ MapInv /\ Fill => MapInv'
<1> SUFFICES ASSUME TypeOK, MapInv, Fill
             PROVE  MapInv'
  OBVIOUS
<1> USE DEF MapInv
<1>1. pc = "fill" /\ handed = {} /\ left = {} /\ error = "none" /\ UNCHANGED <<done, left, handed, rows, error>>
  BY DEF Fill, WindowInv, ProgressInv, Looping
<1>2. CASE submitted < Window /\ submitted < Files
  <2>1. Submit /\ pc' = "fill"
    BY <1>1, <1>2 DEF Fill
  <2>2. /\ submitted' \in Entries
        /\ \A e \in Entries : future'[e] = IF e = submitted' THEN "queued" ELSE future[e]
        /\ submitted' \notin InFlight \cup handed \cup done
        /\ InFlight' = InFlight \cup {submitted'}
        /\ Cardinality(InFlight') = Cardinality(InFlight) + 1
    BY <1>1, <2>1, SubmitAdds
  <2>3. submitted' = submitted + 1 /\ pending' = pending \cup {submitted'}
    BY <2>1 DEF Submit
  <2>4. InFlight = 1 .. submitted
    BY <1>1, FilesAssumption DEF InFlight, PlacesInv, TypeOK, Entries
  <2>5. Cardinality(InFlight) = submitted
    BY <2>4, FS_Interval DEF TypeOK
  <2>6. PlacesInv'
    BY <1>1, <2>1, <2>2, <2>3, FilesAssumption DEF PlacesInv, Looping, TypeOK, Entries
  <2>7. WindowInv'
    BY <1>1, <1>2, <2>1, <2>2, <2>3, <2>5, WorkersAssumption DEF WindowInv, Window, TypeOK
  <2>8. ProgressInv' /\ QuietAtEnd'
    BY <1>1, <2>1 DEF ProgressInv, QuietAtEnd, Looping
  <2> QED BY <2>6, <2>7, <2>8
<1>3. CASE ~(submitted < Window /\ submitted < Files)
  <2>1. pc' = "wait" /\ UNCHANGED <<submitted, future, pending>>
    BY <1>1, <1>3 DEF Fill
  <2>2. submitted = Files \/ pending # {}
    <3>1. CASE submitted = Files
      BY <3>1
    <3>2. CASE submitted # Files
      <4>1. submitted \in Nat /\ submitted >= 1 /\ 1 \in Entries
        BY <1>3, <3>2, WorkersAssumption, FilesAssumption DEF TypeOK, Window, Entries
      <4>2. 1 \in InFlight
        BY <1>1, <4>1 DEF InFlight, PlacesInv
      <4> QED BY <1>1, <4>2 DEF PlacesInv, Looping
    <3> QED BY <3>1, <3>2
  <2>3. InFlight' = InFlight
    BY <1>1, <2>1 DEF InFlight
  <2>4. PlacesInv'
    BY <1>1, <2>1, <2>3 DEF PlacesInv, Looping
  <2>5. WindowInv'
    BY <1>1, <2>1, <2>3 DEF WindowInv
  <2>6. ProgressInv' /\ QuietAtEnd'
    BY <1>1, <2>1, <2>2 DEF ProgressInv, QuietAtEnd, Looping
  <2> QED BY <2>4, <2>5, <2>6
<1> QED
  BY <1>2, <1>3

LEMMA WaitInv == TypeOK /\ MapInv /\ Wait => MapInv'
<1> SUFFICES ASSUME TypeOK, MapInv, Wait
             PROVE  MapInv'
  OBVIOUS
<1> USE DEF MapInv
<1>1. PICK finished \in SUBSET (pending \ Unfinished) :
        /\ finished # {}
        /\ done' = finished /\ left' = finished
        /\ pending' = pending \ finished
  BY DEF Wait
<1>2. /\ pc = "wait" /\ pc' = "take"
      /\ UNCHANGED <<submitted, future, handed, rows, error>>
  BY DEF Wait
<1>3. left = {} /\ InFlight' = InFlight /\ InFlight = pending
  BY <1>2 DEF InFlight, PlacesInv, ProgressInv, Looping
<1>4. \A e \in finished : future[e] \notin {"none", "queued", "running"}
  BY <1>3 DEF InFlight, Unfinished, TypeOK
<1>5. PlacesInv'
  BY <1>1, <1>2, <1>3, <1>4 DEF PlacesInv, Looping
<1>6. Cardinality(finished) <= Cardinality(InFlight)
  BY <1>1, <1>3, FiniteEntries, FS_Subset DEF TypeOK
<1>7. Cardinality(finished) \in Nat /\ Cardinality(InFlight) \in Nat
  BY <1>1, <1>3, FiniteEntries DEF TypeOK
<1>8. WindowInv'
  BY <1>1, <1>2, <1>3, <1>6, <1>7, WorkersAssumption DEF WindowInv, Window
<1>9. ProgressInv' /\ QuietAtEnd'
  BY <1>1, <1>2, <1>3 DEF ProgressInv, QuietAtEnd, Looping
<1> QED
  BY <1>5, <1>8, <1>9

LEMMA ExhaustedInv == TypeOK /\ MapInv /\ Exhausted => MapInv'
<1> SUFFICES ASSUME TypeOK, MapInv, Exhausted
             PROVE  MapInv'
  OBVIOUS
<1> USE DEF MapInv
<1>1. /\ pc = "wait" /\ pending = {} /\ pc' = "join"
      /\ UNCHANGED <<submitted, future, pending, done, left, handed, rows, error>>
  BY DEF Exhausted
<1>2. submitted = Files /\ InFlight = {}
  BY <1>1 DEF PlacesInv, ProgressInv, Looping
<1>3. \A e \in Entries : future[e] # "none"
  BY <1>2, FilesAssumption DEF PlacesInv, Entries
<1>4. handed = Entries
  BY <1>2, <1>3 DEF InFlight, TypeOK
<1>5. InFlight' = InFlight
  BY <1>1 DEF InFlight
<1>6. PlacesInv'
  BY <1>1, <1>5 DEF PlacesInv, Looping
<1>7. WindowInv'
  BY <1>1, <1>5 DEF WindowInv
<1>8. ProgressInv' /\ QuietAtEnd'
  BY <1>1, <1>4 DEF ProgressInv, QuietAtEnd, Looping
<1> QED
  BY <1>6, <1>7, <1>8

LEMMA HandInv ==
  ASSUME TypeOK, MapInv, NEW e \in Entries, Hand(e)
  PROVE  MapInv'
<1> USE DEF MapInv
<1>1. /\ pc = "take" /\ e \in left /\ future[e] = "ok"
      /\ left' = left \ {e} /\ handed' = handed \cup {e}
      /\ pc' \in {"join", "refill"}
      /\ UNCHANGED <<submitted, future, pending, done>>
  BY DEF Hand
<1>2. InFlight = pending \cup left /\ InFlight' = InFlight \ {e} /\ e \in InFlight
  BY <1>1 DEF InFlight, PlacesInv, Looping
<1>3. Cardinality(InFlight) \in Nat /\ Cardinality(InFlight') = Cardinality(InFlight) - 1
  <2>1. IsFiniteSet(InFlight) /\ Cardinality(InFlight) \in Nat
    BY FiniteEntries DEF InFlight
  <2> QED BY <1>2, <2>1, FS_RemoveElement
<1>4. e \in 1 .. submitted
  BY <1>1, FilesAssumption DEF PlacesInv, TypeOK, Entries
<1>5. PlacesInv'
  BY <1>1, <1>2, <1>4 DEF PlacesInv, Looping
<1>6. WindowInv'
  BY <1>1, <1>3, WorkersAssumption DEF WindowInv, Window
<1>7. /\ pc' = "join" => error' # "none"
      /\ pc' = "refill" => error' = "none"
      /\ error' = "none" => rows' <= MaxRows
  BY <1>1, TermsAssumption, RowsAssumption DEF Hand, ProgressInv, Looping, TypeOK
<1>8. ProgressInv' /\ QuietAtEnd'
  BY <1>1, <1>7 DEF ProgressInv, QuietAtEnd, Looping
<1> QED
  BY <1>5, <1>6, <1>8

LEMMA ErrorInv ==
  ASSUME TypeOK, MapInv, NEW e \in Entries, Error(e)
  PROVE  MapInv'
<1> USE DEF MapInv
<1>1. /\ pc = "take" /\ left' = left \ {e} /\ error' = "unreadable" /\ pc' = "join"
      /\ UNCHANGED <<submitted, future, pending, done, handed, rows>>
  BY DEF Error
<1>2. InFlight' = InFlight
  BY <1>1 DEF InFlight
<1>3. PlacesInv'
  BY <1>1, <1>2 DEF PlacesInv, Looping
<1>4. WindowInv'
  BY <1>1, <1>2 DEF WindowInv
<1>5. ProgressInv' /\ QuietAtEnd'
  BY <1>1 DEF ProgressInv, QuietAtEnd, Looping
<1> QED
  BY <1>3, <1>4, <1>5

LEMMA RefillInv == TypeOK /\ MapInv /\ Refill => MapInv'
<1> SUFFICES ASSUME TypeOK, MapInv, Refill
             PROVE  MapInv'
  OBVIOUS
<1> USE DEF MapInv
<1>1. /\ pc = "refill" /\ pc' = IF left = {} THEN "wait" ELSE "take"
      /\ UNCHANGED <<done, left, handed, rows, error>>
  BY DEF Refill
<1>2. error = "none" /\ rows <= MaxRows /\ InFlight = pending \cup left
  BY <1>1 DEF ProgressInv, PlacesInv, Looping
<1>3. Cardinality(InFlight) \in Nat
  BY FiniteEntries DEF InFlight
<1>4. CASE Submit
  <2>1. /\ submitted' \in Entries
        /\ \A e \in Entries : future'[e] = IF e = submitted' THEN "queued" ELSE future[e]
        /\ submitted' \notin InFlight \cup handed \cup done
        /\ InFlight' = InFlight \cup {submitted'}
        /\ Cardinality(InFlight') = Cardinality(InFlight) + 1
    BY <1>1, <1>4, SubmitAdds
  <2>2. submitted' = submitted + 1 /\ pending' = pending \cup {submitted'}
    BY <1>4 DEF Submit
  <2>3. PlacesInv'
    BY <1>1, <1>2, <2>1, <2>2, FilesAssumption DEF PlacesInv, Looping, TypeOK, Entries
  <2>4. WindowInv'
    BY <1>1, <1>3, <2>1, WorkersAssumption DEF WindowInv, Window
  <2>5. ProgressInv' /\ QuietAtEnd'
    BY <1>1, <1>2, <2>2 DEF ProgressInv, QuietAtEnd, Looping
  <2> QED BY <2>3, <2>4, <2>5
<1>5. CASE submitted = Files /\ UNCHANGED <<submitted, future, pending>>
  <2>1. InFlight' = InFlight
    BY <1>1, <1>5 DEF InFlight
  <2>2. PlacesInv'
    BY <1>1, <1>2, <1>5, <2>1 DEF PlacesInv, Looping
  <2>3. WindowInv'
    BY <1>1, <2>1 DEF WindowInv
  <2>4. ProgressInv' /\ QuietAtEnd'
    BY <1>1, <1>2, <1>5 DEF ProgressInv, QuietAtEnd, Looping
  <2> QED BY <2>2, <2>3, <2>4
<1> QED
  BY <1>4, <1>5 DEF Refill

LEMMA JoinInv == MapInv /\ Join => MapInv'
<1> SUFFICES ASSUME MapInv, Join
             PROVE  MapInv'
  OBVIOUS
<1>1. InFlight' = InFlight /\ Unfinished' = {}
  BY DEF Join, InFlight, Unfinished
<1> QED
  BY <1>1 DEF Join, MapInv, PlacesInv, WindowInv, ProgressInv, QuietAtEnd, Looping

LEMMA PoolInv == TypeOK /\ MapInv /\ Pool => MapInv'
<1> SUFFICES ASSUME TypeOK, MapInv, Pool
             PROVE  MapInv'
  OBVIOUS
<1> USE DEF MapInv
<1>1. UNCHANGED <<pc, submitted, pending, done, left, handed, rows, error>>
  BY DEF Pool
<1>2. PICK e \in Entries : Start(e) \/ Finish(e)
  BY DEF Pool
<1>3. /\ future[e] \in {"queued", "running"}
      /\ future'[e] # "none"
      /\ \A d \in Entries \ {e} : future'[d] = future[d]
  BY <1>2 DEF Start, Finish, TypeOK
<1>4. InFlight' = InFlight
  BY <1>1, <1>3 DEF InFlight
<1>5. e \notin done \cup handed
  BY <1>3 DEF PlacesInv
<1>6. PlacesInv'
  BY <1>1, <1>3, <1>4, <1>5 DEF PlacesInv, Looping, TypeOK
<1>7. WindowInv'
  BY <1>1, <1>4 DEF WindowInv
<1>8. ProgressInv'
  BY <1>1 DEF ProgressInv, Looping
<1>9. QuietAtEnd'
  BY <1>1, <1>3 DEF QuietAtEnd, Unfinished
<1> QED
  BY <1>6, <1>7, <1>8, <1>9

LEMMA StepInv == TypeOK /\ MapInv /\ [Next]_vars => MapInv'
<1> SUFFICES ASSUME TypeOK, MapInv, [Next]_vars
             PROVE  MapInv'
  OBVIOUS
<1>1. CASE UNCHANGED vars
  BY <1>1 DEF vars, MapInv, PlacesInv, WindowInv, ProgressInv, QuietAtEnd,
              Looping, InFlight, Unfinished
<1>2. CASE Main
  BY <1>2, FillInv, WaitInv, ExhaustedInv, RefillInv, JoinInv, HandInv, ErrorInv DEF Main
<1> QED
  BY <1>1, <1>2, PoolInv DEF Next

\* Every entry is in exactly one place, and the window is empty only when nothing
\* is left to submit.
THEOREM MapInvariant == Spec => []MapInv
BY InitInv, StepInv, TypeCorrect, PTL DEF Spec

-----------------------------------------------------------------------------
(* What follows *)

\* Futures in flight are bounded by the number of workers alone.
THEOREM MemoryBoundedHolds == Spec => []MemoryBounded
<1>1. TypeOK /\ MapInv => MemoryBounded
  <2> SUFFICES ASSUME TypeOK, MapInv
               PROVE  MemoryBounded
    OBVIOUS
  <2>1. /\ IsFiniteSet(InFlight) /\ Cardinality(InFlight) \in Nat
        /\ IsFiniteSet(done) /\ Cardinality(done) \in Nat
        /\ Cardinality(InFlight \cap done) \in Nat
    BY FiniteEntries DEF InFlight, TypeOK
  <2>2. Cardinality(InFlight \cup done)
          = Cardinality(InFlight) + Cardinality(done) - Cardinality(InFlight \cap done)
    BY <2>1, FS_Union
  <2> QED
    BY <2>1, <2>2, WorkersAssumption DEF MapInv, WindowInv, MemoryBounded, Window
<1> QED
  BY <1>1, TypeCorrect, MapInvariant, PTL

\* A search that returns has read every entry and stayed within the row limit.
THEOREM ReturnsCompleteHolds == Spec => []ReturnsComplete
<1>1. TypeOK /\ MapInv => ReturnsComplete
  BY DEF MapInv, PlacesInv, ProgressInv, ReturnsComplete
<1> QED
  BY <1>1, TypeCorrect, MapInvariant, PTL

\* No download outlives the search.
THEOREM QuietAtEndHolds == Spec => []QuietAtEnd
<1>1. MapInv => QuietAtEnd
  BY DEF MapInv
<1> QED
  BY <1>1, MapInvariant, PTL

-----------------------------------------------------------------------------
(* Refinement *)

Outcome == IF pc \in {"returned", "raised"} THEN pc ELSE "searching"

\* What the caller cannot see: the window, the pool, and where the loops stand.
LEMMA Invisible ==
  ASSUME UNCHANGED <<handed, rows, error>>, Outcome' = Outcome
  PROVE  UNCHANGED Search!vars
BY DEF Search!vars, Outcome

LEMMA HandReads ==
  ASSUME TypeOK, MapInv, NEW e \in Entries, Hand(e)
  PROVE  Search!Read(e)
<1>1. /\ pc = "take" /\ pc' \in {"join", "refill"}
      /\ error = "none" /\ e \notin handed /\ handed' = handed \cup {e}
  BY DEF Hand, MapInv, PlacesInv, ProgressInv, Looping
<1>2. PICK matches \in 0 .. Terms :
        IF rows + matches > MaxRows
        THEN rows' = MaxRows + 1 /\ error' = "limit"
        ELSE rows' = rows + matches /\ UNCHANGED error
  BY DEF Hand
<1>3. \/ rows + matches <= MaxRows /\ rows' = rows + matches /\ UNCHANGED error
      \/ rows + matches > MaxRows /\ rows' = MaxRows + 1 /\ error' = "limit"
  BY <1>2, TermsAssumption, RowsAssumption DEF TypeOK
<1> QED BY <1>1, <1>3 DEF Search!Read

LEMMA ErrorIsUnreadable ==
  ASSUME MapInv, NEW e \in Entries, Error(e)
  PROVE  Search!Unreadable(e)
BY DEF Error, MapInv, PlacesInv, ProgressInv, Looping, Search!Unreadable

LEMMA JoinEnds ==
  ASSUME MapInv, Join
  PROVE  Search!End
BY DEF Join, MapInv, ProgressInv, Search!End, Search!Entries, Entries

LEMMA StepRefines ==
  ASSUME TypeOK, MapInv, [Next]_vars
  PROVE  [Search!Next]_(Search!vars)
<1>1. CASE Fill \/ Wait \/ Exhausted \/ Refill
  BY <1>1, Invisible DEF Fill, Wait, Exhausted, Refill, Outcome
<1>2. CASE Join
  BY <1>2, JoinEnds DEF Search!Next
<1>3. ASSUME NEW e \in Entries, Hand(e) \/ Error(e)
      PROVE  Search!Next
  BY <1>3, HandReads, ErrorIsUnreadable DEF Search!Next, Search!Entries, Entries
<1>4. CASE Pool
  BY <1>4, Invisible DEF Pool, Outcome
<1>5. CASE UNCHANGED vars
  BY <1>5, Invisible DEF vars, Outcome
<1> QED BY <1>1, <1>2, <1>3, <1>4, <1>5 DEF Next, Main

\* Whatever the threads do and in whatever order they end, the consumer sees a
\* loop over the entries: none is counted twice, none after an error, and search
\* returns only after all of them.
THEOREM Refinement == Spec => SearchesInTurn
<1>1. Init => Search!Init
  BY DEF Init, Search!Init
<1>2. TypeOK /\ MapInv /\ [Next]_vars => [Search!Next]_(Search!vars)
  BY StepRefines
<1> QED
  BY <1>1, <1>2, TypeCorrect, MapInvariant, PTL DEF Spec, SearchesInTurn, Search!Spec
=============================================================================

----------------------------- MODULE BoundedMap -----------------------------
(***************************************************************************)
(* SearchEngine.search over _bounded_parallel_map: the main thread hands *)
(* the entries of a manifest to a pool of threads through a sliding window *)
(* of futures and consumes what they find, while the threads run.          *)
(*                                                                         *)
(* The generator and its consumer alternate on the main thread.  When the  *)
(* consumer raises, the generator is closed at its yield; either way the   *)
(* with block joins the pool, which first runs everything still queued.    *)
(* The pool and wait are the standard library's.                           *)
(***************************************************************************)
EXTENDS Integers, FiniteSets

CONSTANTS
  Files,    \* number of entries to search
  Workers,  \* max_workers
  Terms,    \* number of terms; an entry gives a row for each that it matches
  MaxRows   \* max_result_rows

Entries == 1 .. Files

Window == 2 * Workers

ASSUME FilesAssumption == Files \in Nat
ASSUME WorkersAssumption == Workers \in Nat \ {0}
ASSUME TermsAssumption == Terms \in Nat
ASSUME RowsAssumption == MaxRows \in Nat

VARIABLES
  pc,         \* where the main thread is
  submitted,  \* how many entries the iterator has given to the pool
  future,     \* future[e]: the state of the entry's future
  pending,    \* entries whose futures are in the set of that name
  done,       \* entries of the last set of finished futures
  left,       \* those of them that the for loop has not reached
  handed,     \* entries whose results the consumer has got
  rows,       \* result_rows
  error       \* the exception on its way out

vars == <<pc, submitted, future, pending, done, left, handed, rows, error>>

Pc == {"fill", "wait", "take", "refill", "join", "returned", "raised"}

Future == {"none", "queued", "running", "ok", "error"}

Unfinished == {e \in Entries : future[e] \in {"queued", "running"}}

Init ==
  /\ pc = "fill"
  /\ submitted = 0
  /\ future = [e \in Entries |-> "none"]
  /\ pending = {}
  /\ done = {}
  /\ left = {}
  /\ handed = {}
  /\ rows = 0
  /\ error = "none"

-----------------------------------------------------------------------------
(* The main thread *)

\* Wrong: the end of the iterator goes unnoticed.
SubmitPastEnd ==
  /\ submitted' = submitted + 1
  /\ future' = [future EXCEPT ![submitted'] = "queued"]
  /\ pending' = pending \cup {submitted'}

\* pending.add(pool.submit(function, next(iterator)))
Submit ==
  /\ submitted < Files
  /\ submitted' = submitted + 1
  /\ future' = [future EXCEPT ![submitted'] = "queued"]
  /\ pending' = pending \cup {submitted'}

\* Wrong: all entries are submitted at once.
FillUnbounded ==
  /\ pc = "fill"
  /\ IF submitted < Files
     THEN Submit /\ UNCHANGED pc
     ELSE pc' = "wait" /\ UNCHANGED <<submitted, future, pending>>
  /\ UNCHANGED <<done, left, handed, rows, error>>

\* One round of the loop that fills the window, or its end.
Fill ==
  /\ pc = "fill"
  /\ IF submitted < Window /\ submitted < Files
     THEN Submit /\ UNCHANGED pc
     ELSE pc' = "wait" /\ UNCHANGED <<submitted, future, pending>>
  /\ UNCHANGED <<done, left, handed, rows, error>>

\* Wrong: the finished futures stay in pending.
WaitKeepingDone ==
  /\ pc = "wait"
  /\ \E finished \in SUBSET (pending \ Unfinished) :
       /\ finished # {}
       /\ done' = finished
       /\ left' = finished
  /\ pc' = "take"
  /\ UNCHANGED <<submitted, future, pending, handed, rows, error>>

\* wait(..., FIRST_COMPLETED) returns some finished futures, at least one, and
\* not always all: it collects them while others finish.
Wait ==
  /\ pc = "wait"
  /\ \E finished \in SUBSET (pending \ Unfinished) :
       /\ finished # {}
       /\ done' = finished
       /\ left' = finished
       /\ pending' = pending \ finished
  /\ pc' = "take"
  /\ UNCHANGED <<submitted, future, handed, rows, error>>

\* while pending: ends; the with block is left.
Exhausted ==
  /\ pc = "wait" /\ pending = {}
  /\ pc' = "join"
  /\ UNCHANGED <<submitted, future, pending, done, left, handed, rows, error>>

\* future.result() is yielded; the consumer adds a row per match until there
\* are too many.
Hand(e) ==
  /\ pc = "take" /\ e \in left /\ future[e] = "ok"
  /\ left' = left \ {e}
  /\ handed' = handed \cup {e}
  /\ \E matches \in 0 .. Terms :
       IF rows + matches > MaxRows
       THEN rows' = MaxRows + 1 /\ error' = "limit" /\ pc' = "join"
       ELSE rows' = rows + matches /\ pc' = "refill" /\ UNCHANGED error
  /\ UNCHANGED <<submitted, future, pending, done>>

\* Wrong: an entry that could not be read is passed over.
ErrorPassedOver(e) ==
  /\ pc = "take" /\ e \in left /\ future[e] = "error"
  /\ left' = left \ {e}
  /\ handed' = handed \cup {e}
  /\ pc' = "refill"
  /\ UNCHANGED <<submitted, future, pending, done, rows, error>>

\* future.result() raises what _search_one raised in its thread.
Error(e) ==
  /\ pc = "take" /\ e \in left /\ future[e] = "error"
  /\ left' = left \ {e}
  /\ error' = "unreadable"
  /\ pc' = "join"
  /\ UNCHANGED <<submitted, future, pending, done, handed, rows>>

\* One more entry is submitted, if there is one.
Refill ==
  /\ pc = "refill"
  /\ Submit \/ (submitted = Files /\ UNCHANGED <<submitted, future, pending>>)
  /\ pc' = IF left = {} THEN "wait" ELSE "take"
  /\ UNCHANGED <<done, left, handed, rows, error>>

\* Wrong: the pool is left to itself.
JoinNothing ==
  /\ pc = "join"
  /\ pc' = IF error = "none" THEN "returned" ELSE "raised"
  /\ UNCHANGED <<submitted, future, pending, done, left, handed, rows, error>>

\* pool.shutdown(wait=True): the threads end once nothing is queued.
Join ==
  /\ pc = "join" /\ Unfinished = {}
  /\ pc' = IF error = "none" THEN "returned" ELSE "raised"
  /\ UNCHANGED <<submitted, future, pending, done, left, handed, rows, error>>

Main ==
  \/ Fill \/ Wait \/ Exhausted \/ Refill \/ Join
  \/ \E e \in Entries : Hand(e) \/ Error(e)

-----------------------------------------------------------------------------
(* The pool: at most Workers threads, first come, first served *)

Running == {e \in Entries : future[e] = "running"}

Start(e) ==
  /\ future[e] = "queued" /\ Cardinality(Running) < Workers
  /\ \A d \in 1 .. e - 1 : future[d] # "queued"
  /\ future' = [future EXCEPT ![e] = "running"]

\* _search_one returns the matches, or cannot read the pinned version.
Finish(e) ==
  /\ future[e] = "running"
  /\ \E outcome \in {"ok", "error"} : future' = [future EXCEPT ![e] = outcome]

Pool ==
  /\ \E e \in Entries : Start(e) \/ Finish(e)
  /\ UNCHANGED <<pc, submitted, pending, done, left, handed, rows, error>>

Next == Main \/ Pool

Spec == Init /\ [][Next]_vars

\* Threads are scheduled, and each download has a timeout.
FairSpec == Spec /\ WF_vars(Main) /\ WF_vars(Pool)

-----------------------------------------------------------------------------
(* Properties *)

\* Every variable has its type.
TypeOK ==
  /\ pc \in Pc
  /\ submitted \in 0 .. Files
  /\ future \in [Entries -> Future]
  /\ pending \subseteq Entries
  /\ done \subseteq Entries
  /\ left \subseteq Entries
  /\ handed \subseteq Entries
  /\ rows \in 0 .. MaxRows + 1
  /\ error \in {"none", "limit", "unreadable"}

\* Entries given to the pool whose results the consumer does not have.
InFlight == {e \in Entries : future[e] # "none"} \ handed

\* The docstring of _bounded_parallel_map: the futures in flight are bounded
\* however many entries there are, by twice the number of workers; with the
\* finished ones that the last wait still refers to, by four times.
MemoryBounded ==
  /\ Cardinality(InFlight) <= Window
  /\ Cardinality(InFlight \cup done) <= 2 * Window

\* search returns only when every entry has been read and its matches counted
\* within the limit: no failed, forgotten or unfinished entry goes unnoticed.
ReturnsComplete ==
  pc = "returned" =>
    /\ handed = Entries
    /\ \A e \in Entries : future[e] = "ok"
    /\ rows <= MaxRows

\* No download outlives the search, even one that has failed: nothing of it
\* runs in the process when the job is settled and its claim released.
QuietAtEnd == pc \in {"returned", "raised"} => Unfinished = {}

\* To its caller, search is a loop over the entries in some order: each entry's
\* matches are added once, nothing is added after an error, and the outcome follows
\* from what was read, although the threads go on behind it.
Search == INSTANCE ManifestSearch WITH
  read    <- handed,
  outcome <- IF pc \in {"returned", "raised"} THEN pc ELSE "searching"

SearchesInTurn == Search!Spec

\* The search ends, whatever the threads find and in whatever order they end.
Terminates == <>(pc \in {"returned", "raised"})

-----------------------------------------------------------------------------
(* The inductive invariant behind the safety properties *)

Looping == pc \in {"fill", "wait", "take", "refill"}

\* Every entry is in one place: not submitted yet, pending, in the rest of the
\* last batch, or handed on.
PlacesInv ==
  /\ \A e \in Entries : future[e] = "none" <=> e > submitted
  /\ handed \subseteq 1 .. submitted
  /\ \A e \in done \cup handed : future[e] \notin {"none", "queued", "running"}
  /\ \A e \in handed : future[e] = "ok"
  /\ (pending \cup left) \cap handed = {}
  /\ pending \cap left = {}
  /\ Looping => InFlight = pending \cup left

\* The window: full at most, and with room for one entry when one is due.
WindowInv ==
  /\ Cardinality(InFlight) <= Window
  /\ Cardinality(done) <= Window
  /\ pc = "refill" => Cardinality(InFlight) < Window
  /\ pc = "fill" => submitted <= Window /\ handed = {} /\ left = {}

\* Where the loops stand: the window is empty only when nothing is left to submit.
ProgressInv ==
  /\ pc = "wait" => left = {}
  /\ pc = "wait" => submitted = Files \/ pending # {}
  /\ pc = "take" => submitted = Files \/ pending \cup left # {}
  /\ Looping \/ pc = "returned" => error = "none"
  /\ error = "none" => rows <= MaxRows
  /\ pc \in {"join", "returned"} /\ error = "none" => handed = Entries

MapInv == PlacesInv /\ WindowInv /\ ProgressInv /\ QuietAtEnd
=============================================================================

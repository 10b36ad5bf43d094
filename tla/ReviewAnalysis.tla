--------------------------- MODULE ReviewAnalysis ---------------------------
(***************************************************************************)
(* ReviewsService, whose routes create, edit and delete reviews, and       *)
(* ReviewAnalysisJob, which every minute has the language model analyse    *)
(* the oldest reviews that have no analysis, in one server process.  Every *)
(* awaited call is one step.                                               *)
(***************************************************************************)
EXTENDS Integers, FiniteSets

CONSTANTS
  ReviewIds,    \* primary keys, given out in order; a later key is a later createdAt
  Authors,      \* pairs of a user and a property
  Comments,
  Unreadable,   \* comments the language model fails on each time
  Creates,      \* createReviews running at a time
  Jobs,         \* calls of processPendingReviews at a time
  BatchSize,    \* take
  Faults,       \* what may fail in an instance: "ai", "find", "crash"
  Open,         \* the routes clients use in an instance: "create", "edit", "delete"
  None, Gone

\* late, edited, missed: history.  late are the reviews inserted between this
\* one's findFirst and its insert; edited tells that the review was edited after
\* the text was read; missed are the reviews inserted since a findFirst.
ReviewRow == [author : Authors, comment : Comments, late : SUBSET ReviewIds]
Reading == [comment : Comments, edited : BOOLEAN]

ASSUME ReviewAssumption ==
  /\ ReviewIds \subseteq Nat /\ Unreadable \subseteq Comments
  /\ BatchSize \in Nat \ {0}
  /\ None \notin ReviewRow /\ Gone \notin ReviewRow /\ None \notin Reading
  /\ None \notin Authors /\ None # Gone

VARIABLES
  review,      \* Review rows: None before, Gone after
  analysis,    \* ReviewAnalysis rows by reviewId, which is unique
  isRunning,   \* ReviewAnalysisJob.isRunning
  job,         \* the calls of processPendingReviews
  req          \* the createReviews

vars == <<review, analysis, isRunning, job, req>>

Job == [at : {"idle", "find", "analyse", "store"}, batch : [ReviewIds -> Reading \cup {None}]]
Create == [at : {"idle", "insert"}, author : Authors \cup {None}, missed : SUBSET ReviewIds]

NoBatch == [i \in ReviewIds |-> None]
NoJob == [at |-> "idle", batch |-> NoBatch]
NoCreate == [at |-> "idle", author |-> None, missed |-> {}]

Live(i) == review[i] \notin {None, Gone}
Analysed(i) == analysis[i] # None
Pending == {i \in ReviewIds : Live(i) /\ ~Analysed(i)}

Init ==
  /\ review = [i \in ReviewIds |-> None]
  /\ analysis = [i \in ReviewIds |-> None]
  /\ isRunning = FALSE
  /\ job = [j \in Jobs |-> NoJob]
  /\ req = [r \in Creates |-> NoCreate]

(***************************************************************************)
(* ReviewsService.                                                         *)
(***************************************************************************)
Unused == {i \in ReviewIds : review[i] = None}
IsNext(i) == i \in Unused /\ \A k \in Unused : i <= k

\* Bound: no request is begun that would find no key.
KeysLeft == Cardinality({r \in Creates : req[r].at = "insert"}) < Cardinality(Unused)

\* A bug: the earlier review is not looked for.
FindNothing(r) ==
  /\ "create" \in Open /\ req[r].at = "idle" /\ KeysLeft
  /\ \E a \in Authors : req' = [req EXCEPT ![r] = [at |-> "insert", author |-> a, missed |-> {}]]
  /\ UNCHANGED <<review, analysis, isRunning, job>>

\* createReview up to its findFirst, which finds no review of that user for that
\* property.
FindReview(r) ==
  /\ "create" \in Open /\ req[r].at = "idle" /\ KeysLeft
  /\ \E a \in Authors :
       /\ \A i \in ReviewIds : Live(i) => review[i].author # a
       /\ req' = [req EXCEPT ![r] = [at |-> "insert", author |-> a, missed |-> {}]]
  /\ UNCHANGED <<review, analysis, isRunning, job>>

\* review.create; it fails when the user was deleted meanwhile.
InsertReview(r) ==
  /\ req[r].at = "insert"
  /\ \/ \E i \in ReviewIds, c \in Comments :
          /\ IsNext(i)
          /\ review' = [review EXCEPT ![i] = [author |-> req[r].author, comment |-> c,
                                              late |-> req[r].missed]]
          /\ req' = [s \in Creates |->
                       IF s = r THEN NoCreate
                       ELSE IF req[s].at = "insert" THEN [req[s] EXCEPT !.missed = @ \cup {i}]
                       ELSE req[s]]
     \/ /\ req' = [req EXCEPT ![r] = NoCreate]
        /\ UNCHANGED review
  /\ UNCHANGED <<analysis, isRunning, job>>

Reread(e) == IF e = None THEN None ELSE [comment |-> e.comment, edited |-> TRUE]

\* updateReview of the comment (the rating matters to nothing here); the analysis
\* stays.
UpdateReview(i, c) ==
  /\ "edit" \in Open /\ Live(i)
  /\ review' = [review EXCEPT ![i] = [author |-> review[i].author, comment |-> c,
                                      late |-> review[i].late]]
  /\ analysis' = [analysis EXCEPT ![i] = Reread(@)]
  /\ job' = [j \in Jobs |->
               [at |-> job[j].at, batch |-> [job[j].batch EXCEPT ![i] = Reread(@)]]]
  /\ UNCHANGED <<isRunning, req>>

\* deleteReview; the analysis goes with it (onDelete: Cascade).
DeleteReview(i) ==
  /\ "delete" \in Open /\ Live(i)
  /\ review' = [review EXCEPT ![i] = Gone]
  /\ analysis' = [analysis EXCEPT ![i] = None]
  /\ UNCHANGED <<isRunning, job, req>>

(***************************************************************************)
(* processPendingReviews.                                                  *)
(***************************************************************************)
\* A bug: isRunning is not looked at.
TriggerAlways(j) ==
  /\ job[j].at = "idle"
  /\ isRunning' = TRUE
  /\ job' = [job EXCEPT ![j] = [at |-> "find", batch |-> NoBatch]]
  /\ UNCHANGED <<review, analysis, req>>

\* The minute comes; the call returns at once while another runs.
Trigger(j) ==
  /\ job[j].at = "idle"
  /\ ~isRunning
  /\ isRunning' = TRUE
  /\ job' = [job EXCEPT ![j] = [at |-> "find", batch |-> NoBatch]]
  /\ UNCHANGED <<review, analysis, req>>

\* The loop goes on with what is left of the batch, or the call returns through
\* its finally block.
Continue(j, b) ==
  IF \A i \in ReviewIds : b[i] = None
  THEN /\ job' = [job EXCEPT ![j] = NoJob]
       /\ isRunning' = FALSE
  ELSE /\ job' = [job EXCEPT ![j] = [at |-> "analyse", batch |-> b]]
       /\ UNCHANGED isRunning

\* A bug: the newest reviews are taken first.
NewestOf(S) == {i \in S : Cardinality({k \in S : k > i}) < BatchSize}

\* The first BatchSize reviews of a set, by createdAt.
FirstOf(S) == {i \in S : Cardinality({k \in S : k < i}) < BatchSize}

\* A bug: no return for an empty batch.
FindAny(j) ==
  /\ job[j].at = "find"
  /\ job' = [job EXCEPT ![j] =
               [at |-> "analyse",
                batch |-> [i \in ReviewIds |->
                             IF i \in FirstOf(Pending)
                             THEN [comment |-> review[i].comment, edited |-> FALSE] ELSE None]]]
  /\ UNCHANGED <<review, analysis, isRunning, req>>

\* review.findMany.
FindBatch(j) ==
  /\ job[j].at = "find"
  /\ Continue(j, [i \in ReviewIds |->
                    IF i \in FirstOf(Pending)
                    THEN [comment |-> review[i].comment, edited |-> FALSE] ELSE None])
  /\ UNCHANGED <<review, analysis, req>>

\* review.findMany fails.
FindFails(j) ==
  /\ "find" \in Faults /\ job[j].at = "find"
  /\ Continue(j, NoBatch)
  /\ UNCHANGED <<review, analysis, req>>

\* The review of the batch whose turn it is.
IsTurn(j, i) ==
  /\ i \in ReviewIds /\ job[j].batch[i] # None
  /\ \A k \in ReviewIds : job[j].batch[k] # None => i <= k

Rest(j, i) == [job[j].batch EXCEPT ![i] = None]

\* aiService.analyzeReview answers.
Succeed(j) ==
  /\ job[j].at = "analyse"
  /\ \E i \in ReviewIds : IsTurn(j, i) /\ job[j].batch[i].comment \notin Unreadable
  /\ job' = [job EXCEPT ![j].at = "store"]
  /\ UNCHANGED <<review, analysis, isRunning, req>>

\* It fails, which is logged.
Fail(j) ==
  /\ job[j].at = "analyse"
  /\ \E i \in ReviewIds :
       /\ IsTurn(j, i)
       /\ "ai" \in Faults \/ job[j].batch[i].comment \in Unreadable
       /\ Continue(j, Rest(j, i))
  /\ UNCHANGED <<review, analysis, req>>

\* A bug: the analysis is stored for the wrong review of the batch.
StoreShifted(j) ==
  /\ job[j].at = "store"
  /\ \E i, k \in ReviewIds :
       /\ IsTurn(j, i) /\ job[j].batch[k] # None
       /\ IF Live(k) /\ ~Analysed(k)
          THEN analysis' = [analysis EXCEPT ![k] = job[j].batch[i]]
          ELSE UNCHANGED analysis
       /\ Continue(j, Rest(j, i))
  /\ UNCHANGED <<review, req>>

\* A bug: nothing ties an analysis to its review.
StoreUnchecked(j) ==
  /\ job[j].at = "store"
  /\ \E i \in ReviewIds :
       /\ IsTurn(j, i)
       /\ analysis' = [analysis EXCEPT ![i] = job[j].batch[i]]
       /\ Continue(j, Rest(j, i))
  /\ UNCHANGED <<review, req>>

\* reviewAnalysis.create; it fails, which is logged, when the review is gone or
\* has an analysis.
Store(j) ==
  /\ job[j].at = "store"
  /\ \E i \in ReviewIds :
       /\ IsTurn(j, i)
       /\ IF Live(i) /\ ~Analysed(i)
          THEN analysis' = [analysis EXCEPT ![i] = job[j].batch[i]]
          ELSE UNCHANGED analysis
       /\ Continue(j, Rest(j, i))
  /\ UNCHANGED <<review, req>>

(***************************************************************************)
(* The whole.                                                              *)
(***************************************************************************)
Crash ==
  /\ "crash" \in Faults
  /\ isRunning' = FALSE
  /\ job' = [j \in Jobs |-> NoJob]
  /\ req' = [r \in Creates |-> NoCreate]
  /\ UNCHANGED <<review, analysis>>

JobStep(j) == FindBatch(j) \/ FindFails(j) \/ Succeed(j) \/ Fail(j) \/ Store(j)

Next ==
  \/ \E r \in Creates : FindReview(r) \/ InsertReview(r)
  \/ \E i \in ReviewIds : DeleteReview(i) \/ \E c \in Comments : UpdateReview(i, c)
  \/ \E j \in Jobs : Trigger(j) \/ JobStep(j)
  \/ Crash

Spec == Init /\ [][Next]_vars

(***************************************************************************)
(* The cron comes every minute, a call once begun goes on, and what is     *)
(* tried again and again is not cut off by a failure or a crash each time: *)
(* the query of the batch, the language model's answer about a comment it  *)
(* can read, the answer or the error that ends a review's turn, the insert *)
(* of an analysis.  Clients, failures and crashes are not fair.            *)
(***************************************************************************)
FairSpec ==
  /\ Spec
  /\ WF_vars(\E j \in Jobs : Trigger(j) \/ JobStep(j))
  /\ SF_vars(\E j \in Jobs : FindBatch(j)) /\ SF_vars(\E j \in Jobs : Store(j))
  /\ \A i \in ReviewIds :
       /\ SF_vars(\E j \in Jobs : IsTurn(j, i) /\ Succeed(j))
       /\ SF_vars(\E j \in Jobs : IsTurn(j, i) /\ (Succeed(j) \/ Fail(j)))

(***************************************************************************)
(* Properties.                                                             *)
(***************************************************************************)
TypeOK ==
  /\ review \in [ReviewIds -> ReviewRow \cup {None, Gone}]
  /\ analysis \in [ReviewIds -> Reading \cup {None}]
  /\ isRunning \in BOOLEAN
  /\ job \in [Jobs -> Job]
  /\ req \in [Creates -> Create]
  /\ \A j \in Jobs :
       job[j].at \in {"analyse", "store"} <=> \E i \in ReviewIds : job[j].batch[i] # None
  /\ \A j \in Jobs, i \in ReviewIds : job[j].batch[i] # None => review[i] # None
  /\ \A r \in Creates : req[r].at = "insert" => req[r].author \in Authors

\* What a createReview knows past its findFirst: the user has reviewed the
\* property only since then.
SeenReviews ==
  \A r \in Creates, i \in ReviewIds :
    req[r].at = "insert" /\ Live(i) /\ review[i].author = req[r].author => i \in req[r].missed

\* Two reviews of one property by one user are from two createReviews one of
\* which inserted between the other's findFirst and insert.
DuplicateIsRace ==
  \A i, k \in ReviewIds :
    i # k /\ Live(i) /\ Live(k) /\ review[i].author = review[k].author =>
      i \in review[k].late \/ k \in review[i].late

\* One call of the job does the work at a time, and so no review is analysed
\* that has an analysis: what the flag is for.
NothingTwice ==
  /\ \A j, k \in Jobs : j # k => job[j].at = "idle" \/ job[k].at = "idle"
  /\ \A j \in Jobs : job[j].at # "idle" => isRunning
  /\ \A j \in Jobs, i \in ReviewIds : job[j].batch[i] # None => ~Analysed(i)

\* A review that is deleted while the language model works on it leaves no
\* analysis behind.
AnalysisHasReview == \A i \in ReviewIds : Analysed(i) => Live(i)

\* An analysis is of the comment its review has, unless that was edited after
\* the job had read it; an edit never brings a new analysis.
Reads(e, i) == e # None /\ Live(i) /\ e.comment # review[i].comment => e.edited
AnalysisIsOfText ==
  \A i \in ReviewIds : Reads(analysis[i], i) /\ \A j \in Jobs : Reads(job[j].batch[i], i)

\* Older reviews that fail each time and fill the batch.
Starved(i) ==
  Cardinality({k \in Pending : k < i /\ review[k].comment \in Unreadable}) >= BatchSize

\* Whatever the language model fails on and whatever clients do, a review that
\* it can read as long as it is there is analysed in the end, unless time and
\* again enough unreadable ones are before it (the batch is the oldest, each run).
ReadableAnalysed ==
  \A i \in ReviewIds :
    <>[]~Starved(i) =>
      (Live(i) ~> (Analysed(i) \/ ~Live(i) \/ review[i].comment \in Unreadable))
=============================================================================

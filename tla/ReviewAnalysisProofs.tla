------------------------ MODULE ReviewAnalysisProofs ------------------------
(***************************************************************************)
(* What reviews and their analyses keep, for every number of reviews,      *)
(* requests and calls of the job, every batch size, and whatever fails.    *)
(***************************************************************************)
EXTENDS ReviewAnalysis, TLAPS

ReviewInv ==
  /\ TypeOK /\ SeenReviews /\ DuplicateIsRace
  /\ NothingTwice /\ AnalysisHasReview /\ AnalysisIsOfText

Batches == [ReviewIds -> Reading \cup {None}]

(***************************************************************************)
(* Typing.                                                                 *)
(***************************************************************************)
\* At first there is nothing.
LEMMA InitInv == Init => ReviewInv
<1> SUFFICES ASSUME Init PROVE ReviewInv
  OBVIOUS
<1>. USE ReviewAssumption
<1>1. NoJob \in Job /\ NoCreate \in Create
  BY DEF NoJob, NoBatch, Job, NoCreate, Create
<1>2. TypeOK
  BY <1>1 DEF Init, TypeOK, NoJob, NoBatch, NoCreate
<1>3. SeenReviews /\ DuplicateIsRace
  BY DEF Init, SeenReviews, DuplicateIsRace, Live, NoCreate
<1>4. NothingTwice /\ AnalysisHasReview /\ AnalysisIsOfText
  BY DEF Init, NothingTwice, AnalysisHasReview, AnalysisIsOfText, Analysed, Reads, NoJob, NoBatch
<1>. QED
  BY <1>2, <1>3, <1>4 DEF ReviewInv

\* A call of the job that goes on with what is left of its batch, or ends.
LEMMA ContinueJob ==
  ASSUME TypeOK, NEW j \in Jobs, NEW b \in Batches, Continue(j, b)
  PROVE  /\ job' \in [Jobs -> Job] /\ isRunning' \in BOOLEAN
         /\ \A k \in Jobs \ {j} : job'[k] = job[k]
         /\ job'[j].batch = b
         /\ job'[j].at \in {"idle", "analyse"}
         /\ job'[j].at = "analyse" <=> \E i \in ReviewIds : b[i] # None
         /\ job'[j].at # "idle" => isRunning' = isRunning
<1>. USE ReviewAssumption
<1>1. CASE \A i \in ReviewIds : b[i] = None
  <2>1. job' = [job EXCEPT ![j] = NoJob] /\ isRunning' = FALSE
    BY <1>1 DEF Continue
  <2>2. b = NoBatch
    BY <1>1 DEF Batches, NoBatch
  <2>3. NoJob \in Job /\ NoJob.at = "idle" /\ NoJob.batch = NoBatch
    BY DEF NoJob, NoBatch, Job
  <2>. QED
    BY <1>1, <2>1, <2>2, <2>3 DEF TypeOK
<1>2. CASE \E i \in ReviewIds : b[i] # None
  <2>1. job' = [job EXCEPT ![j] = [at |-> "analyse", batch |-> b]] /\ isRunning' = isRunning
    BY <1>2 DEF Continue
  <2>2. [at |-> "analyse", batch |-> b] \in Job
    BY DEF Job, Batches
  <2>. QED
    BY <1>2, <2>1, <2>2 DEF TypeOK
<1>. QED
  BY <1>1, <1>2

\* What a step of the job does besides: it takes a batch, or leaves of it what
\* comes after the review whose turn it is.
Takes(j, b) ==
  \A i \in ReviewIds :
    b[i] # None => Live(i) /\ ~Analysed(i) /\ b[i].comment = review[i].comment

Leaves(j, b) == \A i \in ReviewIds : b[i] = None \/ b[i] = job[j].batch[i]

\* The query of the batch takes reviews that are there and have no analysis.
LEMMA FindTakes ==
  ASSUME TypeOK, NEW j \in Jobs, FindBatch(j) \/ FindFails(j)
  PROVE  \E b \in Batches : Continue(j, b) /\ Takes(j, b)
<1>. USE ReviewAssumption
<1>1. CASE FindBatch(j)
  <2> DEFINE b == [i \in ReviewIds |-> IF i \in FirstOf(Pending)
                     THEN [comment |-> review[i].comment, edited |-> FALSE] ELSE None]
  <2>1. FirstOf(Pending) \subseteq Pending
    BY DEF FirstOf
  <2>2. ASSUME NEW i \in FirstOf(Pending)
        PROVE  Live(i) /\ ~Analysed(i) /\ i \in ReviewIds /\ review[i] \in ReviewRow
    BY <2>1, <2>2 DEF Pending, Live, TypeOK
  <2>3. b \in Batches
    BY <2>2 DEF Batches, Reading, ReviewRow
  <2>4. Takes(j, b)
    BY <2>2 DEF Takes
  <2>5. Continue(j, b)
    BY <1>1 DEF FindBatch
  <2>. QED
    BY <2>3, <2>4, <2>5
<1>2. CASE FindFails(j)
  <2>1. NoBatch \in Batches /\ Takes(j, NoBatch) /\ Continue(j, NoBatch)
    BY <1>2 DEF FindFails, NoBatch, Batches, Takes
  <2>. QED
    BY <2>1
<1>. QED
  BY <1>1, <1>2

\* Without the review whose turn it was, a batch is what it was or less.
LEMMA RestLeaves ==
  ASSUME TypeOK, NEW j \in Jobs, NEW i \in ReviewIds
  PROVE  /\ Rest(j, i) \in Batches /\ Leaves(j, Rest(j, i)) /\ Rest(j, i)[i] = None
BY DEF TypeOK, Job, Rest, Batches, Leaves

\* Where the job stores an analysis, if it does.
Stores(j, b) ==
  \/ UNCHANGED analysis
  \/ \E i \in ReviewIds : /\ Live(i) /\ job[j].batch[i] # None /\ b[i] = None
                          /\ analysis' = [analysis EXCEPT ![i] = job[j].batch[i]]

\* A step in which the job goes on with b.
JobGoesOn(j, b) ==
  /\ job[j].at # "idle"
  /\ Continue(j, b)
  /\ Takes(j, b) \/ Leaves(j, b)
  /\ Stores(j, b)
  /\ UNCHANGED <<review, req>>

LEMMA GoesOnTyped ==
  ASSUME TypeOK, NEW j \in Jobs, NEW b \in Batches, JobGoesOn(j, b)
  PROVE  TypeOK'
<1>1. Continue(j, b) /\ UNCHANGED <<review, req>>
  BY DEF JobGoesOn
<1>2. /\ job' \in [Jobs -> Job] /\ isRunning' \in BOOLEAN
      /\ \A k \in Jobs \ {j} : job'[k] = job[k]
      /\ job'[j].batch = b
      /\ job'[j].at \in {"idle", "analyse"}
      /\ job'[j].at = "analyse" <=> \E i \in ReviewIds : b[i] # None
  BY <1>1, ContinueJob
<1>3. analysis' \in [ReviewIds -> Reading \cup {None}]
  BY DEF JobGoesOn, Stores, TypeOK, Job
<1>4. \A i \in ReviewIds : b[i] # None => review[i] # None
  BY DEF JobGoesOn, Takes, Leaves, Live, TypeOK
<1>5. ASSUME NEW k \in Jobs
      PROVE  /\ job'[k].at \in {"analyse", "store"} <=> \E i \in ReviewIds : job'[k].batch[i] # None
             /\ \A i \in ReviewIds : job'[k].batch[i] # None => review[i] # None
  <2>1. CASE k = j
    BY <1>2, <1>4, <2>1
  <2>2. CASE k # j
    BY <1>2, <2>2 DEF TypeOK
  <2>. QED
    BY <2>1, <2>2
<1>. QED
  BY <1>1, <1>2, <1>3, <1>5 DEF TypeOK

\* An idle call holds no review.
LEMMA IdleHoldsNone ==
  ASSUME TypeOK, NEW k \in Jobs, job[k].at = "idle", NEW i \in ReviewIds
  PROVE  job[k].batch[i] = None
BY DEF TypeOK

LEMMA GoesOnInv ==
  ASSUME ReviewInv, NEW j \in Jobs, NEW b \in Batches, JobGoesOn(j, b)
  PROVE  ReviewInv'
<1>. USE ReviewAssumption
<1>0. TypeOK /\ TypeOK'
  BY GoesOnTyped DEF ReviewInv
<1>1. /\ job[j].at # "idle" /\ Continue(j, b) /\ UNCHANGED <<review, req>>
      /\ Takes(j, b) \/ Leaves(j, b)
      /\ Stores(j, b)
  BY DEF JobGoesOn
<1>2. /\ \A k \in Jobs \ {j} : job'[k] = job[k]
      /\ job'[j].batch = b
      /\ job'[j].at # "idle" => isRunning' = isRunning
  BY <1>0, <1>1, ContinueJob
<1>3. SeenReviews' /\ DuplicateIsRace'
  BY <1>1 DEF ReviewInv, SeenReviews, DuplicateIsRace, Live
<1>4. \A k \in Jobs \ {j} : job[k].at = "idle" /\ job'[k].at = "idle"
  BY <1>1, <1>2 DEF ReviewInv, NothingTwice
<1>5. \A k \in Jobs \ {j}, i \in ReviewIds : job'[k].batch[i] = None
  BY <1>0, <1>2, <1>4, IdleHoldsNone
<1>6. \A i \in ReviewIds : b[i] # None => ~Analysed(i) /\ Reads(b[i], i)
  <2>1. CASE Takes(j, b)
    BY <2>1 DEF Takes, Reads
  <2>2. CASE Leaves(j, b)
    BY <2>2 DEF Leaves, ReviewInv, NothingTwice, AnalysisIsOfText
  <2>. QED
    BY <1>1, <2>1, <2>2
<1>7. \A i \in ReviewIds : b[i] # None => analysis'[i] = analysis[i]
  BY <1>0, <1>1 DEF Stores, TypeOK
<1>8. NothingTwice'
  <2>1. \A k, l \in Jobs : k # l => job'[k].at = "idle" \/ job'[l].at = "idle"
    BY <1>4
  <2>2. \A k \in Jobs : job'[k].at # "idle" => isRunning'
    BY <1>1, <1>2, <1>4 DEF ReviewInv, NothingTwice
  <2>3. \A k \in Jobs, i \in ReviewIds : job'[k].batch[i] # None => ~Analysed(i)'
    BY <1>2, <1>5, <1>6, <1>7 DEF Analysed
  <2>. QED
    BY <2>1, <2>2, <2>3 DEF NothingTwice
<1>9. \A i \in ReviewIds :
        analysis'[i] = analysis[i] \/ (Live(i) /\ analysis'[i] = job[j].batch[i])
  BY <1>0, <1>1 DEF Stores, TypeOK
<1>10. AnalysisHasReview'
  BY <1>1, <1>9 DEF ReviewInv, AnalysisHasReview, Analysed, Live
<1>11. AnalysisIsOfText'
  <2>1. \A i \in ReviewIds : Reads(analysis[i], i) /\ Reads(job[j].batch[i], i)
    BY DEF ReviewInv, AnalysisIsOfText
  <2>2. \A i \in ReviewIds : Reads(analysis'[i], i)
    BY <1>9, <2>1
  <2>3. \A k \in Jobs, i \in ReviewIds : Reads(job'[k].batch[i], i)
    BY <1>2, <1>5, <1>6 DEF Reads
  <2>. QED
    BY <1>1, <2>2, <2>3 DEF AnalysisIsOfText, Reads, Live
<1>. QED
  BY <1>0, <1>3, <1>8, <1>10, <1>11 DEF ReviewInv

(***************************************************************************)
(* The steps.                                                              *)
(***************************************************************************)
\* The answer about a review leaves everything but the place in the code.
LEMMA SucceedInv ==
  ASSUME ReviewInv, NEW j \in Jobs, Succeed(j)
  PROVE  ReviewInv'
<1>0. TypeOK
  BY DEF ReviewInv
<1>1. /\ job[j].at = "analyse" /\ job' = [job EXCEPT ![j].at = "store"]
      /\ UNCHANGED <<review, analysis, isRunning, req>>
  BY DEF Succeed
<1>2. \A k \in Jobs : /\ job'[k].batch = job[k].batch
                      /\ job'[k].at \in {"analyse", "store"} <=> job[k].at \in {"analyse", "store"}
                      /\ job'[k].at = "idle" <=> job[k].at = "idle"
  BY <1>0, <1>1 DEF TypeOK, Job
<1>3. job' \in [Jobs -> Job]
  BY <1>0, <1>1 DEF TypeOK, Job
<1>4. TypeOK'
  BY <1>0, <1>1, <1>2, <1>3 DEF TypeOK
<1>5. SeenReviews' /\ DuplicateIsRace' /\ AnalysisHasReview'
  BY <1>1 DEF ReviewInv, SeenReviews, DuplicateIsRace, AnalysisHasReview, Analysed, Live
<1>6. NothingTwice'
  BY <1>1, <1>2 DEF ReviewInv, NothingTwice, Analysed
<1>7. AnalysisIsOfText'
  BY <1>1, <1>2 DEF ReviewInv, AnalysisIsOfText, Reads, Live
<1>. QED
  BY <1>4, <1>5, <1>6, <1>7 DEF ReviewInv

LEMMA JobStepInv ==
  ASSUME ReviewInv, NEW j \in Jobs, JobStep(j)
  PROVE  ReviewInv'
<1>0. TypeOK
  BY DEF ReviewInv
<1>1. CASE FindBatch(j) \/ FindFails(j)
  <2>1. PICK b \in Batches : Continue(j, b) /\ Takes(j, b)
    BY <1>0, <1>1, FindTakes
  <2>2. JobGoesOn(j, b)
    BY <1>1, <2>1 DEF FindBatch, FindFails, JobGoesOn, Stores
  <2>. QED
    BY <2>2, GoesOnInv
<1>2. CASE Succeed(j)
  BY <1>2, SucceedInv
<1>3. CASE Fail(j)
  <2>1. PICK i \in ReviewIds : Continue(j, Rest(j, i))
    BY <1>3 DEF Fail
  <2>2. Rest(j, i) \in Batches /\ JobGoesOn(j, Rest(j, i))
    BY <1>0, <1>3, <2>1, RestLeaves DEF Fail, JobGoesOn, Stores
  <2>. QED
    BY <2>2, GoesOnInv
<1>4. CASE Store(j)
  <2>1. PICK i \in ReviewIds :
          /\ IsTurn(j, i) /\ Continue(j, Rest(j, i))
          /\ IF Live(i) /\ ~Analysed(i)
             THEN analysis' = [analysis EXCEPT ![i] = job[j].batch[i]]
             ELSE UNCHANGED analysis
    BY <1>4 DEF Store
  <2>2. Rest(j, i) \in Batches /\ Leaves(j, Rest(j, i)) /\ Rest(j, i)[i] = None
    BY <1>0, RestLeaves
  <2>3. Stores(j, Rest(j, i))
    BY <2>1, <2>2 DEF Stores, IsTurn
  <2>4. JobGoesOn(j, Rest(j, i))
    BY <1>4, <2>1, <2>2, <2>3 DEF Store, JobGoesOn
  <2>. QED
    BY <2>2, <2>4, GoesOnInv
<1>. QED
  BY <1>1, <1>2, <1>3, <1>4 DEF JobStep

\* isRunning tells that no other call is at work.
LEMMA TriggerInv ==
  ASSUME ReviewInv, NEW j \in Jobs, Trigger(j)
  PROVE  ReviewInv'
<1>. USE ReviewAssumption
<1> DEFINE find == [at |-> "find", batch |-> NoBatch]
<1>0. TypeOK
  BY DEF ReviewInv
<1>1. /\ ~isRunning /\ isRunning' = TRUE /\ job' = [job EXCEPT ![j] = find]
      /\ UNCHANGED <<review, analysis, req>>
  BY DEF Trigger
<1>2. find \in Job /\ \A i \in ReviewIds : find.batch[i] = None
  BY DEF Job, NoBatch
<1>3. \A k \in Jobs : job[k].at = "idle" /\ \A i \in ReviewIds : job[k].batch[i] = None
  BY <1>0, <1>1, IdleHoldsNone DEF ReviewInv, NothingTwice
<1>4. \A k \in Jobs : \A i \in ReviewIds : job'[k].batch[i] = None
  BY <1>0, <1>1, <1>2, <1>3 DEF TypeOK
<1>5. \A k \in Jobs : IF k = j THEN job'[k].at = "find" ELSE job'[k].at = "idle"
  BY <1>0, <1>1, <1>3 DEF TypeOK
<1>6. TypeOK'
  <2>1. job' \in [Jobs -> Job]
    BY <1>0, <1>1, <1>2 DEF TypeOK
  <2>2. \A k \in Jobs : job'[k].at \notin {"analyse", "store"}
    BY <1>5
  <2>. QED
    BY <1>0, <1>1, <1>4, <2>1, <2>2 DEF TypeOK
<1>7. SeenReviews' /\ DuplicateIsRace' /\ AnalysisHasReview'
  BY <1>1 DEF ReviewInv, SeenReviews, DuplicateIsRace, AnalysisHasReview, Analysed, Live
<1>8. NothingTwice'
  BY <1>1, <1>4, <1>5 DEF NothingTwice
<1>9. AnalysisIsOfText'
  BY <1>1, <1>4 DEF ReviewInv, AnalysisIsOfText, Reads, Live
<1>. QED
  BY <1>6, <1>7, <1>8, <1>9 DEF ReviewInv

LEMMA CrashInv ==
  ASSUME ReviewInv, Crash
  PROVE  ReviewInv'
<1>. USE ReviewAssumption
<1>0. TypeOK
  BY DEF ReviewInv
<1>1. /\ isRunning' = FALSE /\ UNCHANGED <<review, analysis>>
      /\ job' = [j \in Jobs |-> NoJob] /\ req' = [r \in Creates |-> NoCreate]
  BY DEF Crash
<1>2. NoJob \in Job /\ NoCreate \in Create
  BY DEF NoJob, NoBatch, Job, NoCreate, Create
<1>3. TypeOK'
  BY <1>0, <1>1, <1>2 DEF TypeOK, NoJob, NoBatch, NoCreate
<1>4. SeenReviews' /\ DuplicateIsRace' /\ AnalysisHasReview'
  BY <1>1 DEF ReviewInv, SeenReviews, DuplicateIsRace, AnalysisHasReview, Analysed, Live, NoCreate
<1>5. NothingTwice' /\ AnalysisIsOfText'
  BY <1>1 DEF ReviewInv, NothingTwice, AnalysisIsOfText, Reads, Live, NoJob, NoBatch
<1>. QED
  BY <1>3, <1>4, <1>5 DEF ReviewInv

\* Past the findFirst the user has reviewed the property only since.
LEMMA FindReviewInv ==
  ASSUME ReviewInv, NEW r \in Creates, FindReview(r)
  PROVE  ReviewInv'
<1>0. TypeOK
  BY DEF ReviewInv
<1>1. PICK a \in Authors :
        /\ \A i \in ReviewIds : Live(i) => review[i].author # a
        /\ req' = [req EXCEPT ![r] = [at |-> "insert", author |-> a, missed |-> {}]]
  BY DEF FindReview
<1>2. UNCHANGED <<review, analysis, isRunning, job>>
  BY DEF FindReview
<1>3. [at |-> "insert", author |-> a, missed |-> {}] \in Create
  BY DEF Create
<1>4. TypeOK'
  BY <1>0, <1>1, <1>2, <1>3 DEF TypeOK
<1>5. SeenReviews'
  BY <1>0, <1>1, <1>2 DEF ReviewInv, SeenReviews, Live, TypeOK
<1>6. DuplicateIsRace' /\ NothingTwice' /\ AnalysisHasReview' /\ AnalysisIsOfText'
  BY <1>2 DEF ReviewInv, DuplicateIsRace, NothingTwice, AnalysisHasReview, AnalysisIsOfText,
              Reads, Analysed, Live
<1>. QED
  BY <1>4, <1>5, <1>6 DEF ReviewInv

\* The new row knows what it may duplicate, and every other request under way
\* will know it.
LEMMA InsertReviewInv ==
  ASSUME ReviewInv, NEW r \in Creates, InsertReview(r)
  PROVE  ReviewInv'
<1>. USE ReviewAssumption
<1>0. TypeOK /\ NoCreate \in Create /\ NoCreate.at = "idle"
  BY DEF ReviewInv, NoCreate, Create
<1>1. req[r].at = "insert" /\ UNCHANGED <<analysis, isRunning, job>>
  BY DEF InsertReview
<1>2. CASE UNCHANGED review /\ req' = [req EXCEPT ![r] = NoCreate]
  <2>1. TypeOK' /\ SeenReviews'
    BY <1>0, <1>1, <1>2 DEF ReviewInv, TypeOK, SeenReviews, Live
  <2>2. DuplicateIsRace' /\ NothingTwice' /\ AnalysisHasReview' /\ AnalysisIsOfText'
    BY <1>1, <1>2 DEF ReviewInv, DuplicateIsRace, NothingTwice, AnalysisHasReview,
                      AnalysisIsOfText, Reads, Analysed, Live
  <2>. QED
    BY <2>1, <2>2 DEF ReviewInv
<1>3. ASSUME NEW i \in ReviewIds, NEW c \in Comments, IsNext(i),
             review' = [review EXCEPT ![i] = [author |-> req[r].author, comment |-> c,
                                              late |-> req[r].missed]],
             req' = [s \in Creates |->
                       IF s = r THEN NoCreate
                       ELSE IF req[s].at = "insert" THEN [req[s] EXCEPT !.missed = @ \cup {i}]
                       ELSE req[s]]
      PROVE  ReviewInv'
  <2> DEFINE row == [author |-> req[r].author, comment |-> c, late |-> req[r].missed]
  <2>1. row \in ReviewRow
    BY <1>0, <1>1 DEF TypeOK, ReviewRow, Create
  <2>2. review[i] = None /\ ~Live(i) /\ ~Analysed(i)
    BY <1>3 DEF IsNext, Unused, Live, ReviewInv, AnalysisHasReview
  <2>3. /\ review' \in [ReviewIds -> ReviewRow \cup {None, Gone}]
        /\ review'[i] = row /\ review'[i] # None
        /\ \A k \in ReviewIds \ {i} : review'[k] = review[k]
    BY <1>0, <1>3, <2>1 DEF TypeOK
  <2>4. ASSUME NEW s \in Creates
        PROVE  /\ req'[s] \in Create
               /\ req'[s].at = "insert" =>
                    /\ req[s].at = "insert" /\ req'[s].author = req[s].author
                    /\ req'[s].missed = req[s].missed \cup {i}
    BY <1>0, <1>3 DEF TypeOK, Create
  <2>5. TypeOK'
    <3>1. req' \in [Creates -> Create]
      BY <1>3, <2>4
    <3>2. \A s \in Creates : req'[s].at = "insert" => req'[s].author \in Authors
      BY <1>0, <2>4 DEF TypeOK
    <3>3. \A j \in Jobs, k \in ReviewIds : job[j].batch[k] # None => review'[k] # None
      BY <1>0, <2>2, <2>3 DEF TypeOK
    <3>. QED
      BY <1>0, <1>1, <2>3, <3>1, <3>2, <3>3 DEF TypeOK
  <2>6. SeenReviews'
    BY <2>3, <2>4 DEF ReviewInv, SeenReviews, Live
  <2>7. DuplicateIsRace'
    <3>1. \A k \in ReviewIds \ {i} :
            Live(k)' /\ review'[k].author = row.author => k \in row.late
      BY <1>1, <2>3 DEF ReviewInv, SeenReviews, Live
    <3>. QED
      BY <2>3, <3>1 DEF ReviewInv, DuplicateIsRace, Live
  <2>8. NothingTwice' /\ AnalysisHasReview'
    BY <1>1, <2>2, <2>3 DEF ReviewInv, NothingTwice, AnalysisHasReview, Analysed, Live
  <2>9. AnalysisIsOfText'
    <3>1. analysis[i] = None /\ \A j \in Jobs : job[j].batch[i] = None
      BY <1>0, <2>2 DEF TypeOK, Analysed
    <3>. QED
      BY <1>1, <2>3, <3>1 DEF ReviewInv, AnalysisIsOfText, Reads, Live
  <2>. QED
    BY <2>5, <2>6, <2>7, <2>8, <2>9 DEF ReviewInv
<1>. QED
  BY <1>2, <1>3 DEF InsertReview

\* What has been read of a review, once it is edited.
LEMMA RereadKeeps ==
  ASSUME NEW e \in Reading \cup {None}
  PROVE  /\ Reread(e) \in Reading \cup {None}
         /\ Reread(e) = None <=> e = None
         /\ e # None => Reread(e).edited
<1>. USE ReviewAssumption
<1>1. CASE e = None
  BY <1>1 DEF Reread
<1>2. CASE e # None
  <2>1. e \in Reading /\ e.comment \in Comments
    BY <1>2 DEF Reading
  <2>2. Reread(e) = [comment |-> e.comment, edited |-> TRUE]
    BY <1>2 DEF Reread
  <2>3. Reread(e) \in Reading
    BY <2>1, <2>2 DEF Reading
  <2>4. Reread(e).edited
    BY <2>2
  <2>. QED
    BY <1>2, <2>3, <2>4
<1>. QED
  BY <1>1, <1>2

LEMMA UpdateReviewInv ==
  ASSUME ReviewInv, NEW i \in ReviewIds, NEW c \in Comments, UpdateReview(i, c)
  PROVE  ReviewInv'
<1>. USE ReviewAssumption
<1>0. TypeOK
  BY DEF ReviewInv
<1> DEFINE row == [author |-> review[i].author, comment |-> c, late |-> review[i].late]
<1>1. /\ Live(i) /\ review' = [review EXCEPT ![i] = row]
      /\ analysis' = [analysis EXCEPT ![i] = Reread(@)]
      /\ job' = [j \in Jobs |->
                   [at |-> job[j].at, batch |-> [job[j].batch EXCEPT ![i] = Reread(@)]]]
      /\ UNCHANGED <<isRunning, req>>
  BY DEF UpdateReview
<1>2. row \in ReviewRow
  BY <1>0, <1>1 DEF Live, TypeOK, ReviewRow
<1>3. /\ review' \in [ReviewIds -> ReviewRow \cup {None, Gone}]
      /\ \A k \in ReviewIds :
           /\ Live(k)' <=> Live(k)
           /\ review'[k] = None <=> review[k] = None
           /\ Live(k) => /\ review'[k].author = review[k].author
                         /\ review'[k].late = review[k].late
           /\ k # i => review'[k] = review[k]
  BY <1>0, <1>1, <1>2 DEF Live, TypeOK
<1>4. /\ analysis' \in [ReviewIds -> Reading \cup {None}]
      /\ \A k \in ReviewIds : /\ analysis'[k] = None <=> analysis[k] = None
                              /\ k # i => analysis'[k] = analysis[k]
      /\ analysis'[i] # None => analysis'[i].edited
  BY <1>0, <1>1, RereadKeeps DEF TypeOK
<1>5. ASSUME NEW j \in Jobs
      PROVE  /\ job'[j] \in Job /\ job'[j].at = job[j].at
             /\ \A k \in ReviewIds :
                  /\ job'[j].batch[k] = None <=> job[j].batch[k] = None
                  /\ k # i => job'[j].batch[k] = job[j].batch[k]
             /\ job'[j].batch[i] # None => job'[j].batch[i].edited
  <2>1. job[j].batch \in Batches /\ job[j].batch[i] \in Reading \cup {None}
    BY <1>0 DEF TypeOK, Job, Batches
  <2>2. PICK e \in Reading \cup {None} :
          /\ e = Reread(job[j].batch[i])
          /\ e = None <=> job[j].batch[i] = None
          /\ e # None => e.edited
    BY <2>1, RereadKeeps
  <2>3. [job[j].batch EXCEPT ![i] = Reread(@)] = [job[j].batch EXCEPT ![i] = e]
    BY <2>2
  <2>4. job'[j] = [at |-> job[j].at, batch |-> [job[j].batch EXCEPT ![i] = e]]
    BY <1>1, <2>3
  <2> DEFINE b == [job[j].batch EXCEPT ![i] = e]
  <2>5. b \in Batches /\ b[i] = e /\ \A k \in ReviewIds \ {i} : b[k] = job[j].batch[k]
    BY <2>1, <2>2 DEF Batches
  <2> HIDE DEF b
  <2>6. job'[j].at = job[j].at /\ job'[j].batch = b
    BY <2>4 DEF b
  <2>7. job'[j] \in Job
    BY <1>0, <2>4, <2>5 DEF b, TypeOK, Job, Batches
  <2>8. \A k \in ReviewIds : /\ b[k] = None <=> job[j].batch[k] = None
                             /\ k # i => b[k] = job[j].batch[k]
    BY <2>2, <2>5
  <2>. QED
    BY <2>2, <2>5, <2>6, <2>7, <2>8
<1>6. TypeOK'
  <2>1. job' \in [Jobs -> Job]
    BY <1>1, <1>5
  <2>2. \A j \in Jobs :
          job'[j].at \in {"analyse", "store"} <=> \E k \in ReviewIds : job'[j].batch[k] # None
    BY <1>0, <1>5 DEF TypeOK
  <2>3. \A j \in Jobs, k \in ReviewIds : job'[j].batch[k] # None => review'[k] # None
    BY <1>0, <1>3, <1>5 DEF TypeOK
  <2>. QED
    BY <1>0, <1>1, <1>3, <1>4, <2>1, <2>2, <2>3 DEF TypeOK
<1>7. SeenReviews'
  BY <1>1, <1>3 DEF ReviewInv, SeenReviews
<1>8. DuplicateIsRace'
  BY <1>3 DEF ReviewInv, DuplicateIsRace
<1>9. NothingTwice'
  <2>1. /\ \A j, k \in Jobs : j # k => job[j].at = "idle" \/ job[k].at = "idle"
        /\ \A j \in Jobs : job[j].at # "idle" => isRunning
        /\ \A j \in Jobs, k \in ReviewIds : job[j].batch[k] # None => analysis[k] = None
    BY DEF ReviewInv, NothingTwice, Analysed
  <2>2. \A j, k \in Jobs : j # k => job'[j].at = "idle" \/ job'[k].at = "idle"
    BY <1>5, <2>1
  <2>3. \A j \in Jobs : job'[j].at # "idle" => isRunning'
    BY <1>1, <1>5, <2>1
  <2>4. \A j \in Jobs, k \in ReviewIds : job'[j].batch[k] # None => analysis'[k] = None
    BY <1>4, <1>5, <2>1
  <2>. QED
    BY <2>2, <2>3, <2>4 DEF NothingTwice, Analysed
<1>10. AnalysisHasReview'
  BY <1>3, <1>4 DEF ReviewInv, AnalysisHasReview, Analysed
<1>11. AnalysisIsOfText'
  <2>1. ASSUME NEW k \in ReviewIds
        PROVE  Reads(analysis[k], k)' /\ \A j \in Jobs : Reads(job[j].batch[k], k)'
    <3>1. CASE k = i
      BY <1>4, <1>5, <3>1 DEF Reads
    <3>2. CASE k # i
      BY <1>3, <1>4, <1>5, <3>2 DEF ReviewInv, AnalysisIsOfText, Reads
    <3>. QED
      BY <3>1, <3>2
  <2>. QED
    BY <2>1 DEF AnalysisIsOfText
<1>. QED
  BY <1>6, <1>7, <1>8, <1>9, <1>10, <1>11 DEF ReviewInv

\* The analysis goes with its review.
LEMMA DeleteReviewInv ==
  ASSUME ReviewInv, NEW i \in ReviewIds, DeleteReview(i)
  PROVE  ReviewInv'
<1>. USE ReviewAssumption
<1>0. TypeOK
  BY DEF ReviewInv
<1>1. /\ Live(i) /\ review' = [review EXCEPT ![i] = Gone]
      /\ analysis' = [analysis EXCEPT ![i] = None]
      /\ UNCHANGED <<isRunning, job, req>>
  BY DEF DeleteReview
<1>2. \A k \in ReviewIds : Live(k)' => Live(k) /\ review'[k] = review[k] /\ k # i
  BY <1>0, <1>1 DEF Live, TypeOK
<1>3. \A k \in ReviewIds : analysis'[k] # None => analysis'[k] = analysis[k] /\ k # i
  BY <1>0, <1>1 DEF TypeOK
<1>4. TypeOK'
  BY <1>0, <1>1 DEF TypeOK, Live
<1>5. SeenReviews' /\ DuplicateIsRace'
  BY <1>1, <1>2 DEF ReviewInv, SeenReviews, DuplicateIsRace
<1>6. NothingTwice'
  BY <1>1, <1>3 DEF ReviewInv, NothingTwice, Analysed
<1>7. AnalysisHasReview'
  BY <1>0, <1>1, <1>3 DEF ReviewInv, AnalysisHasReview, Analysed, Live, TypeOK
<1>8. AnalysisIsOfText'
  BY <1>1, <1>2, <1>3 DEF ReviewInv, AnalysisIsOfText, Reads
<1>. QED
  BY <1>4, <1>5, <1>6, <1>7, <1>8 DEF ReviewInv

(***************************************************************************)
(* The theorems.                                                           *)
(***************************************************************************)
LEMMA NextInv == ReviewInv /\ [Next]_vars => ReviewInv'
<1> SUFFICES ASSUME ReviewInv, [Next]_vars PROVE ReviewInv'
  OBVIOUS
<1>1. ASSUME NEW r \in Creates, FindReview(r) \/ InsertReview(r) PROVE ReviewInv'
  BY <1>1, FindReviewInv, InsertReviewInv
<1>2. ASSUME NEW i \in ReviewIds, DeleteReview(i) \/ \E c \in Comments : UpdateReview(i, c)
      PROVE  ReviewInv'
  BY <1>2, DeleteReviewInv, UpdateReviewInv
<1>3. ASSUME NEW j \in Jobs, Trigger(j) \/ JobStep(j) PROVE ReviewInv'
  BY <1>3, TriggerInv, JobStepInv
<1>4. CASE Crash
  BY <1>4, CrashInv
<1>5. CASE UNCHANGED vars
  BY <1>5 DEF vars, ReviewInv, TypeOK, SeenReviews, DuplicateIsRace, NothingTwice,
              AnalysisHasReview, AnalysisIsOfText, Reads, Analysed, Live
<1>. QED
  BY <1>1, <1>2, <1>3, <1>4, <1>5 DEF Next

\* The conjunction is inductive: what a createReview knows past its findFirst
\* makes the duplicates races, and that only one call of the job is at work
\* keeps its batch free of analysed reviews.
THEOREM ReviewsInductive == Spec => []ReviewInv
<1>. QED
  BY InitInv, NextInv, PTL DEF Spec

\* Reviews, analyses, batches and requests are well typed, and a batch is of
\* reviews that were inserted.
THEOREM ReviewsTyped == Spec => []TypeOK
<1>1. ReviewInv => TypeOK
  BY DEF ReviewInv
<1>. QED
  BY <1>1, ReviewsInductive, PTL

\* Two reviews of a property by a user come only from two createReviews, one of
\* which inserted between the other's findFirst and insert.
THEOREM DuplicatesAreRaces == Spec => []DuplicateIsRace
<1>1. ReviewInv => DuplicateIsRace
  BY DEF ReviewInv
<1>. QED
  BY <1>1, ReviewsInductive, PTL

\* The flag isRunning keeps all but one call of the job from work, and no review
\* is sent to the language model that has an analysis.
THEOREM JobRunsOnce == Spec => []NothingTwice
<1>1. ReviewInv => NothingTwice
  BY DEF ReviewInv
<1>. QED
  BY <1>1, ReviewsInductive, PTL

\* No analysis outlives its review, also when the review is deleted while the
\* language model works on it.
THEOREM AnalysesHaveReviews == Spec => []AnalysisHasReview
<1>1. ReviewInv => AnalysisHasReview
  BY DEF ReviewInv
<1>. QED
  BY <1>1, ReviewsInductive, PTL

\* An analysis is of the review's comment unless that was edited after the job
\* had read it.
THEOREM AnalysesOfText == Spec => []AnalysisIsOfText
<1>1. ReviewInv => AnalysisIsOfText
  BY DEF ReviewInv
<1>. QED
  BY <1>1, ReviewsInductive, PTL
=============================================================================

--------------------------- MODULE IngestionQueue ---------------------------
(***************************************************************************)
(* The documents table used as a job queue by the in-process ingestion     *)
(* workers (backend/app/ingestion/worker.py), together with the pipeline   *)
(* a worker runs for a claimed document (ingestion/pipeline.py) and the    *)
(* API calls that touch the same row: insert, delete and the re-upload of  *)
(* a failed document (services/documents.py).                              *)
(*                                                                         *)
(* Every transaction is one action, but the re-upload's, which opens,      *)
(* reads and later commits.  Time is not a number here: due[d] is          *)
(* next_attempt_at <= now(), earlier[d] what precedes it, stale[d] is      *)
(* processing_started_at older than WORKER_STALE_MINUTES.  The database's  *)
(* now() is the time a transaction opened: that of an upload may be long   *)
(* past when it commits, while a worker's transactions are short, and open *)
(* when they commit.                                                       *)
(***************************************************************************)
EXTENDS Integers, FiniteSets

CONSTANTS
    Docs,         \* document ids, never reused (uuid4)
    Instances,    \* API processes sharing the database
    Concurrency,  \* settings.worker_concurrency: worker tasks per process
    MaxAttempts,  \* settings.worker_max_attempts
    Batches,      \* embedding batches of a document
    Requests,     \* concurrent re-uploads of an already known file
    NoDoc,        \* "no document"
    Outlive,      \* may a job run longer than the stale window?
    DbFaults,     \* may a commit's answer be lost, or a status UPDATE fail?
    MaxStops      \* bound on process stops and crashes

ASSUME CountAssumption ==
    /\ Concurrency \in Nat \ {0}
    /\ MaxAttempts \in Nat \ {0}
    /\ Batches \in Nat \ {0}
    /\ MaxStops \in Nat

ASSUME SwitchAssumption == Outlive \in BOOLEAN /\ DbFaults \in BOOLEAN

ASSUME NamesAssumption == NoDoc \notin Docs /\ Docs \cap Requests = {}

ASSUME FiniteAssumption == IsFiniteSet(Instances) /\ IsFiniteSet(Requests)

VARIABLES
    \* documents and their sections/chunks
    status, attempts, progress, stale, indexed,
    \* next_attempt_at of the documents, and when a re-upload's transaction opened
    due, earlier,
    \* worker tasks
    pc, job, tries, done,
    \* re-upload requests that read a failed row and have yet to reset it: the
    \* document, and whether the row they read had attempts to reset
    wants, counted,
    \* process stops so far
    stops,
    \* history, for ReleaseKeepsTheTurn: the documents users queued since the
    \* last claim
    newcomers

line == <<due, earlier>>
table == <<status, attempts, progress, stale, indexed, newcomers>>
local == <<pc, job, tries, done>>
asked == <<wants, counted>>
vars == <<table, line, local, asked, stops>>

\* What has a time.
Timed == Docs \cup Requests

Workers == Instances \X (0 .. Concurrency - 1)
Lead(w) == w[2] = 0

Statuses == {"none", "queued", "processing", "ready", "failed", "deleted"}
Settled == {"ready", "failed", "deleted"}

\* Inside ingest_document, where an exception reaches run_once.
InPipeline == {"loading", "parsing", "embedding", "embedded", "writing",
               "clashed", "finishing"}
\* Where a worker task can be; "claimed" is a committed claim whose result has
\* not reached run_once yet, "erring" and "refused" are the two _fail calls.
PCs == InPipeline \cup {"idle", "claimed", "erring", "refused", "releasing", "down"}

\* Mutant: the 25 % already shown for parsing is forgotten.
ProgressOf_NoOffset(n) == (65 * n) \div Batches
ProgressOf(n) == 25 + ((65 * n) \div Batches)

TypeOK ==
    /\ status \in [Docs -> Statuses]
    /\ attempts \in [Docs -> Nat]
    /\ progress \in [Docs -> 0 .. 100]
    /\ stale \in [Docs -> BOOLEAN]
    /\ indexed \in [Docs -> BOOLEAN]
    /\ due \in [Timed -> BOOLEAN]
    /\ earlier \in [Timed -> SUBSET Timed]
    /\ pc \in [Workers -> PCs]
    /\ job \in [Workers -> Docs \cup {NoDoc}]
    /\ tries \in [Workers -> Nat]
    /\ done \in [Workers -> 0 .. Batches]
    /\ wants \in [Requests -> Docs \cup {NoDoc}]
    /\ counted \in [Requests -> BOOLEAN]
    /\ stops \in 0 .. MaxStops
    /\ newcomers \in SUBSET Docs

Init ==
    /\ status = [d \in Docs |-> "none"]
    /\ attempts = [d \in Docs |-> 0]
    /\ progress = [d \in Docs |-> 0]
    /\ stale = [d \in Docs |-> FALSE]
    /\ indexed = [d \in Docs |-> FALSE]
    /\ due = [x \in Timed |-> FALSE]
    /\ earlier = [x \in Timed |-> {}]
    /\ pc = [w \in Workers |-> "idle"]
    /\ job = [w \in Workers |-> NoDoc]
    /\ tries = [w \in Workers |-> 0]
    /\ done = [w \in Workers |-> 0]
    /\ wants = [r \in Requests |-> NoDoc]
    /\ counted = [r \in Requests |-> FALSE]
    /\ stops = 0
    /\ newcomers = {}

-----------------------------------------------------------------------------
(* The row and the queue order *)

Exists(d) == status[d] \notin {"none", "deleted"}

\* The time of those in S is now: the end of the line.
DueNow(S) ==
    /\ due' = [x \in Timed |-> x \in S \/ due[x]]
    /\ earlier' = [x \in Timed |-> IF x \in S THEN {y \in Timed \ S : due[y]}
                                              ELSE earlier[x] \ S]

\* The time of x is in the future, or x is gone.
OutOfLine(x) ==
    /\ due' = [due EXCEPT ![x] = FALSE]
    /\ earlier' = [y \in Timed |-> IF y = x THEN {} ELSE earlier[y] \ {x}]

\* The moments up to now, each as what is before it.
Moments == {S \in SUBSET Timed : \A y \in S : due[y] /\ earlier[y] \subseteq S}

\* The time of x is the moment S.
PutAt(x, S) ==
    /\ due' = [due EXCEPT ![x] = TRUE]
    /\ earlier' = [y \in Timed |-> IF y = x THEN S
                                   ELSE IF due[y] /\ y \notin S THEN earlier[y] \cup {x}
                                   ELSE earlier[y]]

\* The time of d is that of r, which is over.
TakePlace(d, r) ==
    /\ due' = [due EXCEPT ![d] = TRUE, ![r] = FALSE]
    /\ earlier' = [x \in Timed |->
          IF x = r THEN {}
          ELSE IF x = d THEN earlier[r] \ {d}
          ELSE IF r \in earlier[x] THEN (earlier[x] \ {r}) \cup {d}
          ELSE earlier[x] \ {d}]

Claimable(d) == status[d] = "queued" /\ due[d]
Ahead(d) == (earlier[d] \cap Docs) \ {d}

\* Mutant: no ORDER BY.
NextInLine_AnyOrder(d) == Claimable(d)

\* ORDER BY next_attempt_at LIMIT 1
NextInLine(d) == Claimable(d) /\ \A e \in Ahead(d) : ~Claimable(e)

Become(w, where) == pc' = [pc EXCEPT ![w] = where]

\* run_once is over: the task forgets its job
Drop(w, where) ==
    /\ Become(w, where)
    /\ job' = [job EXCEPT ![w] = NoDoc]
    /\ tries' = [tries EXCEPT ![w] = 0]
    /\ done' = [done EXCEPT ![w] = 0]

-----------------------------------------------------------------------------
(* The API: upload, delete, re-upload of a failed document *)

\* The upload commits; next_attempt_at defaults to now(), when the transaction
\* opened.  It did with the request's first query (get_current_user); checks,
\* the wait for the user's lock and the put take any time after that.
Enqueue(d) ==
    /\ status[d] = "none"
    /\ status' = [status EXCEPT ![d] = "queued"]
    /\ \E S \in Moments : PutAt(d, S)
    /\ newcomers' = newcomers \cup {d}
    /\ UNCHANGED <<attempts, progress, stale, indexed, local, asked, stops>>

\* Mutant: the foreign key does not cascade.
CascadeDelete_Missing(d) == UNCHANGED indexed

\* Sections and chunks go with their document (ON DELETE CASCADE).
CascadeDelete(d) == indexed' = [indexed EXCEPT ![d] = FALSE]

DeleteDocument(d) ==
    /\ Exists(d)
    /\ status' = [status EXCEPT ![d] = "deleted"]
    /\ attempts' = [attempts EXCEPT ![d] = 0]
    /\ progress' = [progress EXCEPT ![d] = 0]
    /\ stale' = [stale EXCEPT ![d] = FALSE]
    /\ OutOfLine(d)
    /\ CascadeDelete(d)
    /\ UNCHANGED <<newcomers, local, asked, stops>>

\* A re-upload's transaction opens; it is open for as long as due[r].
OpenRequest(r) ==
    /\ ~due[r]
    /\ DueNow({r})
    /\ UNCHANGED <<table, local, asked, stops>>

\* It finds its file already known and FAILED ...
ReadFailed(r, d) ==
    /\ due[r]
    /\ wants[r] = NoDoc
    /\ status[d] = "failed"
    /\ wants' = [wants EXCEPT ![r] = d]
    /\ counted' = [counted EXCEPT ![r] = attempts[d] # 0]
    /\ UNCHANGED <<table, line, local, stops>>

\* The request is over.
Answered(r) ==
    /\ wants' = [wants EXCEPT ![r] = NoDoc]
    /\ counted' = [counted EXCEPT ![r] = FALSE]

\* ... and, after looking at the stored object, updates the row by its id,
\* whatever the row has become meanwhile: the columns that differ from what it
\* read, so attempts only if they were not 0 then, and next_attempt_at.
ResetRow(r) ==
    LET d == wants[r] IN
    /\ d # NoDoc
    /\ Exists(d)
    /\ status' = [status EXCEPT ![d] = "queued"]
    /\ attempts' = [attempts EXCEPT ![d] = IF counted[r] THEN 0 ELSE @]
    /\ TakePlace(d, r)
    /\ newcomers' = newcomers \cup {d}
    /\ Answered(r)
    /\ UNCHANGED <<progress, stale, indexed, local, stops>>

\* Nothing to reset, the row is gone (the flush matches nothing), or the request
\* is cancelled.
NothingReset(r) ==
    /\ due[r]
    /\ OutOfLine(r)
    /\ Answered(r)
    /\ UNCHANGED <<table, local, stops>>

-----------------------------------------------------------------------------
(* The worker: claim, requeue_stale, _fail, _release *)

\* NOT EXISTS (... p.status = 'processing')
SlotFree == \A p \in Docs : status[p] # "processing"

\* attempts = attempts + 1
Charged(n) == n + 1

\* The advisory lock is held until the commit, so the whole claim is one step;
\* a claim that does not get the lock, or finds no row, changes nothing.
Claim(w) ==
    /\ pc[w] = "idle"
    /\ SlotFree
    /\ \E d \in Docs :
        /\ NextInLine(d)
        /\ status' = [status EXCEPT ![d] = "processing"]
        /\ attempts' = [attempts EXCEPT ![d] = Charged(@)]
        /\ progress' = [progress EXCEPT ![d] = 5]
        /\ stale' = [stale EXCEPT ![d] = FALSE]
        /\ job' = [job EXCEPT ![w] = d]
        /\ tries' = [tries EXCEPT ![w] = attempts[d] + 1]
    /\ newcomers' = {}
    /\ Become(w, "claimed")
    /\ UNCHANGED <<line, indexed, done, asked, stops>>

\* claim() returns to run_once, which calls ingest_document
StartJob(w) ==
    /\ pc[w] = "claimed"
    /\ Become(w, "loading")
    /\ UNCHANGED <<table, line, job, tries, done, asked, stops>>

\* The claim committed but its answer never came: _loop logs the error and the
\* row stays "processing" with nobody working on it.
ClaimAnswerLost(w) ==
    /\ DbFaults
    /\ pc[w] = "claimed"
    /\ Drop(w, "idle")
    /\ UNCHANGED <<table, line, asked, stops>>

\* Mutants: the age of the job is not looked at; a job on its last attempt is
\* left alone.
Overdue_AnyAge(d) == status[d] = "processing"
Overdue_Retryable(d) == status[d] = "processing" /\ stale[d] /\ attempts[d] < MaxAttempts

Overdue(d) == status[d] = "processing" /\ stale[d]

\* Mutants: one attempt too many; for ever.
AfterInterruption_OneMore(d) == IF attempts[d] > MaxAttempts THEN "failed" ELSE "queued"
AfterInterruption_Always(d) == "queued"

AfterInterruption(d) == IF attempts[d] >= MaxAttempts THEN "failed" ELSE "queued"

RequeueStale(w) ==
    LET overdue == {d \in Docs : Overdue(d)} IN
    /\ Lead(w)
    /\ pc[w] = "idle"
    /\ overdue # {}
    /\ status' = [d \in Docs |-> IF d \in overdue THEN AfterInterruption(d) ELSE status[d]]
    /\ DueNow(overdue)
    /\ stale' = [d \in Docs |-> d \notin overdue /\ stale[d]]
    /\ UNCHANGED <<attempts, progress, indexed, newcomers, local, asked, stops>>

\* Mutant: the last attempt is retried as well.
IsFinal_OneMore(w) == pc[w] = "refused" \/ tries[w] > MaxAttempts

\* permanent or attempts >= max_attempts
IsFinal(w) == pc[w] = "refused" \/ tries[w] >= MaxAttempts

\* _fail: an UPDATE by id, with the attempt number run_once remembers
Fail(w) ==
    LET d == job[w] IN
    /\ pc[w] \in {"erring", "refused"}
    /\ IF Exists(d)
       THEN /\ status' = [status EXCEPT ![d] = IF IsFinal(w) THEN "failed" ELSE "queued"]
            /\ progress' = [progress EXCEPT ![d] = 0]
            /\ stale' = [stale EXCEPT ![d] = FALSE]
            /\ OutOfLine(d)
       ELSE UNCHANGED <<status, progress, stale, line>>
    /\ Drop(w, "idle")
    /\ UNCHANGED <<attempts, indexed, newcomers, asked, stops>>

\* The UPDATE of _fail raises: _loop logs it and goes on, the row is untouched.
FailNotRecorded(w) ==
    /\ DbFaults
    /\ pc[w] \in {"erring", "refused"}
    /\ Drop(w, "idle")
    /\ UNCHANGED <<table, line, asked, stops>>

\* Mutant: released whatever the row is now.
MayRelease_Any(d) == TRUE

\* WHERE id = doc_id AND status = 'processing'
MayRelease(d) == status[d] = "processing"

\* Mutant: the interrupted attempt stays counted.
Uncharged_Not(n) == n

\* attempts = attempts - 1
Uncharged(n) == n - 1

\* Mutant: next_attempt_at := now().
KeepsPlace_Requeued(d) == DueNow({d})

\* next_attempt_at is not written.
KeepsPlace(d) == UNCHANGED line

\* _release, on the way out of a cancelled job
Release(w) ==
    LET d == job[w] IN
    /\ pc[w] = "releasing"
    /\ IF MayRelease(d)
       THEN /\ status' = [status EXCEPT ![d] = "queued"]
            /\ attempts' = [attempts EXCEPT ![d] = Uncharged(@)]
            /\ stale' = [stale EXCEPT ![d] = FALSE]
            /\ KeepsPlace(d)
       ELSE UNCHANGED <<status, attempts, stale, line>>
    /\ Drop(w, "down")
    /\ UNCHANGED <<progress, indexed, newcomers, asked, stops>>

-----------------------------------------------------------------------------
(* The pipeline *)

SetProgress(d, n) == progress' = [progress EXCEPT ![d] = IF Exists(d) THEN n ELSE @]

\* An exception that is neither a ParseError nor an ObjectNotFoundError: the
\* storage, the embedder or the database failed.  After the final commit only
\* its lost answer can raise.
Error(w) ==
    /\ \/ pc[w] \in InPipeline \ {"finishing"}
       \/ DbFaults /\ pc[w] = "finishing"
    /\ Become(w, "erring")
    /\ UNCHANGED <<table, line, job, tries, done, asked, stops>>

\* The row is read and its file fetched.  A deleted row raises (scalar_one).
Load(w) ==
    /\ pc[w] = "loading"
    /\ Become(w, IF Exists(job[w]) THEN "parsing" ELSE "erring")
    /\ UNCHANGED <<table, line, job, tries, done, asked, stops>>

\* The file is missing, cannot be parsed in time, or is over a limit.
Refuse(w) ==
    /\ pc[w] = "parsing"
    /\ Become(w, "refused")
    /\ UNCHANGED <<table, line, job, tries, done, asked, stops>>

Parse(w) ==
    /\ pc[w] = "parsing"
    /\ SetProgress(job[w], 25)
    /\ Become(w, "embedding")
    /\ UNCHANGED <<status, attempts, line, stale, indexed, newcomers, job, tries,
                   done, asked, stops>>

EmbedBatch(w) ==
    /\ pc[w] = "embedding"
    /\ done' = [done EXCEPT ![w] = @ + 1]
    /\ SetProgress(job[w], ProgressOf(done[w] + 1))
    /\ Become(w, IF done[w] + 1 = Batches THEN "embedded" ELSE "embedding")
    /\ UNCHANGED <<status, attempts, line, stale, indexed, newcomers, job, tries,
                   asked, stops>>

\* The final transaction deletes the sections it can see and inserts its own.
BeginWrite(w) ==
    /\ pc[w] = "embedded"
    /\ Become(w, "writing")
    /\ UNCHANGED <<table, line, job, tries, done, asked, stops>>

\* It commits; a writer of the same document that began before this commit did
\* not see these chunks and runs into uq_chunks_document_hash.
CommitWrite(w) ==
    LET d == job[w] IN
    /\ pc[w] = "writing"
    /\ Exists(d)
    /\ status' = [status EXCEPT ![d] = "ready"]
    /\ progress' = [progress EXCEPT ![d] = 100]
    /\ stale' = [stale EXCEPT ![d] = FALSE]
    /\ indexed' = [indexed EXCEPT ![d] = TRUE]
    /\ pc' = [v \in Workers |->
                IF v = w THEN "finishing"
                ELSE IF pc[v] = "writing" /\ job[v] = d THEN "clashed" ELSE pc[v]]
    /\ UNCHANGED <<attempts, line, newcomers, job, tries, done, asked, stops>>

\* No row to reference (foreign key), or the unique key is taken: rolled back.
WriteRejected(w) ==
    /\ pc[w] = "clashed" \/ (pc[w] = "writing" /\ ~Exists(job[w]))
    /\ Become(w, "erring")
    /\ UNCHANGED <<table, line, job, tries, done, asked, stops>>

FinishJob(w) ==
    /\ pc[w] = "finishing"
    /\ Drop(w, "idle")
    /\ UNCHANGED <<table, line, asked, stops>>

-----------------------------------------------------------------------------
(* Processes and the clock *)

TasksOf(i) == {w \in Workers : w[1] = i}

\* Shutdown cancels every task: one inside the pipeline releases its job, one
\* inside claim() or _fail() just ends.
Stop(i) ==
    /\ stops < MaxStops
    /\ \A w \in TasksOf(i) : pc[w] \notin {"down", "releasing"}
    /\ LET ends(w) == w \in TasksOf(i) /\ pc[w] \notin InPipeline IN
       /\ pc' = [w \in Workers |-> IF ends(w) THEN "down"
                                   ELSE IF w \in TasksOf(i) THEN "releasing" ELSE pc[w]]
       /\ job' = [w \in Workers |-> IF ends(w) THEN NoDoc ELSE job[w]]
       /\ tries' = [w \in Workers |-> IF ends(w) THEN 0 ELSE tries[w]]
       /\ done' = [w \in Workers |-> IF ends(w) THEN 0 ELSE done[w]]
    /\ stops' = stops + 1
    /\ UNCHANGED <<table, line, asked>>

\* The process is killed (scale to zero, out of memory): nothing is released.
Crash(i) ==
    /\ stops < MaxStops
    /\ \E w \in TasksOf(i) : pc[w] # "down"
    /\ pc' = [w \in Workers |-> IF w \in TasksOf(i) THEN "down" ELSE pc[w]]
    /\ job' = [w \in Workers |-> IF w \in TasksOf(i) THEN NoDoc ELSE job[w]]
    /\ tries' = [w \in Workers |-> IF w \in TasksOf(i) THEN 0 ELSE tries[w]]
    /\ done' = [w \in Workers |-> IF w \in TasksOf(i) THEN 0 ELSE done[w]]
    /\ stops' = stops + 1
    /\ UNCHANGED <<table, line, asked>>

Boot(i) ==
    /\ \A w \in TasksOf(i) : pc[w] = "down"
    /\ pc' = [w \in Workers |-> IF w \in TasksOf(i) THEN "idle" ELSE pc[w]]
    /\ UNCHANGED <<table, line, job, tries, done, asked, stops>>

BackoffOver(d) ==
    /\ status[d] = "queued"
    /\ ~due[d]
    /\ DueNow({d})
    /\ UNCHANGED <<table, local, asked, stops>>

Busy(w) == job[w] # NoDoc

\* Nothing refreshes processing_started_at, so a job still running grows stale
\* like an abandoned one; Outlive = FALSE says that jobs are shorter than that.
GrowStale(d) ==
    /\ status[d] = "processing"
    /\ ~stale[d]
    /\ Outlive \/ \A w \in Workers : job[w] # d
    /\ stale' = [stale EXCEPT ![d] = TRUE]
    /\ UNCHANGED <<status, attempts, progress, indexed, newcomers, line, local, asked, stops>>

-----------------------------------------------------------------------------
Job(w) ==
    \/ StartJob(w) \/ ClaimAnswerLost(w) \/ Fail(w) \/ FailNotRecorded(w) \/ Release(w)
    \/ Error(w) \/ Load(w) \/ Refuse(w) \/ Parse(w) \/ EmbedBatch(w)
    \/ BeginWrite(w) \/ CommitWrite(w) \/ WriteRejected(w) \/ FinishJob(w)

Api ==
    \/ \E d \in Docs : Enqueue(d) \/ DeleteDocument(d)
    \/ \E r \in Requests : OpenRequest(r) \/ ResetRow(r) \/ NothingReset(r)
    \/ \E r \in Requests, d \in Docs : ReadFailed(r, d)

Next ==
    \/ Api
    \/ \E w \in Workers : Claim(w) \/ RequeueStale(w) \/ Job(w)
    \/ \E i \in Instances : Stop(i) \/ Crash(i) \/ Boot(i)
    \/ \E d \in Docs : BackoffOver(d) \/ GrowStale(d)

Spec == Init /\ [][Next]_vars

\* The event loop runs every ready task, an idle task polls (every 5 s, or when
\* notified), the host restarts a stopped process, and time passes.  Nothing is
\* assumed of users.
Fairness ==
    /\ \A w \in Workers : WF_vars(Job(w))
    /\ WF_vars(\E w \in Workers : Claim(w))
    /\ WF_vars(\E w \in Workers : RequeueStale(w))
    /\ \A i \in Instances : WF_vars(Boot(i))
    /\ \A d \in Docs : WF_vars(BackoffOver(d)) /\ WF_vars(GrowStale(d))

FairSpec == Spec /\ Fairness

-----------------------------------------------------------------------------
(* What holds in every deployment *)

\* The claim's NOT EXISTS subquery under the advisory lock: no two rows are
\* ever "processing", whichever instances claim, requeue, fail or release.
AtMostOneProcessing ==
    \A d, e \in Docs : status[d] = "processing" /\ status[e] = "processing" => d = e

\* A row in "processing" has been charged for its attempt, so the refund in
\* _release cannot take attempts below zero.
ClaimIsCharged == \A d \in Docs : status[d] = "processing" => attempts[d] > 0

\* A READY document can be searched, and no late writer leaves sections or
\* chunks of a document that was deleted under it.
IndexMatchesRow ==
    \A d \in Docs : /\ status[d] = "ready" => indexed[d]
                    /\ indexed[d] => Exists(d)

\* However jobs and re-uploads overlap, each overrun task, and each re-upload
\* that does not reset the attempts, can bring a document back only once: the
\* attempts charged to a row stay within one per further task or request.
AttemptsBounded ==
    \A d \in Docs :
        attempts[d] < MaxAttempts + Cardinality(Workers) + Cardinality(Requests)

\* Whatever fails, stops or is killed, a waiting or running document ends up
\* ready, failed or deleted: retries run out, a dead process's job is requeued,
\* and a queued one is not passed over for ever (ORDER BY next_attempt_at).
EveryUploadSettles ==
    \A d \in Docs : status[d] \in {"queued", "processing"} ~> status[d] \in Settled

-----------------------------------------------------------------------------
(* What holds as long as jobs are shorter than the stale window (~Outlive)  *)
(* and no two re-uploads of one failed file overlap                         *)

\* No document is ingested by two tasks at a time.
ExclusiveJob ==
    \A v, w \in Workers : job[v] = job[w] /\ Busy(w) => v = w

\* run_once's attempt number is the row's, so _fail decides on the real count.
OwnerKnowsAttempt ==
    \A w \in Workers : Busy(w) /\ Exists(job[w]) => tries[w] = attempts[job[w]]

\* "Retries failures ... up to WORKER_MAX_ATTEMPTS" (worker.py)
AttemptsWithinMax == \A d \in Docs : attempts[d] <= MaxAttempts

\* The progress shown for a document never goes back within an attempt.
ProgressMovesForward ==
    [][\A d \in Docs : status[d] = "processing" /\ status'[d] = "processing"
                            => progress'[d] >= progress[d]]_vars

\* A job interrupted by a shutdown is put back uncharged and due, with its turn:
\* nothing that waited when it was claimed, and nothing put back since, is
\* before it.  Only what users queued after the claim can be, when the upload's
\* transaction opened before the document's own time.
ReleaseKeepsTheTurn ==
    [][\A w \in Workers, d \in Docs :
          /\ pc[w] = "releasing" /\ pc'[w] = "down"
          /\ job[w] = d /\ status[d] = "processing" /\ status'[d] # "processing"
        => /\ attempts'[d] = attempts[d] - 1
           /\ Claimable(d)'
           /\ \A e \in Ahead(d)' : Claimable(e)' => e \in newcomers]_vars

\* A document and its attempts go through the promised life cycle.
Lifecycle == INSTANCE JobLifecycle WITH Docs <- Docs, MaxAttempts <- MaxAttempts,
                                       status <- status, attempts <- attempts
ImplementsLifecycle == Lifecycle!Spec

-----------------------------------------------------------------------------
(* What the documentation says and the queue does not provide *)

\* "One ingestion at a time across the whole application" (worker.py): at most
\* one task is inside the pipeline.
OneIngestionAtATime ==
    \A v, w \in Workers : pc[v] \in InPipeline /\ pc[w] \in InPipeline => v = w
=============================================================================

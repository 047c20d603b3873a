------------------------ MODULE IngestionQueueProofs ------------------------
(***************************************************************************)
(* Proofs about IngestionQueue, for every set of documents, instances and  *)
(* requests, any number of worker tasks, attempts, batches and stops.      *)
(***************************************************************************)
EXTENDS IngestionQueue, FiniteSetTheorems, TLAPS

-----------------------------------------------------------------------------
(* Arithmetic of the progress bar *)

LEMMA PercentOfBatches ==
    ASSUME NEW n \in 0 .. Batches
    PROVE  (65 * n) \div Batches \in 0 .. 65
<1>1. Batches \in Nat \ {0}  BY CountAssumption
<1>2. 65 * n \in Nat /\ 65 * n <= 65 * Batches  BY <1>1
<1>3. (65 * n) \div Batches \in Int  BY <1>1, <1>2, SMTT(20)
<1>4. (65 * n) \div Batches >= 0  BY <1>1, <1>2, SMTT(20)
<1>5. (65 * n) \div Batches <= 65  BY <1>1, <1>2, SMTT(20)
<1> QED  BY <1>3, <1>4, <1>5

LEMMA ProgressIsPercent ==
    ASSUME NEW n \in 0 .. Batches
    PROVE  ProgressOf(n) \in 0 .. 100
BY PercentOfBatches DEF ProgressOf

-----------------------------------------------------------------------------
(* The invariant behind the properties of every deployment.  A task that   *)
(* left "idle" holds a document, and counts its batches only while it      *)
(* embeds: without these two facts a worker's step could name no row, or   *)
(* count past the last batch.                                              *)

HoldsJob == \A w \in Workers : pc[w] \notin {"idle", "down"} => job[w] # NoDoc

CountsBatches ==
    \A w \in Workers :
        /\ pc[w] = "embedding" => done[w] < Batches
        /\ pc[w] \in {"idle", "down", "claimed", "loading", "parsing"} => done[w] = 0

QueueInv ==
    /\ TypeOK
    /\ HoldsJob
    /\ CountsBatches
    /\ AtMostOneProcessing
    /\ ClaimIsCharged
    /\ IndexMatchesRow

LEMMA QueueInit == Init => QueueInv
<1> SUFFICES ASSUME Init PROVE QueueInv
    OBVIOUS
<1>1. TypeOK
    BY CountAssumption DEF Init, TypeOK, Statuses, PCs, Workers
<1>2. HoldsJob /\ CountsBatches
    BY CountAssumption DEF Init, HoldsJob, CountsBatches
<1>3. AtMostOneProcessing /\ ClaimIsCharged /\ IndexMatchesRow
    BY DEF Init, AtMostOneProcessing, ClaimIsCharged, IndexMatchesRow
<1> QED  BY <1>1, <1>2, <1>3 DEF QueueInv

-----------------------------------------------------------------------------
(* What a step that only moves a task preserves *)

LEMMA LineTyped ==
    ASSUME TypeOK, NEW S \in SUBSET Timed, NEW x \in Timed, NEW r \in Timed,
           DueNow(S) \/ OutOfLine(x) \/ PutAt(x, S) \/ TakePlace(x, r) \/ UNCHANGED line
    PROVE  /\ due' \in [Timed -> BOOLEAN]
           /\ earlier' \in [Timed -> SUBSET Timed]
<1>1. CASE DueNow(S)
    BY <1>1 DEF TypeOK, DueNow
<1>2. CASE OutOfLine(x)
    BY <1>2 DEF TypeOK, OutOfLine
<1>3. CASE PutAt(x, S)
  <2>1. due' \in [Timed -> BOOLEAN]
      BY <1>3 DEF TypeOK, PutAt
  <2>2. earlier' = [y \in Timed |-> IF y = x THEN S
                                   ELSE IF due[y] /\ y \notin S THEN earlier[y] \cup {x}
                                   ELSE earlier[y]]
      BY <1>3 DEF PutAt
  <2>3. \A y \in Timed : earlier[y] \in SUBSET Timed
      BY DEF TypeOK
  <2> QED  BY <2>1, <2>2, <2>3
<1>4. CASE TakePlace(x, r)
  <2>1. due' \in [Timed -> BOOLEAN]
      BY <1>4 DEF TypeOK, TakePlace
  <2>2. earlier' = [y \in Timed |->
          IF y = r THEN {}
          ELSE IF y = x THEN earlier[r] \ {x}
          ELSE IF r \in earlier[y] THEN (earlier[y] \ {r}) \cup {x}
          ELSE earlier[y] \ {x}]
      BY <1>4 DEF TakePlace
  <2>3. \A y \in Timed : earlier[y] \in SUBSET Timed
      BY DEF TypeOK
  <2> QED  BY <2>1, <2>2, <2>3
<1> QED  BY <1>1, <1>2, <1>3, <1>4 DEF TypeOK, line

\* The places of documents and requests, and the moments, are of one set.
LEMMA InTime ==
    /\ Docs \in SUBSET Timed /\ Requests \in SUBSET Timed
    /\ \A S \in Moments : S \in SUBSET Timed
BY DEF Timed, Moments

LEMMA DropTyped ==
    ASSUME TypeOK, HoldsJob, CountsBatches,
           NEW w \in Workers, NEW where \in {"idle", "down"}, Drop(w, where)
    PROVE  /\ pc' \in [Workers -> PCs]
           /\ job' \in [Workers -> Docs \cup {NoDoc}]
           /\ tries' \in [Workers -> Nat]
           /\ done' \in [Workers -> 0 .. Batches]
           /\ HoldsJob'
           /\ CountsBatches'
BY CountAssumption DEF TypeOK, HoldsJob, CountsBatches, Drop, Become, PCs

\* A task that moves on with its job, its batch count and the table unchanged.
LEMMA MoveKeepsInv ==
    ASSUME QueueInv, NEW w \in Workers, NEW where \in PCs \ {"embedding"},
           pc[w] \notin {"idle", "down"},
           where \notin {"loading", "parsing"} \/ done[w] = 0,
           where \notin {"idle", "down", "claimed"},
           Become(w, where), UNCHANGED <<table, line, job, tries, done, asked, stops>>
    PROVE  QueueInv'
<1> USE DEF QueueInv
<1>1. TypeOK'
    BY DEF TypeOK, Become, table, line, asked, PCs
<1>2. HoldsJob' /\ CountsBatches'
    BY DEF HoldsJob, CountsBatches, TypeOK, Become
<1>3. AtMostOneProcessing' /\ ClaimIsCharged' /\ IndexMatchesRow'
    BY DEF AtMostOneProcessing, ClaimIsCharged, IndexMatchesRow, Exists, table, line, asked
<1> QED  BY <1>1, <1>2, <1>3

\* Nothing but the table and the requests changes: the tasks' part is kept.
LEMMA TasksUntouched ==
    ASSUME HoldsJob, CountsBatches, UNCHANGED local
    PROVE  HoldsJob' /\ CountsBatches'
BY DEF HoldsJob, CountsBatches, local

LEMMA ApiStep == QueueInv /\ Api => QueueInv'
<1> SUFFICES ASSUME QueueInv, Api PROVE QueueInv'
    OBVIOUS
<1> USE DEF QueueInv
<1>1. ASSUME NEW d \in Docs, Enqueue(d) PROVE QueueInv'
  <2>1. TypeOK'
    <3>1. PICK S \in Moments : PutAt(d, S)
        BY <1>1 DEF Enqueue
    <3>2. due' \in [Timed -> BOOLEAN] /\ earlier' \in [Timed -> SUBSET Timed]
        BY <3>1, InTime, LineTyped
    <3> QED  BY <1>1, <3>2 DEF Enqueue, TypeOK, Statuses, local, asked
  <2>2. AtMostOneProcessing' /\ ClaimIsCharged' /\ IndexMatchesRow'
      BY <1>1 DEF Enqueue, TypeOK, AtMostOneProcessing, ClaimIsCharged, IndexMatchesRow, Exists
  <2> QED  BY <1>1, <2>1, <2>2, TasksUntouched DEF Enqueue
<1>2. ASSUME NEW d \in Docs, DeleteDocument(d) PROVE QueueInv'
  <2>1. TypeOK'
    <3>1. due' \in [Timed -> BOOLEAN] /\ earlier' \in [Timed -> SUBSET Timed]
        BY <1>2, InTime, LineTyped DEF DeleteDocument
    <3> QED  BY <1>2, <3>1 DEF DeleteDocument, CascadeDelete, TypeOK, Statuses, local, asked
  <2>2. AtMostOneProcessing' /\ ClaimIsCharged' /\ IndexMatchesRow'
      BY <1>2 DEF DeleteDocument, CascadeDelete, TypeOK, AtMostOneProcessing, ClaimIsCharged,
                  IndexMatchesRow, Exists
  <2> QED  BY <1>2, <2>1, <2>2, TasksUntouched DEF DeleteDocument
<1>3. ASSUME NEW r \in Requests, NEW d \in Docs, ReadFailed(r, d) PROVE QueueInv'
  <2>1. TypeOK'
      BY <1>3 DEF ReadFailed, TypeOK, table, line, local
  <2>2. AtMostOneProcessing' /\ ClaimIsCharged' /\ IndexMatchesRow'
      BY <1>3 DEF ReadFailed, table, line, asked, AtMostOneProcessing, ClaimIsCharged, IndexMatchesRow, Exists
  <2> QED  BY <1>3, <2>1, <2>2, TasksUntouched DEF ReadFailed
<1>4. ASSUME NEW r \in Requests, ResetRow(r) PROVE QueueInv'
  <2>1. wants[r] \in Docs
      BY <1>4 DEF ResetRow, TypeOK
  <2>2. TypeOK'
    <3>1. due' \in [Timed -> BOOLEAN] /\ earlier' \in [Timed -> SUBSET Timed]
        BY <1>4, <2>1, InTime, LineTyped DEF ResetRow
    <3> QED  BY <1>4, <2>1, <3>1 DEF ResetRow, Answered, TypeOK, Statuses, local
  <2>3. AtMostOneProcessing' /\ ClaimIsCharged' /\ IndexMatchesRow'
      BY <1>4, <2>1 DEF ResetRow, TypeOK, AtMostOneProcessing, ClaimIsCharged, IndexMatchesRow, Exists
  <2> QED  BY <1>4, <2>2, <2>3, TasksUntouched DEF ResetRow
<1>5. ASSUME NEW r \in Requests, NothingReset(r) PROVE QueueInv'
  <2>1. TypeOK'
    <3>1. due' \in [Timed -> BOOLEAN] /\ earlier' \in [Timed -> SUBSET Timed]
        BY <1>5, InTime, LineTyped DEF NothingReset
    <3> QED  BY <1>5, <3>1 DEF NothingReset, Answered, TypeOK, table, local
  <2>2. AtMostOneProcessing' /\ ClaimIsCharged' /\ IndexMatchesRow'
      BY <1>5 DEF NothingReset, table, line, asked, AtMostOneProcessing, ClaimIsCharged, IndexMatchesRow, Exists
  <2> QED  BY <1>5, <2>1, <2>2, TasksUntouched DEF NothingReset
<1>6. ASSUME NEW r \in Requests, OpenRequest(r) PROVE QueueInv'
  <2>1. TypeOK'
    <3>1. due' \in [Timed -> BOOLEAN] /\ earlier' \in [Timed -> SUBSET Timed]
        BY <1>6, InTime, LineTyped DEF OpenRequest
    <3> QED  BY <1>6, <3>1 DEF OpenRequest, TypeOK, table, local, asked
  <2>2. AtMostOneProcessing' /\ ClaimIsCharged' /\ IndexMatchesRow'
      BY <1>6 DEF OpenRequest, table, AtMostOneProcessing, ClaimIsCharged, IndexMatchesRow, Exists
  <2> QED  BY <1>6, <2>1, <2>2, TasksUntouched DEF OpenRequest
<1> QED  BY <1>1, <1>2, <1>3, <1>4, <1>5, <1>6 DEF Api

LEMMA ClaimStep ==
    ASSUME QueueInv, NEW w \in Workers, Claim(w)
    PROVE  QueueInv'
<1> USE DEF QueueInv
<1>1. PICK d \in Docs : /\ NextInLine(d)
                        /\ status' = [status EXCEPT ![d] = "processing"]
                        /\ attempts' = [attempts EXCEPT ![d] = attempts[d] + 1]
                        /\ progress' = [progress EXCEPT ![d] = 5]
                        /\ stale' = [stale EXCEPT ![d] = FALSE]
                        /\ job' = [job EXCEPT ![w] = d]
                        /\ tries' = [tries EXCEPT ![w] = attempts[d] + 1]
    BY DEF Claim, Charged
<1>2. status[d] = "queued"
    BY <1>1 DEF NextInLine, Claimable
<1>3. TypeOK'
    BY <1>1 DEF Claim, TypeOK, Become, Statuses, PCs, line, asked
<1>4. HoldsJob' /\ CountsBatches'
    BY <1>1, NamesAssumption DEF Claim, TypeOK, Become, HoldsJob, CountsBatches
<1>5. AtMostOneProcessing'
    BY <1>1 DEF Claim, SlotFree, TypeOK, AtMostOneProcessing
<1>6. ClaimIsCharged'
    BY <1>1 DEF TypeOK, ClaimIsCharged
<1>7. IndexMatchesRow'
    BY <1>1, <1>2 DEF Claim, TypeOK, IndexMatchesRow, Exists
<1> QED  BY <1>3, <1>4, <1>5, <1>6, <1>7

LEMMA RequeueStep ==
    ASSUME QueueInv, NEW w \in Workers, RequeueStale(w)
    PROVE  QueueInv'
<1> USE DEF QueueInv
<1> DEFINE overdue == {d \in Docs : Overdue(d)}
<1>1. DueNow(overdue) /\ overdue \in SUBSET Docs
    BY DEF RequeueStale
<1>2. \A d \in Docs : status'[d] = IF Overdue(d) THEN AfterInterruption(d) ELSE status[d]
    BY DEF RequeueStale
<1>3. \A d \in Docs : AfterInterruption(d) \in {"failed", "queued"}
    BY DEF AfterInterruption
<1>4. status' \in [Docs -> Statuses]
    BY <1>3 DEF RequeueStale, TypeOK, Statuses
<1>5. TypeOK'
  <2>1. PICK d \in overdue : d \in Timed
      BY InTime DEF RequeueStale
  <2>2. overdue \in SUBSET Timed
      BY InTime
  <2>3. due' \in [Timed -> BOOLEAN] /\ earlier' \in [Timed -> SUBSET Timed]
      BY <1>1, <2>1, <2>2, LineTyped
  <2> QED  BY <1>4, <2>3 DEF RequeueStale, TypeOK, local, asked
<1>6. AtMostOneProcessing' /\ ClaimIsCharged'
    BY <1>2, <1>3 DEF RequeueStale, AtMostOneProcessing, ClaimIsCharged
<1>7. IndexMatchesRow'
    BY <1>2, <1>3 DEF RequeueStale, IndexMatchesRow, Exists, Overdue
<1> QED  BY <1>5, <1>6, <1>7, TasksUntouched DEF RequeueStale

\* A task's job is a document, which every step of _fail, _release and of the
\* pipeline needs to name its row.
LEMMA JobIsDoc ==
    ASSUME QueueInv, NEW w \in Workers, pc[w] \notin {"idle", "down"}
    PROVE  job[w] \in Docs
BY DEF QueueInv, TypeOK, HoldsJob

\* Ending a job without touching the table.
LEMMA DropKeepsInv ==
    ASSUME QueueInv, NEW w \in Workers, Drop(w, "idle"), UNCHANGED <<table, line, asked, stops>>
    PROVE  QueueInv'
<1> USE DEF QueueInv
<1>1. TypeOK' /\ HoldsJob' /\ CountsBatches'
    BY DropTyped DEF TypeOK, table, line, asked
<1>2. AtMostOneProcessing' /\ ClaimIsCharged' /\ IndexMatchesRow'
    BY DEF table, line, asked, AtMostOneProcessing, ClaimIsCharged, IndexMatchesRow, Exists
<1> QED  BY <1>1, <1>2

LEMMA FailStep ==
    ASSUME QueueInv, NEW w \in Workers, Fail(w)
    PROVE  QueueInv'
<1> USE DEF QueueInv
<1> DEFINE d == job[w]
<1>1. d \in Docs
    BY JobIsDoc DEF Fail
<1>2. Drop(w, "idle")
    BY DEF Fail
<1>3. TypeOK' /\ HoldsJob' /\ CountsBatches'
  <2>1. /\ status' \in [Docs -> Statuses]
        /\ progress' \in [Docs -> 0 .. 100]
        /\ due' \in [Timed -> BOOLEAN]
        /\ earlier' \in [Timed -> SUBSET Timed]
        /\ stale' \in [Docs -> BOOLEAN]
    <3>1. CASE Exists(d)
      <4>1. status' = [status EXCEPT ![d] = IF IsFinal(w) THEN "failed" ELSE "queued"]
          BY <3>1 DEF Fail
      <4>2. /\ progress' = [progress EXCEPT ![d] = 0]
            /\ stale' = [stale EXCEPT ![d] = FALSE]
            /\ OutOfLine(d)
          BY <3>1 DEF Fail
      <4>3. status' \in [Docs -> Statuses]
          BY <1>1, <4>1 DEF TypeOK, Statuses
      <4>4. progress' \in [Docs -> 0 .. 100]
          BY <1>1, <4>2 DEF TypeOK
      <4>5. stale' \in [Docs -> BOOLEAN]
          BY <1>1, <4>2 DEF TypeOK
      <4>6. due' \in [Timed -> BOOLEAN] /\ earlier' \in [Timed -> SUBSET Timed]
          BY <1>1, <4>2, InTime, LineTyped
      <4> QED  BY <4>3, <4>4, <4>5, <4>6
    <3>2. CASE ~Exists(d)
        BY <3>2 DEF Fail, TypeOK, line
    <3> QED  BY <3>1, <3>2
  <2> QED  BY <1>2, <2>1, DropTyped DEF Fail, TypeOK, asked
<1>4. \A e \in Docs : status'[e] = status[e] \/ (e = d /\ status'[e] \in {"failed", "queued"} /\ Exists(d))
    BY <1>1 DEF Fail, TypeOK
<1>5. AtMostOneProcessing' /\ ClaimIsCharged'
    BY <1>4 DEF Fail, AtMostOneProcessing, ClaimIsCharged
<1>6. IndexMatchesRow'
    BY <1>4 DEF Fail, IndexMatchesRow, Exists
<1> QED  BY <1>3, <1>5, <1>6

\* The status guard matters here: it is what ClaimIsCharged is about, and keeps
\* attempts from going below zero.
LEMMA ReleaseStep ==
    ASSUME QueueInv, NEW w \in Workers, Release(w)
    PROVE  QueueInv'
<1> USE DEF QueueInv
<1> DEFINE d == job[w]
<1>1. d \in Docs
    BY JobIsDoc DEF Release
<1>2. Drop(w, "down")
    BY DEF Release
<1>3. status[d] = "processing" => attempts[d] - 1 \in Nat
    BY <1>1 DEF TypeOK, ClaimIsCharged
<1>4. /\ status' \in [Docs -> Statuses]
      /\ attempts' \in [Docs -> Nat]
      /\ stale' \in [Docs -> BOOLEAN]
    BY <1>1, <1>3 DEF Release, MayRelease, Uncharged, TypeOK, Statuses
<1>5. TypeOK' /\ HoldsJob' /\ CountsBatches'
    BY <1>2, <1>4, DropTyped DEF Release, KeepsPlace, TypeOK, line, asked
<1>6. \A e \in Docs : \/ status'[e] = status[e] /\ attempts'[e] = attempts[e]
                      \/ e = d /\ status[e] = "processing" /\ status'[e] = "queued"
    BY <1>1 DEF Release, MayRelease, TypeOK
<1>7. AtMostOneProcessing' /\ ClaimIsCharged'
    BY <1>6 DEF AtMostOneProcessing, ClaimIsCharged
<1>8. IndexMatchesRow'
    BY <1>6 DEF Release, IndexMatchesRow, Exists
<1> QED  BY <1>5, <1>7, <1>8

\* Parse and EmbedBatch write only the progress column.
LEMMA ProgressStep ==
    ASSUME QueueInv, NEW w \in Workers, Parse(w) \/ EmbedBatch(w)
    PROVE  QueueInv'
<1> USE DEF QueueInv
<1>1. job[w] \in Docs
    BY JobIsDoc DEF Parse, EmbedBatch
<1>2. 25 \in 0 .. 100 /\ Batches \in Nat \ {0}
    BY CountAssumption
<1>3. CASE Parse(w)
  <2>1. TypeOK'
      BY <1>1, <1>2, <1>3 DEF Parse, SetProgress, TypeOK, Become, PCs, InPipeline, line, asked
  <2>2. HoldsJob' /\ CountsBatches'
      BY <1>2, <1>3 DEF Parse, HoldsJob, CountsBatches, TypeOK, Become
  <2>3. AtMostOneProcessing' /\ ClaimIsCharged' /\ IndexMatchesRow'
      BY <1>3 DEF Parse, AtMostOneProcessing, ClaimIsCharged, IndexMatchesRow, Exists
  <2> QED  BY <2>1, <2>2, <2>3
<1>4. CASE EmbedBatch(w)
  <2>1. done[w] + 1 \in 0 .. Batches
      BY <1>2, <1>4 DEF EmbedBatch, CountsBatches, TypeOK
  <2>2. ProgressOf(done[w] + 1) \in 0 .. 100
      BY <2>1, ProgressIsPercent
  <2>3. TypeOK'
      BY <1>1, <1>4, <2>1, <2>2 DEF EmbedBatch, SetProgress, TypeOK, Become, PCs, InPipeline, line, asked
  <2>4. HoldsJob' /\ CountsBatches'
      BY <1>2, <1>4, <2>1 DEF EmbedBatch, HoldsJob, CountsBatches, TypeOK, Become
  <2>5. AtMostOneProcessing' /\ ClaimIsCharged' /\ IndexMatchesRow'
      BY <1>4 DEF EmbedBatch, AtMostOneProcessing, ClaimIsCharged, IndexMatchesRow, Exists
  <2> QED  BY <2>3, <2>4, <2>5
<1> QED  BY <1>3, <1>4

LEMMA CommitStep ==
    ASSUME QueueInv, NEW w \in Workers, CommitWrite(w)
    PROVE  QueueInv'
<1> USE DEF QueueInv
<1>1. job[w] \in Docs
    BY JobIsDoc DEF CommitWrite
<1>2. TypeOK'
    BY <1>1 DEF CommitWrite, TypeOK, Statuses, PCs, InPipeline, line, asked
<1>3. HoldsJob' /\ CountsBatches'
    BY DEF CommitWrite, HoldsJob, CountsBatches, TypeOK
<1>4. AtMostOneProcessing' /\ ClaimIsCharged'
    BY <1>1 DEF CommitWrite, TypeOK, AtMostOneProcessing, ClaimIsCharged
<1>5. IndexMatchesRow'
    BY <1>1 DEF CommitWrite, TypeOK, IndexMatchesRow, Exists
<1> QED  BY <1>2, <1>3, <1>4, <1>5

LEMMA JobStep ==
    ASSUME QueueInv, NEW w \in Workers, Job(w)
    PROVE  QueueInv'
<1>1. CASE StartJob(w)
    BY <1>1, MoveKeepsInv DEF StartJob, QueueInv, CountsBatches, PCs, InPipeline
<1>2. CASE ClaimAnswerLost(w) \/ FailNotRecorded(w) \/ FinishJob(w)
    BY <1>2, DropKeepsInv DEF ClaimAnswerLost, FailNotRecorded, FinishJob
<1>3. CASE Error(w)
    BY <1>3, MoveKeepsInv DEF Error, PCs, InPipeline
<1>4. CASE Load(w)
    BY <1>4, MoveKeepsInv DEF Load, QueueInv, CountsBatches, PCs, InPipeline
<1>5. CASE Refuse(w) \/ BeginWrite(w) \/ WriteRejected(w)
    BY <1>5, MoveKeepsInv DEF Refuse, BeginWrite, WriteRejected, PCs, InPipeline
<1> QED
    BY <1>1, <1>2, <1>3, <1>4, <1>5, FailStep, ReleaseStep, ProgressStep, CommitStep DEF Job

\* Stop, Crash and Boot change no row.
LEMMA ProcessStep ==
    ASSUME QueueInv, NEW i \in Instances, Stop(i) \/ Crash(i) \/ Boot(i)
    PROVE  QueueInv'
<1> USE DEF QueueInv
<1>1. AtMostOneProcessing' /\ ClaimIsCharged' /\ IndexMatchesRow'
    BY DEF Stop, Crash, Boot, table, line, asked, AtMostOneProcessing, ClaimIsCharged, IndexMatchesRow, Exists
<1>2. Batches \in Nat \ {0} /\ MaxStops \in Nat
    BY CountAssumption
<1>3. CASE Stop(i)
  <2>1. TypeOK'
      BY <1>2, <1>3 DEF Stop, TypeOK, table, line, asked, PCs
  <2>2. HoldsJob'
      BY <1>3 DEF Stop, HoldsJob, TypeOK, InPipeline
  <2>3. CountsBatches'
      BY <1>3 DEF Stop, CountsBatches, TypeOK, InPipeline
  <2> QED  BY <1>1, <2>1, <2>2, <2>3
<1>4. CASE Crash(i)
  <2>1. TypeOK'
      BY <1>2, <1>4 DEF Crash, TypeOK, table, line, asked, PCs
  <2> QED  BY <1>1, <1>4, <2>1 DEF Crash, HoldsJob, CountsBatches, TypeOK
<1>5. CASE Boot(i)
  <2>1. TypeOK'
      BY <1>5 DEF Boot, TypeOK, table, line, asked, PCs
  <2> QED  BY <1>1, <1>5, <2>1 DEF Boot, HoldsJob, CountsBatches, TypeOK
<1> QED  BY <1>3, <1>4, <1>5

LEMMA ClockStep ==
    ASSUME QueueInv, NEW d \in Docs, BackoffOver(d) \/ GrowStale(d)
    PROVE  QueueInv'
<1> USE DEF QueueInv
<1>1. TypeOK'
  <2>1. CASE BackoffOver(d)
    <3>1. due' \in [Timed -> BOOLEAN] /\ earlier' \in [Timed -> SUBSET Timed]
        BY <2>1, InTime, LineTyped DEF BackoffOver
    <3> QED  BY <2>1, <3>1 DEF BackoffOver, TypeOK, table, local, asked
  <2>2. CASE GrowStale(d)
      BY <2>2 DEF GrowStale, TypeOK, line, local, asked
  <2> QED  BY <2>1, <2>2
<1>2. AtMostOneProcessing' /\ ClaimIsCharged' /\ IndexMatchesRow'
    BY DEF BackoffOver, GrowStale, AtMostOneProcessing, ClaimIsCharged, IndexMatchesRow, Exists, table
<1> QED  BY <1>1, <1>2, TasksUntouched DEF BackoffOver, GrowStale

LEMMA QueueStep == QueueInv /\ [Next]_vars => QueueInv'
<1> SUFFICES ASSUME QueueInv, [Next]_vars PROVE QueueInv'
    OBVIOUS
<1>1. CASE UNCHANGED vars
    BY <1>1 DEF vars, table, line, asked, local, QueueInv, TypeOK, HoldsJob, CountsBatches,
                AtMostOneProcessing, ClaimIsCharged, IndexMatchesRow, Exists
<1> QED
    BY <1>1, ApiStep, ClaimStep, RequeueStep, JobStep, ProcessStep, ClockStep DEF Next

\* In every deployment, whatever overruns, fails, stops or races: the rows and
\* tasks keep their types, one row at most is "processing", its attempt is
\* charged, and the index belongs to an existing row.
THEOREM QueueSafe == Spec => []QueueInv
BY QueueInit, QueueStep, PTL DEF Spec

\* Type correctness; it includes that attempts never go below zero.
THEOREM TypeCorrect == Spec => []TypeOK
<1>1. QueueInv => TypeOK  BY DEF QueueInv
<1> QED  BY <1>1, QueueSafe, PTL

\* The queue never has two rows in "processing".
THEOREM OneRowProcessing == Spec => []AtMostOneProcessing
<1>1. QueueInv => AtMostOneProcessing  BY DEF QueueInv
<1> QED  BY <1>1, QueueSafe, PTL

\* A row in "processing" has been charged for its attempt.
THEOREM ChargedWhileProcessing == Spec => []ClaimIsCharged
<1>1. QueueInv => ClaimIsCharged  BY DEF QueueInv
<1> QED  BY <1>1, QueueSafe, PTL

\* READY documents are indexed and deleted ones leave no index behind.
THEOREM IndexSafe == Spec => []IndexMatchesRow
<1>1. QueueInv => IndexMatchesRow  BY DEF QueueInv
<1> QED  BY <1>1, QueueSafe, PTL

-----------------------------------------------------------------------------
(* The head of the line.  Nothing that waits gets before the running       *)
(* document but what users queued since its claim: what was due before it  *)
(* has been claimed or is waiting behind it again.                         *)

HeadOfLine ==
    \A d \in Docs : status[d] = "processing" =>
        due[d] /\ \A e \in Ahead(d) : Claimable(e) => e \in newcomers

LEMMA HeadOfLineInit == Init => HeadOfLine
BY DEF Init, HeadOfLine

\* A step that starts no document and takes none out of its place keeps the
\* line when what it lets before the running one is new.
LEMMA NobodyBefore ==
    ASSUME TypeOK, HeadOfLine, newcomers \subseteq newcomers',
           \A d \in Docs : status'[d] = "processing" =>
               /\ status[d] = "processing" /\ due'[d] = due[d]
               /\ \A e \in Ahead(d)' : \/ e \in newcomers'
                                       \/ e \in Ahead(d) /\ (Claimable(e)' => Claimable(e))
    PROVE  HeadOfLine'
BY DEF HeadOfLine

\* The same line, or a shorter one.
LEMMA SameLine ==
    ASSUME TypeOK, HeadOfLine, UNCHANGED newcomers,
           UNCHANGED line \/ \E x \in Timed : OutOfLine(x) /\ (x \in Docs => status'[x] # "processing"),
           \A d \in Docs : /\ status'[d] = "processing" => status[d] = "processing"
                           /\ status'[d] = "queued" => status[d] = "queued" \/ ~due'[d]
    PROVE  HeadOfLine'
<1>1. CASE UNCHANGED line
    BY <1>1, NobodyBefore DEF line, Ahead, Claimable
<1>2. ASSUME NEW x \in Timed, OutOfLine(x), x \in Docs => status'[x] # "processing"
      PROVE  HeadOfLine'
  <2>1. \A y \in Docs : due'[y] => due[y]
      BY <1>2, InTime DEF OutOfLine, TypeOK
  <2>2. \A y \in Docs : earlier'[y] \subseteq earlier[y] /\ (y # x => due'[y] = due[y])
      BY <1>2, InTime DEF OutOfLine, TypeOK
  <2> QED  BY <1>2, <2>1, <2>2, NobodyBefore DEF Ahead, Claimable
<1> QED  BY <1>1, <1>2

\* What gets the time now is behind every document.
LEMMA ToTheEnd ==
    ASSUME TypeOK, HeadOfLine, UNCHANGED newcomers, NEW S \in SUBSET Timed, DueNow(S),
           \A d \in S \cap Docs : status'[d] # "processing",
           \A d \in Docs \ S : status'[d] = status[d]
    PROVE  HeadOfLine'
<1>1. \A d \in Docs \ S : due'[d] = due[d] /\ earlier'[d] = earlier[d] \ S
    BY InTime DEF DueNow, TypeOK
<1> QED  BY <1>1, NobodyBefore DEF Ahead, Claimable

\* A document users upload, or queue again, gets the place of their request.
LEMMA NewPlace ==
    ASSUME TypeOK, HeadOfLine, NEW x \in Docs, NEW S \in SUBSET Timed, PutAt(x, S),
           newcomers' = newcomers \cup {x},
           status'[x] # "processing",
           \A d \in Docs \ {x} : status'[d] = status[d]
    PROVE  HeadOfLine'
<1>1. \A d \in Docs \ {x} : due'[d] = due[d] /\ earlier'[d] \subseteq earlier[d] \cup {x}
    BY InTime DEF PutAt, TypeOK
<1> QED  BY <1>1, NobodyBefore DEF Ahead, Claimable

LEMMA RequestsPlace ==
    ASSUME TypeOK, HeadOfLine, NEW d \in Docs, NEW r \in Requests, TakePlace(d, r),
           newcomers' = newcomers \cup {d},
           status'[d] # "processing",
           \A e \in Docs \ {d} : status'[e] = status[e]
    PROVE  HeadOfLine'
<1>1. \A e \in Docs \ {d} : due'[e] = due[e] /\ earlier'[e] \subseteq earlier[e] \cup {d}
    BY InTime, NamesAssumption DEF TakePlace, TypeOK
<1> QED  BY <1>1, NobodyBefore DEF Ahead, Claimable

LEMMA HeadOfLineStep == QueueInv /\ HeadOfLine /\ [Next]_vars => HeadOfLine'
<1> SUFFICES ASSUME QueueInv, HeadOfLine, [Next]_vars PROVE HeadOfLine'
    OBVIOUS
<1>0. TypeOK /\ AtMostOneProcessing
    BY DEF QueueInv
<1>1. ASSUME NEW d \in Docs, Enqueue(d) PROVE HeadOfLine'
  <2>1. PICK S \in Moments : PutAt(d, S)
      BY <1>1 DEF Enqueue
  <2>2. /\ status'[d] # "processing" /\ \A e \in Docs \ {d} : status'[e] = status[e]
        /\ newcomers' = newcomers \cup {d}
      BY <1>0, <1>1 DEF Enqueue, TypeOK
  <2>3. S \in SUBSET Timed
      BY InTime
  <2> QED  BY <1>0, <2>1, <2>2, <2>3, NewPlace
<1>2. ASSUME NEW d \in Docs, DeleteDocument(d) PROVE HeadOfLine'
  <2>1. /\ status' = [status EXCEPT ![d] = "deleted"] /\ OutOfLine(d) /\ d \in Timed
        /\ UNCHANGED newcomers
      BY <1>2, InTime DEF DeleteDocument
  <2> QED  BY <1>0, <2>1, SameLine DEF TypeOK
<1>3. ASSUME NEW r \in Requests, OpenRequest(r) PROVE HeadOfLine'
  <2>1. DueNow({r}) /\ {r} \in SUBSET Timed /\ r \notin Docs /\ UNCHANGED <<status, newcomers>>
      BY <1>3, InTime, NamesAssumption DEF OpenRequest, table
  <2> QED  BY <1>0, <2>1, ToTheEnd
<1>4. ASSUME NEW r \in Requests, ResetRow(r) PROVE HeadOfLine'
  <2>1. /\ wants[r] \in Docs /\ TakePlace(wants[r], r) /\ status'[wants[r]] # "processing"
        /\ \A e \in Docs \ {wants[r]} : status'[e] = status[e]
        /\ newcomers' = newcomers \cup {wants[r]}
      BY <1>0, <1>4 DEF ResetRow, TypeOK
  <2> QED  BY <1>0, <2>1, RequestsPlace
<1>5. ASSUME NEW r \in Requests, NothingReset(r) PROVE HeadOfLine'
  <2>1. OutOfLine(r) /\ r \in Timed /\ r \notin Docs /\ UNCHANGED <<status, newcomers>>
      BY <1>5, InTime, NamesAssumption DEF NothingReset, table
  <2> QED  BY <1>0, <2>1, SameLine
<1>6. ASSUME NEW w \in Workers, Claim(w) PROVE HeadOfLine'
  <2>1. PICK d \in Docs : NextInLine(d) /\ status' = [status EXCEPT ![d] = "processing"]
      BY <1>6 DEF Claim
  <2>2. UNCHANGED <<due, earlier>>
      BY <1>6 DEF Claim, line
  <2>3. \A e \in Docs : Claimable(e)' => Claimable(e)
      BY <1>0, <2>1, <2>2 DEF Claimable, TypeOK
  <2>4. \A e \in Docs : status'[e] = "processing" => e = d
      BY <1>0, <1>6, <2>1 DEF Claim, SlotFree, TypeOK
  <2> QED  BY <2>1, <2>2, <2>3, <2>4 DEF HeadOfLine, NextInLine, Claimable, Ahead
<1>7. ASSUME NEW w \in Workers, RequeueStale(w) PROVE HeadOfLine'
  <2> DEFINE overdue == {d \in Docs : Overdue(d)}
  <2>1. /\ DueNow(overdue)
        /\ status' = [d \in Docs |-> IF d \in overdue THEN AfterInterruption(d) ELSE status[d]]
        /\ UNCHANGED newcomers
      BY <1>7 DEF RequeueStale
  <2>2. /\ \A d \in overdue : status'[d] # "processing"
        /\ \A d \in Docs \ overdue : status'[d] = status[d]
        /\ overdue \in SUBSET Timed
      BY <2>1, InTime DEF AfterInterruption
  <2> QED  BY <1>0, <2>1, <2>2, ToTheEnd
<1>8. ASSUME NEW w \in Workers, Fail(w) PROVE HeadOfLine'
  <2>1. job[w] \in Docs /\ job[w] \in Timed /\ UNCHANGED newcomers
      BY <1>8, JobIsDoc, InTime DEF Fail
  <2>2. CASE Exists(job[w])
    <3>1. /\ OutOfLine(job[w])
          /\ status' = [status EXCEPT ![job[w]] = IF IsFinal(w) THEN "failed" ELSE "queued"]
        BY <1>8, <2>2 DEF Fail
    <3>2. ~due'[job[w]]
        BY <1>0, <2>1, <3>1 DEF OutOfLine, TypeOK
    <3> QED  BY <1>0, <2>1, <3>1, <3>2, SameLine DEF TypeOK
  <2>3. CASE ~Exists(job[w])
      BY <1>0, <1>8, <2>1, <2>3, SameLine DEF Fail
  <2> QED  BY <2>2, <2>3
\* The row released is the running one, so no other comes before it.
<1>9. ASSUME NEW w \in Workers, Release(w) PROVE HeadOfLine'
  <2>1. job[w] \in Docs /\ UNCHANGED <<line, newcomers>>
      BY <1>9, JobIsDoc DEF Release, KeepsPlace
  <2>2. CASE MayRelease(job[w])
    <3>1. status' = [status EXCEPT ![job[w]] = "queued"] /\ status[job[w]] = "processing"
        BY <1>9, <2>2 DEF Release, MayRelease
    <3>2. \A d \in Docs : status'[d] # "processing"
        BY <1>0, <2>1, <3>1 DEF AtMostOneProcessing, TypeOK
    <3> QED  BY <3>2 DEF HeadOfLine
  <2>3. CASE ~MayRelease(job[w])
      BY <1>0, <1>9, <2>1, <2>3, SameLine DEF Release
  <2> QED  BY <2>2, <2>3
<1>10. ASSUME NEW w \in Workers, CommitWrite(w) PROVE HeadOfLine'
  <2>1. /\ job[w] \in Docs
        /\ status' = [status EXCEPT ![job[w]] = "ready"]
        /\ UNCHANGED <<line, newcomers>>
      BY <1>10, JobIsDoc DEF CommitWrite
  <2> QED  BY <1>0, <2>1, SameLine DEF TypeOK
<1>11. ASSUME NEW d \in Docs, BackoffOver(d) PROVE HeadOfLine'
  <2>1. DueNow({d}) /\ {d} \in SUBSET Timed /\ status[d] # "processing" /\ UNCHANGED <<status, newcomers>>
      BY <1>11, InTime DEF BackoffOver, table
  <2> QED  BY <1>0, <2>1, ToTheEnd
<1>12. CASE UNCHANGED <<status, newcomers, line>>
    BY <1>0, <1>12, SameLine
<1> QED
    BY <1>1, <1>2, <1>3, <1>4, <1>5, <1>6, <1>7, <1>8, <1>9, <1>10, <1>11, <1>12
    DEF Next, Api, Job, ReadFailed, StartJob, ClaimAnswerLost, FailNotRecorded,
        Error, Load, Refuse, Parse, EmbedBatch, BeginWrite, WriteRejected, FinishJob,
        Stop, Crash, Boot, GrowStale, vars, table

\* A released job is put back uncharged and due, and of what waits only what
\* users queued since its claim can be before it: in every deployment, however
\* long uploads take between their transaction's begin and its commit, however
\* many tasks are stopped and whatever is deleted or retried meanwhile.
THEOREM ReleasedFirst == Spec => ReleaseKeepsTheTurn
<1>1. ASSUME QueueInv, HeadOfLine, [Next]_vars, NEW w \in Workers, NEW d \in Docs,
             pc[w] = "releasing", pc'[w] = "down",
             job[w] = d, status[d] = "processing", status'[d] # "processing"
      PROVE  /\ attempts'[d] = attempts[d] - 1
             /\ Claimable(d)'
             /\ \A e \in Ahead(d)' : Claimable(e)' => e \in newcomers
  <2>0. TypeOK /\ AtMostOneProcessing
      BY <1>1 DEF QueueInv
  <2>1. CASE Release(w)
    <3>1. /\ status' = [status EXCEPT ![d] = "queued"]
          /\ attempts' = [attempts EXCEPT ![d] = attempts[d] - 1]
          /\ UNCHANGED <<due, earlier>>
        BY <1>1, <2>1 DEF Release, MayRelease, Uncharged, KeepsPlace, line
    <3>2. d \notin Ahead(d)' /\ Ahead(d)' = Ahead(d)
        BY <3>1 DEF Ahead
    <3> QED  BY <1>1, <2>0, <3>1, <3>2 DEF HeadOfLine, Claimable, TypeOK, Ahead
  <2>2. ASSUME NEW v \in Workers, Claim(v) \/ RequeueStale(v) \/ Job(v), v # w
        PROVE  FALSE
      BY <1>1, <2>0, <2>2
      DEF Claim, RequeueStale, local, Job, StartJob, ClaimAnswerLost, Fail, FailNotRecorded,
          Release, Error, Load, Refuse, Parse, EmbedBatch, BeginWrite, CommitWrite, WriteRejected,
          FinishJob, Become, Drop, TypeOK
  <2>3. ASSUME Claim(w) \/ RequeueStale(w) \/ (Job(w) /\ ~Release(w))
        PROVE  FALSE
      BY <1>1, <2>0, <2>3
      DEF Claim, RequeueStale, Job, StartJob, ClaimAnswerLost, Fail, FailNotRecorded, Error, Load,
          Refuse, Parse, EmbedBatch, BeginWrite, CommitWrite, WriteRejected, FinishJob, InPipeline
  <2>4. CASE UNCHANGED status \/ UNCHANGED local
      BY <1>1, <2>4 DEF local
  <2> QED
      BY <1>1, <2>1, <2>2, <2>3, <2>4
      DEF Next, Api, Enqueue, DeleteDocument, OpenRequest, ReadFailed, ResetRow, NothingReset, Stop, Crash,
          Boot, BackoffOver, GrowStale, table, line, asked, vars
<1>2. QueueInv /\ HeadOfLine /\ [Next]_vars =>
        (\A w \in Workers, d \in Docs :
            /\ pc[w] = "releasing" /\ pc'[w] = "down"
            /\ job[w] = d /\ status[d] = "processing" /\ status'[d] # "processing"
          => /\ attempts'[d] = attempts[d] - 1
             /\ Claimable(d)'
             /\ \A e \in Ahead(d)' : Claimable(e)' => e \in newcomers)
    BY <1>1
<1> QED
    BY <1>2, HeadOfLineInit, HeadOfLineStep, QueueSafe, PTL DEF Spec, ReleaseKeepsTheTurn

-----------------------------------------------------------------------------
(* Attempts of a document whose jobs or re-uploads overlap.  A task that   *)
(* was given one of the attempts before the last still has a retry to      *)
(* give: _fail puts the row back whatever it has become.  So has a         *)
(* re-upload that read no attempts to reset.  Each gives it once, so a row *)
(* past its last attempt has as many attempts left as there are of them.   *)

Retriers(d) == {w \in Workers : job[w] = d /\ tries[w] < MaxAttempts}
Revivers(d) == {r \in Requests : wants[r] = d /\ ~counted[r]}

All == ({0} \X Workers) \cup ({1} \X Requests)
Chances(d) == ({0} \X Retriers(d)) \cup ({1} \X Revivers(d))

RetriesLeft ==
    \A d \in Docs :
        /\ status[d] = "none" => attempts[d] = 0
        /\ attempts[d] >= MaxAttempts =>
             /\ attempts[d] + Cardinality(Chances(d)) < MaxAttempts + Cardinality(All)
             /\ status[d] = "queued" =>
                  attempts[d] + Cardinality(Chances(d)) + 1 < MaxAttempts + Cardinality(All)

LEMMA AllFinite ==
    /\ IsFiniteSet(All)
    /\ Cardinality(Workers) \in Nat /\ Cardinality(Requests) \in Nat
    /\ Cardinality(All) \in Nat
    /\ Cardinality(All) <= Cardinality(Workers) + Cardinality(Requests)
<1> DEFINE tasks == {0} \X Workers
           asks == {1} \X Requests
<1>1. IsFiniteSet(0 .. Concurrency - 1)
    BY FS_Interval, CountAssumption
<1>2. IsFiniteSet(Workers) /\ IsFiniteSet(Requests)
    BY <1>1, FiniteAssumption, FS_Product DEF Workers
<1>3. Cardinality(Workers) \in Nat /\ Cardinality(Requests) \in Nat
    BY <1>2, FS_CardinalityType
<1>4. \A i \in {0, 1} : IsFiniteSet({i}) /\ Cardinality({i}) = 1
    BY FS_Singleton
<1>5. IsFiniteSet(tasks) /\ Cardinality(tasks) = 1 * Cardinality(Workers)
    BY <1>2, <1>4, FS_Product
<1>6. IsFiniteSet(asks) /\ Cardinality(asks) = 1 * Cardinality(Requests)
    BY <1>2, <1>4, FS_Product
<1>7. /\ IsFiniteSet(tasks \cup asks) /\ IsFiniteSet(tasks \cap asks)
      /\ Cardinality(tasks \cup asks) = Cardinality(tasks) + Cardinality(asks) - Cardinality(tasks \cap asks)
    BY <1>5, <1>6, FS_Union, FS_Intersection
<1>8. Cardinality(tasks \cap asks) \in Nat /\ Cardinality(tasks \cup asks) \in Nat
    BY <1>7, FS_CardinalityType
<1>9. All = tasks \cup asks
    BY DEF All
<1> HIDE DEF tasks, asks
<1> QED  BY <1>3, <1>5, <1>6, <1>7, <1>8, <1>9

LEMMA ChancesInAll == \A d : Chances(d) \in SUBSET All
BY DEF Chances, Retriers, Revivers, All

LEMMA ChancesCounted ==
    ASSUME NEW T \in SUBSET All
    PROVE  /\ Cardinality(T) \in Nat
           /\ \A S \in SUBSET T : Cardinality(S) <= Cardinality(T)
           /\ \A S \in SUBSET T : (\E w \in T : w \notin S) => Cardinality(S) < Cardinality(T)
<1>1. IsFiniteSet(T)
    BY AllFinite, FS_Subset
<1>2. \A S \in SUBSET T : Cardinality(S) <= Cardinality(T) /\ Cardinality(S) \in Nat
    BY <1>1, FS_Subset, FS_CardinalityType
<1>3. ASSUME NEW S \in SUBSET T, NEW w \in T, w \notin S PROVE Cardinality(S) < Cardinality(T)
  <2>1. IsFiniteSet(S)
      BY <1>1, FS_Subset
  <2>2. Cardinality(S \cup {w}) = Cardinality(S) + 1
      BY <1>3, <2>1, FS_AddElement
  <2>3. S \cup {w} \in SUBSET T
      OBVIOUS
  <2> QED  BY <1>2, <2>2, <2>3
<1> QED  BY <1>1, <1>2, <1>3, FS_CardinalityType

LEMMA RetriesLeftInit == Init => RetriesLeft
BY CountAssumption DEF Init, RetriesLeft

\* Nobody gets a retry they had not, no row gets an attempt more, and none goes
\* back to the queue: the sum can only shrink.
LEMMA RetriesShrink ==
    ASSUME TypeOK, RetriesLeft, NEW d \in Docs,
           attempts'[d] \in Nat,
           attempts'[d] <= attempts[d] \/ attempts'[d] < MaxAttempts,
           status'[d] = "none" => status[d] = "none" /\ attempts'[d] = attempts[d],
           Chances(d)' \subseteq Chances(d) \/ attempts'[d] < MaxAttempts,
           \/ status'[d] # "queued" \/ status[d] = "queued"
           \/ attempts'[d] < attempts[d] \/ attempts'[d] < MaxAttempts
           \/ \E w \in Chances(d) : w \notin Chances(d)'
    PROVE  /\ status'[d] = "none" => attempts'[d] = 0
           /\ attempts'[d] >= MaxAttempts =>
                /\ attempts'[d] + Cardinality(Chances(d))' < MaxAttempts + Cardinality(All)
                /\ status'[d] = "queued" =>
                     attempts'[d] + Cardinality(Chances(d))' + 1 < MaxAttempts + Cardinality(All)
<1>1. Chances(d) \in SUBSET All /\ Chances(d)' \in SUBSET All
    BY ChancesInAll DEF Chances, Retriers, Revivers, All
<1> DEFINE n == Cardinality(Chances(d))
           m == Cardinality(Chances(d)')
           N == Cardinality(All)
<1>2. n \in Nat /\ m \in Nat /\ N \in Nat /\ attempts[d] \in Nat /\ MaxAttempts \in Nat \ {0}
    BY <1>1, ChancesCounted, AllFinite, CountAssumption DEF TypeOK
<1>3. status'[d] = "none" => attempts'[d] = 0
    BY DEF RetriesLeft
<1>4. SUFFICES ASSUME attempts'[d] >= MaxAttempts
      PROVE  /\ attempts'[d] + m < MaxAttempts + N
             /\ status'[d] = "queued" => attempts'[d] + m + 1 < MaxAttempts + N
    BY <1>3
<1>5. attempts'[d] <= attempts[d] /\ attempts[d] >= MaxAttempts /\ Chances(d)' \subseteq Chances(d)
    BY <1>2, <1>4
<1>6. m <= n
    BY <1>1, <1>5, ChancesCounted
<1>7. /\ attempts[d] + n < MaxAttempts + N
      /\ status[d] = "queued" => attempts[d] + n + 1 < MaxAttempts + N
    BY <1>5 DEF RetriesLeft
<1>8. (\E w \in Chances(d) : w \notin Chances(d)') => m < n
    BY <1>1, <1>5, ChancesCounted
<1>9. \/ status'[d] # "queued" \/ status[d] = "queued"
      \/ attempts'[d] < attempts[d] \/ m < n
    BY <1>2, <1>4, <1>8
<1> HIDE DEF n, m, N
<1> QED  BY <1>2, <1>5, <1>6, <1>7, <1>9

\* As above for every document.
LEMMA RetriesKept ==
    ASSUME TypeOK, RetriesLeft, attempts' \in [Docs -> Nat],
           \A d \in Docs :
              /\ attempts'[d] <= attempts[d] \/ attempts'[d] < MaxAttempts
              /\ status'[d] = "none" => status[d] = "none" /\ attempts'[d] = attempts[d]
              /\ Chances(d)' \subseteq Chances(d) \/ attempts'[d] < MaxAttempts
              /\ \/ status'[d] # "queued" \/ status[d] = "queued"
                 \/ attempts'[d] < attempts[d] \/ attempts'[d] < MaxAttempts
                 \/ \E w \in Chances(d) : w \notin Chances(d)'
    PROVE  RetriesLeft'
BY RetriesShrink, AllFinite DEF RetriesLeft

LEMMA FewerChances ==
    ASSUME NEW d \in Docs, Retriers(d)' \subseteq Retriers(d), Revivers(d)' \subseteq Revivers(d)
    PROVE  /\ Chances(d)' \subseteq Chances(d)
           /\ \A w \in Retriers(d) : w \notin Retriers(d)' => \E c \in Chances(d) : c \notin Chances(d)'
           /\ \A r \in Revivers(d) : r \notin Revivers(d)' => \E c \in Chances(d) : c \notin Chances(d)'
<1> DEFINE T == Retriers(d)  R == Revivers(d)
<1>1. /\ Chances(d) = ({0} \X T) \cup ({1} \X R)
      /\ Chances(d)' = ({0} \X T') \cup ({1} \X R')
    BY DEF Chances
<1> HIDE DEF T, R
<1>2. /\ \A w \in T : w \notin T' => <<0, w>> \in Chances(d) /\ <<0, w>> \notin Chances(d)'
      /\ \A r \in R : r \notin R' => <<1, r>> \in Chances(d) /\ <<1, r>> \notin Chances(d)'
    BY <1>1
<1>3. T' \subseteq T /\ R' \subseteq R
    BY DEF T, R
<1>4. Chances(d)' \subseteq Chances(d)
    BY <1>1, <1>3
<1> QED  BY <1>2, <1>4 DEF T, R

\* The tasks move, or end, and no row changes its status or count.
LEMMA RowsUntouched ==
    ASSUME TypeOK, RetriesLeft, UNCHANGED <<status, attempts, asked>>,
           \A v \in Workers : job'[v] = NoDoc \/ (job'[v] = job[v] /\ tries'[v] = tries[v])
    PROVE  RetriesLeft'
<1>1. \A d \in Docs : Retriers(d)' \subseteq Retriers(d) /\ Revivers(d)' \subseteq Revivers(d)
    BY NamesAssumption DEF Retriers, Revivers, asked
<1>2. \A d \in Docs : Chances(d)' \subseteq Chances(d)
    BY <1>1, FewerChances
<1> QED  BY <1>2, RetriesKept DEF TypeOK

LEMMA RetriesClaim ==
    ASSUME QueueInv, RetriesLeft, NEW w \in Workers, Claim(w)
    PROVE  RetriesLeft'
<1>0. TypeOK
    BY DEF QueueInv
<1>1. PICK d \in Docs : /\ status[d] = "queued"
                        /\ status' = [status EXCEPT ![d] = "processing"]
                        /\ attempts' = [attempts EXCEPT ![d] = attempts[d] + 1]
                        /\ job' = [job EXCEPT ![w] = d]
                        /\ tries' = [tries EXCEPT ![w] = attempts[d] + 1]
    BY DEF Claim, NextInLine, Claimable, Charged
<1> DEFINE a == attempts[d]
           n == Cardinality(Chances(d))
           m == Cardinality(Chances(d)')
           N == Cardinality(All)
<1>a. \A e \in Docs : Revivers(e)' \subseteq Revivers(e)
    BY DEF Claim, asked, Revivers
<1>2. a \in Nat /\ attempts'[d] = a + 1 /\ n \in Nat /\ m \in Nat /\ N \in Nat /\ MaxAttempts \in Nat \ {0}
  <2>1. Chances(d) \in SUBSET All /\ Chances(d)' \in SUBSET All
      BY DEF Chances, Retriers, Revivers, All
  <2> QED  BY <1>0, <1>1, <2>1, ChancesCounted, AllFinite, CountAssumption DEF TypeOK
<1>3. ASSUME NEW e \in Docs \ {d}
      PROVE  /\ attempts'[e] = attempts[e] /\ status'[e] = status[e]
             /\ Chances(e)' \subseteq Chances(e)
  <2>1. Retriers(e)' \subseteq Retriers(e)
      BY <1>0, <1>1 DEF Retriers, TypeOK
  <2> QED  BY <1>0, <1>1, <1>a, <2>1, FewerChances DEF TypeOK
\* The task that gets the last attempt, or one past it, can retry no more.
<1>4. a + 1 >= MaxAttempts => Chances(d)' \subseteq Chances(d) /\ <<0, w>> \notin Chances(d)'
  <2>1. a + 1 >= MaxAttempts => Retriers(d)' \subseteq Retriers(d) /\ w \notin Retriers(d)'
      BY <1>0, <1>1, <1>2 DEF Retriers, TypeOK
  <2>2. w \notin Retriers(d)' => <<0, w>> \notin Chances(d)'
      BY DEF Chances
  <2> QED  BY <1>a, <2>1, <2>2, FewerChances
<1>5. a + 1 >= MaxAttempts => a + 1 + m < MaxAttempts + N
  <2>1. SUFFICES ASSUME a + 1 >= MaxAttempts PROVE a + 1 + m < MaxAttempts + N
      OBVIOUS
  <2>2. m <= n
      BY <1>4, <2>1, ChancesCounted DEF Chances, Retriers, Revivers, All
  <2>3. m < N
    <3>1. Chances(d)' \in SUBSET All /\ <<0, w>> \in All \ Chances(d)'
        BY <1>4, <2>1 DEF Chances, Retriers, Revivers, All
    <3> QED  BY <3>1, ChancesCounted
  <2>4. a >= MaxAttempts => a + n + 1 < MaxAttempts + N
      BY <1>1 DEF RetriesLeft
  <2> HIDE DEF a, n, m, N
  <2> QED  BY <1>2, <2>1, <2>2, <2>3, <2>4
<1>6. status'[d] = "processing"
    BY <1>0, <1>1 DEF TypeOK
<1> DEFINE Fine(e) ==
        /\ status'[e] = "none" => attempts'[e] = 0
        /\ attempts'[e] >= MaxAttempts =>
             /\ attempts'[e] + Cardinality(Chances(e)') < MaxAttempts + Cardinality(All)
             /\ status'[e] = "queued" =>
                  attempts'[e] + Cardinality(Chances(e)') + 1 < MaxAttempts + Cardinality(All)
<1>7. Fine(d)
    BY <1>2, <1>5, <1>6
<1>8. \A e \in Docs \ {d} : Fine(e)
  <2> TAKE e \in Docs \ {d}
  <2>1. attempts'[e] \in Nat
      BY <1>0, <1>3 DEF TypeOK
  <2> QED  BY <1>0, <1>3, <2>1, RetriesShrink
<1>9. \A e \in Docs : Fine(e)
    BY <1>7, <1>8
<1> QED  BY <1>9, Zenon DEF RetriesLeft

LEMMA RetriesStep == QueueInv /\ RetriesLeft /\ [Next]_vars => RetriesLeft'
<1> SUFFICES ASSUME QueueInv, RetriesLeft, [Next]_vars PROVE RetriesLeft'
    OBVIOUS
<1>0. TypeOK /\ MaxAttempts \in Nat \ {0}
    BY CountAssumption DEF QueueInv
<1>a. attempts' \in [Docs -> Nat] /\ TypeOK'
    BY QueueStep DEF QueueInv, TypeOK
<1>b. ASSUME UNCHANGED <<job, tries>> PROVE \A d \in Docs : Retriers(d)' = Retriers(d)
    BY <1>b DEF Retriers
<1>c. ASSUME UNCHANGED asked PROVE \A d \in Docs : Revivers(d)' = Revivers(d)
    BY <1>c DEF Revivers, asked
<1>d. ASSUME UNCHANGED <<job, tries, asked>> PROVE \A d \in Docs : Chances(d)' = Chances(d)
    BY <1>b, <1>c, <1>d DEF Chances
<1>1. ASSUME NEW d \in Docs, Enqueue(d) PROVE RetriesLeft'
  <2>1. /\ status' = [status EXCEPT ![d] = "queued"] /\ status[d] = "none"
        /\ UNCHANGED <<attempts, job, tries, asked>>
      BY <1>1 DEF Enqueue, local
  <2>2. attempts[d] = 0
      BY <2>1 DEF RetriesLeft
  <2> QED  BY <1>0, <1>a, <1>d, <2>1, <2>2, RetriesKept DEF TypeOK
<1>2. ASSUME NEW d \in Docs, DeleteDocument(d) PROVE RetriesLeft'
    BY <1>0, <1>a, <1>d, <1>2, RetriesKept DEF DeleteDocument, local, TypeOK
\* A re-upload that read attempts resets them; one that read none gives its
\* chance up.
<1>3. ASSUME NEW r \in Requests, ResetRow(r) PROVE RetriesLeft'
  <2>1. PICK d \in Docs : d = wants[r]
      BY <1>0, <1>3 DEF ResetRow, TypeOK
  <2>2. /\ status' = [status EXCEPT ![d] = "queued"]
        /\ attempts' = [attempts EXCEPT ![d] = IF counted[r] THEN 0 ELSE @]
        /\ wants' = [wants EXCEPT ![r] = NoDoc]
        /\ counted' = [counted EXCEPT ![r] = FALSE]
        /\ UNCHANGED <<job, tries>>
      BY <1>3, <2>1 DEF ResetRow, Answered, local
  <2>3. \A e \in Docs : Retriers(e)' \subseteq Retriers(e) /\ Revivers(e)' \subseteq Revivers(e)
      BY <1>0, <1>b, <2>2, NamesAssumption DEF Revivers, TypeOK
  <2>4. ~counted[r] => r \in Revivers(d) /\ r \notin Revivers(d)'
      BY <1>0, <2>1, <2>2, NamesAssumption DEF Revivers, TypeOK
  <2>5. /\ \A e \in Docs : Chances(e)' \subseteq Chances(e)
        /\ ~counted[r] => \E c \in Chances(d) : c \notin Chances(d)'
      BY <2>3, <2>4, FewerChances
  <2>6. \A e \in Docs \ {d} : status'[e] = status[e] /\ attempts'[e] = attempts[e]
      BY <1>0, <2>2 DEF TypeOK
  <2>7. status'[d] = "queued" /\ (attempts'[d] = attempts[d] \/ attempts'[d] = 0)
        /\ (counted[r] => attempts'[d] = 0)
      BY <1>0, <2>2 DEF TypeOK
  <2>8. \A e \in Docs : attempts[e] <= attempts[e] /\ 0 < MaxAttempts
      BY <1>0 DEF TypeOK
  <2> QED  BY <1>0, <1>a, <2>5, <2>6, <2>7, <2>8, RetriesKept
\* A re-upload that reads no attempts gets a chance of a row that has them all.
<1>11. ASSUME NEW r \in Requests, NEW d \in Docs, ReadFailed(r, d) PROVE RetriesLeft'
  <2>1. /\ wants' = [wants EXCEPT ![r] = d]
        /\ counted' = [counted EXCEPT ![r] = attempts[d] # 0]
        /\ UNCHANGED <<status, attempts, job, tries>>
      BY <1>11 DEF ReadFailed, table, local
  <2>2. \A e \in Docs : attempts'[e] < MaxAttempts \/ Revivers(e)' \subseteq Revivers(e)
    <3>1. CASE attempts[d] = 0
      <4>1. attempts'[d] < MaxAttempts
          BY <1>0, <2>1, <3>1
      <4>2. \A e \in Docs \ {d} : Revivers(e)' \subseteq Revivers(e)
          BY <1>0, <2>1 DEF Revivers, TypeOK
      <4> QED  BY <4>1, <4>2
    <3>2. CASE attempts[d] # 0
        BY <1>0, <2>1, <3>2 DEF Revivers, TypeOK
    <3> QED  BY <3>1, <3>2
  <2>3. \A e \in Docs : attempts'[e] < MaxAttempts \/ Chances(e)' \subseteq Chances(e)
      BY <1>b, <2>1, <2>2, FewerChances
  <2>4. \A e \in Docs : attempts'[e] <= attempts[e]
      BY <1>0, <2>1 DEF TypeOK
  <2> QED  BY <1>0, <1>a, <2>1, <2>3, <2>4, RetriesKept
<1>12. ASSUME NEW r \in Requests, NothingReset(r) PROVE RetriesLeft'
  <2>1. /\ wants' = [wants EXCEPT ![r] = NoDoc]
        /\ counted' = [counted EXCEPT ![r] = FALSE]
        /\ UNCHANGED <<status, attempts, job, tries>>
      BY <1>12 DEF NothingReset, Answered, table, local
  <2>2. \A e \in Docs : Retriers(e)' \subseteq Retriers(e) /\ Revivers(e)' \subseteq Revivers(e)
      BY <1>0, <1>b, <2>1, NamesAssumption DEF Revivers, TypeOK
  <2>3. \A e \in Docs : Chances(e)' \subseteq Chances(e)
      BY <2>2, FewerChances
  <2>4. \A e \in Docs : attempts'[e] <= attempts[e]
      BY <1>0, <2>1 DEF TypeOK
  <2> QED  BY <1>0, <1>a, <2>1, <2>3, <2>4, RetriesKept
\* A stale job past its last attempt fails for good.
<1>4. ASSUME NEW w \in Workers, RequeueStale(w) PROVE RetriesLeft'
  <2>1. /\ status' = [d \in Docs |-> IF d \in {e \in Docs : Overdue(e)} THEN AfterInterruption(d) ELSE status[d]]
        /\ UNCHANGED <<attempts, job, tries, asked>>
      BY <1>4 DEF RequeueStale, local
  <2>2. \A d \in Docs : status'[d] = status[d] \/ status'[d] = "failed"
                        \/ (status'[d] = "queued" /\ attempts[d] < MaxAttempts)
      BY <1>0, <2>1 DEF AfterInterruption, TypeOK
  <2> QED  BY <1>0, <1>a, <1>d, <2>1, <2>2, RetriesKept DEF TypeOK
\* The task that puts the row back gives its retry up.
<1>5. ASSUME NEW w \in Workers, Fail(w) PROVE RetriesLeft'
  <2> DEFINE d == job[w]
  <2>1. d \in Docs /\ d # NoDoc
      BY <1>5, JobIsDoc, NamesAssumption DEF Fail
  <2>2. /\ job' = [job EXCEPT ![w] = NoDoc] /\ tries' = [tries EXCEPT ![w] = 0]
        /\ attempts' = attempts /\ UNCHANGED asked
      BY <1>5 DEF Fail, Drop
  <2>3. \A e \in Docs : Retriers(e)' \subseteq Retriers(e) /\ w \notin Retriers(e)'
      BY <1>0, <2>2, NamesAssumption DEF Retriers, TypeOK
  <2>4. \A e \in Docs \ {d} : status'[e] = status[e]
      BY <1>0, <1>5 DEF Fail, TypeOK
  <2>5. status'[d] = status[d] \/ status'[d] = "failed" \/ (status'[d] = "queued" /\ w \in Retriers(d))
    <3>1. CASE Exists(d) /\ ~IsFinal(w)
      <4>1. status'[d] = "queued"
          BY <1>0, <1>5, <2>1, <3>1 DEF Fail, TypeOK
      <4>2. tries[w] < MaxAttempts
          BY <1>0, <3>1 DEF IsFinal, TypeOK
      <4> QED  BY <4>1, <4>2 DEF Retriers
    <3>2. CASE Exists(d) /\ IsFinal(w)
        BY <1>0, <1>5, <2>1, <3>2 DEF Fail, TypeOK
    <3>3. CASE ~Exists(d)
        BY <1>5, <3>3 DEF Fail
    <3> QED  BY <3>1, <3>2, <3>3
  <2>6. \A e \in Docs : attempts'[e] <= attempts[e]
      BY <1>0, <2>2 DEF TypeOK
  <2>7. \A e \in Docs : /\ Chances(e)' \subseteq Chances(e)
                        /\ w \in Retriers(e) => \E c \in Chances(e) : c \notin Chances(e)'
      BY <1>c, <2>2, <2>3, FewerChances
  <2> HIDE DEF d
  <2> QED  BY <1>0, <1>a, <2>1, <2>2, <2>4, <2>5, <2>6, <2>7, RetriesKept
<1>6. ASSUME NEW w \in Workers, Release(w) PROVE RetriesLeft'
  <2>1. job[w] \in Docs
      BY <1>6, JobIsDoc DEF Release
  <2>2. job' = [job EXCEPT ![w] = NoDoc] /\ tries' = [tries EXCEPT ![w] = 0] /\ UNCHANGED asked
      BY <1>6 DEF Release, Drop
  <2>3. \A e \in Docs : Chances(e)' \subseteq Chances(e)
    <3>1. \A e \in Docs : Retriers(e)' \subseteq Retriers(e)
        BY <1>0, <2>2, NamesAssumption DEF Retriers, TypeOK
    <3> QED  BY <1>c, <2>2, <3>1, FewerChances
  <2>4. \A e \in Docs : \/ status'[e] = status[e] /\ attempts'[e] = attempts[e]
                        \/ status'[e] = "queued" /\ attempts'[e] = attempts[e] - 1
      BY <1>0, <1>6, <2>1 DEF Release, MayRelease, Uncharged, TypeOK
  <2>5. \A e \in Docs : /\ attempts'[e] <= attempts[e]
                        /\ attempts'[e] < attempts[e] \/ (attempts'[e] = attempts[e] /\ status'[e] = status[e])
                        /\ status'[e] = "none" => status[e] = "none" /\ attempts'[e] = attempts[e]
      BY <1>0, <2>4 DEF TypeOK
  <2> QED  BY <1>0, <1>a, <2>3, <2>5, RetriesKept
<1>7. ASSUME NEW w \in Workers, CommitWrite(w) PROVE RetriesLeft'
  <2>1. /\ job[w] \in Docs
        /\ status' = [status EXCEPT ![job[w]] = "ready"]
        /\ UNCHANGED <<attempts, job, tries, asked>>
      BY <1>7, JobIsDoc DEF CommitWrite
  <2> QED  BY <1>0, <1>a, <1>d, <2>1, RetriesKept DEF TypeOK
<1>8. ASSUME NEW w \in Workers, UNCHANGED <<status, attempts, asked>>,
             \/ StartJob(w) \/ ClaimAnswerLost(w) \/ FailNotRecorded(w) \/ Error(w) \/ Load(w)
             \/ Refuse(w) \/ Parse(w) \/ EmbedBatch(w) \/ BeginWrite(w) \/ WriteRejected(w) \/ FinishJob(w)
      PROVE  RetriesLeft'
    BY <1>0, <1>8, RowsUntouched
    DEF StartJob, ClaimAnswerLost, FailNotRecorded, Error, Load, Refuse, Parse, EmbedBatch,
        BeginWrite, WriteRejected, FinishJob, Drop, TypeOK
<1>9. ASSUME NEW i \in Instances, Stop(i) \/ Crash(i) \/ Boot(i) PROVE RetriesLeft'
    BY <1>0, <1>9, RowsUntouched DEF Stop, Crash, Boot, table, line, asked
<1>10. CASE UNCHANGED <<status, attempts, job, tries, asked>>
    BY <1>0, <1>10, RowsUntouched
<1> QED
    BY <1>1, <1>2, <1>3, <1>4, <1>5, <1>6, <1>7, <1>8, <1>9, <1>10, <1>11, <1>12, RetriesClaim
    DEF Next, Api, Job, OpenRequest, StartJob, ClaimAnswerLost, FailNotRecorded,
        Error, Load, Refuse, Parse, EmbedBatch, BeginWrite, WriteRejected, FinishJob, BackoffOver,
        GrowStale, vars, table, line, asked, local

\* In every deployment, with jobs that outlive the stale window, overlapping
\* re-uploads, lost answers and any number of stops: a document is charged fewer
\* than WORKER_MAX_ATTEMPTS attempts plus one per worker task and per re-upload.
THEOREM AttemptsStayBounded == Spec => []AttemptsBounded
<1>1. ASSUME QueueInv, RetriesLeft, NEW d \in Docs
      PROVE  attempts[d] < MaxAttempts + Cardinality(Workers) + Cardinality(Requests)
  <2>1. Cardinality(Chances(d)) \in Nat
      BY ChancesInAll, ChancesCounted
  <2>2. attempts[d] \in Nat /\ MaxAttempts \in Nat \ {0}
      BY <1>1, CountAssumption DEF QueueInv, TypeOK
  <2>3. attempts[d] >= MaxAttempts =>
          attempts[d] + Cardinality(Chances(d)) < MaxAttempts + Cardinality(All)
      BY <1>1 DEF RetriesLeft
  <2> QED  BY <2>1, <2>2, <2>3, AllFinite
<1>2. QueueInv /\ RetriesLeft => AttemptsBounded
    BY <1>1 DEF AttemptsBounded
<1> QED  BY <1>2, RetriesLeftInit, RetriesStep, QueueSafe, PTL DEF Spec

-----------------------------------------------------------------------------
(* Deployments in which no job outlives the stale window and re-uploads of *)
(* one failed file do not overlap.  Only there does the queue hand every   *)
(* document to one task at a time.                                         *)

Orderly == ~Outlive /\ \A q, r \in Requests : q = r

\* The row of a task's document is not back in the queue, nor failed.
JobOffQueue ==
    \A w \in Workers : Busy(w) => status[job[w]] \in {"processing", "ready", "deleted"}

\* Only a job whose task is gone can be requeued as stale.
StaleIsOrphaned ==
    \A d \in Docs : status[d] = "processing" /\ stale[d] => \A w \in Workers : job[w] # d

\* A re-upload about to reset a row still finds it failed, or deleted, and has
\* read that it has attempts to reset.
ResetsFailedOnly ==
    \A r \in Requests : wants[r] # NoDoc =>
        status[wants[r]] \in {"failed", "deleted"} /\ counted[r]

\* A queued document has an attempt left, and one that was worked on has
\* attempts to reset.
AttemptsLeft ==
    \A d \in Docs : /\ status[d] = "none" => attempts[d] = 0
                    /\ status[d] = "queued" => attempts[d] < MaxAttempts
                    /\ status[d] \in {"processing", "ready", "failed"} => attempts[d] # 0

OrderlyInv ==
    /\ JobOffQueue
    /\ ExclusiveJob
    /\ StaleIsOrphaned
    /\ ResetsFailedOnly
    /\ OwnerKnowsAttempt
    /\ AttemptsLeft
    /\ AttemptsWithinMax

LEMMA OrderlyInit == Init => OrderlyInv
BY CountAssumption
   DEF Init, OrderlyInv, JobOffQueue, ExclusiveJob, Busy, StaleIsOrphaned, ResetsFailedOnly,
       OwnerKnowsAttempt, AttemptsLeft, AttemptsWithinMax

\* Tasks move or end, and no row's status, count or age changes.
LEMMA FewerJobs ==
    ASSUME OrderlyInv, UNCHANGED <<status, attempts, stale, asked>>,
           \A v \in Workers : job'[v] = NoDoc \/ (job'[v] = job[v] /\ tries'[v] = tries[v])
    PROVE  OrderlyInv'
<1> USE DEF OrderlyInv
<1>1. JobOffQueue' /\ ResetsFailedOnly' /\ AttemptsLeft' /\ AttemptsWithinMax'
    BY DEF JobOffQueue, Busy, ResetsFailedOnly, AttemptsLeft, AttemptsWithinMax, asked
<1>2. ExclusiveJob' /\ OwnerKnowsAttempt'
    BY DEF ExclusiveJob, OwnerKnowsAttempt, Busy, Exists
<1>3. StaleIsOrphaned'
    BY NamesAssumption DEF StaleIsOrphaned
<1> QED  BY <1>1, <1>2, <1>3

\* The row of a document that no task holds afterwards changes: what has to be
\* checked is only the row itself and the requests that want it.
LEMMA FreeRowChanges ==
    ASSUME TypeOK, OrderlyInv, NEW d \in Docs,
           \A e \in Docs \ {d} : status'[e] = status[e] /\ attempts'[e] = attempts[e]
                                 /\ stale'[e] = stale[e],
           \A v \in Workers : job'[v] = NoDoc \/ (job'[v] = job[v] /\ tries'[v] = tries[v]),
           \A v \in Workers : job'[v] # d,
           \A r \in Requests : wants'[r] # NoDoc => wants'[r] = wants[r] /\ counted'[r] = counted[r],
           \A r \in Requests : wants'[r] = d => status'[d] \in {"failed", "deleted"},
           attempts'[d] \in Nat, attempts'[d] <= MaxAttempts,
           status'[d] = "none" => attempts'[d] = 0,
           status'[d] = "queued" => attempts'[d] < MaxAttempts,
           status'[d] \in {"processing", "ready", "failed"} => attempts'[d] # 0
    PROVE  OrderlyInv'
<1> USE DEF OrderlyInv
<1>1. \A v \in Workers : job'[v] # NoDoc => job[v] \in Docs \ {d} /\ job'[v] = job[v]
    BY DEF TypeOK
<1>2. JobOffQueue' /\ OwnerKnowsAttempt'
    BY <1>1 DEF JobOffQueue, OwnerKnowsAttempt, Busy, Exists
<1>3. ExclusiveJob'
    BY <1>1 DEF ExclusiveJob, Busy
<1>4. StaleIsOrphaned'
    BY <1>1, NamesAssumption DEF StaleIsOrphaned
<1>5. ResetsFailedOnly'
    BY DEF ResetsFailedOnly, TypeOK
<1>6. AttemptsLeft' /\ AttemptsWithinMax'
    BY DEF AttemptsLeft, AttemptsWithinMax
<1> QED  BY <1>2, <1>3, <1>4, <1>5, <1>6

LEMMA OrderlyApi == Orderly /\ QueueInv /\ OrderlyInv /\ Api => OrderlyInv'
<1> SUFFICES ASSUME Orderly, QueueInv, OrderlyInv, Api PROVE OrderlyInv'
    OBVIOUS
<1> USE DEF QueueInv, OrderlyInv
<1>1. ASSUME NEW d \in Docs, Enqueue(d) PROVE OrderlyInv'
  <2>1. /\ status' = [status EXCEPT ![d] = "queued"] /\ status[d] = "none"
        /\ UNCHANGED <<attempts, stale, job, tries, wants, counted>>
      BY <1>1 DEF Enqueue, local, asked
  <2>2. \A v \in Workers : job[v] # d
      BY <2>1, NamesAssumption DEF JobOffQueue, Busy
  <2>3. attempts[d] = 0
      BY <2>1 DEF AttemptsLeft
  <2>4. \A r \in Requests : wants[r] # d
      BY <2>1, NamesAssumption DEF ResetsFailedOnly
  <2> QED  BY <2>1, <2>2, <2>3, <2>4, FreeRowChanges, CountAssumption DEF TypeOK
<1>2. ASSUME NEW d \in Docs, DeleteDocument(d) PROVE OrderlyInv'
  <2>1. /\ status' = [status EXCEPT ![d] = "deleted"]
        /\ attempts' = [attempts EXCEPT ![d] = 0]
        /\ stale' = [stale EXCEPT ![d] = FALSE]
        /\ UNCHANGED <<job, tries, wants, counted>>
      BY <1>2 DEF DeleteDocument, local, asked
  <2>2. JobOffQueue' /\ OwnerKnowsAttempt' /\ ExclusiveJob'
      BY <2>1 DEF JobOffQueue, OwnerKnowsAttempt, ExclusiveJob, Busy, Exists, TypeOK
  <2>3. StaleIsOrphaned' /\ ResetsFailedOnly'
      BY <2>1 DEF StaleIsOrphaned, ResetsFailedOnly, TypeOK
  <2>4. AttemptsLeft' /\ AttemptsWithinMax'
      BY <2>1, CountAssumption DEF AttemptsLeft, AttemptsWithinMax, TypeOK
  <2> QED  BY <2>2, <2>3, <2>4
<1>3. ASSUME NEW r \in Requests, NEW d \in Docs, ReadFailed(r, d) PROVE OrderlyInv'
  <2>1. /\ status[d] = "failed" /\ wants' = [wants EXCEPT ![r] = d]
        /\ counted' = [counted EXCEPT ![r] = attempts[d] # 0]
        /\ UNCHANGED <<status, attempts, stale, job, tries>>
      BY <1>3 DEF ReadFailed, table, local
  <2>2. ResetsFailedOnly'
      BY <2>1 DEF ResetsFailedOnly, AttemptsLeft, TypeOK
  <2> QED
      BY <2>1, <2>2 DEF JobOffQueue, ExclusiveJob, Busy, StaleIsOrphaned, OwnerKnowsAttempt,
                        Exists, AttemptsLeft, AttemptsWithinMax
<1>4. ASSUME NEW r \in Requests, ResetRow(r) PROVE OrderlyInv'
  <2> DEFINE d == wants[r]
  <2>1. /\ d \in Docs /\ Exists(d)
        /\ status' = [status EXCEPT ![d] = "queued"]
        /\ attempts' = [attempts EXCEPT ![d] = 0]
        /\ wants' = [wants EXCEPT ![r] = NoDoc]
        /\ UNCHANGED <<stale, job, tries>>
    <3>1. counted[r]
        BY <1>4 DEF ResetRow, ResetsFailedOnly
    <3> QED  BY <1>4, <3>1 DEF ResetRow, Answered, TypeOK, local
  <2>2. status[d] = "failed"
      BY <2>1, NamesAssumption DEF ResetsFailedOnly, Exists
  <2>3. \A v \in Workers : job[v] # d
      BY <2>1, <2>2, NamesAssumption DEF JobOffQueue, Busy
  <2>4. \A q \in Requests : wants'[q] = NoDoc
      BY <2>1 DEF Orderly, TypeOK
  <2> HIDE DEF d
  <2> QED  BY <2>1, <2>3, <2>4, FreeRowChanges, CountAssumption, NamesAssumption DEF TypeOK
<1>5. ASSUME NEW r \in Requests, NothingReset(r) PROVE OrderlyInv'
  <2>1. /\ wants' = [wants EXCEPT ![r] = NoDoc]
        /\ counted' = [counted EXCEPT ![r] = FALSE]
        /\ UNCHANGED <<status, attempts, stale, job, tries>>
      BY <1>5 DEF NothingReset, Answered, table, local
  <2>2. ResetsFailedOnly'
      BY <2>1 DEF ResetsFailedOnly, TypeOK
  <2> QED
      BY <2>1, <2>2 DEF JobOffQueue, ExclusiveJob, Busy, StaleIsOrphaned, OwnerKnowsAttempt,
                        Exists, AttemptsLeft, AttemptsWithinMax
<1>6. ASSUME NEW r \in Requests, OpenRequest(r) PROVE OrderlyInv'
    BY <1>6, FewerJobs DEF OpenRequest, table, local
<1> QED  BY <1>1, <1>2, <1>3, <1>4, <1>5, <1>6 DEF Api

LEMMA OrderlyClaim ==
    ASSUME QueueInv, OrderlyInv, NEW w \in Workers, Claim(w)
    PROVE  OrderlyInv'
<1> USE DEF QueueInv, OrderlyInv
<1>1. PICK d \in Docs : /\ NextInLine(d)
                        /\ status' = [status EXCEPT ![d] = "processing"]
                        /\ attempts' = [attempts EXCEPT ![d] = attempts[d] + 1]
                        /\ stale' = [stale EXCEPT ![d] = FALSE]
                        /\ job' = [job EXCEPT ![w] = d]
                        /\ tries' = [tries EXCEPT ![w] = attempts[d] + 1]
    BY DEF Claim, Charged
<1>2. status[d] = "queued" /\ attempts[d] < MaxAttempts /\ wants' = wants /\ counted' = counted
    BY <1>1 DEF NextInLine, Claimable, AttemptsLeft, Claim, asked
<1>3. \A v \in Workers : job[v] # d
    BY <1>2, NamesAssumption DEF JobOffQueue, Busy
<1>4. JobOffQueue' /\ ExclusiveJob' /\ OwnerKnowsAttempt'
    BY <1>1, <1>3 DEF JobOffQueue, ExclusiveJob, OwnerKnowsAttempt, Busy, Exists, TypeOK
<1>5. StaleIsOrphaned'
    BY <1>1, <1>3 DEF StaleIsOrphaned, TypeOK
<1>6. ResetsFailedOnly'
    BY <1>1, <1>2 DEF ResetsFailedOnly, TypeOK
<1>7. AttemptsLeft' /\ AttemptsWithinMax'
    BY <1>1, <1>2, CountAssumption DEF AttemptsLeft, AttemptsWithinMax, TypeOK
<1> QED  BY <1>4, <1>5, <1>6, <1>7

\* At most one row is overdue, and its task is gone.
LEMMA OrderlyRequeue ==
    ASSUME QueueInv, OrderlyInv, NEW w \in Workers, RequeueStale(w)
    PROVE  OrderlyInv'
<1> USE DEF QueueInv, OrderlyInv
<1>1. PICK d \in Docs : Overdue(d)
    BY DEF RequeueStale
<1>2. \A e \in Docs : Overdue(e) <=> e = d
    BY <1>1 DEF Overdue, AtMostOneProcessing
<1>3. /\ status' = [e \in Docs |-> IF Overdue(e) THEN AfterInterruption(e) ELSE status[e]]
      /\ stale' = [e \in Docs |-> e \notin {x \in Docs : Overdue(x)} /\ stale[e]]
      /\ UNCHANGED <<attempts, job, tries, wants, counted>>
    BY DEF RequeueStale, local, asked
<1>4. \A v \in Workers : job[v] # d
    BY <1>1 DEF Overdue, StaleIsOrphaned
<1>5. \A e \in Docs \ {d} : status'[e] = status[e] /\ stale'[e] = stale[e]
    BY <1>2, <1>3 DEF TypeOK
<1>6. status'[d] = IF attempts[d] >= MaxAttempts THEN "failed" ELSE "queued"
    BY <1>1, <1>3 DEF AfterInterruption
<1>7. \A r \in Requests : wants[r] # d
    BY <1>1, NamesAssumption DEF ResetsFailedOnly, Overdue
<1>8. attempts[d] # 0
    BY <1>1 DEF AttemptsLeft, Overdue
<1> QED
    BY <1>3, <1>4, <1>5, <1>6, <1>7, <1>8, FreeRowChanges, CountAssumption DEF TypeOK, AttemptsWithinMax

\* _fail finds its own row, and the count it remembers is the row's.
LEMMA OrderlyFail ==
    ASSUME QueueInv, OrderlyInv, NEW w \in Workers, Fail(w)
    PROVE  OrderlyInv'
<1> USE DEF QueueInv, OrderlyInv
<1> DEFINE d == job[w]
<1>1. d \in Docs
    BY JobIsDoc DEF Fail
<1>2. /\ UNCHANGED <<attempts, wants, counted>>
      /\ job' = [job EXCEPT ![w] = NoDoc] /\ tries' = [tries EXCEPT ![w] = 0]
    BY DEF Fail, Drop, asked
<1>3. CASE Exists(d)
  <2>1. /\ status' = [status EXCEPT ![d] = IF IsFinal(w) THEN "failed" ELSE "queued"]
        /\ stale' = [stale EXCEPT ![d] = FALSE]
      BY <1>3 DEF Fail
  <2>2. \A v \in Workers : job'[v] # d
      BY <1>1, <1>2, NamesAssumption DEF ExclusiveJob, Busy, TypeOK
  <2>3. \A v \in Workers : job'[v] = NoDoc \/ (job'[v] = job[v] /\ tries'[v] = tries[v])
      BY <1>2 DEF TypeOK
  <2>4. ~IsFinal(w) => attempts[d] < MaxAttempts
      BY <1>1, <1>3, NamesAssumption, CountAssumption
      DEF IsFinal, OwnerKnowsAttempt, Busy, TypeOK
  <2>5. \A r \in Requests : wants[r] # d
      BY <1>1, <1>3, NamesAssumption DEF ResetsFailedOnly, JobOffQueue, Busy, Exists
  <2>6. \A e \in Docs \ {d} : status'[e] = status[e] /\ attempts'[e] = attempts[e]
                              /\ stale'[e] = stale[e]
      BY <1>2, <2>1 DEF TypeOK
  <2>7. status'[d] \in {"failed", "queued"} /\ (status'[d] = "queued" => ~IsFinal(w))
      BY <1>1, <2>1 DEF TypeOK
  <2>8. attempts'[d] = attempts[d] /\ attempts[d] \in Nat /\ attempts[d] <= MaxAttempts
        /\ attempts[d] # 0
      BY <1>1, <1>2, <1>3, NamesAssumption
      DEF TypeOK, AttemptsWithinMax, AttemptsLeft, JobOffQueue, Busy, Exists
  <2> HIDE DEF d
  <2> QED
      BY <1>1, <1>2, <2>2, <2>3, <2>4, <2>5, <2>6, <2>7, <2>8, FreeRowChanges
<1>4. CASE ~Exists(d)
    BY <1>2, <1>4, FewerJobs DEF Fail, TypeOK, asked
<1> QED  BY <1>3, <1>4

LEMMA OrderlyRelease ==
    ASSUME QueueInv, OrderlyInv, NEW w \in Workers, Release(w)
    PROVE  OrderlyInv'
<1> USE DEF QueueInv, OrderlyInv
<1> DEFINE d == job[w]
<1>1. d \in Docs
    BY JobIsDoc DEF Release
<1>2. /\ UNCHANGED <<wants, counted>>
      /\ job' = [job EXCEPT ![w] = NoDoc] /\ tries' = [tries EXCEPT ![w] = 0]
    BY DEF Release, Drop, asked
<1>3. CASE status[d] = "processing"
  <2>1. /\ status' = [status EXCEPT ![d] = "queued"]
        /\ attempts' = [attempts EXCEPT ![d] = attempts[d] - 1]
        /\ stale' = [stale EXCEPT ![d] = FALSE]
      BY <1>3 DEF Release, MayRelease, Uncharged
  <2>2. \A v \in Workers : job'[v] # d
      BY <1>1, <1>2, NamesAssumption DEF ExclusiveJob, Busy, TypeOK
  <2>3. \A v \in Workers : job'[v] = NoDoc \/ (job'[v] = job[v] /\ tries'[v] = tries[v])
      BY <1>2 DEF TypeOK
  <2>4. attempts[d] \in Nat /\ attempts[d] > 0 /\ attempts[d] <= MaxAttempts
      BY <1>1, <1>3 DEF TypeOK, ClaimIsCharged, AttemptsWithinMax
  <2>5. \A r \in Requests : wants[r] # d
      BY <1>1, <1>3, NamesAssumption DEF ResetsFailedOnly
  <2>6. \A e \in Docs \ {d} : status'[e] = status[e] /\ attempts'[e] = attempts[e]
                              /\ stale'[e] = stale[e]
      BY <2>1 DEF TypeOK
  <2>7. status'[d] = "queued" /\ attempts'[d] = attempts[d] - 1
      BY <1>1, <2>1 DEF TypeOK
  <2>8. attempts'[d] \in Nat /\ attempts'[d] < MaxAttempts /\ attempts'[d] <= MaxAttempts
      BY <2>4, <2>7, CountAssumption
  <2> HIDE DEF d
  <2> QED
      BY <1>1, <1>2, <2>2, <2>3, <2>5, <2>6, <2>7, <2>8, FreeRowChanges
<1>4. CASE status[d] # "processing"
    BY <1>2, <1>4, FewerJobs DEF Release, MayRelease, TypeOK, asked
<1> QED  BY <1>3, <1>4

LEMMA OrderlyCommit ==
    ASSUME QueueInv, OrderlyInv, NEW w \in Workers, CommitWrite(w)
    PROVE  OrderlyInv'
<1> USE DEF QueueInv, OrderlyInv
<1> DEFINE d == job[w]
<1>1. d \in Docs
    BY JobIsDoc DEF CommitWrite
<1>2. /\ status' = [status EXCEPT ![d] = "ready"]
      /\ stale' = [stale EXCEPT ![d] = FALSE]
      /\ Exists(d)
      /\ UNCHANGED <<attempts, job, tries, wants, counted>>
    BY DEF CommitWrite, asked
<1>3. JobOffQueue' /\ ExclusiveJob' /\ OwnerKnowsAttempt'
    BY <1>1, <1>2 DEF JobOffQueue, ExclusiveJob, OwnerKnowsAttempt, Busy, Exists, TypeOK
<1>4. StaleIsOrphaned'
    BY <1>1, <1>2 DEF StaleIsOrphaned, TypeOK
<1>5. \A r \in Requests : wants[r] # d
    BY <1>1, <1>2, NamesAssumption DEF ResetsFailedOnly, JobOffQueue, Busy, Exists
<1>6. ResetsFailedOnly'
    BY <1>1, <1>2, <1>5 DEF ResetsFailedOnly, TypeOK
<1>7. AttemptsLeft' /\ AttemptsWithinMax'
    BY <1>1, <1>2, NamesAssumption
    DEF AttemptsLeft, AttemptsWithinMax, JobOffQueue, Busy, Exists, TypeOK
<1> QED  BY <1>3, <1>4, <1>6, <1>7

LEMMA OrderlyJob ==
    ASSUME QueueInv, OrderlyInv, NEW w \in Workers, Job(w)
    PROVE  OrderlyInv'
<1>1. TypeOK
    BY DEF QueueInv
<1>2. CASE StartJob(w) \/ Error(w) \/ Load(w) \/ Refuse(w) \/ BeginWrite(w) \/ WriteRejected(w)
    BY <1>2, FewerJobs DEF StartJob, Error, Load, Refuse, BeginWrite, WriteRejected, table, line, asked
<1>3. CASE Parse(w) \/ EmbedBatch(w)
    BY <1>3, FewerJobs DEF Parse, EmbedBatch
<1>4. CASE ClaimAnswerLost(w) \/ FailNotRecorded(w) \/ FinishJob(w)
    BY <1>1, <1>4, FewerJobs DEF ClaimAnswerLost, FailNotRecorded, FinishJob, Drop, table, line, asked, TypeOK
<1> QED
    BY <1>2, <1>3, <1>4, OrderlyFail, OrderlyRelease, OrderlyCommit DEF Job

LEMMA OrderlyStep == Orderly /\ QueueInv /\ OrderlyInv /\ [Next]_vars => OrderlyInv'
<1> SUFFICES ASSUME Orderly, QueueInv, OrderlyInv, [Next]_vars PROVE OrderlyInv'
    OBVIOUS
<1>1. ASSUME NEW i \in Instances, Stop(i) \/ Crash(i) \/ Boot(i) PROVE OrderlyInv'
    BY <1>1, FewerJobs DEF Stop, Crash, Boot, table, line, asked
<1>2. ASSUME NEW d \in Docs, BackoffOver(d) PROVE OrderlyInv'
    BY <1>2, FewerJobs DEF BackoffOver, table, local
<1>3. ASSUME NEW d \in Docs, GrowStale(d) PROVE OrderlyInv'
  <2>1. StaleIsOrphaned'
      BY <1>3 DEF GrowStale, local, Orderly, OrderlyInv, StaleIsOrphaned, QueueInv, TypeOK
  <2> QED
      BY <1>3, <2>1 DEF GrowStale, local, asked, OrderlyInv, JobOffQueue, ExclusiveJob, Busy, Exists,
                        ResetsFailedOnly, OwnerKnowsAttempt, AttemptsLeft, AttemptsWithinMax
<1>4. CASE UNCHANGED vars
    BY <1>4, FewerJobs DEF vars, table, line, asked, local
<1> QED
    BY <1>1, <1>2, <1>3, <1>4, OrderlyApi, OrderlyClaim, OrderlyRequeue, OrderlyJob DEF Next

LEMMA OrderlyInvariant ==
    ASSUME Orderly
    PROVE  Spec => []OrderlyInv
<1>1. Init => OrderlyInv
    BY OrderlyInit
<1>2. QueueInv /\ OrderlyInv /\ [Next]_vars => OrderlyInv'
    BY OrderlyStep
<1> QED  BY <1>1, <1>2, QueueSafe, PTL DEF Spec

\* With jobs shorter than the stale window and no overlapping re-uploads, no
\* document is ever with two tasks, and each task knows its row's attempt number.
THEOREM JobsExclusive ==
    ASSUME Orderly
    PROVE  Spec => [](ExclusiveJob /\ OwnerKnowsAttempt)
<1>1. OrderlyInv => ExclusiveJob /\ OwnerKnowsAttempt
    BY DEF OrderlyInv
<1> QED  BY <1>1, OrderlyInvariant, PTL

\* Then no document is charged more attempts than WORKER_MAX_ATTEMPTS.
THEOREM AttemptsKept ==
    ASSUME Orderly
    PROVE  Spec => []AttemptsWithinMax
<1>1. OrderlyInv => AttemptsWithinMax
    BY DEF OrderlyInv
<1> QED  BY <1>1, OrderlyInvariant, PTL

-----------------------------------------------------------------------------
(* The progress of the running document is what its own task reached.      *)

LEMMA ProgressGrows ==
    ASSUME NEW n \in 0 .. Batches, n + 1 <= Batches
    PROVE  25 <= ProgressOf(n) /\ ProgressOf(n) <= ProgressOf(n + 1)
<1> DEFINE p == (65 * n) \div Batches
           q == (65 * (n + 1)) \div Batches
<1>1. Batches \in Nat \ {0}  BY CountAssumption
<1>2. p \in 0 .. 65 /\ q \in 0 .. 65
    BY <1>1, PercentOfBatches
<1>3. p * Batches <= 65 * n  BY <1>1, SMTT(30)
<1>4. 65 * (n + 1) < (q + 1) * Batches  BY <1>1, SMTT(30)
<1>5. p * Batches < (q + 1) * Batches
  <2> HIDE DEF p, q
  <2>1. p * Batches \in Int /\ (q + 1) * Batches \in Int  BY <1>1, <1>2
  <2> QED  BY <1>3, <1>4, <2>1
<1>6. p < q + 1
  <2> HIDE DEF p, q
  <2> QED  BY <1>1, <1>2, <1>5, SMTT(30)
<1>7. p <= q
  <2> HIDE DEF p, q
  <2> QED  BY <1>2, <1>6
<1> QED  BY <1>2, <1>7 DEF ProgressOf

ProgressOfJob ==
    \A w \in Workers : Busy(w) /\ status[job[w]] = "processing" =>
        /\ pc[w] \in {"claimed", "loading", "parsing"} => progress[job[w]] <= 25
        /\ pc[w] = "embedding" => progress[job[w]] <= ProgressOf(done[w])

LEMMA ProgressOfJobInit == Init => ProgressOfJob
BY DEF Init, ProgressOfJob, Busy

\* A task ends, or goes on where no progress is shown; the others stay; no row
\* becomes the running one or changes its progress while it is.
LEMMA SameProgress ==
    ASSUME QueueInv, ProgressOfJob,
           \A d \in Docs : status'[d] = "processing" => status[d] = "processing" /\ progress'[d] = progress[d],
           \A v \in Workers :
               \/ job'[v] = NoDoc
               \/ job'[v] = job[v] /\ pc'[v] = pc[v] /\ done'[v] = done[v]
               \/ job'[v] = job[v] /\ pc[v] \in {"claimed", "loading"} /\ pc'[v] \in {"loading", "parsing"}
               \/ job'[v] = job[v] /\ pc'[v] \notin {"claimed", "loading", "parsing", "embedding"}
    PROVE  ProgressOfJob'
BY DEF QueueInv, TypeOK, ProgressOfJob, Busy

LEMMA ProgressOfJobStep ==
    ASSUME Orderly, QueueInv, OrderlyInv, ProgressOfJob, [Next]_vars
    PROVE  ProgressOfJob'
<1>0. TypeOK
    BY DEF QueueInv
<1>1. CASE Api
    BY <1>0, <1>1, SameProgress DEF Api, Enqueue, DeleteDocument, OpenRequest, ReadFailed, ResetRow, NothingReset,
                                    table, line, asked, local, TypeOK
<1>2. ASSUME NEW w \in Workers, Claim(w) PROVE ProgressOfJob'
  <2>1. PICK d \in Docs : /\ NextInLine(d)
                          /\ status' = [status EXCEPT ![d] = "processing"]
                          /\ progress' = [progress EXCEPT ![d] = 5]
                          /\ job' = [job EXCEPT ![w] = d]
                          /\ pc' = [pc EXCEPT ![w] = "claimed"]
                          /\ done' = done
      BY <1>2 DEF Claim, Become
  <2>2. \A v \in Workers : job[v] # d
      BY <2>1, NamesAssumption DEF OrderlyInv, JobOffQueue, Busy, NextInLine, Claimable
  <2> QED  BY <1>0, <2>1, <2>2 DEF ProgressOfJob, Busy, TypeOK
<1>3. ASSUME NEW w \in Workers, RequeueStale(w) PROVE ProgressOfJob'
    BY <1>0, <1>3, SameProgress DEF RequeueStale, AfterInterruption, Overdue, local
<1>4. ASSUME NEW w \in Workers, Fail(w) PROVE ProgressOfJob'
    BY <1>0, <1>4, JobIsDoc, SameProgress DEF Fail, Drop, Become, TypeOK
<1>5. ASSUME NEW w \in Workers, Release(w) PROVE ProgressOfJob'
    BY <1>0, <1>5, JobIsDoc, SameProgress DEF Release, Drop, Become, TypeOK
<1>6. ASSUME NEW w \in Workers, CommitWrite(w) PROVE ProgressOfJob'
    BY <1>0, <1>6, JobIsDoc, SameProgress DEF CommitWrite, TypeOK
\* The two steps that show progress: no other task has the document.
<1>7. ASSUME NEW w \in Workers, Parse(w) \/ EmbedBatch(w) PROVE ProgressOfJob'
  <2> DEFINE d == job[w]
  <2>1. d \in Docs /\ d # NoDoc
      BY <1>7, JobIsDoc, NamesAssumption DEF Parse, EmbedBatch
  <2>2. \A v \in Workers \ {w} : job[v] # d
      BY <2>1 DEF OrderlyInv, ExclusiveJob, Busy
  <2>3. \A v \in Workers \ {w} : /\ pc'[v] = pc[v] /\ job'[v] = job[v] /\ done'[v] = done[v]
                                 /\ job[v] # NoDoc => progress'[job[v]] = progress[job[v]]
      BY <1>0, <1>7, <2>1, <2>2 DEF Parse, EmbedBatch, Become, SetProgress, TypeOK
  <2>4. status' = status /\ job'[w] = d
      BY <1>7 DEF Parse, EmbedBatch
  <2>5. pc'[w] = "embedding" /\ status[d] = "processing" => progress'[d] = ProgressOf(done'[w])
    <3>1. CASE Parse(w)
      <4>1. done'[w] = 0 /\ (status[d] = "processing" => progress'[d] = 25)
          BY <1>0, <2>1, <3>1 DEF Parse, SetProgress, Exists, QueueInv, CountsBatches, TypeOK
      <4>2. ProgressOf(0) = 25
          BY CountAssumption, SMTT(20) DEF ProgressOf
      <4> QED  BY <4>1, <4>2
    <3>2. CASE EmbedBatch(w)
        BY <1>0, <2>1, <3>2 DEF EmbedBatch, SetProgress, Exists, TypeOK
    <3> QED  BY <1>7, <3>1, <3>2
  <2>6. pc'[w] \in {"embedding", "embedded"}
      BY <1>0, <1>7 DEF Parse, EmbedBatch, Become, TypeOK
  <2>7. progress'[d] \in Int
    <3>1. QueueInv'
        BY <1>7, ProgressStep
    <3>2. progress'[d] \in 0 .. 100
        BY <2>1, <3>1 DEF QueueInv, TypeOK
    <3> HIDE DEF d
    <3> QED  BY <3>2
  <2> HIDE DEF d
  <2> QED  BY <2>3, <2>4, <2>5, <2>6, <2>7 DEF ProgressOfJob, Busy
<1>8. ASSUME NEW w \in Workers,
             \/ StartJob(w) \/ ClaimAnswerLost(w) \/ FailNotRecorded(w) \/ Error(w) \/ Load(w)
             \/ Refuse(w) \/ BeginWrite(w) \/ WriteRejected(w) \/ FinishJob(w)
      PROVE  ProgressOfJob'
    BY <1>0, <1>8, SameProgress
    DEF StartJob, ClaimAnswerLost, FailNotRecorded, Error, Load, Refuse, BeginWrite, WriteRejected,
        FinishJob, Drop, Become, table, line, asked, TypeOK
<1>9. ASSUME NEW i \in Instances, Stop(i) \/ Crash(i) \/ Boot(i) PROVE ProgressOfJob'
  <2>1. CASE Boot(i)
      BY <1>0, <2>1, SameProgress DEF Boot, table, line, asked, TypeOK
  <2>2. CASE Stop(i) \/ Crash(i)
      BY <1>0, <2>2, SameProgress DEF Stop, Crash, table, line, asked, TypeOK
  <2> QED  BY <1>9, <2>1, <2>2
<1>10. CASE \E d \in Docs : BackoffOver(d) \/ GrowStale(d)
    BY <1>0, <1>10, SameProgress DEF BackoffOver, GrowStale, table, local
<1>11. CASE UNCHANGED vars
    BY <1>0, <1>11, SameProgress DEF vars, table, line, asked, local
<1> QED
    BY <1>1, <1>2, <1>3, <1>4, <1>5, <1>6, <1>7, <1>8, <1>9, <1>10, <1>11 DEF Next, Job

LEMMA ProgressStepForward ==
    ASSUME QueueInv, OrderlyInv, ProgressOfJob, [Next]_vars, NEW d \in Docs,
           status[d] = "processing", status'[d] = "processing"
    PROVE  progress'[d] >= progress[d]
<1>0. TypeOK
    BY DEF QueueInv
<1>a. progress \in [Docs -> 0 .. 100] /\ status \in [Docs -> Statuses]
    BY <1>0 DEF TypeOK
<1>b. progress[d] \in Int
  <2>1. progress[d] \in 0 .. 100  BY <1>a
  <2> QED  BY <2>1
<1>1. CASE progress' = progress
    BY <1>b, <1>1
<1>2. ASSUME NEW w \in Workers, Parse(w) \/ EmbedBatch(w) PROVE progress'[d] >= progress[d]
  <2>1. job[w] \in Docs /\ Busy(w)
      BY <1>2, JobIsDoc, NamesAssumption DEF Parse, EmbedBatch, Busy
  <2>2. CASE job[w] # d
    <3>1. progress'[d] = progress[d]
        BY <1>a, <1>2, <2>1, <2>2 DEF Parse, EmbedBatch, SetProgress
    <3> QED  BY <1>b, <3>1
  <2>3. CASE job[w] = d /\ Parse(w)
      BY <1>0, <2>1, <2>3 DEF Parse, SetProgress, Exists, ProgressOfJob, TypeOK
  <2>4. CASE job[w] = d /\ EmbedBatch(w)
    <3>1. done[w] \in 0 .. Batches /\ done[w] + 1 <= Batches
        BY <1>0, <2>4, CountAssumption DEF EmbedBatch, QueueInv, CountsBatches, TypeOK
    <3>2. progress[d] <= ProgressOf(done[w]) /\ progress'[d] = ProgressOf(done[w] + 1)
        BY <1>0, <2>1, <2>4 DEF EmbedBatch, SetProgress, Exists, ProgressOfJob, TypeOK
    <3>3. done[w] + 1 \in 0 .. Batches
        BY <3>1, CountAssumption
    <3>4. ProgressOf(done[w]) \in 0 .. 100 /\ ProgressOf(done[w] + 1) \in 0 .. 100
        BY <3>1, <3>3, ProgressIsPercent
    <3>5. ProgressOf(done[w]) <= ProgressOf(done[w] + 1)
        BY <3>1, ProgressGrows
    <3> QED  BY <1>b, <3>2, <3>4, <3>5
  <2> QED  BY <1>2, <2>2, <2>3, <2>4
<1>3. ASSUME NEW w \in Workers, Claim(w) PROVE progress'[d] >= progress[d]
    BY <1>3 DEF Claim, SlotFree
<1>4. ASSUME NEW w \in Workers, Fail(w) \/ CommitWrite(w) PROVE progress'[d] >= progress[d]
  <2>1. job[w] \in Docs
      BY <1>4, JobIsDoc DEF Fail, CommitWrite
  <2>2. job[w] # d
      BY <1>a, <1>4, <2>1 DEF Fail, CommitWrite, Exists
  <2>3. progress'[d] = progress[d]
      BY <1>a, <1>4, <2>1, <2>2 DEF Fail, CommitWrite
  <2> QED  BY <1>b, <2>3
<1>5. ASSUME NEW e \in Docs, DeleteDocument(e) PROVE progress'[d] >= progress[d]
    BY <1>a, <1>b, <1>5 DEF DeleteDocument
<1>6. \/ \E w \in Workers : Parse(w) \/ EmbedBatch(w) \/ Claim(w) \/ Fail(w) \/ CommitWrite(w)
      \/ \E e \in Docs : DeleteDocument(e)
      \/ UNCHANGED progress
    BY
    DEF Next, Api, Enqueue, OpenRequest, ReadFailed, ResetRow, NothingReset, RequeueStale, Job, StartJob,
        ClaimAnswerLost, FailNotRecorded, Release, Error, Load, Refuse, BeginWrite, WriteRejected,
        FinishJob, Stop, Crash, Boot, BackoffOver, GrowStale, table, line, asked, vars
<1> QED  BY <1>1, <1>2, <1>3, <1>4, <1>5, <1>6

\* With jobs shorter than the stale window, the progress a running document
\* shows never goes back, whoever fails, stops or is deleted beside it.
THEOREM ProgressForward ==
    ASSUME Orderly
    PROVE  Spec => ProgressMovesForward
<1>1. QueueInv /\ OrderlyInv /\ ProgressOfJob /\ [Next]_vars =>
        (\A d \in Docs : status[d] = "processing" /\ status'[d] = "processing"
                             => progress'[d] >= progress[d])
    BY ProgressStepForward
<1>2. QueueInv /\ OrderlyInv /\ ProgressOfJob /\ [Next]_vars => ProgressOfJob'
    BY ProgressOfJobStep
<1> QED
    BY <1>1, <1>2, ProgressOfJobInit, QueueSafe, OrderlyInvariant, PTL DEF Spec, ProgressMovesForward

-----------------------------------------------------------------------------
(* The life cycle: IngestionQueue implements JobLifecycle when moreover no  *)
(* commit answer is lost.                                                  *)

\* A task whose document is READY has only its way out left.
ReadyAtTheEnd ==
    \A w \in Workers : Busy(w) /\ status[job[w]] = "ready" => pc[w] \in {"finishing", "releasing"}

AllInv == QueueInv /\ OrderlyInv /\ ReadyAtTheEnd

\* A document gets no new status but by Claim, by leaving it, or by READY: a
\* step that moves or ends tasks outside "finishing" keeps ReadyAtTheEnd.
LEMMA ReadyAtTheEndInit == Init => ReadyAtTheEnd
BY DEF Init, ReadyAtTheEnd, Busy

LEMMA ReadyAtTheEndStep ==
    ASSUME Orderly, ~DbFaults, AllInv, [Next]_vars
    PROVE  ReadyAtTheEnd'
<1> USE DEF AllInv, QueueInv
<1>1. ASSUME \A d \in Docs : status'[d] = "ready" => status[d] = "ready",
             \A v \in Workers : \/ job'[v] = NoDoc
                                \/ job'[v] = job[v] /\ pc'[v] = pc[v]
                                \/ job'[v] = job[v] /\ pc[v] # "finishing" /\ pc[v] # "releasing"
                                \/ status'[job'[v]] # "ready"
                                \/ pc'[v] \in {"finishing", "releasing"}
      PROVE  ReadyAtTheEnd'
    BY <1>1 DEF ReadyAtTheEnd, Busy, TypeOK
<1>2. CASE Api
    BY <1>1, <1>2 DEF Api, Enqueue, DeleteDocument, OpenRequest, ReadFailed, ResetRow, NothingReset,
                      table, line, asked, local, TypeOK
<1>3. ASSUME NEW w \in Workers, Claim(w) PROVE ReadyAtTheEnd'
  <2>1. PICK d \in Docs : /\ status' = [status EXCEPT ![d] = "processing"]
                          /\ job' = [job EXCEPT ![w] = d]
      BY <1>3 DEF Claim
  <2> QED  BY <1>1, <1>3, <2>1 DEF Claim, Become, TypeOK
<1>4. ASSUME NEW w \in Workers, RequeueStale(w) PROVE ReadyAtTheEnd'
    BY <1>1, <1>4 DEF RequeueStale, AfterInterruption, local
<1>5. ASSUME NEW w \in Workers, Job(w) PROVE ReadyAtTheEnd'
  <2>1. CASE StartJob(w) \/ Load(w) \/ Refuse(w) \/ BeginWrite(w) \/ WriteRejected(w)
      BY <1>1, <2>1 DEF StartJob, Load, Refuse, BeginWrite, WriteRejected, Become, table, line, asked, TypeOK
  <2>2. CASE Error(w)
      BY <1>1, <2>2 DEF Error, InPipeline, Become, table, line, asked, TypeOK
  <2>3. CASE Parse(w) \/ EmbedBatch(w)
      BY <1>1, <2>3 DEF Parse, EmbedBatch, Become, TypeOK
  <2>4. CASE ClaimAnswerLost(w) \/ FailNotRecorded(w) \/ FinishJob(w)
      BY <1>1, <2>4 DEF ClaimAnswerLost, FailNotRecorded, FinishJob, Drop, Become, table, line, asked, TypeOK
  <2>5. CASE Fail(w)
      BY <1>1, <2>5 DEF Fail, Drop, Become, TypeOK
  <2>6. CASE Release(w)
      BY <1>1, <2>6 DEF Release, Drop, Become, TypeOK
  <2>7. CASE CommitWrite(w)
    <3>1. \A v \in Workers \ {w} : job[v] # job[w] \/ job[v] = NoDoc
        BY DEF OrderlyInv, ExclusiveJob, Busy
    <3>2. job[w] \in Docs
        BY <2>7, JobIsDoc DEF CommitWrite
    <3> QED  BY <2>7, <3>1, <3>2, NamesAssumption DEF CommitWrite, ReadyAtTheEnd, Busy, TypeOK
  <2> QED  BY <1>5, <2>1, <2>2, <2>3, <2>4, <2>5, <2>6, <2>7 DEF Job
<1>6. ASSUME NEW i \in Instances, Stop(i) PROVE ReadyAtTheEnd'
    BY <1>1, <1>6 DEF Stop, table, line, asked, TypeOK
<1>7. ASSUME NEW i \in Instances, Crash(i) \/ Boot(i) PROVE ReadyAtTheEnd'
    BY <1>1, <1>7 DEF Crash, Boot, table, line, asked, TypeOK
<1>8. ASSUME NEW d \in Docs, BackoffOver(d) \/ GrowStale(d) PROVE ReadyAtTheEnd'
    BY <1>1, <1>8 DEF BackoffOver, GrowStale, table, local
<1>9. CASE UNCHANGED vars
    BY <1>1, <1>9 DEF vars, table, line, asked, local
<1> QED  BY <1>2, <1>3, <1>4, <1>5, <1>6, <1>7, <1>8, <1>9 DEF Next

-----------------------------------------------------------------------------
LEMMA LifecycleInit == Init => Lifecycle!Init
BY DEF Init, Lifecycle!Init

\* Every step is a step of the life cycle of one document, or changes neither
\* a status nor a count.
LEMMA LifecycleStep ==
    ASSUME Orderly, ~DbFaults, AllInv, [Next]_vars
    PROVE  [Lifecycle!Next]_(Lifecycle!lifecycle)
<1> USE DEF AllInv, QueueInv, OrderlyInv, Lifecycle!lifecycle
<1> SUFFICES ASSUME ~UNCHANGED <<status, attempts>> PROVE Lifecycle!Next
    OBVIOUS
<1>1. ASSUME NEW d \in Docs, Enqueue(d) PROVE Lifecycle!Submit(d)
    BY <1>1 DEF Enqueue, AttemptsLeft, TypeOK, Lifecycle!Submit, Lifecycle!Move
<1>2. ASSUME NEW d \in Docs, DeleteDocument(d) PROVE Lifecycle!Remove(d)
    BY <1>2 DEF DeleteDocument, Exists, Lifecycle!Remove, Lifecycle!Move
<1>3. ASSUME NEW r \in Requests, ResetRow(r) PROVE \E d \in Docs : Lifecycle!Resubmit(d)
  <2>1. wants[r] \in Docs /\ status[wants[r]] = "failed" /\ counted[r]
      BY <1>3 DEF ResetRow, ResetsFailedOnly, Exists, TypeOK
  <2> QED  BY <1>3, <2>1 DEF ResetRow, Lifecycle!Resubmit, Lifecycle!Move
<1>4. ASSUME NEW w \in Workers, Claim(w) PROVE \E d \in Docs : Lifecycle!Begin(d)
    BY <1>4 DEF Claim, SlotFree, Charged, NextInLine, Claimable, AttemptsLeft,
                Lifecycle!Begin, Lifecycle!Move
<1>5. ASSUME NEW w \in Workers, RequeueStale(w)
      PROVE  \E d \in Docs : Lifecycle!Retry(d) \/ Lifecycle!GiveUp(d)
  <2>1. PICK d \in Docs : Overdue(d)
      BY <1>5 DEF RequeueStale
  <2>2. \A e \in Docs : Overdue(e) <=> e = d
      BY <2>1 DEF Overdue, AtMostOneProcessing
  <2>3. /\ status' = [e \in Docs |-> IF Overdue(e) THEN AfterInterruption(e) ELSE status[e]]
        /\ attempts' = attempts
      BY <1>5 DEF RequeueStale
  <2>4. status' = [status EXCEPT ![d] = AfterInterruption(d)]
      BY <2>2, <2>3 DEF TypeOK
  <2>5. attempts' = [attempts EXCEPT ![d] = attempts[d]]
      BY <2>3 DEF TypeOK
  <2>6. AfterInterruption(d) = "queued" => attempts[d] < MaxAttempts
      BY CountAssumption DEF AfterInterruption, TypeOK
  <2>7. AfterInterruption(d) \in {"failed", "queued"} /\ status[d] = "processing"
      BY <2>1 DEF AfterInterruption, Overdue
  <2> QED
      BY <2>4, <2>5, <2>6, <2>7 DEF Lifecycle!Retry, Lifecycle!GiveUp, Lifecycle!Move
<1>6. ASSUME NEW w \in Workers, Fail(w)
      PROVE  \E d \in Docs : Lifecycle!Retry(d) \/ Lifecycle!GiveUp(d)
  <2> DEFINE d == job[w]
  <2>1. d \in Docs /\ Exists(d) /\ d # NoDoc
      BY <1>6, JobIsDoc, NamesAssumption DEF Fail
  <2>2. status[d] = "processing" /\ tries[w] = attempts[d]
      BY <1>6, <2>1 DEF Fail, JobOffQueue, ReadyAtTheEnd, OwnerKnowsAttempt, Busy, Exists
  <2>3. /\ status' = [status EXCEPT ![d] = IF IsFinal(w) THEN "failed" ELSE "queued"]
        /\ attempts' = [attempts EXCEPT ![d] = attempts[d]]
      BY <1>6, <2>1 DEF Fail, TypeOK
  <2>4. ~IsFinal(w) => attempts[d] < MaxAttempts
      BY <2>1, <2>2, CountAssumption DEF IsFinal, TypeOK
  <2> QED
      BY <2>1, <2>2, <2>3, <2>4 DEF Lifecycle!Retry, Lifecycle!GiveUp, Lifecycle!Move
<1>7. ASSUME NEW w \in Workers, Release(w) PROVE \E d \in Docs : Lifecycle!Interrupt(d)
    BY <1>7, JobIsDoc DEF Release, MayRelease, Uncharged, Lifecycle!Interrupt, Lifecycle!Move
<1>8. ASSUME NEW w \in Workers, CommitWrite(w) PROVE \E d \in Docs : Lifecycle!Complete(d)
  <2> DEFINE d == job[w]
  <2>1. d \in Docs /\ d # NoDoc
      BY <1>8, JobIsDoc, NamesAssumption DEF CommitWrite
  <2>2. status[d] = "processing"
      BY <1>8, <2>1 DEF CommitWrite, JobOffQueue, ReadyAtTheEnd, Busy, Exists
  <2> QED  BY <1>8, <2>1, <2>2 DEF CommitWrite, TypeOK, Lifecycle!Complete, Lifecycle!Move
<1>9. ASSUME NEW w \in Workers, Job(w), ~Fail(w), ~Release(w), ~CommitWrite(w) PROVE FALSE
    BY <1>9 DEF Job, StartJob, ClaimAnswerLost, FailNotRecorded, Error, Load, Refuse, Parse,
                EmbedBatch, BeginWrite, WriteRejected, FinishJob, table, line, asked
<1>10. CASE \E r \in Requests : OpenRequest(r) \/ NothingReset(r) \/ \E d \in Docs : ReadFailed(r, d)
    BY <1>10 DEF OpenRequest, NothingReset, ReadFailed, table
<1>11. CASE \E i \in Instances : Stop(i) \/ Crash(i) \/ Boot(i)
    BY <1>11 DEF Stop, Crash, Boot, table, line, asked
<1>12. CASE \E d \in Docs : BackoffOver(d) \/ GrowStale(d)
    BY <1>12 DEF BackoffOver, GrowStale, table
<1>13. CASE UNCHANGED vars
    BY <1>13 DEF vars, table, line, asked
<1> QED
    BY <1>1, <1>2, <1>3, <1>4, <1>5, <1>6, <1>7, <1>8, <1>9, <1>10, <1>11, <1>12, <1>13
    DEF Next, Api, Lifecycle!Next

\* The queue implements the life cycle of a document: one document at a time,
\* no more attempts than allowed, READY for good, FAILED until its owner acts.
THEOREM QueueImplementsLifecycle ==
    ASSUME Orderly, ~DbFaults
    PROVE  Spec => ImplementsLifecycle
<1>1. Init => OrderlyInv /\ ReadyAtTheEnd /\ Lifecycle!Init
    BY OrderlyInit, ReadyAtTheEndInit, LifecycleInit
<1>2. QueueInv /\ OrderlyInv /\ ReadyAtTheEnd /\ [Next]_vars => (OrderlyInv /\ ReadyAtTheEnd)'
    BY OrderlyStep, ReadyAtTheEndStep DEF AllInv
<1>3. QueueInv /\ OrderlyInv /\ ReadyAtTheEnd /\ [Next]_vars
          => [Lifecycle!Next]_(Lifecycle!lifecycle)
    BY LifecycleStep DEF AllInv
<1> QED
    BY <1>1, <1>2, <1>3, QueueSafe, PTL DEF Spec, ImplementsLifecycle, Lifecycle!Spec
=============================================================================

# OpenDoc in TLA+

OpenDoc answers questions about uploaded documents. It is one FastAPI process
(or several sharing a database), Postgres with pgvector, an object store and a
React front end. This directory models the way of a document from upload to index
and the way of a question from the composer to the answer on the screen: the job
queue in the `documents` table, uploads against storage and quota, what parsing and
chunking make of a file, the AI question quota under the connection pool, scope,
retrieval and context of a question, a chat turn up to the saved answer, and the
stream client in the browser. TLC checks small instances; TLAPS proves the safety
core for every instance.

Run a check with `tlc -config IngestionOrderly.cfg MCIngestionQueue`, a proof with
`tlapm IngestionQueueProofs.tla`. `PROJECT.json` lists the components, runs,
mutants, the source lines each definition models, findings, hazards and theorems.

## Inventory

Paths are under `src/backend/app` unless they say otherwise.

| Component | State it keeps | Operations | Hard because |
|---|---|---|---|
| Ingestion worker, `ingestion/worker.py` | `status`, `attempts`, `next_attempt_at`, `processing_started_at` of a row; `doc_id` and `attempts` in a task | `claim`, `requeue_stale`, `_fail`, `_release`, `start`, `stop` | several instances, crashes, jobs that outlive the stale window, guards by id only |
| Pipeline, `ingestion/pipeline.py` | progress, sections, chunks | load, parse, embed in batches, one final transaction | late writers, deleted rows |
| Documents, `services/documents.py` | rows, files, a per-user advisory lock | `create_document`, `delete_document`, repair and reset on re-upload | check before insert, put before commit, cancellation |
| Quota, `quota.py` | `usage_counters` by user/global and minute/day | `consume`, `refund`, purge | races, midnight, purges |
| Chats, `api/routes/chats.py` | chats, messages, the background title | create, rename, delete, scope, a turn (plain or streamed) | overlapping turns, deletes and renames beside a turn, disconnects |
| Generation, `generation/service.py`, `providers/llm.py` | none between requests | `prepare`, `answer`, `stream`, fallback | failures before and after the first token |
| Scope, `services/documents.py`, `api/routes/chats.py`, `query.py` | `chats.selected_doc_ids` | select documents, resolve the ready ones | a selection checked, then stored, beside deletes |
| Retrieval, `retrieval/` | none | classify, search, fuse, rerank, compare, overview, expand | several statements, each reading what is committed when it runs |
| Parsing and chunking, `ingestion/parsers.py`, `chunking.py` | the loops' own | blocks, sections, children, overlap, gluing | termination and coverage at edges |
| Connections, `db/session.py`, `api/deps.py` | a bounded pool | one session per request, more for quota and saving | waiting while holding |
| Rate limiter, `ratelimit.py` | hits per key | `hit` | boundaries |
| Auth, config, health, errors | users | register, login | little |
| Front end, `src/frontend/src` | the live turn, the query cache, the session, uploads | `useChatStream`, `SSEParser`, `tokenStore`, `UploadProvider` | a stale stream finishing after a new one began |

How they meet: an upload inserts a `queued` row and calls `worker.notify()`; a worker
claims it, reads its file, and writes sections and chunks; deleting a document cascades
to them while a worker may be at it. A chat turn first charges the quota (its own
transaction), then searches READY documents, then talks to an LLM provider, refunds on
`LLMError`, and saves the answer.

What makes each right:

* queue: one `processing` row; a document with one task; attempts counted exactly; READY
  is final; nothing waits for ever.
* documents: quota never exceeded; rows and files in step; every upload answered.
* content: every line of a file can be found again, under the headings it stands under;
  passages of bounded size and overlap.
* quota: no overshoot by races; nothing lost by refunds and purges, nor by connections
  that time out while a charge is held.
* answering: only the user's documents, ready ones, of his selection; citations that cite
  what the model read; a context within its budget; every compared document heard.
* turn: answers follow questions, belong to one provider, are paid for; a stream says
  truthfully how it ended; every turn ends.
* browser: events survive any cut of the stream; the cache shows what the server has
  saved; the live turn shows its own answer.

## Modules

| Module | Models | Notes |
|---|---|---|
| `JobLifecycle` | what the queue promises about a document | abstract: status and attempts only |
| `IngestionQueue` | worker, pipeline, and the API calls on a row | implements `JobLifecycle` |
| `MCIngestionQueue` | TLC instance | |
| `IngestionQueueProofs` | invariance proofs, and that the queue implements the life cycle | |
| `DocumentStore`, `MCDocumentStore`, `DocumentStoreProofs` | one user's uploads and deletes | |
| `Lists` | a comprehension with a condition, the join of texts, the count of tokens | used by the next rows and by `Retrieval` |
| `Parsing`, `Sections`, `Passages` | the loops of the parsers, of `build_sections` and of `build_children` | checked and proved within `IngestionContent` |
| `IngestionContent`, `MCIngestionContent`, `IngestionContentProofs` | `build_drafts`, composing the three, and the removal of repeated passages | the proofs of all four |
| `AIQuota` | the three counters of a question | checked and proved within `Requests` |
| `RateLimiter` | the sliding window | checked within `Requests` |
| `Requests`, `MCRequests`, `RequestsProofs` | requests sharing the connection pool; extends `AIQuota` and `RateLimiter`, whose actions are conjoined to a request's; refines `AIQuota` | the proofs of all three |
| `Retrieval` | `rrf`, interleaving, the budget, as operators | |
| `Answering`, `MCAnswering`, `AnsweringProofs` | selection, scope, searches, context and citations of a question beside deletes and re-ingestion | |
| `ChatTurn`, `MCChatTurn`, `ChatTurnProofs` | a turn; extends `AIQuota`, whose actions are conjoined to the turn's | refines `AIQuota` |
| `EventStream` | `_sse` and `SSEParser` | |
| `StreamClient`, `MCStreamClient`, `StreamClientProofs` | `useChatStream`, `streamChatMessage`, `ask`, the query cache, and the server behind them | |
| `FoldLaws` | what a left fold computes, for the proofs | taken by `INSTANCE` with the body of a loop |

How they fit: `IngestionQueue` says when a document is ingested, `IngestionContent` what
that makes of it, and `Answering` starts from stored sections and passages (its `Ingest`
is the commit of the first). `Requests` looks at a question as a user of connections,
`Answering` as a reader of the index, `ChatTurn` as a writer of messages and events,
`StreamClient` as what the browser sees of it; each leaves to the others what its
properties do not need.

**IngestionQueue.** Every database transaction is an action. `Claim` is the whole of
`claim()`: the advisory lock is held until its commit, so nothing of another claim comes
between. `due`, `earlier` and `stale` replace timestamps: `due[d]` is `next_attempt_at <=
now()`, `earlier[d]` what has a smaller `next_attempt_at` (a backoff that is running ends
in `BackoffOver`, which puts the document behind those already due), `stale[d]` is
`processing_started_at` older than `WORKER_STALE_MINUTES`. Postgres' `now()` is the start
of the transaction, and an upload's transaction opens before its checks, the wait for the
lock and the put: so a new row may take its place before rows that came into the table
earlier, at any of the `Moments` that have passed (`PutAt`). A re-upload's transaction
opens in a step of its own (`OpenRequest`), whose place in the order the reset row inherits
(`TakePlace`). A task's `job` and `tries` are `doc_id` and `attempts` of `run_once`;
`_fail` uses `tries`, not the row, as the code does. A claim whose transaction committed
but whose caller never learned of it is `ClaimAnswerLost`, or a stop or crash at `pc =
"claimed"`. The two-step re-upload (`ReadFailed`, then `ResetRow` or `NothingReset`) is the
stale read in `create_document`; the ORM writes the columns that differ from what it read,
so attempts are reset only if that read saw any (`counted`). The final transaction is
`BeginWrite` and `CommitWrite`/`WriteRejected`, because two writers of one document can
overlap there. Left out: `SKIP LOCKED` skipping a row another transaction has locked (a
delete that is rolled back, say: the claim then takes the next row or polls again),
`notify`/`_wake` (a poll every `WORKER_POLL_SECONDS` makes a lost wake-up a delay), error
texts, the length of a backoff.

**DocumentStore.** One statement or storage call per action; document ids and storage keys
are fresh, so an upload names its document. The uncommitted INSERT is visible only through
the advisory lock: `row` holds committed rows. `PutAbandoned` and `LateWrite` are a put
whose caller was cancelled while `asyncio.to_thread` (local) or the server (S3) goes on;
`CommitAnswerLost` a commit that happened although the client saw an error; `Kill` a killed
process, whose transaction the database rolls back. `Fault` bounds them. `AnswerKnown` is
the end of a re-upload: the reset of a failed document (`IngestionQueue`) commits, or fails
because the document was deleted since the look-up. `Wipe` is the
wiped directory the code's comment names.

**AIQuota.** `Ask` computes the keys, `Consume` or `Refuse` is the transaction of
`consume`, `Refund` and `RefundFails` are `refund`. A missing row is a count of zero.
Minutes are numbers and `DayOf` gives their day. `Consume` purges or not (the code's 2 %).
The kill switch (`AI_ENABLED`) refuses before anything is charged and is left out.

**ChatTurn.** `pc` follows `create_message`/`stream_message`; `Streamed` says which of the
two. `mode` is `"fixed"` when no LLM is asked (no documents, or abstention). `sent` records
the events of a stream, a token with its provider. `ProviderFails` is `FallbackLLM` with
the two kinds of error the providers raise; the retries inside one provider only delay
them. `FailsEarly` is everything that raises before generation. The branch `answer is None`
of `stream_message` cannot be reached (`RAGService.stream` ends with an answer or raises)
and is left out, as are query logs, `updated_at`, citations, and database failures other
than the constraint a deleted chat violates.

**Parsing, Sections, Passages.** A file is a sequence of lines with the looks the parsers
decide by: kind (text, running line or page number of a PDF, code fence or blank line of
Markdown), heading level, tokens, page and block; `ParsingAssumption` says which of them a
format has. How the code arrives at a look (font sizes, letters, regular
expressions) is an input; what it does with them, loop by loop, is not: paragraphs carried
over page breaks, repeated lines dropped, fences, the heading stack, the folding of short
sections, the split into parents, the cut into children, the overlap, the gluing. A
sentence is known by its line, and its length in tokens; numbers of tokens are small and
every limit with them. A text of units with running token sums (`upto`) is all that
`build_children` looks at.

**Requests.** A request is where it waits for a connection and how many it holds.
`Take` is a checkout that succeeds, `GiveUp` the pool's timeout: allowed only while no
connection is idle. A question holds the connection of its session and takes a second one
to be charged, refunded, or saved at the end of its stream, as `sessionmaker()` does
beside the request's own session. The limiter runs before the session is used. Its deque
is the part of `accepted` from `oldest` on, so that a property can speak of hits it has
forgotten.

**Answering.** A document has versions, each a list of sections with a cost and passages; a
chunk is named by document, version, section and number, so a row that is gone can be
told from the row that replaced it. The steps are SQL statements: the selection, the ready
and owned ids, the dense and the sparse search of each document or scope, sections of an
overview, the parents of the hits. Rankings are arbitrary sequences of the chunks that
exist when the statement runs; the reranker is an arbitrary order. `docs` changes between
any two of them. Only the hybrid mode is modelled: the others are the evaluation's.

**StreamClient.** A step is what the browser runs between two events of its loop.
`pc`, `parser` and `handled` belong to a `send`; `turn` is the one live turn of the hook,
which every send writes to (`setTurn((t) => ...)`) whether or not it is still its own. A
chunk is 1 or 40 symbols of the wire, a data line two symbols, CR LF two more, so that
every cut within and between lines happens. What a refetch or the first fetch of a chat
stores may be older than what is saved by then (`Snapshots`): what is saved only grows.
Left out: leaving the page, `clear()`, the
bytes of a character, and what the server writes for a client that has gone.

## Runs

Every passing run lists a mutant for each of its properties: the same run with one
definition changed the way a plausible bug would change it, and the property then fails.

| Run | Instance | Shows |
|---|---|---|
| `queue_orderly` | 2 documents, 2 instances, 2 attempts, 3 batches, 1 re-upload, 1 stop or crash, jobs shorter than the stale window | exclusive jobs, exact attempts, READY final, progress forward, released jobs keep their turn, the life cycle refined, every upload settles |
| `queue_overrun` | 1 document, 2 instances, 1 re-upload at a time, overruns, lost answers, 1 stop or crash | types (attempts not negative), index matches row, attempts bounded, every upload settles all the same |
| `queue_one_at_a_time` | 2 documents, 2 instances | **violated**, see Findings |
| `queue_max_attempts` | 1 document, 2 instances, overruns | **violated**, see Findings |
| `document_store` | 3 uploads, 4 contents (one large), quota 2 documents / 3 bytes, wipes, 1 fault | quota, files and rows in step, every upload answered |
| `document_store_orphan` | 3 uploads, 1 fault | **violated**, see Findings |
| `requests` | 3 questions of 2 users, 2 other requests of a client, 3 connections (two questions exhaust them), 3 minutes on 2 days, limits 1/1/2, 1 hit per 2 minutes | nobody waits for ever, no overshoot, exact counters, no window too full |
| `chat_turn` | a streamed and a plain turn in 1 chat, 2 providers, 2 tokens, 2 days | the turn's properties |
| `chat_turn_midstream` | 1 streamed turn, 2 providers | **violated**, see Findings |
| `ingestion_content` | all PDF and text files of up to 3 lines (PDFs of 4 lines of fewer looks), Markdown and DOCX of 4, and all sections of up to 5 sentences; children of 4 tokens, overlap 2, minimum 3, parents of 6 | blocks of one kind, sections keep the text and its headings, parents and passages bounded, every line searchable, with its heading unless the section only repeats others |
| `answering` | 3 documents, one foreign, one with two versions, any selection, any rankings with 2 candidates, 1 change of the selection, a context of 6 | scope, citations, budget, comparisons, fusion, overviews |
| `stream_client` | 2 questions, one opening its chat, answers of 1 token, CR LF | events, cache and live turn |

Why the bounds are enough. A queue race needs a document, a worker that holds it and
another that wants it, so two instances of one task; order in the queue needs a second
document; a retry and a last attempt need two attempts; progress within an attempt needs
more than one batch. A quota race needs two requests beyond the limit (3 uploads for 2
documents, 3 questions for a limit of 1 or 2); a pool is exhausted by as many questions as
it has connections. A fault is one event, and two independent
ones are not what the code claims to handle. Splicing needs one token from each of two
providers. A heading stack needs two levels and a return, folding a section shorter than its
minimum, a running line three pages, gluing a fragment between two passages: files of 3
or 4 lines and sections of 5 sentences contain each, and the limits are small enough for
every comparison to go both ways. A stale read needs one delete or re-ingestion between
two statements; a fused ranking two lists with a common chunk. A stale stream needs two
sends. Symmetry is used in `requests` only, a safety run, over questions of one user and
over the other requests, which the specification treats alike. Re-uploads that overlap each
other are left to the proofs: `AttemptsStayBounded` and `IndexSafe` hold for any number.

`CHECK_DEADLOCK FALSE` stands in every run because the environment may really stop: all
documents deleted, all requests answered, the last minute reached.

### Fairness

`IngestionQueue`: an event loop runs a ready task (`Job`), idle tasks poll
(`Claim` and `RequeueStale` by *some* worker, since the lock lets one of them through),
the host restarts a stopped process (`Boot`), and time passes (`BackoffOver`, `GrowStale`).
Nothing is assumed of users, of a particular worker, or of jobs succeeding.
`DocumentStore`: a running handler goes on, since every database and storage call returns
or raises; strong fairness for `Acquire` because the lock's queue is first come, first
served, while other uploads take and free it. `ChatTurn`: a handler goes on; its calls
have timeouts. No fairness for arrivals, renames, deletes, disconnects, the clock or the
title. The other specifications state no fairness and no liveness: `NobodyWaitsForever`
says that in every state some request can move, and since none ever moves back, all end.

### Findings

* **One ingestion at a time** (`queue_one_at_a_time`). The claim asks whether a row is
  `processing`. Deleting that row frees the slot, but its worker goes on until its next
  read or write fails, beside the next ingestion. `worker.py:29` and `docs/DEPLOY.md:74`
  promise one at a time across all instances. `AtMostOneProcessing`, about rows, does hold.
* **Attempts** (`queue_max_attempts`). `_fail` updates by id and decides by the attempt
  number its task remembers. A worker that outlived the stale window on attempt 1 requeues
  a row whose attempt 2 of 2 is running or has failed; the row is claimed a third time.
  `docs/ARCHITECTURE.md:67` bounds the retries by `WORKER_MAX_ATTEMPTS`. `AttemptsBounded`
  says how bad it gets.
* **Orphaned files** (`document_store_orphan`). `stored` is set after the put returns. A
  cancelled put raises, the thread still writes, nobody deletes. The docstring of
  `create_document` says failed uploads leave no orphaned files.
* **Refund** (`chat_turn_midstream`). After the first token `FallbackLLM.stream` re-raises
  what it got; `stream_message` catches `LLMError`, not `httpx.HTTPError`, so a connection
  that breaks in mid-answer neither refunds the question (`README.md:95`) nor sends an
  `error` event (`docs/API.md:106`).

### Remarks

What modelling showed and no run states as a finding: mostly since no line of the
repository promises the opposite plainly enough.

* A parent may exceed its cap by one over-long sentence or table (`chunking.py:151`);
  `ParentsAreCapped` states the exception. `MAX_CONTEXT_TOKENS` gives way to a single block
  likewise (`ContextFits`).
* The page of a paragraph is not always its own. `para_page` is set only where a paragraph
  begins and not when a heading line is read, so a paragraph after a heading in the same PDF
  block gets the page of the paragraph before, or 1 (`parsers.py:222-225`).
  `parsers.py:4` says that every block carries the page it starts on, and `ChatPage.tsx:216`
  promises citations to the exact page: that is not so, and no property here says it is.
* A heading is searched through the passages stored under it. One whose passages all
  repeat passages of other sections is stored with its section but cannot be found
  (`pipeline.py:87-98`); `TextIsSearchable` states the exception.
* A line that, digits aside, stands on 3 of up to 7 pages is dropped as running text:
  "Article 1", "Article 2", "Article 3" are. A PDF of nothing but such lines raises
  `StatisticsError`.
* The last branch of `_absorb_runts` is never reached from `build_children`
  (`FinishKeeps` in `IngestionContentProofs` uses that).
* `reformulate` raises `IndexError` when the model answers with quotes only; with a limit
  of 0 `hit` raises `IndexError` for a new key; the second half of `abstain or not blocks`
  is dead.
* `FusionRespectsAgreement` (a chunk in both rankings beats one in a single ranking) needs
  `retrieval_candidates < RRF_K + 2`; the defaults are 30 and 60 (`config.py:114,118`).
* `StreamClient`: the abort of a stream that a new question replaces marks the *new* turn
  as stopped (`useChatStream.ts:78`). Stopping before `meta` leaves the question shown by
  the turn while a refetch brings the saved one as well, so it is seen twice.

## Proofs

TLAPS checks the following for every value of the constants (under the modules' named
assumptions about them); `PROJECT.json` lists the theorems.

* `IngestionQueueProofs`. `QueueInv` is inductive in every deployment: types (with
  `attempts >= 0`), one processing row, its attempt charged, the index and the rows in
  step. The conjuncts need each other: `_release` subtracts an attempt and keeps it
  non-negative only because a processing row has one charged, and the claim charges it.
  `ReleasedFirst` needs `HeadOfLine`: when a row is taken, no waiting row is before it, and
  what comes before it while it is processing was queued by a user since (`newcomers`).
  `AttemptsStayBounded` needs `RetriesLeft`: an overrun task whose number is below the
  maximum is a retry of its document still to come, and so is a re-upload that will not
  reset the attempts, so a row's attempts and what can bring it back again never exceed
  the bound together (instances and re-uploads are finite: `FiniteAssumption`).
  `JobsExclusive`, `AttemptsKept` and `ProgressForward` need `ASSUME Orderly` (jobs shorter
  than the stale window, one re-upload at a time) and a stronger invariant: a busy task's
  row is processing or has left the queue, no other task has it, the task's number is the
  row's, and its progress is what the task has written (`ProgressOfJob`).
  `QueueImplementsLifecycle`: under the same assumptions, and without lost commit answers
  (`~DbFaults`), initial states map to initial states and each step of the queue is a step
  of `JobLifecycle` or leaves `status` and `attempts` alone.
* `DocumentStoreProofs`. The lock is held by exactly the request that is between its
  count and its commit, so a request that passed the check still has room for its row and
  its bytes: that strengthening (`BytesInv` for the bytes) gives `QuotaHolds`. Bytes are a
  sum over a set of rows; the laws of such sums (one row more, one less, a subset) are
  lemmas, proved by induction over finite sets from the definition of the community fold.
  `FilesSafe`, `StrayFilesExplained` and `FailuresClean` follow from an invariant that
  says, while there has been no fault, where each file and each row without one comes from.
* `RequestsProofs`. *The quota.* For the minute and the day that are running and those to
  come each counter is exactly the number of questions charged to its key and not given
  back (`CountersExact`); for the past nothing is claimed, since those counters may be
  purged. The clock only moves into keys the invariant already covers, a refund never meets
  the floor of zero for such a key, and a counter grows only below its limit:
  `LimitsHold`. The clock need only be monotone in its days (`ClockAssumption`). *The
  pool.* Every step of a request is a step of the quota or leaves it alone, so `Requests`
  refines `AIQuota` and inherits its theorems, whatever the pool; and a request takes one
  connection at a time, only when one is idle, so the pool is never overdrawn (`PoolHolds`;
  the sets of holders stay finite even if the requests do not). *The limiter.* Hits are
  in the order of their times and those cut off the deque are over, so the hit that is
  `HitLimit` places before an admitted one has been cut off.
* `IngestionContentProofs`. From the lines of a file to what is stored of it, for any file,
  any sequence of levels and any settings. `ContentInv` is inductive and has four parts,
  one for each loop or group of loops. *Blocks* (`ParseInv`): the words of the blocks and
  of the open paragraph are exactly those of the lines seen so far (`Words`), each once,
  and every block is of one kind; that needs what a parser remembers of the line before
  (`Remembers`): in a PDF or text file the key is that of the last line, so the last block
  can only be continued by a line of its own PDF block, and in Markdown `in_code` is the
  parity of the fences seen. Hence `BlocksStayPure`. *Sections* (`SectionInv`): what the
  sections tell (`Story`: heading and paragraphs of each in turn), followed by the pending
  headings, is the text of the blocks seen; folding a tiny section keeps the story and so
  does splitting a large one, whose parts share one heading. No sentence occurs twice, as
  it carries its place, and this is what makes the telling apart of a shared or folded
  heading possible. The stack of `path_for` is at any time the list of the sections that
  are open (`MarksOf(ss, OpenList(ss, ...))`), from which `OutlineIsFollowed`; `TextIsKept`
  and `ParentsFit` follow from the same invariant. *Passages* (`PassageInv`): where the
  passage being cut lies relative to the last draft, and that the rest of the text never
  falls below `ChildMin` (a rest that would is given to the passage before); hence progress
  and no gap (`OverlapBounded`), sizes (`SizesBounded`) and coverage through both loops
  (`NoSentenceLost`). *The index* (`ContentLoops`): every unit of a section that is done is
  in a stored passage, if not its own then one that says the same; sections only gain
  passages, and a stored passage belongs to a section that is done and says only what that
  section says (`PassagesStem`), so a section without one only repeats. The four together
  give `EverythingSearchable`, from a line of the file to the passages that are embedded.
  The loops that run a list to its end are folds, some within others; each is an instance
  of `FoldLaws`.
* `ChatTurnProofs`. What has been charged, stored and sent for a turn follows from where
  it is, and no turn disturbs the rows of another in their common chat; from that the four
  safety properties of a turn. Turns refine the quota as well (`TurnsImplementQuota`).
* `FoldLaws`. A loop of the program is `FoldLeft(LAMBDA acc, x : Op(ctx, acc, x), ...)`.
  The prover cannot instantiate an induction theorem whose parameter is an operator, but it
  can take a whole module by `INSTANCE` with an operator for a constant: `FoldLaws` proves
  for any `Op` that a fold has a *run*, the function of accumulators after each element,
  and induction over the numbers of a set (`NatsOfSet`, from well-foundedness) then gives
  loop invariants. Loops of `StreamClient` (four), of `Retrieval` and `Answering` (eight),
  and those of the content modules use it. It defines its fold without the library's
  modules, since an instance repeats everything the instantiated module extends.
* `StreamClientProofs`. *The parser.* The text of the events is a grid: every event has the
  same number of symbols (6, or 9 with CR LF), so each symbol of it is known by its place
  (`SymAt`, `LineAt`). `Stands` is the invariant of the loop of `feed`: the line that is
  open begins at a boundary of the grid, and the parser holds what the lines before it say
  of the event that is open; one iteration preserves it whether a line ends there or not,
  and a lone CR at the end of a chunk is no end (`ScanStep`). So `feed` of any chunk
  returns exactly the events it completes (`FeedReads`), and `end` returns nothing, the
  last event if only its blank line was missing, or one whose data is cut off, which the
  client skips (`FlushReads`). *The answer.* `StreamOk` relates what the server has
  written, what is on the wire, the parser and what the client has handled, in each place
  the two may be; every step of either preserves it (`EventsSurvive`). *The turn.* `TurnInv`
  adds that the only send that runs is the live turn's, as each send first aborts the one
  before it (`LiveTurn`). *The cache.* `SavedInv` says which messages the server has saved
  by the time it says so, so that the optimistic messages of a finished send are saved ones;
  `CacheInv` follows through refetches and merges (`CacheIsTrue`).

* `AnsweringProofs`. `AnsweringInv` says, step by step of a turn, that each list holds only
  chunks there may be in the documents of its scope: of any version, because a document may
  be ingested again or deleted at any time. It is inductive because a chunk keeps its name
  (`EnvironmentStays`), rankings are of the documents they are for, and the loops only
  collect. That gives the scope of what is read and cited (`AnswersStayInScope`), what a
  citation shows (`SnippetsAreInTheirBlocks`: a section found after its hit has the hit's
  version) and, with the budget as loop invariant of `expand_to_parents`, `ContextsFit`.
  `FusionIsFair`: scores are fractions, "comes before" is a total order on the places of
  what was met, so the fused list is sorted by it; then two shares together exceed one
  share whenever the rankings are shorter than `RRF_K + 2`, which is the theorem's
  hypothesis. `DocumentsAreHeard`: no list of documents names one twice (`OnceInv`), the
  i-th result is of the i-th document (`CompareInv`), and after any number of hits there is
  a `c` such that no document has more than `c` of them and none with more to show fewer
  than `c - 1` (`Even`), by induction over the rounds and, within one, over its hits.
  `OverviewsAreSpread`: the rows of a document are the first chunks of its sections that
  have any (`OpeningsAre`, two loops side by side), and if none of a run of rows is taken,
  the places `i * length \div budget` on its two sides are neighbours, which bounds the
  run by arithmetic (`GapIsBounded`); a summary never takes the steps of a search, so its
  hits stay those of the overview (`OverviewInv`). The
  library may be any finite texts and `Docs` any finite set (`AnsweringAssumption`).

Only model-checked, and why:

* liveness (`EveryUploadSettles`, `EveryUploadAnswered`, `EveryTurnEnds`) and
  `NobodyWaitsForever`, which is about `ENABLED`: beyond this prover. What the last rests
  on, that the pool never hands out more connections than it has, is `PoolHolds`.

Every other property that a passing run checks is a theorem.

## Plan

1. (done) `IngestionQueue`, `JobLifecycle`, `DocumentStore`, `AIQuota`, `ChatTurn`.
2. (done) `Parsing`, `Sections`, `Passages`, `IngestionContent`; `Requests` with
   `RateLimiter`; `Retrieval` and `Answering`; `EventStream` and `StreamClient`.
3. (done) Proofs for the queue, its refinement, uploads, quota, requests, passages, turns.
4. (done) Proofs for the stream client, the sum of bytes, and the queue's action
   properties and its bound on attempts.
5. (done) Proofs for `Answering`: scope, citations, context, fusion, comparison, overview.
6. (done) Proofs for `Parsing`, `Sections` and `IngestionContent`, up to searchability; the
   connection pool.

## Not modelled, and why

How a line's look is decided (fonts, letters, regular expressions), embeddings and the
reranker's order (inputs), prompt wording and the text of titles and summaries,
authentication (library calls and one unique index), configuration, health, logging and
error envelopes (no state), migrations and schemas (declarations; the constraints that
matter are in the models), the evaluation scripts with the chunking and search modes only
they use, and the rendering part of the front end with its session and upload list.
`GET /documents/{id}/summary` uses the same reservation and refund as a plain turn and
stores nothing the modelled state refers to.

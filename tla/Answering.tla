------------------------------- MODULE Answering -------------------------------
(***************************************************************************)
(* What a question is answered from: the selection of a chat, the search   *)
(* over the documents that are selected, owned and ready, the context the  *)
(* model reads and the citations the user sees (api/routes/chats.py,       *)
(* services/documents.py, retrieval/, generation/service.py under          *)
(* backend/app), beside requests that change the selection, delete         *)
(* documents and ingest them again: every SQL statement reads what is      *)
(* committed when it runs.                                                 *)
(***************************************************************************)
EXTENDS Retrieval

CONSTANTS
    Docs,              \* documents: numbers, in the order of their ids
    Foreign,           \* those of other users
    Libraries,         \* what ingesting the documents may find, the first time,
                       \* the second ...: the sections of each, with their
                       \* tokens and those of their passages
    Reranking,         \* is a reranker configured?
    Candidates,        \* settings.retrieval_candidates
    RerankCandidates,  \* settings.rerank_candidates
    MaxUpdates         \* bound on changes of the selection

ASSUME AnsweringAssumption ==
    /\ Docs \subseteq Nat /\ IsFiniteSet(Docs) /\ Foreign \subseteq Docs
    /\ Libraries \subseteq [Docs -> Seq(Seq([cost : Nat, passages : Seq(Nat)])) \ {<<>>}]
    /\ Reranking \in BOOLEAN
    /\ Candidates \in Nat /\ RerankCandidates \in Nat /\ MaxUpdates \in Nat

VARIABLES
    library,    \* what ingesting the documents finds
    docs,       \* [status, version] of each document
    selection,  \* chats.selected_doc_ids
    update,     \* a PATCH of the selection: what it will store, if there is one
    updates,    \* changes so far
    question,   \* what its words ask for, besides facts
    pc,         \* where the turn is
    asked,      \* the selection it has read
    scope,      \* the documents it searches
    kind,       \* query_type
    todo,       \* the searches that are left: documents of each
    dense,      \* the ranking by vectors
    sparse,     \* the ranking by words
    results,    \* hits of the searches that are done
    hits,
    blocks,     \* the context: [chunk, text, cost]
    citations   \* blocks the answer cites, by number

corpus == <<library, docs, selection, update, updates>>
turn == <<pc, asked, scope, kind, todo, dense, sparse, results, hits, blocks, citations>>
vars == <<corpus, question, turn>>

Lists(S) == {s \in BoundedSeq(S, Cardinality(S)) : IsInjective(s)}

Init ==
    /\ library \in Libraries
    /\ docs \in [Docs -> {[status |-> "waiting", version |-> 0], [status |-> "ready", version |-> 1]}]
    /\ selection \in Lists(Docs \ Foreign)
    /\ update = {} /\ updates = 0
    /\ question \in SUBSET {"comparison", "summary"}
    /\ pc = "new"
    /\ asked = <<>> /\ scope = <<>> /\ kind = "fact" /\ todo = <<>>
    /\ dense = <<>> /\ sparse = <<>> /\ results = <<>> /\ hits = <<>>
    /\ blocks = <<>> /\ citations = <<>>

Exists(d) == docs[d].status # "absent"
Owned(d) == Exists(d) /\ d \notin Foreign

\* The text of section s, a chunk or the section itself.
Version(s) == library[s[1]][s[2]][s[3]]

\* The chunks of a text, in order.
WithSection(text, all, s) ==
    all \o [k \in DOMAIN text.sections[s].passages |-> <<text.id, text.version, s, k>>]
ChunksIn(text) ==
    FoldLeft(LAMBDA all, s : WithSection(text, all, s), <<>>, [s \in DOMAIN text.sections |-> s])

\* The chunks of document d.
ChunksOf(d) ==
    LET v == docs[d].version
    IN IF ~Exists(d) \/ v = 0 THEN <<>>
       ELSE ChunksIn([id |-> d, version |-> v, sections |-> library[d][v]])

Stored == UNION {ToSet(ChunksOf(d)) : d \in Docs}

-----------------------------------------------------------------------------
(* The corpus and the selection *)

\* ingest_document's transaction: new sections and chunks for old ones, if there
\* are any because an earlier attempt has outlived its claim.
Ingest(d) ==
    /\ Exists(d)
    /\ docs[d].version < Len(library[d])
    /\ docs' = [docs EXCEPT ![d] = [status |-> "ready", version |-> @.version + 1]]
    /\ UNCHANGED <<library, selection, update, updates, question, turn>>

\* delete_document: the row, its sections and chunks, and its id in the chat.
Delete(d) ==
    /\ Owned(d)
    /\ docs' = [docs EXCEPT ![d] = [status |-> "absent", version |-> 0]]
    /\ selection' = Filtered(selection, Docs \ {d})
    /\ UNCHANGED <<library, update, updates, question, turn>>

\* resolve_owned_ids: unknown and foreign ids are refused with 404.
AllFound(ids) == \A d \in ToSet(ids) : Owned(d)

\* update_chat_documents reads which ids exist ...
FindSelection(ids) ==
    /\ update = {} /\ updates < MaxUpdates
    /\ AllFound(ids)
    /\ update' = {ids}
    /\ updates' = updates + 1
    /\ UNCHANGED <<library, docs, selection, question, turn>>

\* ... and stores them.
StoreSelection ==
    /\ selection' \in update
    /\ update' = {}
    /\ UNCHANGED <<library, docs, updates, question, turn>>

-----------------------------------------------------------------------------
(* The scope of a turn *)

Turn(from, to) == pc = from /\ pc' = to

\* A chat's question reads the chat's selection.
ReadSelection ==
    /\ Turn("new", "selected")
    /\ asked' = selection
    /\ UNCHANGED <<corpus, question, scope, kind, todo, dense, sparse, results, hits, blocks, citations>>

\* /query has its own selection.
ResolveQuery(ids) ==
    /\ Turn("new", IF AllFound(ids) THEN "selected" ELSE "not found")
    /\ asked' = ids
    /\ UNCHANGED <<corpus, question, scope, kind, todo, dense, sparse, results, hits, blocks, citations>>

NothingSelected ==
    /\ asked = <<>>
    /\ Turn("selected", IF \E d \in Docs : Owned(d) THEN "none selected" ELSE "no documents")
    /\ UNCHANGED <<corpus, question, asked, scope, kind, todo, dense, sparse, results, hits, blocks, citations>>

Ready(ids) == Filtered(ids, {d \in Docs : Owned(d) /\ docs[d].status = "ready"})

NothingReady ==
    /\ asked # <<>> /\ Ready(asked) = <<>>
    /\ Turn("selected", "not ready")
    /\ UNCHANGED <<corpus, question, asked, scope, kind, todo, dense, sparse, results, hits, blocks, citations>>

\* classify_query
KindOf(n) ==
    IF n >= 2 /\ "comparison" \in question THEN "comparison"
    ELSE IF "summary" \in question THEN "summary" ELSE "fact"

\* One search for all documents, or one for each that is compared.
FindReady ==
    LET ids == Ready(asked) IN
    /\ ids # <<>>
    /\ Turn("selected", "searching")
    /\ scope' = ids
    /\ kind' = KindOf(Len(ids))
    /\ todo' = IF kind' = "comparison" THEN [i \in DOMAIN ids |-> <<ids[i]>>] ELSE <<ids>>
    /\ UNCHANGED <<corpus, question, asked, dense, sparse, results, hits, blocks, citations>>

-----------------------------------------------------------------------------
(* The search *)

\* Mutant: the statement filters on the owner only.
Searched_AllOwned(ids) == UNION {ToSet(ChunksOf(d)) : d \in Docs \ Foreign}
Searched(ids) == UNION {ToSet(ChunksOf(d)) : d \in ToSet(ids) \ Foreign}

\* The index is approximate and words match or not: any ranking will do.
Rankings(ids) == {s \in BoundedSeq(Searched(ids), Candidates) : IsInjective(s)}

RankByVectors ==
    /\ kind # "summary"
    /\ Turn("searching", "ranked")
    /\ dense' \in Rankings(Head(todo))
    /\ UNCHANGED <<corpus, question, asked, scope, kind, todo, sparse, results, hits, blocks, citations>>

RankByWords ==
    /\ Turn("ranked", "matched")
    /\ sparse' \in Rankings(Head(todo))
    /\ UNCHANGED <<corpus, question, asked, scope, kind, todo, dense, results, hits, blocks, citations>>

Wanted == IF kind = "comparison" THEN PerDocument(Len(scope)) ELSE TopK
Pool == AtMost(Fused(dense, sparse), IF Reranking THEN RerankCandidates ELSE Wanted)

\* _details, without the chunks that are gone, and the reranker's order.
Detail ==
    LET found == Filtered(Pool, Stored)
        orders == IF Reranking THEN {s \in [DOMAIN found -> ToSet(found)] : IsInjective(s)}
                  ELSE {found}
    IN /\ Turn("matched", IF Len(todo) = 1 THEN "retrieved" ELSE "searching")
       /\ \E o \in orders : results' = Append(results, AtMost(o, Wanted))
       /\ hits' = IF kind = "comparison" THEN Interleaved(results') ELSE Last(results')
       /\ todo' = Tail(todo)
       /\ dense' = <<>> /\ sparse' = <<>>
       /\ UNCHANGED <<corpus, question, asked, scope, kind, blocks, citations>>

\* The sections of document d that have a passage of their own, by the first.
Openings(d) == Filtered(ChunksOf(d), {c \in ToSet(ChunksOf(d)) : c[4] = 1})

InOrder(S) ==
    CHOOSE s \in [1 .. Cardinality(S) -> S] : \A i, j \in DOMAIN s : i < j => s[i] < s[j]

WithOpenings(opening, all, d) == all \o opening[d]
Opened(opening, ids) == FoldLeft(LAMBDA all, d : WithOpenings(opening, all, d), <<>>, ids)

\* retrieve_overview: one statement, ordered by document.
Overview ==
    /\ kind = "summary"
    /\ Turn("searching", "retrieved")
    /\ hits' = Opened([d \in Docs |-> Spread(Openings(d), Budget(Len(scope)))], InOrder(ToSet(scope)))
    /\ todo' = <<>>
    /\ UNCHANGED <<corpus, question, asked, scope, kind, dense, sparse, results, blocks, citations>>

-----------------------------------------------------------------------------
(* The answer *)

\* should_abstain: there is no evidence, or its scores are too low.
Abstain ==
    /\ hits = <<>> \/ kind # "summary"
    /\ Turn("retrieved", "abstained")
    /\ UNCHANGED <<corpus, question, asked, scope, kind, todo, dense, sparse, results, hits, blocks, citations>>

\* Mutant: the parent is looked up by its number in the document.
IsParent_ByNumber(s, hit) == s[1] = hit[1] /\ s[3] = hit[3]
IsParent(s, hit) == s = SectionOf(hit)

Passage(hit) == [text |-> hit, cost |-> Version(hit).passages[hit[4]]]

\* The section of a hit, read after it; one that is gone leaves the passage.
Parent(hit) ==
    LET found == {s \in {SectionOf(c) : c \in ToSet(ChunksOf(hit[1]))} : IsParent(s, hit)}
        s == CHOOSE s \in found : TRUE
    IN IF kind = "summary" \/ found = {} THEN Passage(hit)
       ELSE [text |-> s, cost |-> Version(s).cost]

Expand ==
    /\ hits # <<>>
    /\ Turn("retrieved", "context")
    /\ blocks' = Blocks([hits |-> hits,
                         preferred |-> [i \in DOMAIN hits |-> Parent(hits[i])],
                         passage |-> [i \in DOMAIN hits |-> Passage(hits[i])]])
    /\ UNCHANGED <<corpus, question, asked, scope, kind, todo, dense, sparse, results, hits, citations>>

\* parse_citations: the blocks that are mentioned, in order of first mention.
WithCitation(numbers, all, n) == IF n \in numbers /\ ~Contains(all, n) THEN Append(all, n) ELSE all
Cited(mentioned) == FoldLeft(LAMBDA all, n : WithCitation(DOMAIN blocks, all, n), <<>>, mentioned)

\* The model mentions sources, whether they exist or not.
Answer(mentioned) ==
    /\ Turn("context", "answered")
    /\ citations' = Cited(mentioned)
    /\ UNCHANGED <<corpus, question, asked, scope, kind, todo, dense, sparse, results, hits, blocks>>

Mentions == BoundedSeq(1 .. Len(blocks) + 1, 2)

Environment ==
    \/ \E d \in Docs : Ingest(d) \/ Delete(d)
    \/ \E ids \in Lists(Docs) : FindSelection(ids)
    \/ StoreSelection

Next ==
    \/ Environment
    \/ ReadSelection
    \/ \E ids \in Lists(Docs) : ResolveQuery(ids)
    \/ NothingSelected \/ NothingReady \/ FindReady
    \/ RankByVectors \/ RankByWords \/ Detail \/ Overview
    \/ Abstain \/ Expand
    \/ \E s \in Mentions : Answer(s)

Spec == Init /\ [][Next]_vars

-----------------------------------------------------------------------------
(* Properties *)

\* Whatever is selected, deleted or ingested meanwhile: what the model reads and
\* the answer cites is from documents of the user that the turn was asked about,
\* that were ready, each section and each citation once.
AnswerStaysInScope ==
    /\ \A d \in ToSet(scope) : docs[d].status # "waiting"
    /\ \A i \in DOMAIN blocks :
        /\ blocks[i].chunk[1] \in ToSet(asked) \ Foreign
        /\ \A j \in DOMAIN blocks : SectionOf(blocks[i].chunk) = SectionOf(blocks[j].chunk) => i = j
    /\ IsInjective(citations)
    /\ ToSet(citations) \subseteq DOMAIN blocks

\* The passage that a citation shows as evidence is part of the text that the
\* model has read under that number, even if the document was ingested again
\* between two statements.
SnippetIsInItsBlock ==
    \A i \in DOMAIN blocks : blocks[i].text \in {blocks[i].chunk, SectionOf(blocks[i].chunk)}

\* "within MAX_CONTEXT_TOKENS" (ARCHITECTURE.md), but for a block that is alone.
ContextFits ==
    Len(blocks) > 1 => Used(blocks) <= MaxContext

\* "Retrieve per document and interleave, so every compared document is
\* represented": wherever the list is cut off, no document is two hits behind
\* another if it has more to show.
EveryComparedDocumentIsHeard ==
    kind = "comparison" /\ todo = <<>> =>
        \A n \in DOMAIN hits : LET Heard(d) == Cardinality({i \in 1 .. n : hits[i][1] = d}) IN
            \A i, j \in DOMAIN results : results[i] # <<>> /\ results[j] # <<>> =>
                LET d == results[i][1][1]  e == results[j][1][1]
                IN Heard(d) < Len(results[i]) => Heard(e) <= Heard(d) + 1

\* Rank fusion is fair: a chunk that no ranking puts behind another stays before
\* it, and one that both rankings find comes before one that a single one finds.
FusionRespectsAgreement ==
    pc = "matched" =>
        LET fused == Fused(dense, sparse)
            Rank(ranking, c) == IF Contains(ranking, c) THEN RankOf(ranking, c) ELSE Candidates + 1
            Both(c) == Contains(dense, c) /\ Contains(sparse, c)
        IN /\ ToSet(fused) = ToSet(dense) \cup ToSet(sparse) /\ IsInjective(fused)
           /\ \A i, j \in DOMAIN fused : i < j =>
                /\ \/ Rank(dense, fused[i]) <= Rank(dense, fused[j])
                   \/ Rank(sparse, fused[i]) <= Rank(sparse, fused[j])
                /\ Both(fused[j]) => Both(fused[i])

\* The sections of a text that have a passage of their own, in order.
WithPassages(text) ==
    Filtered([s \in DOMAIN text |-> s], {s \in DOMAIN text : text[s].passages # <<>>})

\* An overview shows the opening passage of each section it takes, takes the
\* first, and never skips more in a row than its budget makes it, to the end.
OverviewIsSpread ==
    kind = "summary" => \A i \in DOMAIN hits :
        LET d == hits[i][1]  v == hits[i][2]
            shown == {hits[j][3] : j \in {j \in DOMAIN hits : hits[j][1] = d}}
            all == WithPassages(library[d][v])
            budget == Budget(Len(scope))
        IN /\ hits[i][4] = 1
           /\ Cardinality(shown) <= budget
           /\ all[1] \in shown
           /\ \A k \in DOMAIN all : \A m \in k .. Len(all) :
                (\A j \in k .. m : all[j] \notin shown) => (m - k + 1) * budget < Len(all)
=============================================================================

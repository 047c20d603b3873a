------------------------------- MODULE Retrieval -------------------------------
(***************************************************************************)
(* The pure part of the search: how two rankings become one (rrf in        *)
(* backend/app/retrieval/fusion.py), how the documents of a comparison     *)
(* take turns, which sections an overview takes, and which texts fit the   *)
(* context of the model (retrieval/retriever.py).                          *)
(*                                                                         *)
(* A chunk is named by <<document, version, section, place>>, as its       *)
(* primary key is new with every ingestion; a section by the first three.  *)
(***************************************************************************)
EXTENDS Lists, FiniteSets

CONSTANTS
    RrfK,             \* settings.rrf_k
    TopK,             \* settings.context_top_k
    SummarySections,  \* settings.summary_max_sections
    MaxContext        \* settings.max_context_tokens

ASSUME RetrievalAssumption ==
    /\ RrfK \in Nat /\ TopK \in Nat \ {0}
    /\ SummarySections \in Nat /\ MaxContext \in Nat

SectionOf(chunk) == SubSeq(chunk, 1, 3)
AtMost(s, k) == SubSeq(s, 1, IF Len(s) < k THEN Len(s) ELSE k)
AtLeastTwo(x) == IF x > 2 THEN x ELSE 2

-----------------------------------------------------------------------------
(* Fusion *)

RankOf(ranking, c) == CHOOSE i \in DOMAIN ranking : ranking[i] = c

\* 1 / (k + rank) of chunk c in a ranking, and 0 if it is not there, as a fraction.
Share(ranking, c) ==
    IF Contains(ranking, c) THEN <<1, RrfK + RankOf(ranking, c)>> ELSE <<0, 1>>

\* Mutant: the second ranking replaces the first.
Score_Replaced(dense, sparse, c) ==
    IF Contains(sparse, c) THEN Share(sparse, c) ELSE Share(dense, c)

Score(dense, sparse, c) ==
    LET a == Share(dense, c)  b == Share(sparse, c)
    IN <<a[1] * b[2] + b[1] * a[2], a[2] * b[2]>>

Exceeds(x, y) == x[1] * y[2] > y[1] * x[2]

\* The chunks of either ranking, the best first; equal ones as they were met.
Fused(dense, sparse) ==
    LET met == dense \o Filtered(sparse, ToSet(sparse) \ ToSet(dense))
        score == [i \in DOMAIN met |-> Score(dense, sparse, met[i])]
        Before(i, j) == Exceeds(score[i], score[j]) \/ (~Exceeds(score[j], score[i]) /\ i < j)
        placed == {<<met[i], Cardinality({j \in DOMAIN met : Before(j, i)}) + 1>> : i \in DOMAIN met}
    IN [n \in DOMAIN met |-> (CHOOSE p \in placed : p[2] = n)[1]]

-----------------------------------------------------------------------------
(* Comparison *)

\* How many hits each of n documents may bring.
PerDocument(n) == AtLeastTwo(TopK \div n)

\* Mutant: the documents come one after the other.
Interleaved_Appended(results) == FoldLeft(LAMBDA all, r : all \o r, <<>>, results)

\* The first hits of all documents, then the second ones ...
TakeFrom(i, all, r) == IF i <= Len(r) THEN Append(all, r[i]) ELSE all
Round(results, i) == FoldLeft(LAMBDA all, r : TakeFrom(i, all, r), <<>>, results)
WithRound(results, all, i) == all \o Round(results, i)
Interleaved(results) ==
    FoldLeft(LAMBDA all, i : WithRound(results, all, i), <<>>,
             [i \in 1 .. PerDocument(Len(results)) |-> i])

-----------------------------------------------------------------------------
(* Overview *)

Budget(n) == AtLeastTwo(SummarySections \div n)

\* Mutant: the step is rounded before it is used.
Place_Rounded(i, length, budget) == i * (length \div budget)

\* Index of the i-th of budget sections out of length, counted from 0.
Place(i, length, budget) == (i * length) \div budget

Spread(rows, budget) ==
    IF Len(rows) <= budget THEN rows
    ELSE [i \in 1 .. budget |-> rows[Place(i - 1, Len(rows), budget) + 1]]

-----------------------------------------------------------------------------
(* Context *)

\* Mutant: the budget is compared with what is used already.
Fits_Late(used, cost) == used <= MaxContext
Fits(used, cost) == used + cost <= MaxContext

\* expand_to_parents: one block for each section of the hits.  offer is the hits
\* with, for each, the text to show and the passage to fall back to, as [text, cost].
CostWith(sum, block) == sum + block.cost
Used(blocks) == FoldLeft(LAMBDA sum, b : CostWith(sum, b), 0, blocks)

WithBlock(offer, blocks, i) ==
    LET hit == offer.hits[i]
        Shown(shown) == Append(blocks, [chunk |-> hit, text |-> shown.text, cost |-> shown.cost])
    IN IF \E j \in DOMAIN blocks : SectionOf(blocks[j].chunk) = SectionOf(hit) THEN blocks
       ELSE IF blocks = <<>> \/ Fits(Used(blocks), offer.preferred[i].cost)
       THEN Shown(offer.preferred[i])
       ELSE IF Fits(Used(blocks), offer.passage[i].cost) THEN Shown(offer.passage[i])
       ELSE blocks

Blocks(offer) ==
    FoldLeft(LAMBDA blocks, i : WithBlock(offer, blocks, i), <<>>, [i \in DOMAIN offer.hits |-> i])
=============================================================================

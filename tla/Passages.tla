------------------------------- MODULE Passages -------------------------------
(***************************************************************************)
(* From the sentences of a section to the passages that are embedded and   *)
(* searched: build_children and _absorb_runts in                           *)
(* backend/app/ingestion/chunking.py, loop by loop.                        *)
(*                                                                         *)
(* A text is a list of units (sentences, or pieces of an over-long one)    *)
(* numbered from 0; upto[i] is the number of tokens of its first i units,  *)
(* so a passage is a half-open range of units, as in the code.             *)
(***************************************************************************)
EXTENDS Integers, Sequences

CONSTANTS
    ChildTarget,   \* cfg.child_target_tokens
    ChildOverlap,  \* cfg.child_overlap_tokens
    ChildMin,      \* cfg.child_min_tokens
    Texts          \* the sections that may come: [n, upto]

IsText(t) ==
    /\ t.n \in Nat
    /\ t.upto \in [0 .. t.n -> Nat]
    /\ \A i, j \in 0 .. t.n : i <= j => t.upto[i] <= t.upto[j]

ASSUME PassageAssumption ==
    /\ ChildTarget \in Nat /\ ChildOverlap \in Nat /\ ChildMin \in Nat
    /\ \A t \in Texts : IsText(t)

VARIABLES
    text,    \* the section
    pc,      \* the loop that is running
    start,   \* units start .. end - 1 are the present passage
    end,
    next,    \* where the passage after it will start
    drafts,  \* the passages cut so far
    glued,   \* how many of them _absorb_runts has seen
    carry,   \* the drafts first .. glued it holds back, and their tokens
    out      \* the passages it has let through: ranges of drafts

passageVars == <<text, pc, start, end, next, drafts, glued, carry, out>>

n == text.n

\* Tokens of units i .. j - 1.
Tokens(i, j) == text.upto[j] - text.upto[i]

FirstLoop(t) == IF t.n = 0 THEN "gluing" ELSE "filling"

PassageInit ==
    /\ text \in Texts
    /\ pc = FirstLoop(text)
    /\ start = 0 /\ end = 0 /\ next = 0 /\ glued = 0
    /\ drafts = <<>> /\ out = <<>>
    /\ carry = [first |-> 1, tokens |-> 0]

\* build_children is called with t.
Load(t) ==
    /\ text' = t
    /\ pc' = FirstLoop(t)
    /\ start' = 0 /\ end' = 0 /\ next' = 0 /\ glued' = 0
    /\ drafts' = <<>> /\ out' = <<>>
    /\ carry' = [first |-> 1, tokens |-> 0]

-----------------------------------------------------------------------------
\* A passage has one unit at least.
Fits == end < n /\ (Tokens(start, end + 1) <= ChildTarget \/ end = start)

Fill ==
    /\ pc = "filling"
    /\ Fits
    /\ end' = end + 1
    /\ UNCHANGED <<text, pc, start, next, drafts, glued, carry, out>>

\* What is left may be too short for a passage of its own.
Stop == IF end < n /\ Tokens(end, n) < ChildMin THEN n ELSE end

Cut ==
    /\ pc = "filling"
    /\ ~Fits
    /\ drafts' = Append(drafts, [from |-> start, to |-> Stop, tokens |-> Tokens(start, Stop)])
    /\ end' = Stop
    /\ next' = Stop
    /\ pc' = IF Stop = n THEN "gluing" ELSE "overlapping"
    /\ UNCHANGED <<text, start, glued, carry, out>>

\* Mutant: the overlap may take the whole passage.
MayStepBack_ToStart == next > start /\ Tokens(next - 1, end) <= ChildOverlap

\* Whole units, but never the first of the passage.
MayStepBack == next > start + 1 /\ Tokens(next - 1, end) <= ChildOverlap

StepBack ==
    /\ pc = "overlapping"
    /\ MayStepBack
    /\ next' = next - 1
    /\ UNCHANGED <<text, pc, start, end, drafts, glued, carry, out>>

Restart ==
    /\ pc = "overlapping"
    /\ ~MayStepBack
    /\ start' = next
    /\ end' = next
    /\ pc' = "filling"
    /\ UNCHANGED <<text, next, drafts, glued, carry, out>>

-----------------------------------------------------------------------------
\* The next draft, glued to what is held back.
Held == carry.tokens + drafts[glued + 1].tokens

\* Mutant: the first passage has no neighbour to be glued to.
TooShort_NotFirst == Held < ChildMin /\ glued > 0
TooShort == Held < ChildMin /\ Len(drafts) > 1

\* _absorb_runts: a passage that is too short waits for its successor ...
Glue ==
    /\ pc = "gluing"
    /\ glued < Len(drafts)
    /\ glued' = glued + 1
    /\ IF TooShort
       THEN carry' = [carry EXCEPT !.tokens = Held] /\ UNCHANGED out
       ELSE /\ out' = Append(out, [first |-> carry.first, last |-> glued', tokens |-> Held])
            /\ carry' = [first |-> glued' + 1, tokens |-> 0]
    /\ UNCHANGED <<text, pc, start, end, next, drafts>>

\* ... and the last one goes to its predecessor, if there is one.
LastGlued ==
    IF carry.first > glued THEN out
    ELSE IF out = <<>> THEN <<[first |-> carry.first, last |-> glued, tokens |-> carry.tokens]>>
    ELSE [out EXCEPT ![Len(out)].last = glued, ![Len(out)].tokens = @ + carry.tokens]

Finish ==
    /\ pc = "gluing"
    /\ glued = Len(drafts)
    /\ out' = LastGlued
    /\ carry' = [first |-> glued + 1, tokens |-> 0]
    /\ pc' = "done"
    /\ UNCHANGED <<text, start, end, next, drafts, glued>>

PassageNext == Fill \/ Cut \/ StepBack \/ Restart \/ Glue \/ Finish

PassageSpec == PassageInit /\ [][PassageNext]_passageVars

-----------------------------------------------------------------------------
(* Properties *)

\* Units of passage k of the result.
UnitsOf(k) == UNION {drafts[i].from .. drafts[i].to - 1 : i \in out[k].first .. out[k].last}

\* No sentence of a section is lost: each is in some passage.
EverySentenceIsInAPassage ==
    pc = "done" => \A u \in 0 .. n - 1 : \E k \in DOMAIN out : u \in UnitsOf(k)

\* Neighbours share whole sentences of ChildOverlap tokens at most, leave no gap,
\* and every passage starts behind the one before it, or the loop would not end.
OverlapIsBounded ==
    \A k \in 1 .. Len(drafts) - 1 :
        /\ drafts[k].from < drafts[k + 1].from
        /\ drafts[k + 1].from <= drafts[k].to
        /\ Tokens(drafts[k + 1].from, drafts[k].to) <= ChildOverlap

\* "fragments under 40 tokens are glued to a neighbour" (ARCHITECTURE.md), and
\* gluing makes no passage much larger than the model is meant for, when no
\* single unit is.
PassageSizesAreBounded ==
    /\ pc = "done" /\ Len(out) > 1 => \A k \in DOMAIN out : out[k].tokens >= ChildMin
    /\ (\A i \in 1 .. n : Tokens(i - 1, i) <= ChildTarget)
         => \A k \in DOMAIN out : out[k].tokens <= ChildTarget + 2 * ChildMin
=============================================================================

--------------------------------- MODULE Lists ---------------------------------
(***************************************************************************)
(* What the program does with lists in more than one place: a              *)
(* comprehension with a condition, the join of the texts of some things,   *)
(* and the count of the tokens of a text (count_tokens in                  *)
(* backend/app/ingestion/chunking.py).                                     *)
(*                                                                         *)
(* A text is a sequence of sentences, a sentence a pair of its place in    *)
(* the document and its number of tokens.                                  *)
(***************************************************************************)
EXTENDS Integers, Sequences, SequencesExt

\* The elements of s that are in S, in their order.
KeepIn(S, kept, x) == IF x \in S THEN Append(kept, x) ELSE kept
Filtered(s, S) == FoldLeft(LAMBDA kept, x : KeepIn(S, kept, x), <<>>, s)

\* The others.
Without(s, S) == Filtered(s, ToSet(s) \ S)

TokensOf(aText) == FoldLeft(LAMBDA sum, s : sum + s[2], 0, aText)
TextsOf(things) == FoldLeft(LAMBDA all, x : all \o x.text, <<>>, things)
=============================================================================

--------------------------- MODULE MCDocumentStore ---------------------------
(***************************************************************************)
(* Small instances of DocumentStore: three files of one unit and one of    *)
(* three, so that the limit on documents and the limit on bytes are each   *)
(* reached without the other.                                              *)
(***************************************************************************)
EXTENDS DocumentStore, TLC

CONSTANTS small1, small2, small3, large

MCContents == {small1, small2, small3, large}
MCSize == [c \in MCContents |-> IF c = large THEN 3 ELSE 1]

\* Requests are interchangeable, and so are the small files.
StoreSymmetry == Permutations(Uploads) \cup Permutations({small1, small2, small3})

\* Two files, for the runs in which the quota is not the question.
FewContents == {small1, large}
FewSize == [c \in FewContents |-> MCSize[c]]
=============================================================================

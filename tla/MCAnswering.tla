------------------------------ MODULE MCAnswering ------------------------------
(***************************************************************************)
(* Small instances of Answering.  Searches run over a library of short     *)
(* documents, one of which may be ingested again; overviews over a library *)
(* with a document of more sections than the budget of an overview.        *)
(***************************************************************************)
EXTENDS Answering

Section(cost, passages) == [cost |-> cost, passages |-> passages]

Short == <<<< <<Section(3, <<2, 1>>), Section(5, <<4>>)>>, <<Section(4, <<2>>)>> >>,
           << <<Section(2, <<2>>)>> >>,
           << <<Section(1, <<1>>)>> >> >>

Long == <<<< <<Section(1, <<1>>), Section(1, <<>>), Section(1, <<1>>), Section(1, <<1>>),
               Section(1, <<1>>), Section(1, <<1>>)>>, <<Section(1, <<1>>)>> >>,
          << <<Section(1, <<1>>), Section(2, <<1, 1>>), Section(1, <<1>>)>> >>,
          << <<Section(1, <<1>>)>> >> >>

MCLibraries == {Short, Long}

MCInit ==
    /\ Init
    /\ (library = Long) <=> ("summary" \in question)
    /\ "comparison" \in question => "summary" \notin question
    /\ \A d \in Foreign : docs[d].status = "ready"

MCSpec == MCInit /\ [][Next]_vars
=============================================================================

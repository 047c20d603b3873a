-------------------------- MODULE MCIngestionContent --------------------------
(***************************************************************************)
(* Small instances of IngestionContent: all PDFs and texts of up to        *)
(* PagedLines lines, PDFs of fewer looks with one line more, all files of  *)
(* other formats of up to PlainLines lines, and all sections of up to      *)
(* MaxUnits units.                                                         *)
(***************************************************************************)
EXTENDS IngestionContent

CONSTANTS PagedLines, PlainLines, MaxUnits

\* The looks of a line, by format.
Look(kind, level, tokens) == [kind |-> kind, level |-> level, tokens |-> tokens]
PdfLooks == {Look("text", 1, 1), Look("text", 2, 1), Look("text", 0, 2), Look("text", 0, 5),
             Look("running", 0, 2), Look("number", 0, 1)}
LongLooks == {Look("text", 1, 1), Look("text", 0, 2), Look("text", 0, 5), Look("running", 0, 1)}
TextLooks == {Look("text", 1, 1), Look("text", 2, 1), Look("text", 0, 1), Look("text", 0, 3)}
MarkdownLooks == {Look("text", 1, 1), Look("text", 2, 1), Look("text", 0, 3), Look("fence", 0, 0),
                  Look("blank", 0, 0)}

\* Where a line is, seen from the one before it: in the same block, in another
\* one, on the next page.
Steps == {"same", "block", "page"}

Place(steps, i) ==
    LET pages == Cardinality({j \in 1 .. i : steps[j] = "page"})
        others == Cardinality({j \in 1 .. i : steps[j] # "same"})
    IN [page |-> 1 + pages, block |-> others]

Laid(format, looks, steps) ==
    [format |-> format,
     pages |-> 1 + Cardinality({j \in DOMAIN steps : steps[j] = "page"}),
     lines |-> [i \in DOMAIN looks |->
                  [kind |-> looks[i].kind, level |-> looks[i].level, tokens |-> looks[i].tokens,
                   page |-> Place(steps, i).page, block |-> Place(steps, i).block]]]

\* Files of k lines; the first line is where the file begins.
FilesOf(format, looks, steps, k) ==
    {Laid(format, l, s) : l \in [1 .. k -> looks],
                          s \in {s \in [1 .. k -> steps] : k > 0 => s[1] = "same"}}

MCFiles ==
    (UNION {FilesOf("pdf", PdfLooks, Steps, k) : k \in 0 .. PagedLines})
        \cup FilesOf("pdf", LongLooks, Steps, PagedLines + 1)
        \cup (UNION {FilesOf("txt", TextLooks, Steps, k) : k \in 0 .. PagedLines})
        \cup (UNION {FilesOf("md", MarkdownLooks, {"same"}, k) : k \in 0 .. PlainLines})
        \cup (UNION {FilesOf("docx", TextLooks, {"same"}, k) : k \in 0 .. PlainLines})

Upto(s) == [i \in 0 .. Len(s) |-> FoldLeft(LAMBDA sum, x : sum + x, 0, SubSeq(s, 1, i))]
MCTexts == {[n |-> Len(s), upto |-> Upto(s)] : s \in BoundedSeq({1, 2, 3, 5}, MaxUnits)}

\* A run starts with a file, or at a section, whatever its sentences are.
NoFile == [format |-> "txt", pages |-> 1, lines |-> <<>>]

StartAtSection ==
    /\ PassageInit
    /\ file = NoFile /\ outcome = "elsewhere"
    /\ lines = <<>> /\ seen = 0 /\ blocks = <<>> /\ para = <<>> /\ paraPage = 1
    /\ lastKey = <<0, 0>> /\ inCode = FALSE
    /\ SectionsIdle
    /\ section = 0 /\ chunks = <<>>

MCInit == ContentInit \/ StartAtSection
MCNext ==
    \/ ContentNext
    \/ outcome = "elsewhere" /\ PassageNext /\ UNCHANGED <<parseVars, sectionVars, section, chunks>>
MCSpec == MCInit /\ [][MCNext]_contentVars
=============================================================================

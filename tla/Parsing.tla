-------------------------------- MODULE Parsing --------------------------------
(***************************************************************************)
(* From a file to its blocks: parse and the parsers of PDF, DOCX, Markdown *)
(* and plain text in backend/app/ingestion/parsers.py.                     *)
(*                                                                         *)
(* A line has a page, the number of the PDF block (or text paragraph) it   *)
(* is in, a kind, the heading level its looks or the table of contents     *)
(* give it (0 for none), and a number of tokens.  For DOCX a line is a     *)
(* paragraph or a table.  A line is a sentence of the text.                *)
(***************************************************************************)
EXTENDS Lists, FiniteSets

CONSTANTS
    Files,    \* the files that may come: [format, pages, lines]
    MinText   \* fewer tokens are no text (20 characters)

Formats == {"pdf", "docx", "md", "txt"}
\* "running": the same text, digits apart, as the other running lines;
\* "number": a page number; "fence" and "blank": Markdown.
Kinds(format) ==
    CASE format = "pdf" -> {"text", "running", "number"}
      [] format = "md" -> {"text", "fence", "blank"}
      [] OTHER -> {"text"}

\* Markdown and DOCX have no pages: everything is on page 1.
LinesOf(format, pages) ==
    [kind : Kinds(format), level : Nat, tokens : Nat, block : Nat,
     page : IF format \in {"md", "docx"} THEN {1} ELSE 1 .. pages]

ASSUME ParsingAssumption ==
    /\ MinText \in Nat
    /\ \A f \in Files :
        /\ f.format \in Formats
        /\ f.pages \in Nat
        /\ f.lines \in Seq(LinesOf(f.format, f.pages))

VARIABLES
    file,
    outcome,   \* "new", "reading", and how it ended
    lines,     \* the lines that are read, as indices of file.lines
    seen,      \* how many of them the loop has seen
    blocks,    \* what it has found
    para,      \* the lines of the paragraph that is open
    paraPage,  \* the page it is thought to start on
    lastKey,   \* page and block of the line before
    inCode     \* inside a Markdown fence

parseVars == <<file, outcome, lines, seen, blocks, para, paraPage, lastKey, inCode>>

ParseInit ==
    /\ file \in Files
    /\ outcome = "new"
    /\ lines = <<>> /\ seen = 0
    /\ blocks = <<>> /\ para = <<>>
    /\ paraPage = 1
    /\ lastKey = <<0, 0>>
    /\ inCode = FALSE

Line(i) == file.lines[i]
Key(i) == <<Line(i).page, Line(i).block>>
Sentence(i) == <<i, Line(i).tokens>>

-----------------------------------------------------------------------------
\* detect_type, or the library, does not accept the file: ParseError, as for a
\* PDF without a single line.
Unreadable ==
    /\ outcome = "new"
    /\ outcome' = "ParseError"
    /\ UNCHANGED <<file, lines, seen, blocks, para, paraPage, lastKey, inCode>>

\* Running headers and footers: on max(3, pages / 2) pages at least.
IsBoilerplate(i) ==
    LET found == {Line(j).page : j \in {j \in DOMAIN file.lines : Line(j).kind = "running"}}
        threshold == IF file.pages \div 2 > 3 THEN file.pages \div 2 ELSE 3
    IN Line(i).kind = "running" /\ file.pages >= 3 /\ Cardinality(found) >= threshold

Kept(i) ==
    file.format = "pdf" => ~IsBoilerplate(i) /\ Line(i).kind # "number"

\* The lines that go through the loop.  A PDF whose every line is dropped fails
\* in statistics.median, with an error that is no ParseError.
Open ==
    LET kept == Filtered([i \in DOMAIN file.lines |-> i], {i \in DOMAIN file.lines : Kept(i)}) IN
    /\ outcome = "new"
    /\ lines' = kept
    /\ outcome' = IF file.format = "pdf" /\ kept = <<>> THEN "StatisticsError" ELSE "reading"
    /\ UNCHANGED <<file, seen, blocks, para, paraPage, lastKey, inCode>>

-----------------------------------------------------------------------------
\* Mutant: an open paragraph is forgotten.
Flushed_Forgets == blocks
Flushed ==
    IF para = <<>> THEN blocks
    ELSE Append(blocks, [text |-> para, page |-> paraPage, level |-> 0])

Reading(formats) ==
    /\ outcome = "reading"
    /\ file.format \in formats
    /\ seen < Len(lines)
    /\ seen' = seen + 1
    /\ UNCHANGED <<file, outcome, lines>>

HeadingBlock(i, page) == [text |-> <<Sentence(i)>>, page |-> page, level |-> Line(i).level]

\* Mutant: the level of a wrapped heading is not compared.
Wraps_AnyLevel(i, found) ==
    /\ found # <<>> /\ Last(found).level > 0
    /\ lastKey = Key(i)

\* A heading line goes on in the next one of the same block and level.
Wraps(i, found) ==
    /\ found # <<>> /\ Last(found).level > 0
    /\ lastKey = Key(i)
    /\ Last(found).level = Line(i).level

PdfHeading ==
    LET i == lines[seen + 1] IN
    /\ Reading({"pdf"})
    /\ Line(i).level > 0
    /\ blocks' = IF Wraps(i, Flushed)
                 THEN ReplaceAt(Flushed, Len(Flushed),
                          [Last(Flushed) EXCEPT !.text = Append(@, Sentence(i))])
                 ELSE Append(Flushed, HeadingBlock(i, Line(i).page))
    /\ para' = <<>>
    /\ lastKey' = Key(i)
    /\ UNCHANGED <<paraPage, inCode>>

\* In plain text only the first line of a paragraph may be a heading.
TextHeading ==
    LET i == lines[seen + 1] IN
    /\ Reading({"txt"})
    /\ Line(i).level > 0
    /\ lastKey # Key(i)
    /\ blocks' = Append(Flushed, HeadingBlock(i, Line(i).page))
    /\ para' = <<>>
    /\ paraPage' = Line(i).page
    /\ lastKey' = Key(i)
    /\ UNCHANGED inCode

\* A paragraph ends with its block; its page is that of its first line, unless
\* a heading of the same block comes before it in a PDF.
BodyLine ==
    LET i == lines[seen + 1] IN
    /\ Reading({"pdf", "txt"})
    /\ Line(i).level = 0 \/ (file.format = "txt" /\ lastKey = Key(i))
    /\ IF Key(i) # lastKey
       THEN /\ blocks' = Flushed
            /\ para' = <<Sentence(i)>>
            /\ paraPage' = Line(i).page
       ELSE /\ para' = Append(para, Sentence(i))
            /\ UNCHANGED <<blocks, paraPage>>
    /\ lastKey' = Key(i)
    /\ UNCHANGED inCode

\* DOCX: a paragraph, by its style a heading or not, or a table; no pages.
DocxParagraph ==
    LET i == lines[seen + 1] IN
    /\ Reading({"docx"})
    /\ blocks' = Append(blocks, HeadingBlock(i, 1))
    /\ UNCHANGED <<para, paraPage, lastKey, inCode>>

Fence ==
    /\ Reading({"md"})
    /\ Line(lines[seen + 1]).kind = "fence"
    /\ inCode' = ~inCode
    /\ UNCHANGED <<blocks, para, paraPage, lastKey>>

IsMarkdownHeading(i) == Line(i).kind = "text" /\ Line(i).level > 0 /\ ~inCode

MarkdownHeading ==
    LET i == lines[seen + 1] IN
    /\ Reading({"md"})
    /\ IsMarkdownHeading(i)
    /\ blocks' = Append(Flushed, HeadingBlock(i, 1))
    /\ para' = <<>>
    /\ UNCHANGED <<paraPage, lastKey, inCode>>

MarkdownLine ==
    LET i == lines[seen + 1] IN
    /\ Reading({"md"})
    /\ Line(i).kind \in {"text", "blank"}
    /\ ~IsMarkdownHeading(i)
    /\ IF Line(i).kind = "blank"
       THEN blocks' = Flushed /\ para' = <<>>
       ELSE para' = Append(para, Sentence(i)) /\ UNCHANGED blocks
    /\ UNCHANGED <<paraPage, lastKey, inCode>>

\* The last flush, and the check that there is something to answer from.
EndOfFile ==
    /\ outcome = "reading"
    /\ seen = Len(lines)
    /\ blocks' = Flushed
    /\ para' = <<>>
    /\ outcome' = IF TokensOf(TextsOf(blocks')) < MinText THEN "ParseError" ELSE "parsed"
    /\ UNCHANGED <<file, lines, seen, paraPage, lastKey, inCode>>

ParseNext ==
    \/ Unreadable \/ Open \/ EndOfFile
    \/ PdfHeading \/ TextHeading \/ BodyLine \/ DocxParagraph
    \/ Fence \/ MarkdownHeading \/ MarkdownLine

ParseSpec == ParseInit /\ [][ParseNext]_parseVars

-----------------------------------------------------------------------------
(* Properties *)

FencesBefore(i) == Cardinality({j \in 1 .. i - 1 : Line(j).kind = "fence"})
InCode(i) == file.format = "md" /\ FencesBefore(i) % 2 = 1

\* The lines that make up the text of the file.
Readable == Filtered(lines, {i \in ToSet(lines) : Line(i).kind \notin {"fence", "blank"}})

\* However lines are wrapped, fenced and flushed: a heading is made of lines of
\* its own level, of one PDF block and outside code, nothing that looks like a
\* heading is inside a paragraph but where the format reads it as text, and no
\* paragraph runs over the end of its block or page.
BlocksArePure ==
    \A k \in DOMAIN blocks : LET b == blocks[k]  opening == b.text[1][1] IN
        /\ \A j \in DOMAIN b.text : LET i == b.text[j][1] IN
              IF b.level > 0
              THEN Line(i).level = b.level /\ ~InCode(i) /\ Key(i) = Key(opening)
              ELSE Line(i).level > 0 => InCode(i) \/ file.format = "txt"
        /\ file.format \in {"pdf", "txt"} => \A j \in DOMAIN b.text : Key(b.text[j][1]) = Key(opening)
=============================================================================

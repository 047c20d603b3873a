------------------------------- MODULE Sections -------------------------------
(***************************************************************************)
(* From the blocks of a document to its sections, the parents of the       *)
(* passages: build_sections, _merge_small, _split_large and                *)
(* _paragraph_pieces in backend/app/ingestion/chunking.py.                 *)
(*                                                                         *)
(* A block has a text, the page it starts on and a level, 0 for body text. *)
(***************************************************************************)
EXTENDS Lists

CONSTANTS
    SectionMin,  \* cfg.section_min_tokens
    ParentMax    \* cfg.parent_max_tokens

ASSUME SectionAssumption == SectionMin \in Nat /\ ParentMax \in Nat \ {0}

VARIABLES
    phase,     \* the loop that is running
    source,    \* the blocks
    at,        \* how many of them, or of the sections, the loop has seen
    pending,   \* headings still without a body
    stack,     \* the open headings: <<level, heading>>
    sections,  \* one per heading with a body
    merged,    \* sections, the tiny ones folded into their predecessor
    parents    \* merged, the large ones split

sectionVars == <<phase, source, at, pending, stack, sections, merged, parents>>

SectionsIdle ==
    /\ phase = "idle"
    /\ source = <<>>
    /\ at = 0
    /\ pending = <<>> /\ stack = <<>>
    /\ sections = <<>> /\ merged = <<>> /\ parents = <<>>

Size(section) == TokensOf(TextsOf(section.paragraphs))
LevelsOf(headings) == {headings[i].level : i \in DOMAIN headings}
Least(S) == CHOOSE x \in S : \A y \in S : x <= y
Larger(a, b) == IF a > b THEN a ELSE b

\* A section without a level is the text before the first heading, or a
\* document that is headings only: it is not part of the outline.
NewSection(heading, level, path, page, last) ==
    [heading |-> heading, level |-> level, path |-> path,
     first |-> page, last |-> last, paragraphs |-> <<>>]

With(section, aText, page, body) ==
    [section EXCEPT !.paragraphs = Append(@, [text |-> aText, page |-> page, body |-> body])]

Begin(blocks) ==
    /\ phase = "idle"
    /\ phase' = "building"
    /\ source' = blocks
    /\ UNCHANGED <<at, pending, stack, sections, merged, parents>>

-----------------------------------------------------------------------------
(* build_sections *)

Heading ==
    /\ phase = "building"
    /\ at < Len(source)
    /\ source[at + 1].level > 0
    /\ pending' = Append(pending, source[at + 1])
    /\ at' = at + 1
    /\ UNCHANGED <<phase, source, stack, sections, merged, parents>>

\* Mutant: a heading of the same level stays open.
Enclosing_Equal(level) == Filtered(stack, {h \in ToSet(stack) : h[1] <= level})

\* path_for pops the headings of this level and below; the levels on the stack
\* increase, so what it keeps are those above.
Enclosing(level) == Filtered(stack, {h \in ToSet(stack) : h[1] < level})

\* The section a body block goes to, and the stack then: the last one, one for
\* the pending headings, which read as one, or one for the title.
Present(b) ==
    LET level == Least(LevelsOf(pending))
        heading == TextsOf(pending)
        open == Append(Enclosing(level), <<level, heading>>)
    IN IF pending # <<>>
       THEN [stack |-> open,
             sections |-> Append(sections, NewSection(heading, level,
                              [i \in DOMAIN open |-> open[i][2]], pending[1].page, b.page))]
       ELSE [stack |-> stack,
             sections |-> IF sections # <<>> THEN sections
                          ELSE <<NewSection(<<>>, 0, <<>>, b.page, b.page)>>]

Body ==
    /\ phase = "building"
    /\ at < Len(source)
    /\ source[at + 1].level = 0
    /\ LET b == source[at + 1]
           p == Present(b)
           s == Last(p.sections)
       IN /\ sections' = ReplaceAt(p.sections, Len(p.sections),
                             [With(s, b.text, b.page, TRUE) EXCEPT !.last = Larger(@, b.page)])
          /\ stack' = p.stack
    /\ pending' = <<>>
    /\ at' = at + 1
    /\ UNCHANGED <<phase, source, merged, parents>>

\* Headings at the end become a paragraph of the last section.
EndOfBlocks ==
    /\ phase = "building"
    /\ at = Len(source)
    /\ LET heading == TextsOf(pending)
           page == pending[1].page
       IN sections' =
            IF pending = <<>> THEN sections
            ELSE IF sections # <<>>
            THEN ReplaceAt(sections, Len(sections), With(Last(sections), heading, page, FALSE))
            ELSE <<With(NewSection(heading, 0, <<heading>>, page, page), heading, page, FALSE)>>
    /\ phase' = "merging"
    /\ at' = 0
    /\ pending' = <<>>
    /\ UNCHANGED <<source, stack, merged, parents>>

-----------------------------------------------------------------------------
(* _merge_small *)

\* Mutant: the heading of a tiny section is dropped.
Folded_NoHeading(s, tiny) ==
    [s EXCEPT !.paragraphs = @ \o tiny.paragraphs, !.last = Larger(@, tiny.last)]

Folded(s, tiny) ==
    [With(s, tiny.heading, tiny.first, FALSE)
        EXCEPT !.paragraphs = @ \o tiny.paragraphs, !.last = Larger(@, tiny.last)]

Merge ==
    /\ phase = "merging"
    /\ at < Len(sections)
    /\ LET s == sections[at + 1] IN
       merged' = IF merged # <<>> /\ Size(s) < SectionMin
                 THEN ReplaceAt(merged, Len(merged), Folded(Last(merged), s))
                 ELSE Append(merged, s)
    /\ at' = at + 1
    /\ UNCHANGED <<phase, source, pending, stack, sections, parents>>

EndOfMerge ==
    /\ phase = "merging"
    /\ at = Len(sections)
    /\ phase' = "splitting"
    /\ at' = 0
    /\ UNCHANGED <<source, pending, stack, sections, merged, parents>>

-----------------------------------------------------------------------------
(* _split_large *)

\* Mutant: a piece is closed only when it is full.
HasRoom_Late(used, more) == used < ParentMax
HasRoom(used, more) == used + more <= ParentMax

\* A paragraph that is too large is cut between sentences.
WithSentence(p, pieces, s) ==
    IF pieces # <<>> /\ HasRoom(TokensOf(Last(pieces).text), s[2])
    THEN ReplaceAt(pieces, Len(pieces), [p EXCEPT !.text = Append(Last(pieces).text, s)])
    ELSE Append(pieces, [p EXCEPT !.text = <<s>>])

Pieces(p) ==
    IF TokensOf(p.text) <= ParentMax THEN <<p>>
    ELSE FoldLeft(LAMBDA pieces, s : WithSentence(p, pieces, s), <<>>, p.text)

\* The parts of a section that is too large, each with its own pages.
WithPiece(s, parts, p) ==
    IF parts # <<>> /\ HasRoom(Size(Last(parts)), TokensOf(p.text))
    THEN ReplaceAt(parts, Len(parts),
             [Last(parts) EXCEPT !.paragraphs = Append(@, p), !.last = Larger(@, p.page)])
    ELSE Append(parts, [NewSection(s.heading, s.level, s.path, p.page, p.page)
                            EXCEPT !.paragraphs = <<p>>])

AllPieces(paragraphs) == FoldLeft(LAMBDA all, p : all \o Pieces(p), <<>>, paragraphs)

Parts(s) ==
    IF Size(s) <= ParentMax THEN <<s>>
    ELSE FoldLeft(LAMBDA parts, p : WithPiece(s, parts, p), <<>>, AllPieces(s.paragraphs))

Split ==
    /\ phase = "splitting"
    /\ at < Len(merged)
    /\ parents' = parents \o Parts(merged[at + 1])
    /\ at' = at + 1
    /\ UNCHANGED <<phase, source, pending, stack, sections, merged>>

EndOfSplit ==
    /\ phase = "splitting"
    /\ at = Len(merged)
    /\ phase' = "built"
    /\ at' = 0
    /\ UNCHANGED <<source, pending, stack, sections, merged, parents>>

SectionNext == Heading \/ Body \/ EndOfBlocks \/ Merge \/ EndOfMerge \/ Split \/ EndOfSplit

-----------------------------------------------------------------------------
(* Properties *)

\* All that is stored of the sections, heading and paragraphs, in order; the
\* parts of a split section share one heading.
WithParent(all, s) ==
    (IF \E i \in DOMAIN s.heading : s.heading[i] \in ToSet(all) THEN all ELSE all \o s.heading)
       \o Without(TextsOf(s.paragraphs), ToSet(s.heading))
Stored == FoldLeft(LAMBDA all, s : WithParent(all, s), <<>>, parents)

\* Whatever is folded, merged or split: every sentence and every heading of the
\* document is stored, once, where the document has it.
SectionsKeepTheText == phase = "built" => Stored = TextsOf(source)

\* The headings open at section k: those before it that no heading of the same
\* or a higher rank has closed.
Outline(k) ==
    LET Open(j) == /\ sections[j].level > 0
                   /\ \A m \in j + 1 .. k : sections[m].level > sections[j].level
        open == Filtered([j \in 1 .. k |-> j], {j \in 1 .. k : Open(j)})
    IN [i \in DOMAIN open |-> sections[open[i]].heading]

\* The heading path of a section is the outline of the document at that place.
PathsFollowTheOutline ==
    \A k \in DOMAIN sections : sections[k].level > 0 => sections[k].path = Outline(k)

\* "Cap parent size so a parent always fits comfortably in the LLM context": but
\* for a single sentence that is larger by itself.
ParentsAreCapped ==
    \A k \in DOMAIN parents :
        Size(parents[k]) > ParentMax => Len(TextsOf(parents[k].paragraphs)) = 1
=============================================================================

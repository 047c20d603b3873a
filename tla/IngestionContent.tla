---------------------------- MODULE IngestionContent ----------------------------
(***************************************************************************)
(* What becomes of the text of a file: build_drafts and the removal of     *)
(* repeated passages in ingest_document (backend/app/ingestion/            *)
(* pipeline.py).  The parser's blocks become sections, and every section's *)
(* sentences its passages; a passage that says the same as an earlier one  *)
(* of the document is not stored again.                                    *)
(***************************************************************************)
EXTENDS Parsing, Sections, Passages

VARIABLES
    section,  \* the section whose passages are being cut
    chunks    \* the passages to store: [section, says]

contentVars == <<parseVars, sectionVars, passageVars, section, chunks>>

NoText == [n |-> 0, upto |-> [i \in {0} |-> 0]]

ContentInit ==
    /\ ParseInit
    /\ SectionsIdle
    /\ text = NoText /\ pc = "idle"
    /\ start = 0 /\ end = 0 /\ next = 0 /\ glued = 0
    /\ drafts = <<>> /\ out = <<>>
    /\ carry = [first |-> 1, tokens |-> 0]
    /\ section = 0
    /\ chunks = <<>>

\* _units: the pieces of a sentence of t tokens, by words (of one token here) if
\* it is too long.
PieceSizes(t) ==
    LET step == Larger(ChildTarget, 1) IN
    IF t <= ChildTarget THEN <<t>>
    ELSE [i \in 1 .. (t + step - 1) \div step |-> IF i * step <= t THEN step ELSE t % step]

UnitsIn(x) == [i \in DOMAIN PieceSizes(x[2]) |-> <<x[1], i, PieceSizes(x[2])[i]>>]
Units(s) == FoldLeft(LAMBDA all, x : all \o UnitsIn(x), <<>>, TextsOf(s.paragraphs))

SizeOf(units) == FoldLeft(LAMBDA sum, u : sum + u[3], 0, units)
AsText(units) ==
    [n |-> Len(units), upto |-> [i \in 0 .. Len(units) |-> SizeOf(SubSeq(units, 1, i))]]

\* What a unit says: running lines say the same.
Says(unit) == <<IF Line(unit[1]).kind = "running" THEN 0 ELSE unit[1], unit[2]>>

\* The text of passage k: its drafts, one after the other.
Said(units, d) == [i \in 1 .. d.to - d.from |-> Says(units[d.from + i])]
WithDraft(units, all, d) == all \o Said(units, d)
TextOfPassage(k) ==
    LET units == Units(parents[section])
    IN FoldLeft(LAMBDA all, d : WithDraft(units, all, d), <<>>, SubSeq(drafts, out[k].first, out[k].last))

-----------------------------------------------------------------------------
Parse == ParseNext /\ UNCHANGED <<sectionVars, passageVars, section, chunks>>

StartChunking ==
    /\ outcome = "parsed"
    /\ Begin(blocks)
    /\ UNCHANGED <<parseVars, passageVars, section, chunks>>

BuildSections == SectionNext /\ UNCHANGED <<parseVars, passageVars, section, chunks>>

\* The next section of chunk_parent_child.
StartSection ==
    /\ phase = "built"
    /\ section < Len(parents)
    /\ section = 0 \/ pc = "stored"
    /\ section' = section + 1
    /\ Load(AsText(Units(parents[section'])))
    /\ UNCHANGED <<parseVars, sectionVars, chunks>>

CutPassages ==
    /\ section > 0
    /\ PassageNext
    /\ UNCHANGED <<parseVars, sectionVars, section, chunks>>

\* Children whose content_hash has been seen are not stored.
WithPassage(parent, stored, says) ==
    IF \E i \in DOMAIN stored : stored[i].says = says THEN stored
    ELSE Append(stored, [section |-> parent, says |-> says])

Store ==
    /\ section > 0
    /\ pc = "done"
    /\ LET texts == [k \in DOMAIN out |-> TextOfPassage(k)]
       IN chunks' = FoldLeft(LAMBDA stored, says : WithPassage(section, stored, says), chunks, texts)
    /\ pc' = "stored"
    /\ UNCHANGED <<parseVars, sectionVars, text, start, end, next, drafts, glued, carry, out, section>>

ContentNext ==
    Parse \/ StartChunking \/ BuildSections \/ StartSection \/ CutPassages \/ Store

ContentSpec == ContentInit /\ [][ContentNext]_contentVars

-----------------------------------------------------------------------------
(* Properties *)

Complete == phase = "built" /\ section = Len(parents) /\ (section = 0 \/ pc = "stored")

SaidIn(k) == {Says(u) : u \in ToSet(Units(parents[k]))}

\* Other sections say all that section k says.
OnlyRepeats(k) == \A say \in SaidIn(k) : \E j \in DOMAIN parents \ {k} : say \in SaidIn(j)

\* From the file to the index, over three loops that drop, fold, split, overlap
\* and glue: every word of every line the parser reads is in a stored passage, or
\* in the heading a passage is stored and searched under; but the heading of a
\* section whose text only repeats that of others, for which no passage is left.
TextIsSearchable ==
    Complete => \A i \in ToSet(Readable) : \A piece \in DOMAIN PieceSizes(Line(i).tokens) :
        \/ \E c \in DOMAIN chunks : \/ Says(<<i, piece>>) \in ToSet(chunks[c].says)
                                   \/ Sentence(i) \in ToSet(parents[chunks[c].section].heading)
        \/ \E k \in DOMAIN parents : Sentence(i) \in ToSet(parents[k].heading) /\ OnlyRepeats(k)
=============================================================================

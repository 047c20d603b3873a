------------------------------ MODULE EventStream ------------------------------
(***************************************************************************)
(* Server-Sent Events on the wire and back: _sse in backend/app/api/       *)
(* routes/chats.py writes them, SSEParser in frontend/src/lib/api/sse.ts   *)
(* reads them from chunks that the network cuts anywhere.                  *)
(*                                                                         *)
(* A text is a sequence of symbols: CR, LF, an event line, and the halves  *)
(* of a data line, as a chunk may end within one.  A parser is             *)
(* [buffer, event, data].                                                  *)
(***************************************************************************)
EXTENDS Integers, Sequences, SequencesExt

CONSTANT Newline  \* how lines end: <<LF>> here, <<CR, LF>> or <<CR>> elsewhere

CR == <<"CR">>
LF == <<"LF">>

ASSUME NewlineAssumption == Newline \in {<<LF>>, <<CR, LF>>, <<CR>>}

Written(e) ==
    <<<<"event", e.event>>>> \o Newline
    \o <<<<"data", e.data, 1>>, <<"data", e.data, 2>>>> \o Newline \o Newline

NewParser == [buffer |-> <<>>, event |-> "message", data |-> <<>>]

\* Data that was cut off is no JSON.
Broken == <<>>
DataOf(line) == IF Len(line) = 2 THEN line[2][2] ELSE Broken

\* processLine: an empty line ends an event, if it has any data.
Processed(s, line) ==
    IF line = <<>>
    THEN [s EXCEPT !.parser.event = "message", !.parser.data = <<>>,
                   !.out = IF s.parser.data = <<>> THEN @
                           ELSE Append(@, [event |-> s.parser.event, data |-> Last(s.parser.data)])]
    ELSE IF line[1][1] = "event" THEN [s EXCEPT !.parser.event = line[1][2]]
    ELSE [s EXCEPT !.parser.data = Append(@, DataOf(line))]

\* Mutant: a CR ends its line before the LF that belongs to it has come.
EndsLine_AtOnce(all, i) ==
    all[i] = LF \/ (all[i] = CR /\ (i = Len(all) \/ all[i + 1] # LF))

\* "A trailing lone CR may be the first half of CRLF: keep it for the next chunk."
EndsLine(all, i) ==
    all[i] = LF \/ (all[i] = CR /\ i < Len(all) /\ all[i + 1] # LF)

WithoutCR(line) == IF line # <<>> /\ Last(line) = CR THEN Front(line) ELSE line

\* The loop of feed at index i of the buffered text, with the line from s.from on.
Scan(all, s, i) ==
    IF EndsLine(all, i)
    THEN [Processed(s, WithoutCR(SubSeq(all, s.from, i - 1))) EXCEPT !.from = i + 1]
    ELSE s

Start(parser) == [parser |-> parser, out |-> <<>>, from |-> 1]

\* feed: the parser after a chunk, and the events the chunk completes.
Feed(parser, chunk) ==
    LET all == parser.buffer \o chunk
        end == FoldLeft(LAMBDA s, i : Scan(all, s, i), Start(parser), [i \in DOMAIN all |-> i])
    IN [parser |-> [end.parser EXCEPT !.buffer = SubSeq(all, end.from, Len(all))],
        out |-> end.out]

\* end: the line that is open, and the event that is open.
Flush(parser) ==
    LET line == WithoutCR(parser.buffer)
        read == IF line = <<>> THEN Start(parser) ELSE Processed(Start(parser), line)
    IN Processed(read, <<>>).out
=============================================================================

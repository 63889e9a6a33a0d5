------------------------------ MODULE SpeechText ------------------------------
(***************************************************************************)
(* What the server does to text between the agent and the voice, as pure   *)
(* functions: the expression tags and the segments of a streamed reply     *)
(* (morrow_coordinator.py), the sentences of a reminder, the tables of a   *)
(* Markdown answer, and the words that wake, put to sleep and set the      *)
(* volume (server.py, realtime_server.py).                                 *)
(*                                                                         *)
(* A text is a sequence over a few characters that stand for their kind:   *)
(* "x" any, "w" one of three bytes, " " white space, "." punctuation that  *)
(* ends a sentence, "<" and ">", and "h", which is also the name of an     *)
(* expression.  An utterance is a sequence of words, normalised.           *)
(***************************************************************************)
EXTENDS Naturals, SequencesExt

Char == {"x", "w", " ", ".", "<", ">", "h"}
Expression == {<<"h">>}

IsSpace(c) == c = " "
SpokenIn(s) == SelectSeq(s, LAMBDA c : ~IsSpace(c))
Strip(s) ==
    LET solid == {i \in DOMAIN s : ~IsSpace(s[i])}
    IN  IF solid = {} THEN <<>> ELSE SubSeq(s, Min(solid), Max(solid))

Bytes(s) == FoldLeft(LAMBDA n, c : n + IF c = "w" THEN 3 ELSE 1, 0, s)

-----------------------------------------------------------------------------
(* StreamingExpressionTagParser.                                           *)

TagStart == [expression |-> <<>>, leading |-> TRUE, selected |-> FALSE, tag |-> <<>>, out |-> <<>>]

\* _finish_tag: the first tag that names an expression, before any speech.
FinishTag(p) ==
    LET name == Strip(Tail(p.tag))
        chosen == p.leading /\ ~p.selected /\ name \in Expression
    IN  [p EXCEPT !.tag = <<>>, !.selected = @ \/ chosen,
                  !.expression = IF chosen THEN name ELSE @]

\* Slip: a "<" in a tag is taken for a part of it.
SlipTagChar(p, c) ==
    IF p.tag # <<>> THEN IF c = ">" THEN FinishTag(p) ELSE [p EXCEPT !.tag = Append(@, c)]
    ELSE IF c = "<" THEN [p EXCEPT !.tag = <<c>>]
    ELSE [p EXCEPT !.out = Append(@, c), !.leading = @ /\ IsSpace(c)]
TagChar(p, c) ==
    IF p.tag # <<>> THEN
        IF c = ">" THEN FinishTag(p)
        ELSE IF c = "<" THEN [p EXCEPT !.tag = <<c>>]
        ELSE [p EXCEPT !.tag = Append(@, c)]
    ELSE IF c = "<" THEN [p EXCEPT !.tag = <<c>>]
    ELSE [p EXCEPT !.out = Append(@, c), !.leading = @ /\ IsSpace(c)]

FeedTags(p, s) == FoldLeft(TagChar, [p EXCEPT !.out = <<>>], s)

-----------------------------------------------------------------------------
(* StreamingTextSegmenter, with its max_chars and max_bytes.               *)

MaxChars == 3
MaxBytes == 5

SegmentStart == [buffer |-> <<>>, out |-> <<>>]

Emit(g) ==
    LET segment == Strip(g.buffer)
    IN  [buffer |-> <<>>, out |-> IF segment = <<>> THEN g.out ELSE Append(g.out, segment)]

TooLong(buffer, c) == Len(buffer) + 1 > MaxChars \/ Bytes(Append(buffer, c)) > MaxBytes

SegmentChar(g, c) ==
    LET full == IF g.buffer # <<>> /\ TooLong(g.buffer, c) THEN Emit(g) ELSE g
        taken == [full EXCEPT !.buffer = Append(@, c)]
    IN  IF c = "." THEN Emit(taken) ELSE taken

FeedSegments(g, s) == FoldLeft(SegmentChar, g, s)

\* _process: what comes of the deltas of one reply.
Reply(deltas) ==
    LET Delta(r, s) == LET p == FeedTags(r.tags, s)
                       IN  [tags |-> p, segments |-> FeedSegments(r.segments, p.out)]
        end == FoldLeft(Delta, [tags |-> TagStart, segments |-> SegmentStart], deltas)
    IN  [expression |-> end.tags.expression, segments |-> Emit(end.segments).out]

-----------------------------------------------------------------------------
(* split_sentences, for the text of a reminder, already without its tags.   *)

Rest(g) == Emit(g).out

SplitSentences(s, max) ==
    LET Take(g, c) == LET taken == [g EXCEPT !.buffer = Append(@, c)]
                      IN  IF c = "." \/ Len(taken.buffer) >= max THEN Emit(taken) ELSE taken
    IN  Rest(FoldLeft(Take, SegmentStart, Strip(s)))

-----------------------------------------------------------------------------
(* normalize_markdown_tables.  A line has its cells, none for plain text,   *)
(* and the values before them; a separator line has cells of its own kind.  *)
(* A cell is a value, Empty between two bars, or Blank.                     *)

Empty == <<>>
Blank == <<0>>

Line(before, cells, sep) == [before |-> before, cells |-> cells, sep |-> sep]

\* The bars around a blank are taken for the end of a line: a table written on
\* one line falls into its rows that way, and a row with a blank cell apart.
Pieces(line) ==
    LET Cut(acc, c) == IF c = Blank THEN Append(acc, <<>>)
                       ELSE [acc EXCEPT ![Len(acc)] = Append(@, c)]
        parts == FoldLeft(Cut, <<<<>>>>, line.cells)
    IN  [i \in DOMAIN parts |-> Line(IF i = 1 THEN line.before ELSE <<>>, parts[i], line.sep)]
Prepared(lines) == FlattenSeq([i \in DOMAIN lines |-> Pieces(lines[i])])

\* split_markdown_table_row: the outer bars go, however many there are.
Split(line) ==
    LET some == {i \in DOMAIN line.cells : line.cells[i] # Empty}
    IN  IF some = {} THEN <<Empty>> ELSE SubSeq(line.cells, Min(some), Max(some))

IsRow(line) == Len(Split(line)) >= 2
IsSeparator(line) == line.sep /\ line.before = <<>> /\ IsRow(line)

\* format_markdown_table_row: a cell that is not empty, after its header.
FormatCell(headers, cells, i) ==
    IF cells[i] = Empty THEN <<>>
    ELSE IF i > Len(headers) \/ headers[i] = Empty THEN <<cells[i]>> ELSE <<headers[i], cells[i]>>
FormatRow(headers, cells) == FlattenSeq([i \in DOMAIN cells |-> FormatCell(headers, cells, i)])

\* A line that is no part of a table keeps its cells, as strip_markdown_syntax
\* makes commas of the bars; of a separator nothing is left.
Plain(line) == line.before \o IF line.sep THEN <<>> ELSE SelectSeq(line.cells, LAMBDA c : c # Empty)

\* The lines from i on are a header and its separator, and the rows below.
TableAt(lines, i) ==
    i + 1 \in DOMAIN lines /\ IsRow(lines[i]) /\ IsSeparator(lines[i + 1])
BodyEnd(lines, i) ==
    LET stops == {j \in i + 2 .. Len(lines) :
                    ~IsRow(lines[j]) \/ lines[j].before # <<>> \/ IsSeparator(lines[j])}
    IN  IF stops = {} THEN Len(lines) ELSE Min(stops) - 1

\* What is spoken of the lines.
NormalizeMarkdownTables(source) ==
    LET lines == Prepared(source)
        From[i \in 1 .. Len(lines) + 1] ==
            IF i > Len(lines) THEN <<>>
            ELSE IF TableAt(lines, i)
            THEN LET end == BodyEnd(lines, i)
                     row == [k \in 1 .. end - i - 1 |->
                                FormatRow(Split(lines[i]), Split(lines[i + 1 + k]))]
                 IN  lines[i].before \o FlattenSeq(row) \o From[end + 1]
            ELSE Plain(lines[i]) \o From[i + 1]
    IN  From[1]

-----------------------------------------------------------------------------
(* The words of a command.  Both wake words of the model wake.             *)

WakeWord == {"xiaopai", "xiaobai"}
SleepWord == {"bye", "rest"}
Filler == {"hello"}

Has(u, W) == \E i \in DOMAIN u : u[i] \in W

HasWakeWord(u) == Has(u, WakeWord)
HasSleepWord(u) == Has(u, SleepWord)

\* is_wake_only_text takes every wake word out, its realtime counterpart the
\* first occurrences of one only.
IsWakeOnly(u) == \A i \in DOMAIN u : u[i] \in WakeWord \cup Filler

\* parse_voice_volume_command: the change, "none" for none.
VolumeCommand(u) ==
    IF ~Has(u, {"volume"}) THEN "none"
    ELSE IF Has(u, {"down"}) THEN IF Has(u, {"most"}) THEN "least" ELSE "down"
    ELSE IF Has(u, {"up"}) THEN IF Has(u, {"most"}) THEN "most" ELSE "up"
    ELSE "none"
=============================================================================

---------------------------- MODULE SpeechSamples ----------------------------
(***************************************************************************)
(* What the functions of SpeechText promise, on sample texts: `sample' is  *)
(* one text of the agent, or one Markdown document, chosen at the start.   *)
(* Each promise is stated with a definition of the result that does not    *)
(* go through the text the way the code does.                              *)
(***************************************************************************)
EXTENDS SpeechText

CONSTANTS
    TextLength,     \* bound on the length of a sample text
    DocumentLength  \* bound on the lines of a sample document

ASSUME SampleAssumption == {TextLength, DocumentLength} \subseteq Nat

VARIABLE sample

\* The lines with up to three cells; the value of a cell is its place.
LineKind ==
    [text : {TRUE}, cells : {<<>>, <<"value", "value">>}, sep : {FALSE}]
    \cup [text : {FALSE}, cells : [1 .. 2 -> {"value", "empty", "blank"}], sep : {FALSE}]
    \cup [text : {FALSE}, cells : {<<"value", "value">>, <<"value", "value", "value">>}, sep : BOOLEAN]
Document(kinds) ==
    [i \in DOMAIN kinds |->
        Line(IF kinds[i].text THEN <<<<i, 0>>>> ELSE <<>>,
             [j \in DOMAIN kinds[i].cells |->
                CASE kinds[i].cells[j] = "value" -> <<i, j>>
                  [] kinds[i].cells[j] = "empty" -> Empty
                  [] kinds[i].cells[j] = "blank" -> Blank],
             kinds[i].sep)]

NoSample == [text |-> <<>>, lines |-> <<>>]
SampleInit ==
    \/ \E n \in 0 .. TextLength : \E s \in [1 .. n -> Char] : sample = [NoSample EXCEPT !.text = s]
    \/ \E n \in 1 .. DocumentLength : \E kinds \in [1 .. n -> LineKind] :
          sample = [NoSample EXCEPT !.lines = Document(kinds)]

-----------------------------------------------------------------------------
\* What is left of a text without its tags: no "<", and nothing after a "<" up
\* to the next ">".
InTag(s, i) == \E j \in 1 .. i - 1 : s[j] = "<" /\ \A k \in j + 1 .. i - 1 : s[k] # ">"
Untagged(s) ==
    LET I == {i \in DOMAIN s : s[i] # "<" /\ ~InTag(s, i)}
    IN  [n \in 1 .. Cardinality(I) |-> s[CHOOSE i \in I : Cardinality({j \in I : j <= i}) = n]]

\* The expression of a text: that of the first tag that names one, if only white
\* space is spoken before it.
Tags(s) ==
    {t \in (1 .. Len(s)) \X (1 .. Len(s)) :
        /\ t[1] < t[2] /\ s[t[1]] = "<" /\ s[t[2]] = ">"
        /\ \A k \in t[1] + 1 .. t[2] - 1 : s[k] \notin {"<", ">"}
        /\ Strip(SubSeq(s, t[1] + 1, t[2] - 1)) \in Expression}
ExpressionOf(s) ==
    IF \E t \in Tags(s) : SpokenIn(Untagged(SubSeq(s, 1, t[1] - 1))) = <<>> THEN <<"h">> ELSE <<>>

Cuts(s) == {<<SubSeq(s, 1, k), SubSeq(s, k + 1, Len(s))>> : k \in 0 .. Len(s)}

\* However a streamed reply is cut into deltas, exactly the text outside its tags
\* is spoken, in pieces that fit the device, under the expression it begins with.
ReplyIsExact ==
    \A deltas \in Cuts(sample.text) :
        LET r == Reply(deltas)
        IN  /\ SpokenIn(FlattenSeq(r.segments)) = SpokenIn(Untagged(sample.text))
            /\ \A i \in DOMAIN r.segments :
                  /\ r.segments[i] # <<>>
                  /\ Len(r.segments[i]) <= MaxChars /\ Bytes(r.segments[i]) <= MaxBytes
            /\ r.expression = ExpressionOf(sample.text)

\* The sentences of a reminder are all of its text, none of them empty or too long.
SentencesAreAll ==
    \A max \in 1 .. 3 :
        LET parts == SplitSentences(sample.text, max)
        IN  /\ SpokenIn(FlattenSeq(parts)) = SpokenIn(sample.text)
            /\ \A i \in DOMAIN parts : parts[i] # <<>> /\ Len(parts[i]) <= max

Values(lines) ==
    FlattenSeq([i \in DOMAIN lines |->
        lines[i].before \o IF lines[i].sep THEN <<>>
                           ELSE SelectSeq(lines[i].cells, LAMBDA c : c \notin {Empty, Blank})])

\* Every value of an answer is spoken once and in order, whichever cells are
\* blank, surplus or missing; only the values right above a separator, which
\* may be headers, are repeated with their cells or left out.
CellsAreSpokenOnce ==
    LET lines == sample.lines
        NoHeader(v) == ~(v[1] + 1 \in DOMAIN lines /\ lines[v[1] + 1].sep)
    IN  SelectSeq(NormalizeMarkdownTables(lines), NoHeader) = SelectSeq(Values(lines), NoHeader)

\* Nothing that is to be spoken is lost, doubled or moved between the agent, or a
\* reminder, and the voice, wherever it is cut and however its tables are filled,
\* and no piece outgrows its limit.
TextIsAllSpoken == ReplyIsExact /\ SentencesAreAll /\ CellsAreSpokenOnce
=============================================================================

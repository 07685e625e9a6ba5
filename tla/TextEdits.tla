------------------------------ MODULE TextEdits ------------------------------
(***************************************************************************)
(* Positions and formatting edits: how the server and the editor count     *)
(* lines and columns (crates/tfls-parser/src/position.rs) and the edits a  *)
(* formatting request is answered with                                     *)
(* (crates/tfls-lsp/src/handlers/formatting.rs).                           *)
(*                                                                         *)
(* A text is a sequence of characters, an offset a number of characters.   *)
(* What the counting tells apart: a character of two UTF-16 units          *)
(* ("astral"), line feed, carriage return, and the characters ropey counts *)
(* as line breaks and editors do not ("ls": LS, PS, NEL, VT, FF).          *)
(***************************************************************************)
EXTENDS Naturals, FiniteSets, Sequences, SequencesExt

CONSTANTS
  MaxText,    \* bounds: the length of a text,
  MaxResult   \* ... and of what the formatter makes of it

Characters == {"a", "astral", "lf", "cr", "ls"}
\* What the formatter puts for something else; what the user types meanwhile.
FormatterCharacters == {"f", "lf", "ls"}
Typed == <<"u", "u">>

VARIABLES
  asked,     \* the text the server formats
  kept,      \* the lines of it, and of the result, that the diff paired
  goal,      \* the text that should come of it
  edits,     \* the answer
  buffer,    \* the text in the editor
  step

editVars == <<asked, kept, goal, edits, buffer, step>>

-----------------------------------------------------------------------------
(* Lines.  `breaks' is where the lines of a text end.                      *)

LineFeeds(s) == {i \in DOMAIN s : s[i] = "lf"}

LoneReturns(s) ==
  {i \in DOMAIN s : s[i] = "cr" /\ ~(i < Len(s) /\ s[i + 1] = "lf")}

(* line_start_bytes: the server's lines end in a line feed only.           *)
ServerBreaks(s) == LineFeeds(s)

(* The editor, and `similar', break at CR, LF and CR LF.                   *)
EditorBreaks(s) == LineFeeds(s) \cup LoneReturns(s)

(* ropey with its default feature unicode_lines.                           *)
RopeyBreaks(s) == EditorBreaks(s) \cup {i \in DOMAIN s : s[i] = "ls"}

LineCount(breaks) == 1 + Cardinality(breaks)

\* The offset at which line k begins; line 0 begins at 0.
StartOf(breaks, k) ==
  CHOOSE o \in breaks \cup {0} : Cardinality({b \in breaks : b <= o}) = k

LineAt(breaks, offset) == Cardinality({b \in breaks : b <= offset})

EndOf(s, breaks, k) == IF k + 1 < LineCount(breaks) THEN StartOf(breaks, k + 1) ELSE Len(s)

Between(s, from, to) == SubSeq(s, from + 1, to)

(* Faulty: columns in characters.                                          *)
WidthInCharacters(s) == Len(s)

(* UTF-16 code units.                                                      *)
Width(s) == Len(s) + Cardinality({i \in DOMAIN s : s[i] = "astral"})

-----------------------------------------------------------------------------
(* The server's conversions.                                               *)

\* The end of a line without its line feed and the return before it.
VisibleEnd(s, k) ==
  LET from == StartOf(ServerBreaks(s), k)
      to == EndOf(s, ServerBreaks(s), k)
      ends == to > from /\ s[to] = "lf"
  IN  IF ~ends THEN to
      ELSE IF to - 1 > from /\ s[to - 1] = "cr" THEN to - 2 ELSE to - 1

(* lsp_position_to_byte_offset: a column past the end is the end; one      *)
(* inside a surrogate pair is the pair's beginning.                        *)
OffsetOf(s, position) ==
  LET from == StartOf(ServerBreaks(s), position.line)
  IN  CHOOSE o \in from .. VisibleEnd(s, position.line) :
        /\ Width(Between(s, from, o)) <= position.character
        /\ \A p \in o + 1 .. VisibleEnd(s, position.line) :
             Width(Between(s, from, p)) > position.character

(* byte_offset_to_lsp_position                                             *)
PositionOf(s, offset) ==
  LET line == LineAt(ServerBreaks(s), offset)
  IN  [line |-> line,
       character |-> Width(Between(s, StartOf(ServerBreaks(s), line), offset))]

-----------------------------------------------------------------------------
(* The editor's.                                                           *)

\* The units before an offset, counted on their own.
UnitsOf(s) == Cardinality({unit \in (DOMAIN s) \X {1, 2} :
                             unit[2] = 1 \/ s[unit[1]] = "astral"})

\* Not between a return and its line feed.
CursorOffsets(s) ==
  {o \in 0 .. Len(s) : ~(o > 0 /\ o < Len(s) /\ s[o] = "cr" /\ s[o + 1] = "lf")}

EditorPosition(s, offset) ==
  LET line == LineAt(EditorBreaks(s), offset)
  IN  [line |-> line,
       character |-> UnitsOf(Between(s, StartOf(EditorBreaks(s), line), offset))]

(* An editor takes a position past the last line, or past the end of its   *)
(* line, for the end.                                                      *)
EditorOffset(s, position) ==
  LET line == position.line
      onLine == {o \in CursorOffsets(s) : LineAt(EditorBreaks(s), o) = line}
      reached == {o \in onLine : EditorPosition(s, o).character <= position.character}
  IN  IF line >= LineCount(EditorBreaks(s)) THEN Len(s)
      ELSE CHOOSE o \in reached : \A p \in reached : p <= o

Replaced(s, from, to, by) == Between(s, 0, from) \o by \o Between(s, to, Len(s))

(* All ranges of an answer mean the text as it was.  They do not overlap   *)
(* and ascend: what lies between them stays.                               *)
AppliedTo(s, answer) ==
  LET from(i) == IF i > Len(answer) THEN Len(s) ELSE EditorOffset(s, answer[i].start)
      to(i) == EditorOffset(s, answer[i].end)
  IN  Between(s, 0, from(1))
        \o FlattenSeq([i \in DOMAIN answer |->
                         answer[i].text \o Between(s, to(i), from(i + 1))])

-----------------------------------------------------------------------------
(* The diff: any pairing in order of equal lines (similar).                *)

\* The lines of a text with their ends; an empty rest is no line.
LinesOf(s) ==
  LET breaks == EditorBreaks(s)
      count == Cardinality({0} \cup (breaks \ {Len(s)}))
  IN  IF s = <<>> THEN <<>>
      ELSE [k \in 1 .. count |->
              Between(s, StartOf(breaks, k - 1), EndOf(s, breaks, k - 1))]

InOrder(pairs) == \A p, q \in pairs : p # q => (p[1] < q[1] <=> p[2] < q[2]) /\ p[1] # q[1]

Pairings(old, new) ==
  {pairs \in SUBSET {p \in (DOMAIN old) \X (DOMAIN new) : old[p[1]] = new[p[2]]} : InOrder(pairs)}

(* Faulty: the line after it.                                              *)
LinePositionAfter(s, k) ==
  PositionOf(s, IF k + 1 < LineCount(RopeyBreaks(s)) THEN StartOf(RopeyBreaks(s), k + 1)
                                                     ELSE Len(s))

(* line_pos: the beginning of ropey's line k.                              *)
LinePosition(s, k) ==
  PositionOf(s, IF k < LineCount(RopeyBreaks(s)) THEN StartOf(RopeyBreaks(s), k) ELSE Len(s))

(* minimal_text_edits: one edit for whatever lies between two paired lines *)
MinimalEdits(old, new, pairs) ==
  LET newLines == LinesOf(new)
      ends == pairs \cup {<<0, 0>>, <<Len(LinesOf(old)) + 1, Len(newLines) + 1>>}
      after(p) == CHOOSE q \in ends : q[1] > p[1] /\ \A r \in ends : r[1] > p[1] => q[1] <= r[1]
      gaps == {p \in ends : p[1] <= Len(LinesOf(old))
                            /\ (after(p)[1] > p[1] + 1 \/ after(p)[2] > p[2] + 1)}
      edit(p) == [start |-> LinePosition(old, p[1]),
                  end |-> LinePosition(old, after(p)[1] - 1),
                  text |-> FlattenSeq(SubSeq(newLines, p[2] + 1, after(p)[2] - 1))]
      inTurn(i) == CHOOSE p \in gaps : Cardinality({q \in gaps : q[1] <= p[1]}) = i
  IN  [i \in 1 .. Cardinality(gaps) |-> edit(inTurn(i))]

EndsLine(s) == s # <<>> /\ s[Len(s)] = "lf"

(* match_trailing_newline: the formatter ends its result in a line feed.   *)
MatchTrailingNewline(formatted, slice) ==
  IF EndsLine(slice) THEN formatted
  ELSE LET rest == {n \in 0 .. Len(formatted) : \A i \in n + 1 .. Len(formatted) :
                                                  formatted[i] = "lf"}
       IN  Between(formatted, 0, CHOOSE n \in rest : \A m \in rest : n <= m)
-----------------------------------------------------------------------------
Strings(characters, n) == UNION {[1 .. k -> characters] : k \in 0 .. n}

LineBecomes(lines, k, by) == FlattenSeq([lines EXCEPT ![k] = by])

(* What the formatter may make of a text: some of its lines, and others.   *)
Results(s) ==
  {r \o <<"lf">> : r \in Strings(FormatterCharacters, MaxResult)}
    \cup {LineBecomes(LinesOf(s), k, by) :
            k \in DOMAIN LinesOf(s), by \in {<<>>, <<"f", "lf">>, <<"lf", "f", "lf">>}}

EditsInit ==
  /\ asked \in Strings(Characters, MaxText)
  /\ buffer = asked
  /\ kept = {} /\ goal = asked
  /\ edits = <<>>
  /\ step = "idle"

(* formatting: an empty answer when nothing changes.                       *)
FormatWhole ==
  /\ step = "idle"
  /\ \E formatted \in Results(asked) :
       \E pairs \in Pairings(LinesOf(asked), LinesOf(formatted)) :
         /\ goal' = formatted
         /\ kept' = IF formatted = asked THEN {<<i, i>> : i \in DOMAIN LinesOf(asked)}
                                         ELSE pairs
         /\ edits' = IF formatted = asked THEN <<>> ELSE MinimalEdits(asked, formatted, pairs)
  /\ step' = "answered"
  /\ UNCHANGED <<asked, buffer>>

\* Positions past the last line of the server are an error.
Readable(s, position) == position.line < LineCount(ServerBreaks(s))

(* range_formatting takes the range from the editor; on_type_formatting    *)
(* takes a block's, in the server's positions.                             *)
PositionsBy(side, s, offset) ==
  IF side = "editor" THEN EditorPosition(s, offset) ELSE PositionOf(s, offset)

FormatRange(side) ==
  /\ step = "idle"
  /\ \E from, to \in CursorOffsets(asked) :
       LET start == PositionsBy(side, asked, from)
           end == PositionsBy(side, asked, to)
           slice == Between(asked, OffsetOf(asked, start), OffsetOf(asked, end))
       IN  /\ from < to /\ Readable(asked, start) /\ Readable(asked, end)
           /\ OffsetOf(asked, start) <= OffsetOf(asked, end)
           /\ \E f \in {<<"f", "lf">>, <<"f", "lf", "lf">>} :
                LET formatted == MatchTrailingNewline(f, slice) IN
                  /\ edits' = <<[start |-> start, end |-> end, text |-> formatted]>>
                  /\ goal' = Replaced(asked, from, to,
                               IF EndsLine(slice) THEN f ELSE <<"f">>)
  /\ kept' = {}
  /\ step' = "ranged"
  /\ UNCHANGED <<asked, buffer>>

(* Meanwhile the user changes a line the formatter leaves alone.           *)
UserEdits ==
  /\ step = "answered"
  /\ \E p \in kept :
       LET breaks == EditorBreaks(asked)
           from == StartOf(breaks, p[1] - 1)
           to == EndOf(asked, breaks, p[1] - 1)
           contents == IF to \notin breaks THEN to
                       ELSE IF to - 1 > from /\ asked[to - 1] = "cr" /\ asked[to] = "lf"
                            THEN to - 2 ELSE to - 1
       IN  /\ buffer' = Replaced(asked, from, contents, Typed)
           /\ goal' = LineBecomes(LinesOf(goal), p[2], Typed \o Between(asked, contents, to))
  /\ step' = "edited"
  /\ UNCHANGED <<asked, kept, edits>>

EditorApplies ==
  /\ step \in {"answered", "edited", "ranged"}
  /\ buffer' = AppliedTo(buffer, edits)
  /\ step' = "applied"
  /\ UNCHANGED <<asked, kept, goal, edits>>

EditsNext ==
  \/ FormatWhole \/ FormatRange("editor") \/ FormatRange("server")
  \/ UserEdits \/ EditorApplies

EditsSpec == EditsInit /\ [][EditsNext]_editVars
-----------------------------------------------------------------------------
(* The server and the editor mean the same place: every offset the server  *)
(* reports, and every cursor the editor sends, past the end of a line or   *)
(* not, comes out where it was meant, whatever characters and breaks come  *)
(* before it (position.rs:7-16).  A return without a line feed is the one  *)
(* break the server does not count (position.rs:21-25).                    *)
PositionsAgree ==
  LoneReturns(asked) = {} =>
    \A o \in CursorOffsets(asked) :
      /\ EditorOffset(asked, PositionOf(asked, o)) = o
      /\ OffsetOf(asked, EditorPosition(asked, o)) = o
      /\ \A past \in 0 .. 2 :
           LET beyond == [EditorPosition(asked, o) EXCEPT !.character = @ + past]
           IN  OffsetOf(asked, beyond) = EditorOffset(asked, beyond)

(* Applied, the edits give the formatted text, and a line the user changed *)
(* meanwhile, which the formatter left alone, is as the user left it       *)
(* (formatting.rs:57-62).  Excepted are texts with a break that ropey or   *)
(* the editor counts and the server's positions do not: there line_pos     *)
(* names another line than the diff did.                                   *)
Counted(s) == RopeyBreaks(s) = ServerBreaks(s)

EditsGiveFormatted == step = "applied" /\ Counted(asked) => buffer = goal
=============================================================================

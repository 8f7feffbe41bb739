----------------------------- MODULE TextLayout -----------------------------
(***************************************************************************)
(* How eedit turns the text of a buffer into a screen: the pipeline of     *)
(* build_layout (core/text_layout.cpp), whose stages are the text decoder, *)
(* the tab expansion, the mark filter and the screen mode, and the screen  *)
(* they fill (api/src/screen.cpp).                                         *)
(*                                                                         *)
(* The font is monospaced: every glyph is as wide as the space.  The       *)
(* stages pass chunks of 1024 code points; each keeps its state from one   *)
(* chunk to the next, so the model passes the code points one by one.  A   *)
(* code point's index in its line matters only modulo the width of a tab   *)
(* stop.                                                                   *)
(***************************************************************************)
EXTENDS Naturals, Sequences, FiniteSets, SequencesExt

CONSTANTS
  Expansion,   \* the width of a tab stop, in cells (8 in the code)
  HAdvance,    \* the width of a glyph, in pixels
  VAdvance     \* the height of a line, in pixels

ASSUME LayoutAssumption ==
  /\ Expansion \in Nat \ {0}
  /\ HAdvance \in Nat \ {0}
  /\ VAdvance \in Nat \ {0}

\* What the layout tells apart: a letter, an end of line (\n and \r are
\* laid out alike), a tab.
Char == {"letter", "newline", "tab"}

\* A codepoint_info_s that says where a layout starts: the offset of the first
\* code point, how many cells of it (a tab) are above the screen, and its index
\* in its line.
Start(o, s, i) == [off |-> o, split |-> s, index |-> i]

\* codepoint_info_reset sets cp_index to u64(-1).
ResetIndex == Expansion - 1

\* One code point of the pipeline and one cell of the screen; the end of the
\* buffer is a selected space behind the last code point.
EndOfBuffer(text) ==
  [ch |-> "end", off |-> Len(text), split |-> 0, index |-> 0, sel |-> TRUE]

\* The ascii codec decodes one code point of one byte: what is at an offset, if
\* the buffer has it.
ReadForward(text, o) == IF o >= Len(text) THEN <<>> ELSE <<text[o + 1]>>

\* The text decoder, at a position [off, split, index]: only the first code
\* point of the screen takes the start's split, and the index begins again
\* after each end of line.
Decode(text, at) ==
  IF ReadForward(text, at.off) = <<>> THEN EndOfBuffer(text)
  ELSE [ch |-> Head(ReadForward(text, at.off)), off |-> at.off, split |-> at.split, index |-> at.index,
        sel |-> FALSE]

After(c) == Start(c.off + 1, 0, IF c.ch = "newline" THEN 0 ELSE (c.index + 1) % Expansion)

\* The tab expansion: a tab fills its line up to the next stop, or what its
\* split leaves of it.
Filled(c) == IF c.split # 0 THEN c.split ELSE c.index % Expansion

ExpandTab(c) ==
  IF c.ch # "tab" THEN <<[c EXCEPT !.split = 0]>>
  ELSE [n \in 1 .. (Expansion - Filled(c)) |->
          [c EXCEPT !.split = Filled(c) + n - 1, !.sel = TRUE]]

\* A split beyond the stop makes the count of cells wrap around: the loop
\* writes behind the pipeline's array.
Overflows(text, cpi) ==
  /\ cpi.off < Len(text)
  /\ text[cpi.off + 1] = "tab"
  /\ cpi.split > Expansion

\* The mark filter selects the first cell of the code point at the mark.  A mark
\* before the start of the layout is dropped.
MarkFirst(cells, mark) ==
  IF cells # <<>> /\ cells[1].off = mark THEN [cells EXCEPT ![1].sel = TRUE] ELSE cells

-----------------------------------------------------------------------------
\* The screen mode.  dim is the area in pixels; the pen is at pixel (x, y) of
\* line Len(lines).
PenDown(pen) == [pen EXCEPT !.x = 0, !.y = @ + VAdvance, !.lines = Append(@, <<>>)]

\* filter_codepoint: what is shown is a glyph or a space; an end of line moves
\* the pen.
EndsLine(c) == c.ch = "newline"

\* screen_put_cp: the next cell of the line is used.
PutCell(pen, c) == [pen EXCEPT !.x = @ + HAdvance, !.lines[Len(pen.lines)] = Append(@, c)]

AtBottom(pen, dim) == pen.y + VAdvance >= dim.h
Fits(pen, dim)     == pen.x + HAdvance < dim.w

\* Mutant: a code point that does not fit is lost at the end of its line.
PutLosesLast(pen, c, dim) ==
  IF AtBottom(pen, dim) \/ dim.w <= HAdvance THEN [pen EXCEPT !.full = TRUE]
  ELSE IF ~Fits(pen, dim) THEN PenDown(pen)
  ELSE IF EndsLine(c) THEN PenDown(PutCell(pen, c))
  ELSE PutCell(pen, c)

\* A code point that does not fit is tried again at the start of the next line;
\* on a screen narrower than a glyph it never fits.
Put(pen, c, dim) ==
  LET at   == IF Fits(pen, dim) THEN pen ELSE PenDown(pen)
      here == PutCell(at, c)
  IN IF AtBottom(pen, dim) \/ AtBottom(at, dim) \/ ~Fits(at, dim)
       THEN [pen EXCEPT !.full = TRUE]
     ELSE IF EndsLine(c) \/ here.x >= dim.w THEN PenDown(here)
     ELSE here

PutUnlessFull(pen, c, dim) == IF pen.full THEN pen ELSE Put(pen, c, dim)

\* The cells of a chunk, until the screen is full: the pen after each of them.
PutAll(pen, cells, dim) ==
  LET put[k \in 0 .. Len(cells)] == IF k = 0 THEN pen ELSE PutUnlessFull(put[k - 1], cells[k], dim)
  IN  put[Len(cells)]

NewPen == [x |-> 0, y |-> 0, lines |-> <<(<<>>)>>, full |-> FALSE]

NewRun(at) == [pen |-> NewPen, at |-> at, done |-> FALSE]

\* One code point through all the stages.  The stages run until the screen is
\* full or the end of the buffer has passed.
Turn(run, text, mark, dim) ==
  LET c   == Decode(text, run.at)
      pen == PutAll(run.pen, MarkFirst(ExpandTab(c), mark), dim)
  IN  IF run.done THEN run
      ELSE [pen |-> pen, at |-> After(c), done |-> pen.full \/ c.ch = "end"]

\* build_layout: each turn but the last takes one code point of the text.
RunPipeline(text, cpi, mark, dim) ==
  LET run[k \in 0 .. Len(text) + 1] ==
        IF k = 0 THEN NewRun(cpi) ELSE Turn(run[k - 1], text, mark, dim)
  IN  run[Len(text) + 1].pen

\* The used lines of the screen, top to bottom, each a sequence of cells: the
\* pen may have moved to a line that stays empty.
Used(lines) == IF Last(lines) = <<>> THEN Front(lines) ELSE lines

Layout(text, cpi, mark, dim) == Used(RunPipeline(text, cpi, mark, dim).lines)

\* What maximize_screen and setup_screen_by_id compute: a line and a column for
\* the pixels that remain.
DivUp(n, d) == n \div d + (IF n % d # 0 THEN 1 ELSE 0)
Rows(dim) == DivUp(dim.h, VAdvance)
Cols(dim) == DivUp(dim.w, HAdvance)

-----------------------------------------------------------------------------
\* Queries of a screen with at least one used line.
FirstCell(screen) == screen[1][1]
LastCell(screen)  == Last(Last(screen))

\* Mutant: the next screen starts where this one does.
FirstLineStart(screen) ==
  LET c == FirstCell(screen) IN Start(c.off, c.split, c.index)

\* The start of a next screen: the first cell of the last line.
LastLineStart(screen) ==
  LET c == Last(screen)[1] IN Start(c.off, c.split, c.index)

ContainsOffset(screen, o) == FirstCell(screen).off <= o /\ o <= LastCell(screen).off

HasLineOf(screen, o) ==
  /\ ContainsOffset(screen, o)
  /\ \E l \in 1 .. Len(screen) : o <= Last(screen[l]).off /\ \E k \in DOMAIN screen[l] : screen[l][k].off = o
=============================================================================

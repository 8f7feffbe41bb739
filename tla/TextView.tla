------------------------------ MODULE TextView ------------------------------
(***************************************************************************)
(* One buffer of eedit, its view and the screen the core keeps of it,      *)
(* under the commands the default input map binds: the edits at the        *)
(* moving mark (modules/mode/marks/marks_mode.cpp), the moves by pages     *)
(* (modules/mode/text/text_mode.cpp), and the layout and RPC events of the *)
(* user interface (core/core.cpp, core/rpc/rpc.cpp).                       *)
(*                                                                         *)
(* process_event clears the view's flags, runs the command, and lays out a *)
(* new screen when the command set the refresh flag; the layout sets the   *)
(* view's start offset to that of its start_cpi, so the model keeps the    *)
(* start_cpi only.  Commands that change nothing are left out.             *)
(***************************************************************************)
EXTENDS TextLayout

CONSTANTS
  Opened,    \* what is opened: [text |-> a file, dim |-> a screen in pixels]
  MaxLen,    \* bound: nothing is inserted into a text of this length
  Garbage    \* the starts a page up may find in its uninitialised start_cpi

ASSUME ViewAssumption ==
  /\ \A o \in Opened : o.text \in Seq(Char) /\ {o.dim.w, o.dim.h} \subseteq Nat \ {0}
  /\ MaxLen \in Nat
  /\ \A g \in Garbage : g.split \in Nat /\ g.index \in 0 .. Expansion - 1

VARIABLES
  text,     \* the bytes of the buffer, as Char
  mark,     \* the offset of the buffer's moving mark
  dim,      \* the dimension in the view's screen cache
  cpi,      \* the view's start_cpi
  screen,   \* the last screen: a sequence of lines
  fault     \* "none", or how the core stopped

vars == <<text, mark, dim, cpi, screen, fault>>

Faults == {"none", "unused_cell", "start_after_end", "no_progress",
           "overflow", "not_shown", "searching", "line_not_found"}

\* The state after the first layout event, which set up the screen.
Init ==
  /\ \E o \in Opened : text = o.text /\ dim = o.dim
  /\ mark = 0
  /\ cpi = Start(0, 0, ResetIndex)
  /\ screen = Layout(text, cpi, mark, dim)
  /\ fault = "none"

Running == fault = "none"

\* notify_buffer_changes, when the command set the view's refresh flag.
Refresh == screen' = Layout(text', cpi', mark', dim')

Fail(f) == fault' = f /\ UNCHANGED <<text, mark, dim, cpi, screen>>

-----------------------------------------------------------------------------
(* mark_operation: insert, move, delete, in this order, at the one moving   *)
(* mark a buffer has.  The steps work on the buffer's text and its mark.    *)
WriteBytes(b, c) == IF b.mark > Len(b.text) THEN b ELSE [b EXCEPT !.text = InsertAt(@, b.mark + 1, c)]

RemoveBytes(b) == IF b.mark >= Len(b.text) THEN b ELSE [b EXCEPT !.text = RemoveAt(@, b.mark + 1)]

\* ascii_read_backward: the code point before the mark is one byte back.
Backward(b) == [b EXCEPT !.mark = @ - 1]

Forward(b) == IF ReadForward(b.text, b.mark) = <<>> THEN b ELSE [b EXCEPT !.mark = @ + 1]

Here == [text |-> text, mark |-> mark]

MarkOperation(b) ==
  /\ text' = b.text
  /\ mark' = b.mark
  /\ UNCHANGED <<dim, cpi, fault>>
  /\ Refresh

\* insert_codepoint and insert_newline.
Insert(c) ==
  /\ Running
  /\ Len(text) < MaxLen
  /\ MarkOperation(Forward(WriteBytes(Here, c)))

\* Mutant: a move of the mark does not set the refresh flag.
MoveBackwardUnseen ==
  Running /\ mark > 0 /\ mark' = mark - 1 /\ UNCHANGED <<text, dim, cpi, screen, fault>>

MoveBackward == Running /\ mark > 0 /\ MarkOperation(Backward(Here))

MoveForward == Running /\ MarkOperation(Forward(Here))

\* At the start of the buffer the move is refused and nothing is deleted.
DeleteLeft == Running /\ mark > 0 /\ MarkOperation(RemoveBytes(Backward(Here)))

DeleteRight == Running /\ MarkOperation(RemoveBytes(Here))

-----------------------------------------------------------------------------
(* The commands that choose where the next screen starts.                   *)
ShowFrom(start) ==
  /\ cpi' = start
  /\ UNCHANGED <<text, mark, dim, fault>>
  /\ Refresh

\* The last line becomes the first of the next screen, unless the end of the
\* buffer is shown.
PageDown ==
  /\ Running
  /\ IF screen = <<>> THEN Fail("unused_cell")
     ELSE /\ LastCell(screen).off # Len(text)
          /\ ShowFrom(LastLineStart(screen))

GotoBeginning == Running /\ ShowFrom(Start(0, 0, ResetIndex))

GotoEnd == Running /\ ShowFrom(Start(Len(text), 0, ResetIndex))

\* The RPC set_screen_id_start_offset, sent by the scroll bar.
SetStartOffset(o) ==
  /\ Running
  /\ LET target == IF o > Len(text) THEN Len(text) ELSE o
     IN target # cpi.off /\ ShowFrom(Start(target, 0, ResetIndex))

-----------------------------------------------------------------------------
(* page_up: rewind by two screens of code points, lay out one screen after  *)
(* the other until the old start is shown, find its line in the list of     *)
(* lines and start some lines above it.                                     *)
Rewind(o) ==
  LET max == 2 * Rows(dim) * Cols(dim) IN IF max >= o THEN 0 ELSE o - max

\* The offsets of the first and last cell of each line of a screen.
LineOffsets(scr) == [l \in DOMAIN scr |-> [first |-> scr[l][1].off, last |-> Last(scr[l]).off]]

\* build_screen_line_list: one screen after the other until the old start is
\* shown.  Every screen but the first begins with the last line of the one before
\* it, so that line is in the list twice.
NextScreen(list, until) ==
  LET scr  == Layout(text, list.start, mark, dim)
      all  == list.lines \o LineOffsets(scr)
      ends(f) == [start |-> list.start, lines |-> all, fault |-> f]
  IN IF list.fault # "searching" THEN list
     ELSE IF Overflows(text, list.start)
       THEN [start |-> list.start, lines |-> list.lines, fault |-> "overflow"]
     ELSE IF scr = <<>> THEN ends("unused_cell")
     ELSE IF HasLineOf(scr, until) THEN ends("none")
     ELSE IF until < FirstCell(scr).off \/ ContainsOffset(scr, until) THEN ends("not_shown")
     ELSE IF LastLineStart(scr) = list.start THEN ends("no_progress")
     ELSE [start |-> LastLineStart(scr), lines |-> all, fault |-> "searching"]

\* No text has more starts of screens than cells.
MaxScreens == Expansion * (Len(text) + 1) + 1

NewList(start) == [start |-> start, lines |-> <<>>, fault |-> "searching"]

LineList(start, until) ==
  LET list[k \in 0 .. MaxScreens] ==
        IF k = 0 THEN NewList(start) ELSE NextScreen(list[k - 1], until)
  IN  list[MaxScreens]

\* Mutant: near the top of the list the index stays where it is.
StepBackOrStay(n) == LET h == Rows(dim) + 1 IN IF n - 1 >= h THEN n - h ELSE n

\* The code steps back one line more than the screen has, the unused line at
\* the bottom included.
StepBack(n) == LET h == Rows(dim) + 1 IN IF n - 1 >= h THEN n - h ELSE 1

PageTo(f, o) == [fault |-> f, start |-> Start(o, 0, ResetIndex)]

\* The start that a list of lines gives: some lines above the last line of the
\* list that shows the old start.
StartAbove(list) ==
  LET at == {n \in DOMAIN list.lines : list.lines[n].first <= cpi.off /\ cpi.off <= list.lines[n].last}
  IN IF list.fault # "none" THEN PageTo(list.fault, 0)
     ELSE IF at = {} THEN PageTo("line_not_found", 0)
     ELSE PageTo("none", list.lines[StepBack(Max(at))].first)

PageUpFrom(g) ==
  LET from  == Rewind(cpi.off)
      until == IF cpi.off > Len(text) THEN Len(text) ELSE cpi.off
  IN IF from > until THEN PageTo("start_after_end", 0)
     ELSE StartAbove(LineList(Start(from, g.split, g.index), until))

PageUp ==
  /\ Running
  /\ cpi.off # 0
  /\ \E g \in Garbage :
       LET r == PageUpFrom(g) IN IF r.fault = "none" THEN ShowFrom(r.start) ELSE Fail(r.fault)

-----------------------------------------------------------------------------
Next ==
  \/ \E c \in Char : Insert(c)
  \/ MoveBackward
  \/ MoveForward
  \/ DeleteLeft
  \/ DeleteRight
  \/ PageDown
  \/ PageUp
  \/ GotoBeginning
  \/ GotoEnd
  \/ \E o \in 0 .. Len(text) + 1 : SetStartOffset(o)

Spec == Init /\ [][Next]_vars

-----------------------------------------------------------------------------
(* Properties.                                                              *)

\* The cell after c, when the screen goes on.
Follows(c, d) ==
  IF c.ch = "tab" /\ c.split < Expansion - 1
    THEN d.off = c.off /\ d.split = c.split + 1
    ELSE d.off = c.off + 1

\* The screen shows the text from the view's start on, every code point once,
\* every cell of a tab, in order; a line ends at an end of line or at the right
\* border, and the screen at its last line or at the end of the buffer.  The
\* scroll bar, the mouse and the page moves read offsets from these cells.
ShowsTextInOrder ==
  (fault = "none" /\ screen # <<>>) =>
    /\ FirstCell(screen).off = IF cpi.off > Len(text) THEN Len(text) ELSE cpi.off
    /\ \A l \in DOMAIN screen :
         LET line == screen[l]
         IN  /\ \A k \in 1 .. Len(line) - 1 :
                  Follows(line[k], line[k + 1]) /\ line[k].ch # "newline"
             /\ l < Len(screen) =>
                  /\ Follows(Last(line), screen[l + 1][1])
                  /\ Last(line).ch = "newline" \/ Len(line) = Cols(dim) - 1
             /\ \A k \in DOMAIN line : line[k].off = mark => line[k].sel
    /\ LastCell(screen).ch = "end" \/ Len(screen) = Rows(dim) - 1

\* The screen the core keeps, and has sent, is the one of the text, the mark and
\* the start as they are: no command forgets the refresh flag.
ScreenIsCurrent == fault = "none" => screen = Layout(text, cpi, mark, dim)

\* A page up moves the view up and never down; it may stay where it is when the
\* text has tabs, one that fills several lines or one that the garbage in the
\* rewound start makes vanish.
PageUpGoesUp ==
  (fault = "none" /\ cpi.off # 0) =>
    \A g \in Garbage :
      LET r == PageUpFrom(g)
      IN r.fault = "none" =>
           \/ r.start.off < cpi.off
           \/ r.start.off = cpi.off /\ \E p \in DOMAIN text : text[p] = "tab"

\* Each way to stop the core has one cause, and the screens a page up lays out
\* always get to the old start: a start behind the end of a text
\* that has shrunk, a screen of one line, a screen smaller than a glyph, a tab
\* where the rewound layout starts.
FaultsHaveACause ==
  /\ fault = "line_not_found"  => cpi.off > Len(text)
  /\ fault = "start_after_end" => cpi.off > Len(text) + 2 * Rows(dim) * Cols(dim)
  /\ fault = "no_progress"     => Len(screen) = 1
  /\ fault = "unused_cell"     => screen = <<>>
  /\ fault \notin {"not_shown", "searching"}
  /\ fault = "overflow" =>
       Rewind(cpi.off) < Len(text) /\ text[Rewind(cpi.off) + 1] = "tab"
=============================================================================

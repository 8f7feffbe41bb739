------------------------------ MODULE MainWindow ------------------------------
(***************************************************************************)
(* The editor's window under ew: its widgets, built by the constructors    *)
(* and on_create of main_window (ui/ew/main_window.cpp), the dispatch of   *)
(* the window's events to them (widget.cpp, on_event), the scroll bar      *)
(* (ui/ew/scroll_bar.cpp) and the text view's part of the conversation     *)
(* with the core (ui/ew/text_view.hpp).  All of it runs in the thread of   *)
(* the user interface; the X server and the core are the environment.      *)
(*                                                                         *)
(* A ratio of the scroll bar is a whole number of parts of Parts.  The     *)
(* widgets' places are in pixels.                                          *)
(***************************************************************************)
EXTENDS Integers, Sequences, FiniteSets

CONSTANTS Points,     \* where the pointer can be
          Buttons,    \* all but 4 and 5, the wheel
          Sizes,      \* the sizes the window can have
          BarHeight,  \* the height of the tab bar and of the status bar
          BarWidth,   \* the width of the line numbers and of the scroll bar
          MinThumb,   \* the smallest height of the scroll bar's thumb
          Parts,      \* the parts a ratio is counted in
          Word,       \* the number of values of a length
          MaxDraws,   \* bound on the draw events waiting
          Null

-------------------------------------------------------------------------------
(***************************************************************************)
(* The widgets, in the order their constructors add them.                  *)
(***************************************************************************)

Kids == [win |-> <<"tabs", "view", "status">>,
         view |-> <<"lines", "text", "area">>,
         area |-> <<"bar">>,
         tabs |-> <<>>, status |-> <<>>, lines |-> <<>>, text |-> <<>>, bar |-> <<>>]

Rows == {"win", "area"}
Columns == {"view", "tabs"}
Fixed == [w |-> {"lines", "area"}, h |-> {"tabs", "status"}]

INSTANCE WidgetTree

\* What is no widget and no screen.
ASSUME NullAssumption == Null \notin Widgets
ASSUME ScreenAssumption == Null \notin [begin : 0 .. Parts, end : 0 .. Parts]
ASSUME PointsAssumption == Points \subseteq Int \X Int
ASSUME LengthsAssumption ==
  /\ BarHeight \in Nat \ {0} /\ BarWidth \in Nat \ {0} /\ MinThumb \in Nat
  /\ Parts \in Nat \ {0} /\ Word \in Nat \ {0} /\ MaxDraws \in Nat
ASSUME SizesAssumption == Sizes \subseteq (1 .. Word - 1) \X (1 .. Word - 1)

VARIABLES created,   \* on_create has run
          laidOut,   \* the last size that was laid out left room for all
          geo,       \* place and size of each widget
          selected,  \* last_selected_child of the window
          focused,   \* last_focused_child of the window
          told,      \* the widgets told of a focus in and of no focus out since
          pressedOn, \* the widget each button that is down was pressed on
          cut,       \* a button was released while another was down
          bar,       \* the scroll bar: ratios, thumb and pointer
          text,      \* the text view: handshake, buffer, screen
          draws,     \* draw events waiting in the display's queue
          sent,      \* what the last event sent to the core
          fault      \* the assertion that has stopped the program

input == <<selected, focused, told, pressedOn, cut>>
vars == <<created, laidOut, geo, input, bar, text, draws, sent, fault>>

\* An event is sent with the buffer or, as the first question, without need of
\* one; a click is also sent without the buffer it needs, and stops the core.
Quiet == "nothing"

Init ==
  /\ created = FALSE
  /\ laidOut = FALSE
  /\ geo = [w \in Widgets |-> [x |-> 0, y |-> 0, w |-> 0, h |-> 0]]
  /\ selected = Null /\ focused = Null /\ told = {}
  /\ pressedOn = [b \in Buttons |-> Null]
  /\ cut = FALSE
  /\ bar = [begin |-> 0, end |-> 0, y |-> 0, h |-> 0,
            w |-> 0, over |-> FALSE, pressed |-> FALSE, grip |-> 0]
  /\ text = [asked |-> FALSE, buffer |-> FALSE, screen |-> Null, pending |-> FALSE]
  /\ draws = 0
  /\ sent = Quiet
  /\ fault = "none"

-------------------------------------------------------------------------------
(***************************************************************************)
(* Creation and sizes.                                                     *)
(***************************************************************************)

\* on_create gives every widget a first size and no place: until a first resize
\* they all lie in the upper left corner, over each other.
Create(w, h) ==
  /\ ~created
  /\ created' = TRUE
  /\ geo' = [c \in Widgets |->
               [x |-> 0, y |-> 0,
                w |-> IF c \in {"lines", "area", "bar"} THEN BarWidth ELSE w,
                h |-> IF c \in {"tabs", "status"} THEN BarHeight
                      ELSE IF c = "bar" THEN 0 ELSE h]]
  /\ text' = [text EXCEPT !.asked = TRUE]
  /\ sent' = "event"
  /\ UNCHANGED <<laidOut, input, bar, draws, fault>>

\* The layout reaches the text view, which then asks for a new screen.
Room(w, h) == w >= 2 * BarWidth /\ h > 2 * BarHeight

Ready == created /\ fault = "none"

\* Without a button down the pointer is reported inside the window.
Reported(x, y) == (x >= 0 /\ y >= 0) \/ \E b \in Buttons : pressedOn[b] # Null

\* The window's own lengths are set even when the layout does nothing.
Resize(w, h) ==
  /\ Ready
  /\ geo' = Resized([geo EXCEPT !["win"].w = w, !["win"].h = h], "win", w, h)
  /\ laidOut' = Room(w, h)
  /\ sent' = IF Room(w, h) /\ text.buffer
             THEN "event" ELSE Quiet
  /\ UNCHANGED <<created, input, bar, text, draws, fault>>

-------------------------------------------------------------------------------
(***************************************************************************)
(* The widget an event is for: the selected one, or the one under the      *)
(* pointer, with the pointer's place in it; the focus follows.             *)
(***************************************************************************)

\* Mutant: a press does not keep the pointer: the release goes to the widget
\* under it.
TargetUnder(x, y) == WidgetUnder(geo, "win", x, y)

Target(x, y) == IF selected # Null THEN selected ELSE WidgetUnder(geo, "win", x, y)

\* The pointer's place in the widget.
Local(w, f, v) == v - Global(geo, w, Place(f))

\* The thumb as it was last drawn.
InThumb(b, x, y) == x \in 0 .. b.w /\ y \in b.y .. b.y + b.h

\* What the callbacks of the scroll bar make of a focus that comes or goes.
BarOut(b) == [b EXCEPT !.over = FALSE]
BarIn(b, x, y) == [b EXCEPT !.over = InThumb(b, x, y)]

\* get_focused_widget: out of the widget that had the focus, and into wid.
FocusOn(b, wid, x, y) ==
  LET left == IF focused = "bar" /\ wid # "bar" THEN BarOut(b) ELSE b
  IN  IF wid = "bar" /\ focused # "bar"
      THEN BarIn(left, Local("bar", "w", x), Local("bar", "h", y)) ELSE left

\* Mutant: the widget that had the focus is not told.
ToldBoth(wid) == told \cup {wid}

ToldOn(wid) == IF focused = wid THEN told ELSE (told \ {focused}) \cup {wid}

\* An event that only moves the focus to wid and calls wid.
Focus(wid) == /\ focused' = wid
              /\ told' = ToldOn(wid)

-------------------------------------------------------------------------------
(***************************************************************************)
(* Painting: the widgets are rendered in the order of the tree, the text   *)
(* view before the scroll bar, whose ratios it sets from its screen.       *)
(***************************************************************************)

\* Mutant: the end of the last drag or screen is kept.
UpdatedBegin(b) == IF text.screen = Null THEN b
                   ELSE [b EXCEPT !.begin = text.screen.begin]

Updated(b) == IF text.screen = Null THEN b
              ELSE [b EXCEPT !.begin = text.screen.begin, !.end = text.screen.end]

\* The room the thumb has beside its smallest height.
ThumbRoom == geo["bar"].h - MinThumb + 1

Thumb(b, y, h) == [b EXCEPT !.w = geo["bar"].w, !.y = y, !.h = h]

\* The thumb; that of a bar lower than the smallest thumb is anywhere, for the
\* unsigned height wraps and its conversions overflow.
Thumbs(b) ==
  LET h == ((b.end - b.begin) * ThumbRoom) \div Parts
  IN  IF ThumbRoom >= 0
      THEN {Thumb(b, (b.begin * ThumbRoom) \div Parts, IF h > MinThumb THEN h ELSE MinThumb)}
      ELSE {Thumb(b, y, h2) :
              y \in IF b.begin = 0 THEN {0} ELSE {Word, -Word},
              h2 \in IF b.begin = b.end THEN {MinThumb} ELSE {MinThumb, Word, -Word}}

\* render of the window: its scroll bar asserts that the ratios are in order.
Painted(b) ==
  LET u == Updated(b)
  IN  /\ IF u.end < u.begin THEN fault' = "ratio" /\ bar' = u
         ELSE bar' \in Thumbs(u) /\ UNCHANGED fault
      /\ text' = [text EXCEPT !.pending = IF text.screen = Null THEN @ ELSE FALSE]

\* Of the widgets only the window has an on_draw: an event that wants its
\* widget drawn paints all when it was for the window itself.
After(b, wid) == IF wid = "win" THEN Painted(b) ELSE bar' = b /\ UNCHANGED <<text, fault>>

-------------------------------------------------------------------------------
(***************************************************************************)
(* Keys: some widgets hand them on to the text view, some drop them.       *)
(***************************************************************************)

KeyReaches(wid) == wid \in {"win", "tabs", "view", "text", "bar"}

KeySent(wid) == KeyReaches(wid) /\ text.buffer

Key(x, y) ==
  LET wid == Target(x, y)
  IN  /\ Ready /\ Reported(x, y)
      /\ Focus(wid)
      /\ bar' = FocusOn(bar, wid, x, y)
      /\ sent' = IF KeySent(wid) THEN "event" ELSE Quiet
      /\ UNCHANGED <<created, laidOut, geo, selected, pressedOn, cut, text, draws, fault>>

-------------------------------------------------------------------------------
(***************************************************************************)
(* Buttons.                                                                *)
(***************************************************************************)

\* Clicks in the text go to the core, with the buffer or without.
Clicked(wid) == IF wid # "text" THEN Quiet ELSE IF text.buffer THEN "event" ELSE "nameless click"

\* A press on the thumb takes hold of it.
BarPress(b, y) == IF y \in b.y .. b.y + b.h
                  THEN [b EXCEPT !.pressed = TRUE, !.grip = y - b.y] ELSE b

Press(x, y, b) ==
  LET wid == Target(x, y)
      seen == FocusOn(bar, wid, x, y)
  IN  /\ Ready /\ Reported(x, y)
      /\ pressedOn[b] = Null
      /\ Focus(wid)
      /\ After(IF wid = "bar" THEN BarPress(seen, Local("bar", "h", y)) ELSE seen, wid)
      /\ selected' = wid
      /\ pressedOn' = [pressedOn EXCEPT ![b] = wid]
      /\ sent' = Clicked(wid)
      /\ UNCHANGED <<created, laidOut, geo, cut, draws>>

\* The wheel selects nothing; the scroll bar hands it on to the text view.
Wheel(x, y) ==
  LET wid == Target(x, y)
  IN  /\ Ready /\ Reported(x, y)
      /\ Focus(wid)
      /\ After(FocusOn(bar, wid, x, y), wid)
      /\ sent' = Clicked(IF wid = "bar" THEN "text" ELSE wid)
      /\ UNCHANGED <<created, laidOut, geo, selected, pressedOn, cut, draws>>

\* Mutant: the thumb is only let go by a release over it.
BarReleaseInThumb(b, x, y) ==
  IF InThumb(b, x, y) THEN [b EXCEPT !.pressed = FALSE, !.grip = 0, !.over = TRUE] ELSE b

BarRelease(b, x, y) ==
  [b EXCEPT !.pressed = FALSE, !.grip = 0, !.over = InThumb(b, x, y)]

Others(b) == {o \in Buttons \ {b} : pressedOn[o] # Null}

Release(x, y, b) ==
  LET wid == Target(x, y)
      seen == FocusOn(bar, wid, x, y)
  IN  /\ Ready
      /\ pressedOn[b] # Null
      /\ Focus(wid)
      /\ After(IF wid = "bar" THEN BarRelease(seen, Local("bar", "w", x), Local("bar", "h", y))
               ELSE seen, wid)
      /\ selected' = Null
      /\ pressedOn' = [pressedOn EXCEPT ![b] = Null]
      /\ cut' = (Others(b) # {})
      /\ sent' = Clicked(wid)
      /\ UNCHANGED <<created, laidOut, geo, draws>>

-------------------------------------------------------------------------------
(***************************************************************************)
(* The pointer moves, enters and leaves; the window gets and loses the     *)
(* focus of the X server (these events have the coordinates 0, 0).         *)
(***************************************************************************)

Clamp(n) == IF n < 0 THEN 0 ELSE IF n > Parts THEN Parts ELSE n

\* The ratio the thumb is dragged to; a bar lower than its smallest thumb divides
\* by nothing, where max turns what is no number into 0, or by a negative number.
Dragged(b, y) ==
  IF ThumbRoom > 0 THEN Clamp(((y - b.grip) * Parts) \div ThumbRoom)
  ELSE IF ThumbRoom < 0 THEN Clamp(((b.grip - y) * Parts) \div (-ThumbRoom))
  ELSE IF y > b.grip THEN Parts ELSE 0

\* The bar moves its begin with the thumb; the text view, whose m_buffer_id is
\* always 0, does not ask the core for another start.
Motion(x, y) ==
  LET wid == Target(x, y)
      seen == FocusOn(bar, wid, x, y)
      lx == Local("bar", "w", x)
      ly == Local("bar", "h", y)
      over == [seen EXCEPT !.over = InThumb(seen, lx, ly)]
  IN  /\ Ready /\ Reported(x, y)
      /\ Focus(wid)
      /\ IF wid # "bar" THEN bar' = seen
         ELSE IF ~seen.pressed THEN bar' = over
         ELSE bar' = [over EXCEPT !.begin = Dragged(seen, ly)]
      /\ sent' = Quiet
      /\ UNCHANGED <<created, laidOut, geo, selected, pressedOn, cut, text, draws, fault>>

\* Entering and a key going up only move the focus.
Enter(x, y) ==
  LET wid == Target(x, y)
  IN  /\ Ready /\ Reported(x, y)
      /\ Focus(wid)
      /\ bar' = FocusOn(bar, wid, x, y)
      /\ sent' = Quiet
      /\ UNCHANGED <<created, laidOut, geo, selected, pressedOn, cut, text, draws, fault>>

FocusIn ==
  LET wid == Target(0, 0)
      seen == FocusOn(bar, wid, 0, 0)
  IN  /\ Ready
      /\ Focus(wid)
      /\ bar' = IF wid = "bar" THEN BarIn(seen, Local("bar", "w", 0), Local("bar", "h", 0))
                ELSE seen
      /\ sent' = Quiet
      /\ UNCHANGED <<created, laidOut, geo, selected, pressedOn, cut, text, draws, fault>>

\* The focus is given up: the widget is told, and nobody has it.
GiveUp(wid) == /\ focused' = Null
               /\ told' = ToldOn(wid) \ {wid}

\* With a widget selected the pointer may leave the window and keep it.
PointerLeave(x, y) ==
  LET wid == Target(x, y)
      seen == FocusOn(bar, wid, x, y)
  IN  /\ Ready
      /\ IF selected = Null
         THEN /\ GiveUp(wid)
              /\ bar' = IF wid = "bar" THEN BarOut(seen) ELSE seen
         ELSE Focus(wid) /\ bar' = seen
      /\ sent' = Quiet
      /\ UNCHANGED <<created, laidOut, geo, selected, pressedOn, cut, text, draws, fault>>

FocusOut ==
  LET wid == Target(0, 0)
      seen == FocusOn(bar, wid, 0, 0)
  IN  /\ Ready
      /\ GiveUp(wid)
      /\ After(IF wid = "bar" THEN BarOut(seen) ELSE seen, wid)
      /\ sent' = Quiet
      /\ UNCHANGED <<created, laidOut, geo, selected, pressedOn, cut, draws>>

-------------------------------------------------------------------------------
(***************************************************************************)
(* Draw events.                                                            *)
(***************************************************************************)

\* X shows a hidden part of the window again.
Expose == /\ Ready
          /\ draws < MaxDraws
          /\ draws' = draws + 1
          /\ UNCHANGED <<created, laidOut, geo, input,
                         bar, text, sent, fault>>

Draw ==
  /\ Ready /\ draws > 0
  /\ draws' = draws - 1
  /\ Painted(bar)
  /\ sent' = Quiet
  /\ UNCHANGED <<created, laidOut, geo, input>>

-------------------------------------------------------------------------------
(***************************************************************************)
(* Messages of the core: the list of buffers, and screens.                 *)
(***************************************************************************)

\* The one answer to on_create's question; with no buffer in it the view asks for
\* nothing and stays without.
BufferList(some) ==
  /\ Ready /\ text.asked
  /\ text' = [text EXCEPT !.buffer = some, !.asked = FALSE]
  /\ sent' = IF some THEN "event" ELSE Quiet
  /\ UNCHANGED <<created, laidOut, geo, input,
                 bar, draws, fault>>

\* Mutant: a draw event is pushed for the first screen only.
PushDrawOnce == text.screen = Null

PushDraw == ~text.pending

\* A new screen replaces the last one; one draw event at a time is pushed.
NewScreen(b, e) ==
  /\ Ready /\ text.buffer
  /\ text' = [text EXCEPT !.screen = [begin |-> b, end |-> e], !.pending = TRUE]
  /\ draws' = IF PushDraw THEN draws + 1 ELSE draws
  /\ draws' <= MaxDraws
  /\ sent' = Quiet
  /\ UNCHANGED <<created, laidOut, geo, input,
                 bar, fault>>
-------------------------------------------------------------------------------
Next ==
  \/ \E s \in Sizes : Create(s[1], s[2])
  \/ \E s \in Sizes : Resize(s[1], s[2])
  \/ \E p \in Points : Key(p[1], p[2])
  \/ \E p \in Points, b \in Buttons : Press(p[1], p[2], b)
  \/ \E p \in Points, b \in Buttons : Release(p[1], p[2], b)
  \/ \E p \in Points : Wheel(p[1], p[2])
  \/ \E p \in Points : Motion(p[1], p[2])
  \/ \E p \in Points : Enter(p[1], p[2])
  \/ \E p \in Points : PointerLeave(p[1], p[2])
  \/ FocusIn
  \/ FocusOut
  \/ Expose
  \/ Draw
  \/ \E some \in BOOLEAN : BufferList(some)
  \/ \E b \in 0 .. Parts : \E e \in b .. Parts : NewScreen(b, e)

Spec == Init /\ [][Next]_vars

-------------------------------------------------------------------------------
(***************************************************************************)
(* Properties.                                                             *)
(***************************************************************************)

\* The hit test finds for every pixel a widget without children whose rectangle,
\* borders included, holds it.
EveryPixelHits ==
  LET at == OnScreen(geo)
  IN  \A x \in 0 .. geo["win"].w - 1, y \in 0 .. geo["win"].h - 1 :
        LET wid == WidgetUnder(geo, "win", x, y)
        IN  wid \in Leaves /\ Inside(at[wid], x, y)

\* After a layout that had room, whatever the sizes before, every pixel of the
\* window belongs to exactly one of the widgets without children (the layouts
\* of widget.cpp), and the hit test finds one for it.
TilesTheWindow == laidOut => Tiled(geo, "win") /\ EveryPixelHits

\* Exactly the widget that has the focus has been told so and not yet told
\* otherwise, and only a focused scroll bar shows the pointer over its thumb
\* (get_focused_widget, dispatch_event).
WidgetsKnowTheirFocus ==
  /\ told = {focused} \ {Null}
  /\ bar.over => focused = "bar"

\* While the thumb is held every event goes to the scroll bar: the release that
\* lets it go cannot miss it, wherever the pointer is and in whatever order the
\* buttons go up.
DragHasTheGrab == bar.pressed => selected = "bar"

\* A button goes up over the widget it was pressed on, wherever the pointer is,
\* unless another button went up between them (dispatch_event).
ReleaseFollowsPress ==
  [][\A b \in Buttons : pressedOn[b] # Null /\ pressedOn'[b] = Null /\ ~cut
                           => focused' = pressedOn[b]]_vars

\* A screen of the core that has not been drawn has a draw event waiting: the
\* flag that keeps a second one back is never left over (main_window.cpp:178).
NewScreensGetDrawn == text.pending /\ fault = "none" => draws > 0

\* The scroll bar's assertion (scroll_bar.cpp:157) fails only for a thumb dragged
\* before the first screen, whatever screens, drags, sizes and paints follow each
\* other: a screen that is there sets both ratios before they are compared.
FaultsHaveACause == fault # "none" => text.screen = Null /\ bar.begin > 0
===============================================================================

------------------------------ MODULE WidgetTree ------------------------------
(***************************************************************************)
(* A tree of widgets and where they are: which widget is under a point     *)
(* (find_widget_under_coords), where a widget is in the window (global_x,  *)
(* global_y), and what the horizontal and the vertical layout make of a    *)
(* new size of a parent (widget.cpp).  A geometry gives each widget its    *)
(* place in its parent and its size; lengths are unsigned and wrap.        *)
(***************************************************************************)
EXTENDS Integers, Sequences, FiniteSetsExt

CONSTANTS Kids,    \* the children of each widget, in the order of their slots
          Rows,    \* the widgets with a vertical layout
          Columns, \* the widgets with a horizontal layout
          Fixed,   \* for "w" and "h", the widgets with a fixed length
          Word     \* the number of values of a length

Widgets == DOMAIN Kids

\* No parent for the widget at the top.
Parents == [w \in Widgets |-> {p \in Widgets : \E i \in DOMAIN Kids[p] : Kids[p][i] = w}]

-------------------------------------------------------------------------------
(***************************************************************************)
(* Points.                                                                 *)
(***************************************************************************)

\* The borders belong to the widget on all four sides.
Inside(r, x, y) == x \in r.x .. r.x + r.w /\ y \in r.y .. r.y + r.h

Up(w) == CHOOSE p \in Parents[w] : TRUE

\* The place of a widget in the window: its own and those of all it is in.
Global(geo, w, f) ==
  LET at[v \in Widgets] == geo[v][f] + IF Parents[v] = {} THEN 0 ELSE at[Up(v)]
  IN  at[w]

\* The first child of w the point of the window is in, and so on below it; the
\* widget itself when it is in none.
WidgetUnder(geo, w, x, y) ==
  LET under[v \in Widgets] ==
        LET left == x - Global(geo, v, "x")
            top  == y - Global(geo, v, "y")
            hits == {i \in DOMAIN Kids[v] : Inside(geo[Kids[v][i]], left, top)}
        IN  IF hits = {} THEN v ELSE under[Kids[v][Min(hits)]]
  IN  under[w]

-------------------------------------------------------------------------------
(***************************************************************************)
(* Layouts.  Along the main axis the fixed children keep their length and  *)
(* the others share what is left; across it they are as long as the parent.*)
(***************************************************************************)

Wrap(n) == n % Word

Main(p)  == IF p \in Columns THEN "w" ELSE "h"
Cross(p) == IF p \in Columns THEN "h" ELSE "w"
Place(f) == IF f = "w" THEN "x" ELSE "y"

\* get_len_from_policy for a ratio of 100.
Length(geo, c, f, whole, most) ==
  IF c \in Fixed[f] THEN geo[c][f]
  ELSE IF whole > most THEN most ELSE whole

\* Mutant: what is left is shared with the fixed children too.
LeftOfAll(geo, p, f, whole) == whole

\* What the fixed children leave of the parent's length.
LeftOver(geo, p, f, whole) ==
  LET fixed[i \in 0 .. Len(Kids[p])] ==
        IF i = 0 THEN 0
        ELSE fixed[i - 1] + IF Kids[p][i] \in Fixed[f] THEN geo[Kids[p][i]][f] ELSE 0
  IN  Wrap(whole - fixed[Len(Kids[p])])

Across(geo, c, g, whole) ==
  [geo[c] EXCEPT ![Place(g)] = 0, ![g] = Length(geo, c, g, whole, whole)]

Share(geo, p, f, whole) ==
  LET free == {i \in DOMAIN Kids[p] : Kids[p][i] \notin Fixed[f]}
  IN  IF free = {} THEN 0 ELSE LeftOver(geo, p, f, whole) \div Cardinality(free)

\* The children one after the other: how long each is, where the next one
\* begins, and what is left for the ones without a fixed length.
Walk(geo, p, f, whole) ==
  LET walk[i \in 0 .. Len(Kids[p])] ==
        IF i = 0 THEN [len |-> 0, next |-> 0, left |-> LeftOver(geo, p, f, whole)]
        ELSE LET c == Kids[p][i]
                 before == walk[i - 1]
                 len == Length(geo, c, f, before.left, Share(geo, p, f, whole))
             IN  [len |-> len, next |-> before.next + len,
                  left |-> IF c \in Fixed[f] THEN before.left ELSE Wrap(before.left - len)]
  IN  walk

Along(geo, r, p, i, f, whole) ==
  LET walk == Walk(geo, p, f, whole)
  IN  [r EXCEPT ![f] = walk[i].len, ![Place(f)] = walk[i - 1].next]

\* resize of the widget top.  It reaches the children of a widget it has reached,
\* nothing for an empty size; with more of the fixed children than fits what is
\* left has wrapped, and the layout stops before the main axis.
Resized(geo, top, w, h) ==
  LET new[c \in Widgets] ==
        LET p == Up(c)
            up == new[p]
            i == CHOOSE k \in DOMAIN Kids[p] : Kids[p][k] = c
            crossed == Across(geo, c, Cross(p), up.rect[Cross(p)])
            whole == up.rect[Main(p)]
        IN  IF c = top THEN [rect |-> [geo[c] EXCEPT !.w = w, !.h = h], reached |-> TRUE]
            ELSE IF \/ Parents[c] = {} \/ ~up.reached \/ p \notin Rows \cup Columns
                    \/ up.rect.w = 0 \/ up.rect.h = 0
                 THEN [rect |-> geo[c], reached |-> FALSE]
            ELSE IF Share(geo, p, Main(p), whole) > whole
                 THEN [rect |-> crossed, reached |-> FALSE]
            ELSE [rect |-> Along(geo, crossed, p, i, Main(p), whole), reached |-> TRUE]
  IN  [c \in Widgets |-> new[c].rect]

-------------------------------------------------------------------------------
Leaves == {w \in Widgets : Kids[w] = <<>>}

\* Where the widgets without children are in the window.
OnScreen(geo) == [w \in Leaves |-> [x |-> Global(geo, w, "x"), y |-> Global(geo, w, "y"),
                                    w |-> geo[w].w, h |-> geo[w].h]]

Covers(r, x, y) == x \in r.x .. r.x + r.w - 1 /\ y \in r.y .. r.y + r.h - 1

\* Every pixel of the window belongs to exactly one widget without children, and
\* these have no pixel elsewhere.
Tiled(geo, win) ==
  LET at == OnScreen(geo)
  IN  /\ \A x \in 0 .. geo[win].w - 1, y \in 0 .. geo[win].h - 1 :
           Cardinality({w \in Leaves : Covers(at[w], x, y)}) = 1
      /\ \A w \in Leaves : /\ at[w].x >= 0 /\ at[w].x + at[w].w <= geo[win].w
                           /\ at[w].y >= 0 /\ at[w].y + at[w].h <= geo[win].h
===============================================================================

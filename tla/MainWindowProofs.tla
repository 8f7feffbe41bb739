-------------------------- MODULE MainWindowProofs --------------------------
(***************************************************************************)
(* Proofs about the window of ew, for windows of every size, bars of every *)
(* positive length, any buttons, points, ratios and number of draw events. *)
(*                                                                         *)
(* The layout.  The functions of WidgetTree are recursive over the tree;   *)
(* they are evaluated along the eight widgets of the window.  Whatever the *)
(* size, a layout keeps the lengths that on_create has fixed and the place *)
(* of the window itself (Built).  A layout that has room then puts every   *)
(* widget at a place that is known (Fits), and these places tile the       *)
(* window, and the descent of the hit test finds one of them.              *)
(*                                                                         *)
(* The events.  Each event moves the focus to its target, and tells the    *)
(* one that loses it and the one that gets it.  A thumb that is held keeps *)
(* the scroll bar selected, so that the release is an event of the bar.    *)
(* Unless a button went up while another was down, the selected widget is  *)
(* the one every button that is down was pressed on (PressInv).  A screen  *)
(* that was not drawn has pushed a draw event, and only a paint takes one. *)
(***************************************************************************)
EXTENDS MainWindow, FiniteSetTheorems, TLAPS

-----------------------------------------------------------------------------
(***************************************************************************)
(* The tree of the window and the places in it.                            *)
(***************************************************************************)

(* A place and a size, none of them below zero.                            *)
Rect == [x : Nat, y : Nat, w : Nat, h : Nat]

(* The eight widgets main_window builds.                                   *)
LEMMA WidgetsAre ==
  Widgets = {"win", "view", "area", "tabs", "status", "lines", "text", "bar"}
  BY DEF Widgets, Kids

(* The children of each widget, in the order they were added.              *)
LEMMA KidsAre ==
  /\ Kids["win"] = <<"tabs", "view", "status">>
  /\ Kids["view"] = <<"lines", "text", "area">>
  /\ Kids["area"] = <<"bar">>
  /\ Kids["tabs"] = <<>> /\ Kids["status"] = <<>> /\ Kids["lines"] = <<>>
  /\ Kids["text"] = <<>> /\ Kids["bar"] = <<>>
  BY DEF Kids

(* Each widget is the child of one other, the window of none.              *)
LEMMA ParentsAre ==
  /\ Parents["win"] = {}
  /\ Parents["tabs"] = {"win"} /\ Parents["view"] = {"win"} /\ Parents["status"] = {"win"}
  /\ Parents["lines"] = {"view"} /\ Parents["text"] = {"view"} /\ Parents["area"] = {"view"}
  /\ Parents["bar"] = {"area"}
<1>1. \A w \in Widgets : Parents[w] = {p \in Widgets : \E i \in DOMAIN Kids[p] : Kids[p][i] = w}
  BY DEF Parents
<1>2. \A w : (\E i \in DOMAIN Kids["win"] : Kids["win"][i] = w) <=> w \in {"tabs", "view", "status"}
  BY DEF Kids
<1>3. \A w : (\E i \in DOMAIN Kids["view"] : Kids["view"][i] = w) <=> w \in {"lines", "text", "area"}
  BY DEF Kids
<1>4. \A w : (\E i \in DOMAIN Kids["area"] : Kids["area"][i] = w) <=> w \in {"bar"}
  BY DEF Kids
<1>5. \A p \in {"tabs", "status", "lines", "text", "bar"} : DOMAIN Kids[p] = {}
  BY DEF Kids
<1>6. \A p \in Widgets : p \in {"win", "view", "area"} \/ p \in {"tabs", "status", "lines", "text", "bar"}
  BY WidgetsAre
<1>7. \A w, p \in Widgets : p \in Parents[w] <=>
        \/ p = "win" /\ w \in {"tabs", "view", "status"}
        \/ p = "view" /\ w \in {"lines", "text", "area"}
        \/ p = "area" /\ w \in {"bar"}
  <2> TAKE w, p \in Widgets
  <2>1. p \in Parents[w] <=> \E i \in DOMAIN Kids[p] : Kids[p][i] = w BY <1>1
  <2>2. CASE p = "win" BY <1>2, <2>1, <2>2
  <2>3. CASE p = "view" BY <1>3, <2>1, <2>3
  <2>4. CASE p = "area" BY <1>4, <2>1, <2>4
  <2>5. CASE p \in {"tabs", "status", "lines", "text", "bar"} BY <1>5, <2>1, <2>5
  <2> QED BY <1>6, <2>2, <2>3, <2>4, <2>5
<1>8. \A w \in Widgets : Parents[w] \subseteq Widgets BY <1>1
<1> QED BY <1>7, <1>8, WidgetsAre

(* The parent of each widget.                                              *)
LEMMA UpIs ==
  /\ Up("tabs") = "win" /\ Up("view") = "win" /\ Up("status") = "win"
  /\ Up("lines") = "view" /\ Up("text") = "view" /\ Up("area") = "view"
  /\ Up("bar") = "area"
  BY ParentsAre DEF Up

(* The place in the window is the sum of the places on the way up, as in   *)
(* global_x and global_y.                                                  *)
LEMMA GlobalIs ==
  ASSUME NEW g \in [Widgets -> Rect], NEW f \in {"x", "y"}
  PROVE  /\ Global(g, "win", f) = g["win"][f]
         /\ \A w \in Widgets \ {"win"} : Global(g, w, f) = g[w][f] + Global(g, Up(w), f)
<1> DEFINE at == CHOOSE at : at = [v \in Widgets |-> g[v][f] + (IF Parents[v] = {} THEN 0 ELSE at[Up(v)])]
           top  == g["win"][f]
           view == g["view"][f] + top
           area == g["area"][f] + view
           A(v) == CASE v = "win" -> top [] v = "view" -> view
                     [] v = "area" -> area [] v = "bar" -> g["bar"][f] + area
                     [] v \in {"tabs", "status"} -> g[v][f] + top
                     [] v \in {"lines", "text"} -> g[v][f] + view
           a == [v \in Widgets |-> A(v)]
<1>1. \A v \in Widgets : g[v][f] \in Nat BY DEF Rect
<1>2. \A v \in Widgets : A(v) = g[v][f] + (IF Parents[v] = {} THEN 0 ELSE A(Up(v)))
  BY <1>1, WidgetsAre, ParentsAre, UpIs
<1> HIDE DEF A, top, view, area
<1>3. \A v \in Widgets : Parents[v] # {} => Up(v) \in Widgets
  BY WidgetsAre, ParentsAre, UpIs
<1>4. a = [v \in Widgets |-> g[v][f] + (IF Parents[v] = {} THEN 0 ELSE a[Up(v)])]
  BY <1>2, <1>3
<1>5. at = [v \in Widgets |-> g[v][f] + (IF Parents[v] = {} THEN 0 ELSE at[Up(v)])]
  BY <1>4
<1>6. \A w : Global(g, w, f) = at[w] BY DEF Global
<1> HIDE DEF at
<1>7. \A w \in Widgets : at[w] = g[w][f] + (IF Parents[w] = {} THEN 0 ELSE at[Up(w)])
  BY <1>5
<1>8. \A w \in Widgets \ {"win"} : Parents[w] # {} BY WidgetsAre, ParentsAre
<1>9. at["win"] = g["win"][f] BY <1>1, <1>7, WidgetsAre, ParentsAre
<1> QED BY <1>6, <1>7, <1>8, <1>9

(* Places in the window are natural numbers.                               *)
LEMMA GlobalType ==
  ASSUME NEW g \in [Widgets -> Rect], NEW f \in {"x", "y"}, NEW w \in Widgets
  PROVE  Global(g, w, f) \in Nat
<1>1. \A v \in Widgets : g[v][f] \in Nat BY DEF Rect
<1>2. Global(g, "win", f) \in Nat BY <1>1, GlobalIs, WidgetsAre
<1>3. \A v \in {"tabs", "view", "status"} : Global(g, v, f) \in Nat
  BY <1>1, <1>2, GlobalIs, WidgetsAre, UpIs
<1>4. \A v \in {"lines", "text", "area"} : Global(g, v, f) \in Nat
  BY <1>1, <1>3, GlobalIs, WidgetsAre, UpIs
<1>5. Global(g, "bar", f) \in Nat
  BY <1>1, <1>4, GlobalIs, WidgetsAre, UpIs
<1> QED BY <1>2, <1>3, <1>4, <1>5, WidgetsAre

(* A set of numbers has a least one.                                       *)
LEMMA LeastOne ==
  ASSUME NEW K \in SUBSET Nat, K # {}
  PROVE  Min(K) \in K /\ \A j \in K : Min(K) <= j
<1> DEFINE lt == OpToRel(<, Nat)
<1>1. IsWellFoundedOn(lt, Nat)
  BY NatLessThanWellFounded
<1>2. PICK i \in K : \A j \in K : <<j, i>> \notin lt
  <2> HIDE DEF lt
  <2> QED BY <1>1, WFMin
<1>3. \A j \in K : i <= j
  <2>1. \A j \in K : ~(j < i) BY <1>2 DEF OpToRel
  <2> QED BY <2>1
<1> QED BY <1>3 DEF Min

(* The children of v the point is in, and the first of them, where the     *)
(* descent goes on.                                                        *)
Hits(g, v, x, y) ==
  {i \in DOMAIN Kids[v] : Inside(g[Kids[v][i]], x - Global(g, v, "x"), y - Global(g, v, "y"))}
Hit(g, v, x, y) == Kids[v][Min(Hits(g, v, x, y))]

(* The first hit is a child of v, and no earlier child is hit.             *)
LEMMA HitIs ==
  ASSUME NEW g, NEW v \in Widgets, NEW x, NEW y, Hits(g, v, x, y) # {}
  PROVE  /\ Min(Hits(g, v, x, y)) \in Hits(g, v, x, y)
         /\ \A j \in Hits(g, v, x, y) : Min(Hits(g, v, x, y)) <= j
         /\ \/ v = "win" /\ Hit(g, v, x, y) \in {"tabs", "view", "status"}
            \/ v = "view" /\ Hit(g, v, x, y) \in {"lines", "text", "area"}
            \/ v = "area" /\ Hit(g, v, x, y) = "bar"
<1>1. DOMAIN Kids[v] \in SUBSET Nat BY KidsAre, WidgetsAre
<1>2. Hits(g, v, x, y) \subseteq DOMAIN Kids[v] BY DEF Hits
<1>3. /\ Min(Hits(g, v, x, y)) \in Hits(g, v, x, y)
      /\ \A j \in Hits(g, v, x, y) : Min(Hits(g, v, x, y)) <= j
  BY <1>1, <1>2, LeastOne
<1>4. Min(Hits(g, v, x, y)) \in DOMAIN Kids[v] BY <1>2, <1>3
<1>5. v = "win" => Hit(g, v, x, y) \in {"tabs", "view", "status"} BY <1>4, KidsAre DEF Hit
<1>6. v = "view" => Hit(g, v, x, y) \in {"lines", "text", "area"} BY <1>4, KidsAre DEF Hit
<1>7. v = "area" => Hit(g, v, x, y) = "bar" BY <1>4, KidsAre DEF Hit
<1>8. v \in {"win", "view", "area"} BY <1>4, KidsAre, WidgetsAre
<1> QED BY <1>3, <1>5, <1>6, <1>7, <1>8

(* The descent, one widget after the other.                                *)
LEMMA UnderIs ==
  ASSUME NEW g, NEW x, NEW y
  PROVE  \E u : /\ WidgetUnder(g, "win", x, y) = u["win"]
                /\ \A v \in Widgets :
                     u[v] = IF Hits(g, v, x, y) = {} THEN v ELSE u[Hit(g, v, x, y)]
<1> DEFINE H(v) == Hits(g, v, x, y)
           N(v) == Hit(g, v, x, y)
           u == CHOOSE u : u = [v \in Widgets |-> IF H(v) = {} THEN v ELSE u[N(v)]]
           one(v) == IF H(v) = {} THEN v ELSE N(v)
           two(v) == IF H(v) = {} THEN v ELSE one(N(v))
           a(v) == IF H(v) = {} THEN v ELSE two(N(v))
           w == [v \in Widgets |-> a(v)]
<1>1. \A v \in Widgets : H(v) # {} =>
        \/ v = "win" /\ N(v) \in {"tabs", "view", "status"}
        \/ v = "view" /\ N(v) \in {"lines", "text", "area"}
        \/ v = "area" /\ N(v) = "bar"
  BY HitIs
<1>2. WidgetUnder(g, "win", x, y) = u["win"] BY DEF WidgetUnder, Hits, Hit
<1> HIDE DEF H, N
<1>3. \A v \in {"tabs", "status", "lines", "text", "bar"} : H(v) = {} BY <1>1, WidgetsAre
<1>4. \A v \in Widgets : a(v) = IF H(v) = {} THEN v ELSE a(N(v))
  BY <1>1, <1>3, WidgetsAre
<1>5. \A v \in Widgets : H(v) # {} => N(v) \in Widgets BY <1>1, WidgetsAre
<1> HIDE DEF a
<1>6. w = [v \in Widgets |-> IF H(v) = {} THEN v ELSE w[N(v)]] BY <1>4, <1>5
<1> HIDE DEF w
<1>7. u = [v \in Widgets |-> IF H(v) = {} THEN v ELSE u[N(v)]] BY <1>6
<1> HIDE DEF u
<1>8. \A v \in Widgets : u[v] = IF H(v) = {} THEN v ELSE u[N(v)] BY <1>7
<1> QED BY <1>2, <1>8 DEF H, N

(* The descent ends in a widget.                                           *)
LEMMA UnderType ==
  ASSUME NEW g, NEW x, NEW y
  PROVE  WidgetUnder(g, "win", x, y) \in Widgets
<1>1. PICK u : /\ WidgetUnder(g, "win", x, y) = u["win"]
               /\ \A v \in Widgets :
                    u[v] = IF Hits(g, v, x, y) = {} THEN v ELSE u[Hit(g, v, x, y)]
  BY UnderIs
<1>2. \A v \in Widgets : Hits(g, v, x, y) = {} \/
        \/ v = "win" /\ Hit(g, v, x, y) \in {"tabs", "view", "status"}
        \/ v = "view" /\ Hit(g, v, x, y) \in {"lines", "text", "area"}
        \/ v = "area" /\ Hit(g, v, x, y) = "bar"
  BY HitIs
<1>3. \A v \in {"tabs", "status", "lines", "text", "bar"} : u[v] = v BY <1>1, <1>2, WidgetsAre
<1>4. u["area"] \in {"area", "bar"} BY <1>1, <1>2, <1>3, WidgetsAre
<1>5. u["view"] \in Widgets BY <1>1, <1>2, <1>3, <1>4, WidgetsAre
<1>6. u["win"] \in Widgets BY <1>1, <1>2, <1>3, <1>5, WidgetsAre
<1> QED BY <1>1, <1>6

-----------------------------------------------------------------------------
(* Layouts.                                                                *)

(* What the child i takes of the main axis before the others share what is *)
(* left.                                                                   *)
FixedLen(g, p, f, i) == IF Kids[p][i] \in Fixed[f] THEN g[Kids[p][i]][f] ELSE 0

(* Fixed lengths are natural numbers.                                      *)
LEMMA FixedType ==
  ASSUME NEW g \in [Widgets -> Rect], NEW p \in Widgets, NEW f \in {"w", "h"},
         NEW i \in DOMAIN Kids[p]
  PROVE  FixedLen(g, p, f, i) \in Nat /\ Kids[p][i] \in Widgets
<1>1. Kids[p][i] \in Widgets
  <2>1. CASE p = "win" BY <2>1, KidsAre, WidgetsAre
  <2>2. CASE p = "view" BY <2>2, KidsAre, WidgetsAre
  <2>3. CASE p = "area" BY <2>3, KidsAre, WidgetsAre
  <2>4. CASE p \in {"tabs", "status", "lines", "text", "bar"} BY <2>4, KidsAre
  <2> QED BY <2>1, <2>2, <2>3, <2>4, WidgetsAre
<1>2. g[Kids[p][i]] \in Rect BY <1>1
<1> QED BY <1>1, <1>2 DEF FixedLen, Rect

(* How many children the widgets with a layout have.                       *)
LEMMA KidsCount ==
  /\ Len(Kids["win"]) = 3 /\ DOMAIN Kids["win"] = 1 .. 3
  /\ Len(Kids["view"]) = 3 /\ DOMAIN Kids["view"] = 1 .. 3
  /\ Len(Kids["area"]) = 1 /\ DOMAIN Kids["area"] = 1 .. 1
  /\ Len(Kids["tabs"]) = 0 /\ DOMAIN Kids["tabs"] = {}
  BY KidsAre

(* Three children: the sum of their fixed lengths is taken from the whole. *)
LEMMA LeftOverOfThree ==
  ASSUME NEW g \in [Widgets -> Rect], NEW p \in {"win", "view"}, NEW f \in {"w", "h"},
         NEW whole
  PROVE  LeftOver(g, p, f, whole)
           = Wrap(whole - (FixedLen(g, p, f, 1) + FixedLen(g, p, f, 2) + FixedLen(g, p, f, 3)))
<1> DEFINE D(i) == FixedLen(g, p, f, i)
           s == CHOOSE s : s = [i \in 0 .. Len(Kids[p]) |-> IF i = 0 THEN 0 ELSE s[i - 1] + D(i)]
           B(i) == IF i = 0 THEN 0 ELSE IF i = 1 THEN D(1) ELSE IF i = 2 THEN D(1) + D(2)
                   ELSE D(1) + D(2) + D(3)
           b == [i \in 0 .. 3 |-> B(i)]
<1>1. Len(Kids[p]) = 3 /\ DOMAIN Kids[p] = 1 .. 3 /\ p \in Widgets BY KidsCount, WidgetsAre
<1>2. D(1) \in Nat /\ D(2) \in Nat /\ D(3) \in Nat BY <1>1, FixedType
<1>3. LeftOver(g, p, f, whole) = Wrap(whole - s[Len(Kids[p])]) BY DEF LeftOver, FixedLen
<1> HIDE DEF D
<1>4. \A i \in 0 .. 3 : B(i) = IF i = 0 THEN 0 ELSE B(i - 1) + D(i)
  <2> TAKE i \in 0 .. 3
  <2>1. i = 0 \/ i = 1 \/ i = 2 \/ i = 3 OBVIOUS
  <2> QED BY <1>2, <2>1
<1> HIDE DEF B
<1>5. b = [i \in 0 .. 3 |-> IF i = 0 THEN 0 ELSE b[i - 1] + D(i)] BY <1>4
<1> HIDE DEF b
<1>6. s = [i \in 0 .. 3 |-> IF i = 0 THEN 0 ELSE s[i - 1] + D(i)]
  <2>1. s = CHOOSE r : r = [i \in 0 .. 3 |-> IF i = 0 THEN 0 ELSE r[i - 1] + D(i)]
    BY <1>1
  <2> QED BY <1>5, <2>1
<1> HIDE DEF s
<1>7. \A i \in 0 .. 3 : s[i] = IF i = 0 THEN 0 ELSE s[i - 1] + D(i) BY <1>6
<1>8. s[0] = 0 /\ s[1] = s[0] + D(1) /\ s[2] = s[1] + D(2) /\ s[3] = s[2] + D(3) BY <1>7
<1>9. s[3] = D(1) + D(2) + D(3) BY <1>2, <1>8
<1> QED BY <1>1, <1>3, <1>9 DEF D

(* The scroll bar's area has one child.                                    *)
LEMMA LeftOverOfOne ==
  ASSUME NEW g \in [Widgets -> Rect], NEW f \in {"w", "h"}, NEW whole
  PROVE  LeftOver(g, "area", f, whole) = Wrap(whole - FixedLen(g, "area", f, 1))
<1> DEFINE D(i) == FixedLen(g, "area", f, i)
           s == CHOOSE s : s = [i \in 0 .. Len(Kids["area"]) |-> IF i = 0 THEN 0 ELSE s[i - 1] + D(i)]
           B(i) == IF i = 0 THEN 0 ELSE D(1)
           b == [i \in 0 .. 1 |-> B(i)]
<1>1. Len(Kids["area"]) = 1 /\ DOMAIN Kids["area"] = 1 .. 1 /\ "area" \in Widgets
  BY KidsCount, WidgetsAre
<1>2. D(1) \in Nat BY <1>1, FixedType
<1>3. LeftOver(g, "area", f, whole) = Wrap(whole - s[Len(Kids["area"])]) BY DEF LeftOver, FixedLen
<1> HIDE DEF D
<1>4. \A i \in 0 .. 1 : B(i) = IF i = 0 THEN 0 ELSE B(i - 1) + D(i)
  <2> TAKE i \in 0 .. 1
  <2>1. i = 0 \/ i = 1 OBVIOUS
  <2> QED BY <1>2, <2>1
<1> HIDE DEF B
<1>5. b = [i \in 0 .. 1 |-> IF i = 0 THEN 0 ELSE b[i - 1] + D(i)] BY <1>4
<1> HIDE DEF b
<1>6. s = [i \in 0 .. 1 |-> IF i = 0 THEN 0 ELSE s[i - 1] + D(i)]
  <2>1. s = CHOOSE r : r = [i \in 0 .. 1 |-> IF i = 0 THEN 0 ELSE r[i - 1] + D(i)]
    BY <1>1
  <2> QED BY <1>5, <2>1
<1> HIDE DEF s
<1>7. \A i \in 0 .. 1 : s[i] = IF i = 0 THEN 0 ELSE s[i - 1] + D(i) BY <1>6
<1>8. s[0] = 0 /\ s[1] = s[0] + D(1) BY <1>7
<1>9. s[1] = D(1) BY <1>2, <1>8
<1> QED BY <1>1, <1>3, <1>9 DEF D

(* An unsigned length is a natural number below Word, and itself when it   *)
(* fits.                                                                   *)
LEMMA WrapType ==
  ASSUME NEW n \in Int
  PROVE  /\ Wrap(n) \in Nat /\ Wrap(n) < Word
         /\ n \in 0 .. Word - 1 => Wrap(n) = n
  BY LengthsAssumption DEF Wrap

(* One child of each widget with a layout has no fixed length there, so    *)
(* that its share is all that is left.                                     *)
Laid == {<<"win", "h">>, <<"view", "w">>, <<"area", "h">>}

(* The fixed lengths among the children of p.                              *)
Fixeds(g, p) == IF p = "win" THEN g["tabs"].h + g["status"].h
                ELSE IF p = "view" THEN g["lines"].w + g["area"].w ELSE 0

(* What is left is the whole without the fixed lengths, and one child gets *)
(* it all.                                                                 *)
LEMMA LeftOverIs ==
  ASSUME NEW g \in [Widgets -> Rect], NEW p, NEW f, <<p, f>> \in Laid, NEW whole \in Nat
  PROVE  /\ Fixeds(g, p) \in Nat
         /\ LeftOver(g, p, f, whole) = Wrap(whole - Fixeds(g, p))
         /\ LeftOver(g, p, f, whole) \in Nat
         /\ Share(g, p, f, whole) = LeftOver(g, p, f, whole)
<1>1. \A w \in Widgets : g[w].h \in Nat /\ g[w].w \in Nat BY DEF Rect
<1>2. Fixeds(g, p) \in Nat BY <1>1, WidgetsAre DEF Fixeds
<1>3. LeftOver(g, p, f, whole) = Wrap(whole - Fixeds(g, p))
  <2>1. CASE p = "win" /\ f = "h"
    <3>1. /\ FixedLen(g, p, f, 1) = g["tabs"].h /\ FixedLen(g, p, f, 2) = 0
          /\ FixedLen(g, p, f, 3) = g["status"].h
      BY <2>1, KidsAre DEF FixedLen, Fixed
    <3>2. g["tabs"].h + 0 + g["status"].h = Fixeds(g, p) BY <1>1, <2>1, WidgetsAre DEF Fixeds
    <3> QED BY <2>1, <3>1, <3>2, LeftOverOfThree
  <2>2. CASE p = "view" /\ f = "w"
    <3>1. /\ FixedLen(g, p, f, 1) = g["lines"].w /\ FixedLen(g, p, f, 2) = 0
          /\ FixedLen(g, p, f, 3) = g["area"].w
      BY <2>2, KidsAre DEF FixedLen, Fixed
    <3>2. g["lines"].w + 0 + g["area"].w = Fixeds(g, p) BY <1>1, <2>2, WidgetsAre DEF Fixeds
    <3> QED BY <2>2, <3>1, <3>2, LeftOverOfThree
  <2>3. CASE p = "area" /\ f = "h"
    <3>1. FixedLen(g, p, f, 1) = 0 BY <2>3, KidsAre DEF FixedLen, Fixed
    <3> QED BY <2>3, <3>1, LeftOverOfOne DEF Fixeds
  <2> QED BY <2>1, <2>2, <2>3 DEF Laid
<1>4. LeftOver(g, p, f, whole) \in Nat BY <1>2, <1>3, WrapType
<1>5. PICK k : {i \in DOMAIN Kids[p] : Kids[p][i] \notin Fixed[f]} = {k}
  <2>1. CASE p = "win" /\ f = "h"
    <3>1. {i \in DOMAIN Kids[p] : Kids[p][i] \notin Fixed[f]} = {2} BY <2>1, KidsAre DEF Fixed
    <3> QED BY <3>1
  <2>2. CASE p = "view" /\ f = "w"
    <3>1. {i \in DOMAIN Kids[p] : Kids[p][i] \notin Fixed[f]} = {2} BY <2>2, KidsAre DEF Fixed
    <3> QED BY <3>1
  <2>3. CASE p = "area" /\ f = "h"
    <3>1. {i \in DOMAIN Kids[p] : Kids[p][i] \notin Fixed[f]} = {1} BY <2>3, KidsAre DEF Fixed
    <3> QED BY <3>1
  <2> QED BY <2>1, <2>2, <2>3 DEF Laid
<1>6. Cardinality({k}) = 1 BY FS_Singleton
<1>7. Share(g, p, f, whole) = LeftOver(g, p, f, whole) \div 1 BY <1>5, <1>6 DEF Share
<1> QED BY <1>2, <1>3, <1>4, <1>7

(* Three children, the second of which has no fixed length.                *)
Stages(walk, first, left, last) ==
  /\ walk[0].next = 0
  /\ walk[1].len = first /\ walk[1].next = first
  /\ walk[2].len = left /\ walk[2].next = first + left
  /\ walk[3].len = last
  /\ first \in Nat /\ left \in Nat /\ last \in Nat

(* Walking along three children: the first, what is left, the last.        *)
LEMMA WalkOfThree ==
  ASSUME NEW g \in [Widgets -> Rect], NEW p, NEW f, <<p, f>> \in {<<"win", "h">>, <<"view", "w">>},
         NEW whole \in Nat
  PROVE  Stages(Walk(g, p, f, whole), g[Kids[p][1]][f], LeftOver(g, p, f, whole), g[Kids[p][3]][f])
<1> DEFINE left == LeftOver(g, p, f, whole)
           share == Share(g, p, f, whole)
           first == g[Kids[p][1]][f]
           last == g[Kids[p][3]][f]
           Then(i, r) == [len |-> Length(g, Kids[p][i], f, r.left, share),
                          next |-> r.next + Length(g, Kids[p][i], f, r.left, share),
                          left |-> IF Kids[p][i] \in Fixed[f] THEN r.left
                                   ELSE Wrap(r.left - Length(g, Kids[p][i], f, r.left, share))]
           start == [len |-> 0, next |-> 0, left |-> left]
           w == CHOOSE w : w = [i \in 0 .. Len(Kids[p]) |-> IF i = 0 THEN start ELSE Then(i, w[i - 1])]
           B(i) == IF i = 0 THEN start ELSE IF i = 1 THEN Then(1, start)
                   ELSE IF i = 2 THEN Then(2, Then(1, start))
                   ELSE Then(3, Then(2, Then(1, start)))
           b == [i \in 0 .. 3 |-> B(i)]
<1>1. p \in {"win", "view"} /\ p \in Widgets /\ f \in {"w", "h"} BY WidgetsAre
<1>2. Len(Kids[p]) = 3 /\ DOMAIN Kids[p] = 1 .. 3 BY <1>1, KidsCount
<1>3. /\ Kids[p][1] \in Fixed[f] /\ Kids[p][2] \notin Fixed[f] /\ Kids[p][3] \in Fixed[f]
      /\ Kids[p][1] \in Widgets /\ Kids[p][3] \in Widgets
  <2>1. CASE p = "win" /\ f = "h" BY <2>1, KidsAre, WidgetsAre DEF Fixed
  <2>2. CASE p = "view" /\ f = "w" BY <2>2, KidsAre, WidgetsAre DEF Fixed
  <2> QED BY <2>1, <2>2
<1>4. first \in Nat /\ last \in Nat BY <1>1, <1>3 DEF Rect
<1>5. left \in Nat /\ share = left
  <2>1. <<p, f>> \in Laid BY DEF Laid
  <2> QED BY <2>1, LeftOverIs
<1>6. Walk(g, p, f, whole) = w BY DEF Walk
<1> HIDE DEF Then, start
<1>7. \A i \in 0 .. 3 : B(i) = IF i = 0 THEN start ELSE Then(i, B(i - 1))
  <2> TAKE i \in 0 .. 3
  <2>1. i = 0 \/ i = 1 \/ i = 2 \/ i = 3 OBVIOUS
  <2> QED BY <2>1
<1> HIDE DEF B
<1>8. b = [i \in 0 .. 3 |-> IF i = 0 THEN start ELSE Then(i, b[i - 1])] BY <1>7
<1> HIDE DEF b
<1>9. w = [i \in 0 .. 3 |-> IF i = 0 THEN start ELSE Then(i, w[i - 1])]
  <2>1. w = CHOOSE r : r = [i \in 0 .. 3 |-> IF i = 0 THEN start ELSE Then(i, r[i - 1])]
    BY <1>2
  <2> QED BY <1>8, <2>1
<1> HIDE DEF w
<1>10. \A i \in 0 .. 3 : w[i] = IF i = 0 THEN start ELSE Then(i, w[i - 1]) BY <1>9
<1>11. w[0] = start /\ w[1] = Then(1, w[0]) /\ w[2] = Then(2, w[1]) /\ w[3] = Then(3, w[2])
  BY <1>10
<1> HIDE DEF first, last, left, share
<1>12. w[0].next = 0 /\ w[0].left = left BY <1>11 DEF start
<1>13. w[1].len = first /\ w[1].next = first /\ w[1].left = left
  <2>1. Length(g, Kids[p][1], f, w[0].left, share) = first BY <1>3 DEF Length, first
  <2> QED BY <1>3, <1>4, <1>11, <1>12, <2>1 DEF Then
<1>14. w[2].len = left /\ w[2].next = first + left
  <2>1. Length(g, Kids[p][2], f, w[1].left, share) = left BY <1>3, <1>5, <1>13 DEF Length
  <2> QED BY <1>11, <1>13, <2>1 DEF Then
<1>15. w[3].len = last
  <2>1. Length(g, Kids[p][3], f, w[2].left, share) = last BY <1>3 DEF Length, last
  <2> QED BY <1>11, <2>1 DEF Then
<1> QED BY <1>4, <1>5, <1>6, <1>12, <1>13, <1>14, <1>15 DEF Stages, first, last, left

(* Walking along one child, which gets all.                                *)
LEMMA WalkOfOne ==
  ASSUME NEW g \in [Widgets -> Rect], NEW whole \in Nat
  PROVE  LET walk == Walk(g, "area", "h", whole)
         IN  walk[0].next = 0 /\ walk[1].len = LeftOver(g, "area", "h", whole)
<1> DEFINE left == LeftOver(g, "area", "h", whole)
           share == Share(g, "area", "h", whole)
           Then(i, r) == [len |-> Length(g, Kids["area"][i], "h", r.left, share),
                          next |-> r.next + Length(g, Kids["area"][i], "h", r.left, share),
                          left |-> IF Kids["area"][i] \in Fixed["h"] THEN r.left
                                   ELSE Wrap(r.left - Length(g, Kids["area"][i], "h", r.left, share))]
           start == [len |-> 0, next |-> 0, left |-> left]
           w == CHOOSE w : w = [i \in 0 .. Len(Kids["area"]) |-> IF i = 0 THEN start ELSE Then(i, w[i - 1])]
           B(i) == IF i = 0 THEN start ELSE Then(1, start)
           b == [i \in 0 .. 1 |-> B(i)]
<1>1. Len(Kids["area"]) = 1 BY KidsCount
<1>2. left \in Nat /\ share = left BY LeftOverIs DEF Laid
<1>3. Kids["area"][1] \notin Fixed["h"] BY KidsAre DEF Fixed
<1>4. Walk(g, "area", "h", whole) = w BY DEF Walk
<1> HIDE DEF Then, start
<1>5. \A i \in 0 .. 1 : B(i) = IF i = 0 THEN start ELSE Then(i, B(i - 1))
  <2> TAKE i \in 0 .. 1
  <2>1. i = 0 \/ i = 1 OBVIOUS
  <2> QED BY <2>1
<1> HIDE DEF B
<1>6. b = [i \in 0 .. 1 |-> IF i = 0 THEN start ELSE Then(i, b[i - 1])] BY <1>5
<1> HIDE DEF b
<1>7. w = [i \in 0 .. 1 |-> IF i = 0 THEN start ELSE Then(i, w[i - 1])]
  <2>1. w = CHOOSE r : r = [i \in 0 .. 1 |-> IF i = 0 THEN start ELSE Then(i, r[i - 1])]
    BY <1>1
  <2> QED BY <1>6, <2>1
<1> HIDE DEF w
<1>8. \A i \in 0 .. 1 : w[i] = IF i = 0 THEN start ELSE Then(i, w[i - 1]) BY <1>7
<1>9. w[0] = start /\ w[1] = Then(1, w[0]) BY <1>8
<1> HIDE DEF left, share
<1>10. w[0].next = 0 /\ w[0].left = left BY <1>9 DEF start
<1>11. Length(g, Kids["area"][1], "h", w[0].left, share) = left BY <1>2, <1>3, <1>10 DEF Length
<1>12. w[1].len = left BY <1>9, <1>11 DEF Then
<1> QED BY <1>4, <1>10, <1>12 DEF left

(* What the layout makes of the child c of a widget it has made up.        *)
LaidIn(g, c, up) ==
  LET p == Up(c)
      i == CHOOSE k \in DOMAIN Kids[p] : Kids[p][k] = c
      crossed == Across(g, c, Cross(p), up.rect[Cross(p)])
      whole == up.rect[Main(p)]
  IN  IF Share(g, p, Main(p), whole) > whole
      THEN [rect |-> crossed, reached |-> FALSE]
      ELSE [rect |-> Along(g, crossed, p, i, Main(p), whole), reached |-> TRUE]

(* The same, when the layout does not reach the child.                     *)
Child(g, c, up) ==
  IF ~up.reached \/ Up(c) \notin Rows \cup Columns \/ up.rect.w = 0 \/ up.rect.h = 0
  THEN [rect |-> g[c], reached |-> FALSE]
  ELSE LaidIn(g, c, up)

(* The rectangles a layout makes, parent before child.                     *)
Made(g, w, h, new) ==
  /\ Resized(g, "win", w, h) = [c \in Widgets |-> new[c].rect]
  /\ new["win"] = [rect |-> [g["win"] EXCEPT !.w = w, !.h = h], reached |-> TRUE]
  /\ \A c \in Widgets \ {"win"} : new[c] = Child(g, c, new[Up(c)])

(* resize makes such rectangles.                                           *)
LEMMA ResizedIs ==
  ASSUME NEW g, NEW w, NEW h
  PROVE  \E new : Made(g, w, h, new)
<1> DEFINE top == [rect |-> [g["win"] EXCEPT !.w = w, !.h = h], reached |-> TRUE]
           Down(c, up) ==
             IF c = "win" THEN [rect |-> [g[c] EXCEPT !.w = w, !.h = h], reached |-> TRUE]
             ELSE IF \/ Parents[c] = {} \/ ~up.reached \/ Up(c) \notin Rows \cup Columns
                     \/ up.rect.w = 0 \/ up.rect.h = 0
                  THEN [rect |-> g[c], reached |-> FALSE]
             ELSE LaidIn(g, c, up)
           new == CHOOSE new : new = [c \in Widgets |-> Down(c, new[Up(c)])]
           view == Child(g, "view", top)
           area == Child(g, "area", view)
           A(c) == IF c = "win" THEN top
                   ELSE IF c \in {"tabs", "status", "view"} THEN Child(g, c, top)
                   ELSE IF c \in {"lines", "text", "area"} THEN Child(g, c, view)
                   ELSE Child(g, c, area)
           a == [c \in Widgets |-> A(c)]
<1>1. Resized(g, "win", w, h) = [c \in Widgets |-> new[c].rect]
  BY DEF Resized, LaidIn
<1>2. \A c \in Widgets \ {"win"} : \A up : Down(c, up) = Child(g, c, up)
  <2>1. \A c \in Widgets \ {"win"} : Parents[c] # {} BY WidgetsAre, ParentsAre
  <2> QED BY <2>1, Zenon DEF Child
<1>3. \A up : Down("win", up) = top OBVIOUS
<1> HIDE DEF Down, top
<1>4. \A c \in Widgets \ {"win"} : A(c) = Child(g, c, A(Up(c)))
  <2> HIDE DEF view, area
  <2>1. \A c \in {"tabs", "status", "view"} : A(c) = Child(g, c, A(Up(c))) BY UpIs
  <2>2. view = A("view") BY DEF view
  <2>3. \A c \in {"lines", "text", "area"} : A(c) = Child(g, c, A(Up(c))) BY UpIs, <2>2
  <2>4. area = A("area") BY DEF area
  <2>5. A("bar") = Child(g, "bar", A(Up("bar"))) BY UpIs, <2>4
  <2> HIDE DEF A
  <2> QED BY <2>1, <2>3, <2>5, WidgetsAre
<1>5. A("win") = top OBVIOUS
<1> HIDE DEF A
<1>6. \A c \in Widgets : A(c) = Down(c, A(Up(c)))
  BY <1>2, <1>3, <1>4, <1>5
<1>7. \A c \in Widgets \ {"win"} : Up(c) \in Widgets BY WidgetsAre, UpIs
<1>8. \A c \in Widgets : a[c] = Down(c, a[Up(c)])
  <2> TAKE c \in Widgets
  <2>1. CASE c = "win" BY <1>3, <1>5, <2>1
  <2>2. CASE c # "win" BY <1>6, <1>7, <2>2
  <2> QED BY <2>1, <2>2
<1>9. a = [c \in Widgets |-> Down(c, a[Up(c)])]
  <2> DEFINE b == [c \in Widgets |-> Down(c, a[Up(c)])]
  <2>1. \A c \in Widgets : a[c] = b[c] BY <1>8
  <2>2. a = [c \in Widgets |-> a[c]] OBVIOUS
  <2> QED BY <2>1, <2>2
<1> HIDE DEF a
<1>10. new = [c \in Widgets |-> Down(c, new[Up(c)])] BY <1>9
<1> HIDE DEF new
<1>11. \A c \in Widgets : new[c] = Down(c, new[Up(c)]) BY <1>10
<1>12. new["win"] = top BY <1>3, <1>11, WidgetsAre
<1>13. \A c \in Widgets \ {"win"} : new[c] = Child(g, c, new[Up(c)]) BY <1>2, <1>11
<1>14. Made(g, w, h, new) BY <1>1, <1>12, <1>13 DEF top, Made
<1> QED BY <1>14

(* The axes of the layouts of the window, the view and the scroll bar's    *)
(* area.                                                                   *)
LEMMA AxisIs ==
  /\ Main("win") = "h" /\ Cross("win") = "w"
  /\ Main("view") = "w" /\ Cross("view") = "h"
  /\ Main("area") = "h" /\ Cross("area") = "w"
  /\ Place("w") = "x" /\ Place("h") = "y"
  BY DEF Main, Cross, Place, Columns

(* Across the main axis a child is as long as its parent, unless its       *)
(* length is fixed.                                                        *)
LEMMA AcrossIs ==
  ASSUME NEW g \in [Widgets -> Rect], NEW c \in Widgets, NEW whole \in Nat
  PROVE  /\ Across(g, c, "w", whole)
              = [x |-> 0, y |-> g[c].y, h |-> g[c].h,
                 w |-> IF c \in Fixed["w"] THEN g[c].w ELSE whole]
         /\ Across(g, c, "h", whole)
              = [x |-> g[c].x, y |-> 0, w |-> g[c].w,
                 h |-> IF c \in Fixed["h"] THEN g[c].h ELSE whole]
         /\ Across(g, c, "w", whole) \in Rect
         /\ Across(g, c, "h", whole) \in Rect
<1>1. g[c] \in Rect OBVIOUS
<1>2. /\ Length(g, c, "w", whole, whole) = IF c \in Fixed["w"] THEN g[c].w ELSE whole
      /\ Length(g, c, "h", whole, whole) = IF c \in Fixed["h"] THEN g[c].h ELSE whole
  BY DEF Length
<1>3. /\ Across(g, c, "w", whole) = [g[c] EXCEPT !.x = 0, !.w = Length(g, c, "w", whole, whole)]
      /\ Across(g, c, "h", whole) = [g[c] EXCEPT !.y = 0, !.h = Length(g, c, "h", whole, whole)]
  BY AxisIs DEF Across
<1>4. /\ Across(g, c, "w", whole)
           = [x |-> 0, y |-> g[c].y, h |-> g[c].h, w |-> Length(g, c, "w", whole, whole)]
      /\ Across(g, c, "h", whole)
           = [x |-> g[c].x, y |-> 0, w |-> g[c].w, h |-> Length(g, c, "h", whole, whole)]
  BY <1>1, <1>3 DEF Rect
<1>5. /\ Length(g, c, "w", whole, whole) \in Nat /\ Length(g, c, "h", whole, whole) \in Nat
  BY <1>1, <1>2 DEF Rect
<1> QED BY <1>1, <1>2, <1>4, <1>5 DEF Rect

(* Along the main axis the layout makes a rectangle.                       *)
LEMMA AlongType ==
  ASSUME NEW g \in [Widgets -> Rect], NEW p, NEW f, <<p, f>> \in Laid,
         NEW r \in Rect, NEW whole \in Nat, NEW i \in DOMAIN Kids[p]
  PROVE  Along(g, r, p, i, f, whole) \in Rect
<1> DEFINE walk == Walk(g, p, f, whole)
<1>1. walk[i].len \in Nat /\ walk[i - 1].next \in Nat
  <2>1. CASE <<p, f>> \in {<<"win", "h">>, <<"view", "w">>}
    <3>1. i = 1 \/ i = 2 \/ i = 3
      <4>1. i \in 1 .. 3 BY <2>1, KidsCount
      <4> QED BY <4>1
    <3> HIDE DEF walk
    <3>2. /\ walk[0].next \in Nat /\ walk[1].next \in Nat /\ walk[2].next \in Nat
          /\ walk[1].len \in Nat /\ walk[2].len \in Nat /\ walk[3].len \in Nat
      <4> DEFINE first == g[Kids[p][1]][f]
                 left  == LeftOver(g, p, f, whole)
                 last  == g[Kids[p][3]][f]
      <4>1. Stages(walk, first, left, last) BY <2>1, WalkOfThree DEF walk
      <4> HIDE DEF first, left, last
      <4> QED BY <4>1 DEF Stages
    <3>3. 1 - 1 = 0 /\ 2 - 1 = 1 /\ 3 - 1 = 2 OBVIOUS
    <3>4. CASE i = 1 BY <3>2, <3>3, <3>4
    <3>5. CASE i = 2 BY <3>2, <3>3, <3>5
    <3>6. CASE i = 3 BY <3>2, <3>3, <3>6
    <3> QED BY <3>1, <3>4, <3>5, <3>6
  <2>2. CASE p = "area" /\ f = "h"
    <3>1. i = 1
      <4>1. i \in 1 .. 1 BY <2>2, KidsCount
      <4> QED BY <4>1
    <3>2. LeftOver(g, "area", "h", whole) \in Nat BY LeftOverIs DEF Laid
    <3>3. walk[0].next = 0 /\ walk[1].len \in Nat BY <2>2, <3>2, WalkOfOne
    <3> QED BY <3>1, <3>3
  <2> QED BY <2>1, <2>2 DEF Laid
<1>2. Along(g, r, p, i, f, whole) = [r EXCEPT ![f] = walk[i].len, ![Place(f)] = walk[i - 1].next]
  BY DEF Along
<1> HIDE DEF walk
<1>3. CASE f = "w" BY <1>1, <1>2, <1>3, AxisIs DEF Rect
<1>4. CASE f = "h" BY <1>1, <1>2, <1>4, AxisIs DEF Rect
<1> QED BY <1>3, <1>4 DEF Laid

(* What the layout makes of a child is a rectangle.                        *)
LEMMA ChildType ==
  ASSUME NEW g \in [Widgets -> Rect], NEW c \in Widgets \ {"win"},
         NEW up \in [rect : Rect, reached : BOOLEAN]
  PROVE  Child(g, c, up) \in [rect : Rect, reached : BOOLEAN]
<1> DEFINE p == Up(c)
           i == CHOOSE k \in DOMAIN Kids[p] : Kids[p][k] = c
<1>1. /\ up.rect \in Rect /\ g[c] \in Rect
      /\ up.rect["w"] \in Nat /\ up.rect["h"] \in Nat
  BY DEF Rect
<1>2. /\ p \in {"win", "view", "area"}
      /\ i \in DOMAIN Kids[p]
  <2>1. CASE c \in {"tabs", "view", "status"}
    <3>1. p = "win" BY <2>1, UpIs
    <3>2. \E k \in DOMAIN Kids["win"] : Kids["win"][k] = c BY <2>1, KidsAre
    <3> QED BY <3>1, <3>2
  <2>2. CASE c \in {"lines", "text", "area"}
    <3>1. p = "view" BY <2>2, UpIs
    <3>2. \E k \in DOMAIN Kids["view"] : Kids["view"][k] = c BY <2>2, KidsAre
    <3> QED BY <3>1, <3>2
  <2>3. CASE c = "bar"
    <3>1. p = "area" BY <2>3, UpIs
    <3>2. \E k \in DOMAIN Kids["area"] : Kids["area"][k] = c BY <2>3, KidsAre
    <3> QED BY <3>1, <3>2
  <2> QED BY <2>1, <2>2, <2>3, WidgetsAre
<1> HIDE DEF p, i
<1>3. /\ <<p, Main(p)>> \in Laid
      /\ Main(p) \in {"w", "h"} /\ Cross(p) \in {"w", "h"}
  BY <1>2, AxisIs DEF Laid
<1> DEFINE crossed == Across(g, c, Cross(p), up.rect[Cross(p)])
           whole == up.rect[Main(p)]
<1>4. whole \in Nat /\ up.rect[Cross(p)] \in Nat BY <1>1, <1>3
<1>5. crossed \in Rect BY <1>3, <1>4, AcrossIs
<1> HIDE DEF crossed, whole
<1>6. Along(g, crossed, p, i, Main(p), whole) \in Rect BY <1>2, <1>3, <1>4, <1>5, AlongType
<1>7. LaidIn(g, c, up) = IF Share(g, p, Main(p), whole) > whole
                         THEN [rect |-> crossed, reached |-> FALSE]
                         ELSE [rect |-> Along(g, crossed, p, i, Main(p), whole), reached |-> TRUE]
  BY DEF LaidIn, p, i, crossed, whole
<1>8. LaidIn(g, c, up) \in [rect : Rect, reached : BOOLEAN] BY <1>5, <1>6, <1>7
<1> QED BY <1>1, <1>8 DEF Child

(* A layout makes rectangles of rectangles, for every size.                *)
LEMMA ResizedType ==
  ASSUME NEW g \in [Widgets -> Rect], NEW w \in Nat, NEW h \in Nat
  PROVE  Resized(g, "win", w, h) \in [Widgets -> Rect]
<1>1. PICK new : Made(g, w, h, new) BY ResizedIs
<1> USE DEF Made
<1> DEFINE Good == [rect : Rect, reached : BOOLEAN]
<1>2. new["win"] \in Good
  <2>1. g["win"] \in Rect BY WidgetsAre
  <2>2. [g["win"] EXCEPT !.w = w, !.h = h] \in Rect BY <2>1 DEF Rect
  <2> QED BY <1>1, <2>2
<1>3. \A c \in Widgets \ {"win"} : new[Up(c)] \in Good => new[c] \in Good
  BY <1>1, ChildType
<1> HIDE DEF Good
<1>4. \A c \in {"tabs", "view", "status"} : new[c] \in Good BY <1>2, <1>3, WidgetsAre, UpIs
<1>5. \A c \in {"lines", "text", "area"} : new[c] \in Good BY <1>3, <1>4, WidgetsAre, UpIs
<1>6. new["bar"] \in Good BY <1>3, <1>5, WidgetsAre, UpIs
<1>7. \A c \in Widgets : new[c] \in Good BY <1>2, <1>4, <1>5, <1>6, WidgetsAre
<1>8. \A c \in Widgets : new[c].rect \in Rect BY <1>7 DEF Good
<1> QED BY <1>1, <1>8

-----------------------------------------------------------------------------
(* A layout that has room.                                                 *)

(* The number of a child among those of its parent.                        *)
Slot(c) == CHOOSE k \in DOMAIN Kids[Up(c)] : Kids[Up(c)][k] = c

(* The number of each child.                                               *)
LEMMA SlotIs ==
  /\ Slot("tabs") = 1 /\ Slot("view") = 2 /\ Slot("status") = 3
  /\ Slot("lines") = 1 /\ Slot("text") = 2 /\ Slot("area") = 3
  /\ Slot("bar") = 1
<1>1. \A c : Slot(c) = CHOOSE k \in DOMAIN Kids[Up(c)] : Kids[Up(c)][k] = c BY DEF Slot
<1>2. Slot("tabs") = 1 /\ Slot("view") = 2 /\ Slot("status") = 3
  <2>1. /\ Slot("tabs") = CHOOSE k \in DOMAIN Kids["win"] : Kids["win"][k] = "tabs"
        /\ Slot("view") = CHOOSE k \in DOMAIN Kids["win"] : Kids["win"][k] = "view"
        /\ Slot("status") = CHOOSE k \in DOMAIN Kids["win"] : Kids["win"][k] = "status"
    BY <1>1, UpIs
  <2> QED BY <2>1, KidsAre
<1>3. Slot("lines") = 1 /\ Slot("text") = 2 /\ Slot("area") = 3
  <2>1. /\ Slot("lines") = CHOOSE k \in DOMAIN Kids["view"] : Kids["view"][k] = "lines"
        /\ Slot("text") = CHOOSE k \in DOMAIN Kids["view"] : Kids["view"][k] = "text"
        /\ Slot("area") = CHOOSE k \in DOMAIN Kids["view"] : Kids["view"][k] = "area"
    BY <1>1, UpIs
  <2> QED BY <2>1, KidsAre
<1>4. Slot("bar") = 1
  <2>1. Slot("bar") = CHOOSE k \in DOMAIN Kids["area"] : Kids["area"][k] = "bar"
    BY <1>1, UpIs
  <2> QED BY <2>1, KidsAre
<1> QED BY <1>2, <1>3, <1>4

(* The rectangle of w x h at x, y.                                         *)
R(x, y, w, h) == [x |-> x, y |-> y, w |-> w, h |-> h]

(* The children of a widget whose height is shared.                        *)
LEMMA DownIs ==
  ASSUME NEW g \in [Widgets -> Rect], NEW c \in {"tabs", "view", "status"},
         NEW x, NEW y, NEW w \in Nat \ {0}, NEW h \in Nat \ {0}, h < Word,
         Fixeds(g, "win") <= h
  PROVE  Child(g, c, [rect |-> R(x, y, w, h), reached |-> TRUE])
           = [rect |-> IF c = "tabs" THEN R(0, 0, w, g["tabs"].h)
                       ELSE IF c = "view"
                            THEN R(0, g["tabs"].h, w, h - Fixeds(g, "win"))
                            ELSE R(0, g["tabs"].h + (h - Fixeds(g, "win")), w, g["status"].h),
              reached |-> TRUE]
<1> DEFINE up == [rect |-> R(x, y, w, h), reached |-> TRUE]
           i == Slot(c)
           crossed == Across(g, c, "w", w)
           walk == Walk(g, "win", "h", h)
           left == LeftOver(g, "win", "h", h)
<1>1. Up(c) = "win" /\ Main("win") = "h" /\ Cross("win") = "w" /\ Place("h") = "y"
  BY UpIs, AxisIs
<1>2. up.rect["w"] = w /\ up.rect["h"] = h /\ up.reached BY DEF R
<1>3. left = h - Fixeds(g, "win") /\ left \in Nat /\ Share(g, "win", "h", h) = left
      /\ Fixeds(g, "win") \in Nat
  <2>1. Fixeds(g, "win") \in Nat /\ left = Wrap(h - Fixeds(g, "win")) /\ left \in Nat
        /\ Share(g, "win", "h", h) = left
    BY LeftOverIs DEF Laid
  <2>2. h - Fixeds(g, "win") \in 0 .. Word - 1 BY <2>1, LengthsAssumption
  <2> QED BY <2>1, <2>2, WrapType
<1>4. Stages(walk, g["tabs"].h, left, g["status"].h) BY WalkOfThree, KidsAre
<1>5. ~(Share(g, "win", "h", h) > h) BY <1>3
<1>6. crossed = [x |-> 0, y |-> g[c].y, h |-> g[c].h, w |-> w]
  <2>1. c \notin Fixed["w"] BY DEF Fixed
  <2>2. c \in Widgets BY WidgetsAre
  <2> QED BY <2>1, <2>2, AcrossIs
<1>7. LaidIn(g, c, up) = [rect |-> Along(g, crossed, "win", i, "h", h), reached |-> TRUE]
  <2>1. LaidIn(g, c, up) = IF Share(g, "win", "h", h) > h
                           THEN [rect |-> crossed, reached |-> FALSE]
                           ELSE [rect |-> Along(g, crossed, "win", i, "h", h), reached |-> TRUE]
    BY <1>1, <1>2 DEF LaidIn, Slot
  <2> HIDE DEF crossed, i
  <2> QED BY <1>5, <2>1
<1>8. Child(g, c, up) = LaidIn(g, c, up) BY <1>1, <1>2 DEF Child, Rows
<1>9. Along(g, crossed, "win", i, "h", h)
        = [x |-> 0, w |-> w, y |-> walk[i - 1].next, h |-> walk[i].len]
  <2>1. Along(g, crossed, "win", i, "h", h)
          = [crossed EXCEPT !["h"] = walk[i].len, !["y"] = walk[i - 1].next]
    BY <1>1 DEF Along
  <2> HIDE DEF walk, i, crossed
  <2> QED BY <1>6, <2>1
<1>10. (c = "tabs" => i = 1) /\ (c = "view" => i = 2) /\ (c = "status" => i = 3)
  BY SlotIs
<1> HIDE DEF walk, i, crossed, left
<1>11. Along(g, crossed, "win", i, "h", h)
         = IF c = "tabs" THEN R(0, 0, w, g["tabs"].h)
           ELSE IF c = "view" THEN R(0, g["tabs"].h, w, left)
                ELSE R(0, g["tabs"].h + left, w, g["status"].h)
  <2>1. 1 - 1 = 0 /\ 2 - 1 = 1 /\ 3 - 1 = 2 OBVIOUS
  <2>2. CASE c = "tabs" BY <1>4, <1>9, <1>10, <2>1, <2>2 DEF Stages, R
  <2>3. CASE c = "view" BY <1>4, <1>9, <1>10, <2>1, <2>3 DEF Stages, R
  <2>4. CASE c = "status" BY <1>4, <1>9, <1>10, <2>1, <2>4 DEF Stages, R
  <2> QED BY <2>2, <2>3, <2>4
<1> QED BY <1>3, <1>7, <1>8, <1>11

(* The children of the widget whose width is shared.                       *)
LEMMA AlongIs ==
  ASSUME NEW g \in [Widgets -> Rect], NEW c \in {"lines", "text", "area"},
         NEW x, NEW y, NEW w \in Nat \ {0}, NEW h \in Nat \ {0}, w < Word,
         Fixeds(g, "view") <= w
  PROVE  Child(g, c, [rect |-> R(x, y, w, h), reached |-> TRUE])
           = [rect |-> IF c = "lines" THEN R(0, 0, g["lines"].w, h)
                       ELSE IF c = "text"
                            THEN R(g["lines"].w, 0, w - Fixeds(g, "view"), h)
                            ELSE R(g["lines"].w + (w - Fixeds(g, "view")), 0, g["area"].w, h),
              reached |-> TRUE]
<1> DEFINE up == [rect |-> R(x, y, w, h), reached |-> TRUE]
           i == Slot(c)
           crossed == Across(g, c, "h", h)
           walk == Walk(g, "view", "w", w)
           left == LeftOver(g, "view", "w", w)
<1>1. Up(c) = "view" /\ Main("view") = "w" /\ Cross("view") = "h" /\ Place("w") = "x"
  BY UpIs, AxisIs
<1>2. up.rect["w"] = w /\ up.rect["h"] = h /\ up.reached BY DEF R
<1>3. left = w - Fixeds(g, "view") /\ left \in Nat /\ Share(g, "view", "w", w) = left
      /\ Fixeds(g, "view") \in Nat
  <2>1. Fixeds(g, "view") \in Nat /\ left = Wrap(w - Fixeds(g, "view")) /\ left \in Nat
        /\ Share(g, "view", "w", w) = left
    BY LeftOverIs DEF Laid
  <2>2. w - Fixeds(g, "view") \in 0 .. Word - 1 BY <2>1, LengthsAssumption
  <2> QED BY <2>1, <2>2, WrapType
<1>4. Stages(walk, g["lines"].w, left, g["area"].w) BY WalkOfThree, KidsAre
<1>5. ~(Share(g, "view", "w", w) > w) BY <1>3
<1>6. crossed = [y |-> 0, x |-> g[c].x, w |-> g[c].w, h |-> h]
  <2>1. c \notin Fixed["h"] BY DEF Fixed
  <2>2. c \in Widgets BY WidgetsAre
  <2> QED BY <2>1, <2>2, AcrossIs
<1>7. LaidIn(g, c, up) = [rect |-> Along(g, crossed, "view", i, "w", w), reached |-> TRUE]
  <2>1. LaidIn(g, c, up) = IF Share(g, "view", "w", w) > w
                           THEN [rect |-> crossed, reached |-> FALSE]
                           ELSE [rect |-> Along(g, crossed, "view", i, "w", w), reached |-> TRUE]
    BY <1>1, <1>2 DEF LaidIn, Slot
  <2> HIDE DEF crossed, i
  <2> QED BY <1>5, <2>1
<1>8. Child(g, c, up) = LaidIn(g, c, up) BY <1>1, <1>2 DEF Child, Columns
<1>9. Along(g, crossed, "view", i, "w", w)
        = [y |-> 0, h |-> h, x |-> walk[i - 1].next, w |-> walk[i].len]
  <2>1. Along(g, crossed, "view", i, "w", w)
          = [crossed EXCEPT !["w"] = walk[i].len, !["x"] = walk[i - 1].next]
    BY <1>1 DEF Along
  <2> HIDE DEF walk, i, crossed
  <2> QED BY <1>6, <2>1
<1>10. (c = "lines" => i = 1) /\ (c = "text" => i = 2) /\ (c = "area" => i = 3)
  BY SlotIs
<1> HIDE DEF walk, i, crossed, left
<1>11. Along(g, crossed, "view", i, "w", w)
         = IF c = "lines" THEN R(0, 0, g["lines"].w, h)
           ELSE IF c = "text" THEN R(g["lines"].w, 0, left, h)
                ELSE R(g["lines"].w + left, 0, g["area"].w, h)
  <2>1. 1 - 1 = 0 /\ 2 - 1 = 1 /\ 3 - 1 = 2 OBVIOUS
  <2>2. CASE c = "lines" BY <1>4, <1>9, <1>10, <2>1, <2>2 DEF Stages, R
  <2>3. CASE c = "text" BY <1>4, <1>9, <1>10, <2>1, <2>3 DEF Stages, R
  <2>4. CASE c = "area" BY <1>4, <1>9, <1>10, <2>1, <2>4 DEF Stages, R
  <2> QED BY <2>2, <2>3, <2>4
<1> QED BY <1>3, <1>7, <1>8, <1>11

(* The scroll bar fills its area.                                          *)
LEMMA FillsIs ==
  ASSUME NEW g \in [Widgets -> Rect],
         NEW x, NEW y, NEW w \in Nat \ {0}, NEW h \in Nat \ {0}, h < Word
  PROVE  Child(g, "bar", [rect |-> R(x, y, w, h), reached |-> TRUE])
           = [rect |-> R(0, 0, w, h), reached |-> TRUE]
<1> DEFINE up == [rect |-> R(x, y, w, h), reached |-> TRUE]
           i == Slot("bar")
           crossed == Across(g, "bar", "w", w)
           walk == Walk(g, "area", "h", h)
           left == LeftOver(g, "area", "h", h)
<1>1. Up("bar") = "area" /\ Main("area") = "h" /\ Cross("area") = "w" /\ Place("h") = "y"
  BY UpIs, AxisIs
<1>2. up.rect["w"] = w /\ up.rect["h"] = h /\ up.reached BY DEF R
<1>3. left = h /\ Share(g, "area", "h", h) = h
  <2>1. left = Wrap(h - 0) /\ Share(g, "area", "h", h) = left
    BY LeftOverIs DEF Laid, Fixeds
  <2>2. h - 0 = h /\ h \in 0 .. Word - 1 BY LengthsAssumption
  <2> QED BY <2>1, <2>2, WrapType
<1>4. walk[0].next = 0 /\ walk[1].len = left BY WalkOfOne
<1>5. ~(Share(g, "area", "h", h) > h) BY <1>3
<1>6. crossed = [x |-> 0, y |-> g["bar"].y, h |-> g["bar"].h, w |-> w]
  <2>1. "bar" \notin Fixed["w"] BY DEF Fixed
  <2>2. "bar" \in Widgets BY WidgetsAre
  <2> QED BY <2>1, <2>2, AcrossIs
<1>7. LaidIn(g, "bar", up) = [rect |-> Along(g, crossed, "area", i, "h", h), reached |-> TRUE]
  <2>1. LaidIn(g, "bar", up)
          = IF Share(g, "area", "h", h) > h
            THEN [rect |-> crossed, reached |-> FALSE]
            ELSE [rect |-> Along(g, crossed, "area", i, "h", h), reached |-> TRUE]
    BY <1>1, <1>2 DEF LaidIn, Slot
  <2> HIDE DEF crossed, i
  <2> QED BY <1>5, <2>1
<1>8. Child(g, "bar", up) = LaidIn(g, "bar", up) BY <1>1, <1>2 DEF Child, Rows
<1>9. Along(g, crossed, "area", i, "h", h)
        = [x |-> 0, w |-> w, y |-> walk[i - 1].next, h |-> walk[i].len]
  <2>1. Along(g, crossed, "area", i, "h", h)
          = [crossed EXCEPT !["h"] = walk[i].len, !["y"] = walk[i - 1].next]
    BY <1>1 DEF Along
  <2> HIDE DEF walk, i, crossed
  <2> QED BY <1>6, <2>1
<1>10. i = 1 BY SlotIs
<1> HIDE DEF walk, i, crossed, left
<1>11. Along(g, crossed, "area", i, "h", h) = R(0, 0, w, h)
  <2>1. 1 - 1 = 0 OBVIOUS
  <2> QED BY <1>3, <1>4, <1>9, <1>10, <2>1 DEF R
<1> QED BY <1>7, <1>8, <1>11

(* Whatever the size, the layout keeps the fixed lengths.                  *)
LEMMA LengthKept ==
  ASSUME NEW g \in [Widgets -> Rect], NEW up \in [rect : Rect, reached : BOOLEAN]
  PROVE  /\ Child(g, "tabs", up).rect.h = g["tabs"].h
         /\ Child(g, "status", up).rect.h = g["status"].h
         /\ Child(g, "lines", up).rect.w = g["lines"].w
         /\ Child(g, "area", up).rect.w = g["area"].w
<1>1. up.rect["w"] \in Nat /\ up.rect["h"] \in Nat BY DEF Rect
<1>2. ASSUME NEW c \in {"tabs", "status"}
      PROVE  Child(g, c, up).rect.h = g[c].h
  <2> DEFINE w == up.rect["w"]
             h == up.rect["h"]
             i == Slot(c)
             crossed == Across(g, c, "w", w)
             walk == Walk(g, "win", "h", h)
             along == Along(g, crossed, "win", i, "h", h)
  <2>1. Up(c) = "win" /\ Main("win") = "h" /\ Cross("win") = "w" /\ Place("h") = "y"
    BY UpIs, AxisIs
  <2>2. Stages(walk, g["tabs"].h, LeftOver(g, "win", "h", h), g["status"].h)
    BY <1>1, WalkOfThree, KidsAre
  <2>3. crossed = [x |-> 0, y |-> g[c].y, h |-> g[c].h, w |-> w]
    <3>1. c \notin Fixed["w"] /\ c \in Widgets BY WidgetsAre DEF Fixed
    <3> QED BY <1>1, <3>1, AcrossIs
  <2>4. along = [crossed EXCEPT !["h"] = walk[i].len, !["y"] = walk[i - 1].next]
    BY <2>1 DEF Along
  <2>5. walk[i].len = g[c].h BY <2>2, SlotIs DEF Stages
  <2>6. LaidIn(g, c, up) = IF Share(g, "win", "h", h) > h
                           THEN [rect |-> crossed, reached |-> FALSE]
                           ELSE [rect |-> along, reached |-> TRUE]
    BY <2>1 DEF LaidIn, Slot
  <2>7. Child(g, c, up) = [rect |-> g[c], reached |-> FALSE] \/ Child(g, c, up) = LaidIn(g, c, up)
    BY DEF Child
  <2> HIDE DEF walk, i, w, h, crossed, along
  <2>8. crossed.h = g[c].h BY <2>3
  <2>9. along.h = g[c].h BY <2>3, <2>4, <2>5
  <2> QED BY <2>6, <2>7, <2>8, <2>9
<1>3. ASSUME NEW c \in {"lines", "area"}
      PROVE  Child(g, c, up).rect.w = g[c].w
  <2> DEFINE w == up.rect["w"]
             h == up.rect["h"]
             i == Slot(c)
             crossed == Across(g, c, "h", h)
             walk == Walk(g, "view", "w", w)
             along == Along(g, crossed, "view", i, "w", w)
  <2>1. Up(c) = "view" /\ Main("view") = "w" /\ Cross("view") = "h" /\ Place("w") = "x"
    BY UpIs, AxisIs
  <2>2. Stages(walk, g["lines"].w, LeftOver(g, "view", "w", w), g["area"].w)
    BY <1>1, WalkOfThree, KidsAre
  <2>3. crossed = [y |-> 0, x |-> g[c].x, w |-> g[c].w, h |-> h]
    <3>1. c \notin Fixed["h"] /\ c \in Widgets BY WidgetsAre DEF Fixed
    <3> QED BY <1>1, <3>1, AcrossIs
  <2>4. along = [crossed EXCEPT !["w"] = walk[i].len, !["x"] = walk[i - 1].next]
    BY <2>1 DEF Along
  <2>5. walk[i].len = g[c].w BY <2>2, SlotIs DEF Stages
  <2>6. LaidIn(g, c, up) = IF Share(g, "view", "w", w) > w
                           THEN [rect |-> crossed, reached |-> FALSE]
                           ELSE [rect |-> along, reached |-> TRUE]
    BY <2>1 DEF LaidIn, Slot
  <2>7. Child(g, c, up) = [rect |-> g[c], reached |-> FALSE] \/ Child(g, c, up) = LaidIn(g, c, up)
    BY DEF Child
  <2> HIDE DEF walk, i, w, h, crossed, along
  <2>8. crossed.w = g[c].w BY <2>3
  <2>9. along.w = g[c].w BY <2>3, <2>4, <2>5
  <2> QED BY <2>6, <2>7, <2>8, <2>9
<1> QED BY <1>2, <1>3

(* A rectangle with another width and height.                              *)
LEMMA Widened ==
  ASSUME NEW r \in Rect, NEW w, NEW h
  PROVE  [r EXCEPT !.w = w, !.h = h] = R(r.x, r.y, w, h)
<1>1. ASSUME NEW q, q = [r EXCEPT !.w = w, !.h = h]
      PROVE  q = [x |-> r.x, y |-> r.y, w |-> w, h |-> h]
  BY <1>1 DEF Rect
<1> QED BY <1>1, Zenon DEF R

(* The lengths and the place that on_create gives for good.                *)
Built(g) == /\ g["win"].x = 0 /\ g["win"].y = 0
            /\ g["tabs"].h = BarHeight /\ g["status"].h = BarHeight
            /\ g["lines"].w = BarWidth /\ g["area"].w = BarWidth

(* A layout of any size, with room or without, keeps these.                *)
LEMMA BuiltKept ==
  ASSUME NEW g \in [Widgets -> Rect], NEW w \in Nat, NEW h \in Nat, Built(g)
  PROVE  Built(Resized(g, "win", w, h))
<1>1. PICK new : Made(g, w, h, new) BY ResizedIs
<1>2. /\ \A c \in Widgets : Resized(g, "win", w, h)[c] = new[c].rect
      /\ new["win"] = [rect |-> [g["win"] EXCEPT !.w = w, !.h = h], reached |-> TRUE]
      /\ \A c \in Widgets \ {"win"} : new[c] = Child(g, c, new[Up(c)])
  BY <1>1 DEF Made
<1>3. new["win"] \in [rect : Rect, reached : BOOLEAN]
  <2>1. g["win"] \in Rect BY WidgetsAre
  <2>2. [g["win"] EXCEPT !.w = w, !.h = h] \in Rect BY <2>1 DEF Rect
  <2> QED BY <1>2, <2>2
<1>4. new["view"] \in [rect : Rect, reached : BOOLEAN]
  <2>1. "view" \in Widgets \ {"win"} /\ Up("view") = "win" BY UpIs, WidgetsAre
  <2>2. new["view"] = Child(g, "view", new["win"]) BY <1>2, <2>1
  <2> QED BY <1>3, <2>1, <2>2, ChildType
<1>5. /\ new["tabs"].rect.h = g["tabs"].h /\ new["status"].rect.h = g["status"].h
      /\ new["lines"].rect.w = g["lines"].w /\ new["area"].rect.w = g["area"].w
  <2>1. /\ {"tabs", "status", "lines", "area"} \subseteq Widgets \ {"win"}
        /\ Up("tabs") = "win" /\ Up("status") = "win"
        /\ Up("lines") = "view" /\ Up("area") = "view"
    BY UpIs, WidgetsAre
  <2>2. /\ new["tabs"] = Child(g, "tabs", new["win"])
        /\ new["status"] = Child(g, "status", new["win"])
        /\ new["lines"] = Child(g, "lines", new["view"])
        /\ new["area"] = Child(g, "area", new["view"])
    BY <1>2, <2>1
  <2> QED BY <1>3, <1>4, <2>2, LengthKept
<1>6. new["win"].rect.x = 0 /\ new["win"].rect.y = 0
  <2>1. g["win"] \in Rect BY WidgetsAre
  <2>2. [g["win"] EXCEPT !.w = w, !.h = h].x = g["win"].x
        /\ [g["win"] EXCEPT !.w = w, !.h = h].y = g["win"].y
    BY <2>1 DEF Rect
  <2>3. new["win"].rect = [g["win"] EXCEPT !.w = w, !.h = h] BY <1>2
  <2> QED BY <2>2, <2>3 DEF Built
<1> QED BY <1>2, <1>5, <1>6, WidgetsAre DEF Built

(* The rectangles of a window of w x h with room for its bars, each in its *)
(* parent.                                                                 *)
Fits(g, w, h) ==
  LET m == h - 2 * BarHeight
  IN  /\ g["win"] = R(0, 0, w, h)
      /\ g["tabs"] = R(0, 0, w, BarHeight)
      /\ g["view"] = R(0, BarHeight, w, m)
      /\ g["status"] = R(0, h - BarHeight, w, BarHeight)
      /\ g["lines"] = R(0, 0, BarWidth, m)
      /\ g["text"] = R(BarWidth, 0, w - 2 * BarWidth, m)
      /\ g["area"] = R(w - BarWidth, 0, BarWidth, m)
      /\ g["bar"] = R(0, 0, BarWidth, m)

(* resize lays a window that has room out like that, whatever it was       *)
(* before.                                                                 *)
LEMMA LayoutFits ==
  ASSUME NEW g \in [Widgets -> Rect], NEW w \in 1 .. Word - 1, NEW h \in 1 .. Word - 1,
         Built(g), Room(w, h)
  PROVE  Fits(Resized(g, "win", w, h), w, h)
<1> DEFINE m == h - 2 * BarHeight
<1>1. PICK new : Made(g, w, h, new) BY ResizedIs
<1>2. /\ \A c \in Widgets : Resized(g, "win", w, h)[c] = new[c].rect
      /\ new["win"] = [rect |-> [g["win"] EXCEPT !.w = w, !.h = h], reached |-> TRUE]
      /\ \A c \in Widgets \ {"win"} : new[c] = Child(g, c, new[Up(c)])
  BY <1>1 DEF Made
<1>3. /\ w \in Nat \ {0} /\ h \in Nat \ {0} /\ w < Word /\ h < Word
      /\ BarWidth \in Nat \ {0} /\ BarHeight \in Nat \ {0}
      /\ m \in Nat \ {0} /\ m < Word /\ 2 * BarWidth <= w /\ 2 * BarHeight <= h
  BY LengthsAssumption DEF Room
<1>4. new["win"] = [rect |-> R(0, 0, w, h), reached |-> TRUE]
  <2>1. g["win"] \in Rect BY WidgetsAre
  <2>2. [g["win"] EXCEPT !.w = w, !.h = h] = R(g["win"].x, g["win"].y, w, h)
    BY <2>1, Widened
  <2>3. R(g["win"].x, g["win"].y, w, h) = R(0, 0, w, h) BY DEF Built
  <2> QED BY <1>2, <2>2, <2>3, Zenon
<1>5. Fixeds(g, "win") = 2 * BarHeight /\ Fixeds(g, "view") = 2 * BarWidth
  BY <1>3 DEF Built, Fixeds
<1> HIDE DEF m
<1>6. /\ new["tabs"] = [rect |-> R(0, 0, w, BarHeight), reached |-> TRUE]
      /\ new["view"] = [rect |-> R(0, BarHeight, w, m), reached |-> TRUE]
      /\ new["status"] = [rect |-> R(0, h - BarHeight, w, BarHeight), reached |-> TRUE]
  <2>1. \A c \in {"tabs", "view", "status"} : c \in Widgets \ {"win"} /\ Up(c) = "win"
    BY UpIs, WidgetsAre
  <2>2. \A c \in {"tabs", "view", "status"} :
          new[c] = Child(g, c, [rect |-> R(0, 0, w, h), reached |-> TRUE])
    BY <1>2, <1>4, <2>1
  <2>3. h - Fixeds(g, "win") = m /\ g["tabs"].h + (h - Fixeds(g, "win")) = h - BarHeight
    BY <1>3, <1>5 DEF Built, m
  <2>4. \A c \in {"tabs", "view", "status"} :
           Child(g, c, [rect |-> R(0, 0, w, h), reached |-> TRUE])
           = [rect |-> IF c = "tabs" THEN R(0, 0, w, g["tabs"].h)
                       ELSE IF c = "view"
                            THEN R(0, g["tabs"].h, w, h - Fixeds(g, "win"))
                            ELSE R(0, g["tabs"].h + (h - Fixeds(g, "win")), w, g["status"].h),
              reached |-> TRUE]
    BY <1>3, <1>5, DownIs
  <2> QED BY <2>2, <2>3, <2>4 DEF Built
<1>7. /\ new["lines"] = [rect |-> R(0, 0, BarWidth, m), reached |-> TRUE]
      /\ new["text"] = [rect |-> R(BarWidth, 0, w - 2 * BarWidth, m), reached |-> TRUE]
      /\ new["area"] = [rect |-> R(w - BarWidth, 0, BarWidth, m), reached |-> TRUE]
  <2>1. \A c \in {"lines", "text", "area"} : c \in Widgets \ {"win"} /\ Up(c) = "view"
    BY UpIs, WidgetsAre
  <2>2. \A c \in {"lines", "text", "area"} :
          new[c] = Child(g, c, [rect |-> R(0, BarHeight, w, m), reached |-> TRUE])
    BY <1>2, <1>6, <2>1
  <2>3. /\ w - Fixeds(g, "view") = w - 2 * BarWidth
        /\ g["lines"].w + (w - Fixeds(g, "view")) = w - BarWidth
    BY <1>3, <1>5 DEF Built
  <2>4. \A c \in {"lines", "text", "area"} :
           Child(g, c, [rect |-> R(0, BarHeight, w, m), reached |-> TRUE])
           = [rect |-> IF c = "lines" THEN R(0, 0, g["lines"].w, m)
                       ELSE IF c = "text"
                            THEN R(g["lines"].w, 0, w - Fixeds(g, "view"), m)
                            ELSE R(g["lines"].w + (w - Fixeds(g, "view")), 0, g["area"].w, m),
              reached |-> TRUE]
    BY <1>3, <1>5, AlongIs
  <2> QED BY <2>2, <2>3, <2>4 DEF Built
<1>8. new["bar"] = [rect |-> R(0, 0, BarWidth, m), reached |-> TRUE]
  BY <1>2, <1>3, <1>7, UpIs, WidgetsAre, FillsIs
<1> QED BY <1>2, <1>4, <1>6, <1>7, <1>8, WidgetsAre DEF Fits, m

(* The widgets without children.                                           *)
LEMMA LeavesAre == Leaves = {"tabs", "status", "lines", "text", "bar"}
<1>1. Kids["win"] # <<>> /\ Kids["view"] # <<>> /\ Kids["area"] # <<>>
  <2>1. Len(<<>>) = 0 OBVIOUS
  <2> QED BY <2>1, KidsCount
<1> QED BY <1>1, KidsAre, WidgetsAre DEF Leaves

(* The fields of a rectangle.                                              *)
LEMMA FieldsOfR ==
  ASSUME NEW x, NEW y, NEW w, NEW h
  PROVE  R(x, y, w, h).x = x /\ R(x, y, w, h).y = y /\ R(x, y, w, h).w = w /\ R(x, y, w, h).h = h
  BY DEF R

(* Where the widgets are in a window of w x h, once it is laid out.        *)
LEMMA ScreenIs ==
  ASSUME NEW g \in [Widgets -> Rect], NEW w \in Nat, NEW h \in Nat, Fits(g, w, h),
         h > 2 * BarHeight
  PROVE  /\ OnScreen(g)["tabs"] = R(0, 0, w, BarHeight)
         /\ OnScreen(g)["status"] = R(0, h - BarHeight, w, BarHeight)
         /\ OnScreen(g)["lines"] = R(0, BarHeight, BarWidth, h - 2 * BarHeight)
         /\ OnScreen(g)["text"] = R(BarWidth, BarHeight, w - 2 * BarWidth, h - 2 * BarHeight)
         /\ OnScreen(g)["bar"] = R(w - BarWidth, BarHeight, BarWidth, h - 2 * BarHeight)
         /\ Global(g, "win", "x") = 0 /\ Global(g, "win", "y") = 0
         /\ Global(g, "view", "x") = 0 /\ Global(g, "view", "y") = BarHeight
         /\ Global(g, "area", "x") = w - BarWidth /\ Global(g, "area", "y") = BarHeight
<1> DEFINE m == h - 2 * BarHeight
<1>0. BarHeight \in Nat /\ BarWidth \in Nat BY LengthsAssumption
<1>1. /\ g["win"] = R(0, 0, w, h) /\ g["tabs"] = R(0, 0, w, BarHeight)
      /\ g["view"] = R(0, BarHeight, w, m)
      /\ g["status"] = R(0, h - BarHeight, w, BarHeight)
      /\ g["lines"] = R(0, 0, BarWidth, m)
      /\ g["text"] = R(BarWidth, 0, w - 2 * BarWidth, m)
      /\ g["area"] = R(w - BarWidth, 0, BarWidth, m)
      /\ g["bar"] = R(0, 0, BarWidth, m)
  BY DEF Fits
<1> HIDE DEF m
<1>2. \A f \in {"x", "y"} :
        /\ Global(g, "win", f) = g["win"][f]
        /\ \A c \in Widgets \ {"win"} : Global(g, c, f) = g[c][f] + Global(g, Up(c), f)
  BY GlobalIs
<1>3. Global(g, "win", "x") = 0 /\ Global(g, "win", "y") = 0
  BY <1>1, <1>2, FieldsOfR
<1>4. /\ Global(g, "tabs", "x") = 0 /\ Global(g, "tabs", "y") = 0
      /\ Global(g, "view", "x") = 0 /\ Global(g, "view", "y") = BarHeight
      /\ Global(g, "status", "x") = 0 /\ Global(g, "status", "y") = h - BarHeight
  <2>1. \A c \in {"tabs", "view", "status"} : c \in Widgets \ {"win"} /\ Up(c) = "win"
    BY WidgetsAre, UpIs
  <2>2. \A c \in {"tabs", "view", "status"} :
          Global(g, c, "x") = g[c].x + 0 /\ Global(g, c, "y") = g[c].y + 0
    BY <1>2, <1>3, <2>1
  <2> QED BY <1>0, <1>1, <2>2, FieldsOfR
<1>5. /\ Global(g, "lines", "x") = 0 /\ Global(g, "lines", "y") = BarHeight
      /\ Global(g, "text", "x") = BarWidth /\ Global(g, "text", "y") = BarHeight
      /\ Global(g, "area", "x") = w - BarWidth /\ Global(g, "area", "y") = BarHeight
  <2>1. \A c \in {"lines", "text", "area"} : c \in Widgets \ {"win"} /\ Up(c) = "view"
    BY WidgetsAre, UpIs
  <2>2. \A c \in {"lines", "text", "area"} :
          Global(g, c, "x") = g[c].x + 0 /\ Global(g, c, "y") = g[c].y + BarHeight
    BY <1>2, <1>4, <2>1
  <2> QED BY <1>0, <1>1, <2>2, FieldsOfR
<1>6. Global(g, "bar", "x") = w - BarWidth /\ Global(g, "bar", "y") = BarHeight
  <2>1. "bar" \in Widgets \ {"win"} /\ Up("bar") = "area" BY WidgetsAre, UpIs
  <2>2. /\ Global(g, "bar", "x") = g["bar"].x + (w - BarWidth)
        /\ Global(g, "bar", "y") = g["bar"].y + BarHeight
    BY <1>2, <1>5, <2>1
  <2> QED BY <1>0, <1>1, <2>2, FieldsOfR
<1>7. \A c \in Leaves : OnScreen(g)[c] = R(Global(g, c, "x"), Global(g, c, "y"), g[c].w, g[c].h)
  BY DEF OnScreen, R
<1>8. /\ g["tabs"].w = w /\ g["tabs"].h = BarHeight
      /\ g["status"].w = w /\ g["status"].h = BarHeight
      /\ g["lines"].w = BarWidth /\ g["lines"].h = m
      /\ g["text"].w = w - 2 * BarWidth /\ g["text"].h = m
      /\ g["bar"].w = BarWidth /\ g["bar"].h = m
  BY <1>1, FieldsOfR
<1> QED BY <1>3, <1>4, <1>5, <1>6, <1>7, <1>8, LeavesAre DEF m

(* What it is for a rectangle to cover a pixel, and to be hit at it.       *)
LEMMA CoversIs ==
  ASSUME NEW u \in Int, NEW v \in Int, NEW w \in Int, NEW h \in Int, NEW x \in Int, NEW y \in Int
  PROVE  /\ Covers(R(u, v, w, h), x, y) <=> u <= x /\ x < u + w /\ v <= y /\ y < v + h
         /\ Inside(R(u, v, w, h), x, y) <=> u <= x /\ x <= u + w /\ v <= y /\ y <= v + h
<1>1. Covers(R(u, v, w, h), x, y) <=> x \in u .. u + w - 1 /\ y \in v .. v + h - 1
  BY FieldsOfR DEF Covers
<1>2. Inside(R(u, v, w, h), x, y) <=> x \in u .. u + w /\ y \in v .. v + h
  BY FieldsOfR DEF Inside
<1> QED BY <1>1, <1>2

(* A window laid out with room is tiled by its widgets without children.   *)
LEMMA FitsTiles ==
  ASSUME NEW g \in [Widgets -> Rect], NEW w \in Nat, NEW h \in Nat, Fits(g, w, h), Room(w, h)
  PROVE  Tiled(g, "win")
<1> DEFINE at == OnScreen(g)
           m == h - 2 * BarHeight
<1>1. BarHeight \in Nat /\ BarWidth \in Nat /\ m \in Nat \ {0}
      /\ 2 * BarWidth <= w /\ h > 2 * BarHeight
  BY LengthsAssumption DEF Room
<1>2. /\ at["tabs"] = R(0, 0, w, BarHeight)
      /\ at["status"] = R(0, h - BarHeight, w, BarHeight)
      /\ at["lines"] = R(0, BarHeight, BarWidth, m)
      /\ at["text"] = R(BarWidth, BarHeight, w - 2 * BarWidth, m)
      /\ at["bar"] = R(w - BarWidth, BarHeight, BarWidth, m)
  BY <1>1, ScreenIs
<1>3. g["win"].w = w /\ g["win"].h = h BY FieldsOfR DEF Fits
<1>4. ASSUME NEW x \in 0 .. w - 1, NEW y \in 0 .. h - 1
      PROVE  Cardinality({c \in Leaves : Covers(at[c], x, y)}) = 1
  <2>1. /\ Covers(at["tabs"], x, y) <=> y < BarHeight
        /\ Covers(at["status"], x, y) <=> h - BarHeight <= y
        /\ Covers(at["lines"], x, y) <=> x < BarWidth /\ BarHeight <= y /\ y < h - BarHeight
        /\ Covers(at["text"], x, y)
             <=> BarWidth <= x /\ x < w - BarWidth /\ BarHeight <= y /\ y < h - BarHeight
        /\ Covers(at["bar"], x, y) <=> w - BarWidth <= x /\ BarHeight <= y /\ y < h - BarHeight
    <3> HIDE DEF at
    <3>1. x \in Int /\ y \in Int /\ 0 <= x /\ x < w /\ 0 <= y /\ y < h BY <1>1
    <3>0. /\ 0 \in Int /\ w \in Int /\ h - BarHeight \in Int /\ BarHeight \in Int /\ BarWidth \in Int
          /\ w - 2 * BarWidth \in Int /\ w - BarWidth \in Int /\ m \in Int
      BY <1>1
    <3>7. /\ BarHeight + m = h - BarHeight /\ BarWidth + (w - 2 * BarWidth) = w - BarWidth
          /\ (w - BarWidth) + BarWidth = w /\ BarWidth <= w - BarWidth
      BY <1>1
    <3> HIDE DEF m
    <3>2. Covers(at["tabs"], x, y) <=> y < BarHeight
      <4>1. Covers(R(0, 0, w, BarHeight), x, y)
              <=> 0 <= x /\ x < 0 + w /\ 0 <= y /\ y < 0 + BarHeight
        BY <3>0, <3>1, CoversIs
      <4>2. Covers(at["tabs"], x, y) <=> Covers(R(0, 0, w, BarHeight), x, y) BY <1>2
      <4> QED BY <1>1, <3>0, <3>1, <3>7, <4>1, <4>2
    <3>3. Covers(at["status"], x, y) <=> h - BarHeight <= y
      <4>1. Covers(R(0, h - BarHeight, w, BarHeight), x, y)
              <=> 0 <= x /\ x < 0 + w /\ h - BarHeight <= y /\ y < h - BarHeight + BarHeight
        BY <3>0, <3>1, CoversIs
      <4>2. Covers(at["status"], x, y) <=> Covers(R(0, h - BarHeight, w, BarHeight), x, y) BY <1>2
      <4> QED BY <1>1, <3>0, <3>1, <3>7, <4>1, <4>2
    <3>4. Covers(at["lines"], x, y) <=> x < BarWidth /\ BarHeight <= y /\ y < h - BarHeight
      <4>1. Covers(R(0, BarHeight, BarWidth, m), x, y)
              <=> 0 <= x /\ x < 0 + BarWidth /\ BarHeight <= y /\ y < BarHeight + m
        BY <3>0, <3>1, CoversIs
      <4>2. Covers(at["lines"], x, y) <=> Covers(R(0, BarHeight, BarWidth, m), x, y) BY <1>2
      <4> QED BY <1>1, <3>0, <3>1, <3>7, <4>1, <4>2
    <3>5. Covers(at["text"], x, y) <=> BarWidth <= x /\ x < w - BarWidth /\ BarHeight <= y /\ y < h - BarHeight
      <4> DEFINE mid == w - 2 * BarWidth
      <4>0. mid \in Int /\ BarWidth + mid = w - BarWidth BY <3>0, <3>7
      <4>2. Covers(at["text"], x, y) <=> Covers(R(BarWidth, BarHeight, mid, m), x, y) BY <1>2
      <4> HIDE DEF mid
      <4>1. Covers(R(BarWidth, BarHeight, mid, m), x, y)
              <=> BarWidth <= x /\ x < BarWidth + mid /\ BarHeight <= y /\ y < BarHeight + m
        BY <3>0, <3>1, <4>0, CoversIs
      <4> QED BY <1>1, <3>0, <3>1, <3>7, <4>0, <4>1, <4>2
    <3>6. Covers(at["bar"], x, y) <=> w - BarWidth <= x /\ BarHeight <= y /\ y < h - BarHeight
      <4>1. Covers(R(w - BarWidth, BarHeight, BarWidth, m), x, y)
              <=> w - BarWidth <= x /\ x < w - BarWidth + BarWidth /\ BarHeight <= y /\ y < BarHeight + m
        BY <3>0, <3>1, CoversIs
      <4>2. Covers(at["bar"], x, y) <=> Covers(R(w - BarWidth, BarHeight, BarWidth, m), x, y) BY <1>2
      <4> QED BY <1>1, <3>0, <3>1, <3>7, <4>1, <4>2
    <3> QED BY <3>2, <3>3, <3>4, <3>5, <3>6
  <2>2. \E k : {c \in Leaves : Covers(at[c], x, y)} = {k}
    <3> HIDE DEF at, m
    <3> DEFINE C(c) == Covers(at[c], x, y)
    <3>1. \E k \in Leaves : C(k) /\ \A c \in Leaves : C(c) => c = k
      <4> HIDE DEF C
      <4>1. /\ C("tabs") <=> y < BarHeight
            /\ C("status") <=> h - BarHeight <= y
            /\ C("lines") <=> x < BarWidth /\ BarHeight <= y /\ y < h - BarHeight
            /\ C("text") <=> BarWidth <= x /\ x < w - BarWidth /\ BarHeight <= y /\ y < h - BarHeight
            /\ C("bar") <=> w - BarWidth <= x /\ BarHeight <= y /\ y < h - BarHeight
        BY <2>1 DEF C
      <4>2. \/ y < BarHeight \/ h - BarHeight <= y
            \/ BarHeight <= y /\ y < h - BarHeight
        BY <1>1
      <4>3. ~(y < BarHeight /\ h - BarHeight <= y) BY <1>1
      <4>4. x < BarWidth \/ w - BarWidth <= x \/ (BarWidth <= x /\ x < w - BarWidth) BY <1>1
      <4>5. ~(x < BarWidth /\ w - BarWidth <= x) BY <1>1
      <4>6. CASE y < BarHeight
        <5>1. C("tabs") /\ ~C("status") /\ ~C("lines") /\ ~C("text") /\ ~C("bar")
          BY <1>1, <4>1, <4>3, <4>6
        <5> QED BY <5>1, LeavesAre
      <4>7. CASE h - BarHeight <= y
        <5>1. C("status") /\ ~C("tabs") /\ ~C("lines") /\ ~C("text") /\ ~C("bar")
          BY <1>1, <4>1, <4>3, <4>7
        <5> QED BY <5>1, LeavesAre
      <4>8. CASE BarHeight <= y /\ y < h - BarHeight
        <5>1. ~C("tabs") /\ ~C("status") BY <1>1, <4>1, <4>8
        <5>2. CASE x < BarWidth
          <6>1. C("lines") /\ ~C("text") /\ ~C("bar") BY <1>1, <4>1, <4>5, <4>8, <5>2
          <6> QED BY <5>1, <6>1, LeavesAre
        <5>3. CASE w - BarWidth <= x
          <6>1. C("bar") /\ ~C("text") /\ ~C("lines") BY <1>1, <4>1, <4>5, <4>8, <5>3
          <6> QED BY <5>1, <6>1, LeavesAre
        <5>4. CASE BarWidth <= x /\ x < w - BarWidth
          <6>1. C("text") /\ ~C("bar") /\ ~C("lines") BY <1>1, <4>1, <4>8, <5>4
          <6> QED BY <5>1, <6>1, LeavesAre
        <5> QED BY <4>4, <5>2, <5>3, <5>4
      <4> QED BY <4>2, <4>6, <4>7, <4>8
    <3>2. PICK k \in Leaves : C(k) /\ \A c \in Leaves : C(c) => c = k BY <3>1
    <3>3. {c \in Leaves : C(c)} = {k} BY <3>2
    <3> QED BY <3>3
  <2> QED BY <2>2, FS_Singleton
<1>5. ASSUME NEW c \in Leaves
      PROVE  at[c].x >= 0 /\ at[c].x + at[c].w <= w /\ at[c].y >= 0 /\ at[c].y + at[c].h <= h
  <2> HIDE DEF at
  <2>1. CASE c = "tabs" BY <1>1, <1>2, <2>1, FieldsOfR
  <2>2. CASE c = "status" BY <1>1, <1>2, <2>2, FieldsOfR
  <2>3. CASE c = "lines" BY <1>1, <1>2, <2>3, FieldsOfR
  <2>4. CASE c = "text" BY <1>1, <1>2, <2>4, FieldsOfR
  <2>5. CASE c = "bar" BY <1>1, <1>2, <2>5, FieldsOfR
  <2> QED BY <2>1, <2>2, <2>3, <2>4, <2>5, LeavesAre
<1> QED BY <1>3, <1>4, <1>5 DEF Tiled

(* A hit holds the point, borders included.                                *)
LEMMA HitInside ==
  ASSUME NEW g, NEW v \in Widgets, NEW x, NEW y, Hits(g, v, x, y) # {}
  PROVE  Inside(g[Hit(g, v, x, y)], x - Global(g, v, "x"), y - Global(g, v, "y"))
<1>1. Min(Hits(g, v, x, y)) \in Hits(g, v, x, y) BY HitIs
<1> QED BY <1>1, Zenon DEF Hits, Hit

(* A child that holds the point makes a hit.                               *)
LEMMA HasHit ==
  ASSUME NEW g, NEW v \in Widgets, NEW x, NEW y, NEW i \in DOMAIN Kids[v],
         Inside(g[Kids[v][i]], x - Global(g, v, "x"), y - Global(g, v, "y"))
  PROVE  Hits(g, v, x, y) # {}
  BY DEF Hits

(* The descent ends in a widget without children that holds the pixel.     *)
LEMMA FitsHits ==
  ASSUME NEW g \in [Widgets -> Rect], NEW w \in Nat, NEW h \in Nat, Fits(g, w, h), Room(w, h),
         NEW x \in 0 .. w - 1, NEW y \in 0 .. h - 1
  PROVE  /\ WidgetUnder(g, "win", x, y) \in Leaves
         /\ Inside(OnScreen(g)[WidgetUnder(g, "win", x, y)], x, y)
<1> DEFINE m == h - 2 * BarHeight
           mid == w - 2 * BarWidth
           low == h - BarHeight
           right == w - BarWidth
           in(r, a, b) == Inside(r, x - a, y - b)
           at == OnScreen(g)
           Box(a, b, c, d, k, l) == a <= x - k /\ x - k <= a + c /\ b <= y - l /\ y - l <= b + d
<1>1. /\ BarHeight \in Nat /\ BarWidth \in Nat /\ m \in Int /\ mid \in Int /\ low \in Int
      /\ right \in Int /\ h > 2 * BarHeight /\ BarHeight + m = low /\ BarWidth + mid = right
      /\ low + BarHeight = h /\ right + BarWidth = w
      /\ x \in Int /\ y \in Int /\ 0 <= x /\ x < w /\ 0 <= y /\ y < h
  BY LengthsAssumption DEF Room
<1>2. /\ g["tabs"] = R(0, 0, w, BarHeight) /\ g["view"] = R(0, BarHeight, w, m)
      /\ g["status"] = R(0, low, w, BarHeight) /\ g["lines"] = R(0, 0, BarWidth, m)
      /\ g["text"] = R(BarWidth, 0, mid, m) /\ g["area"] = R(right, 0, BarWidth, m)
      /\ g["bar"] = R(0, 0, BarWidth, m)
  BY DEF Fits
<1>3. /\ at["tabs"] = R(0, 0, w, BarHeight) /\ at["status"] = R(0, low, w, BarHeight)
      /\ at["lines"] = R(0, BarHeight, BarWidth, m) /\ at["text"] = R(BarWidth, BarHeight, mid, m)
      /\ at["bar"] = R(right, BarHeight, BarWidth, m)
      /\ Global(g, "win", "x") = 0 /\ Global(g, "win", "y") = 0
      /\ Global(g, "view", "x") = 0 /\ Global(g, "view", "y") = BarHeight
      /\ Global(g, "area", "x") = right /\ Global(g, "area", "y") = BarHeight
  BY <1>1, ScreenIs
<1> HIDE DEF m, mid, low, right, at
<1>5. \A a, b, c, d \in Int :
        Inside(R(a, b, c, d), x, y) <=> a <= x /\ x <= a + c /\ b <= y /\ y <= b + d
  BY <1>1, CoversIs
<1> HIDE DEF in, Box
<1>4.  /\ in(g["tabs"], 0, 0) <=> Box(0, 0, w, BarHeight, 0, 0)
       /\ in(g["view"], 0, 0) <=> Box(0, BarHeight, w, m, 0, 0)
       /\ in(g["status"], 0, 0) <=> Box(0, low, w, BarHeight, 0, 0)
       /\ in(g["lines"], 0, BarHeight) <=> Box(0, 0, BarWidth, m, 0, BarHeight)
       /\ in(g["text"], 0, BarHeight) <=> Box(BarWidth, 0, mid, m, 0, BarHeight)
       /\ in(g["area"], 0, BarHeight) <=> Box(right, 0, BarWidth, m, 0, BarHeight)
       /\ in(g["bar"], right, BarHeight) <=> Box(0, 0, BarWidth, m, right, BarHeight)
  <2> DEFINE at0 == x - 0
             top0 == y - 0
             atR == x - right
             topB == y - BarHeight
  <2>1. /\ 0 \in Int /\ w \in Int /\ BarHeight \in Int /\ BarWidth \in Int
        /\ m \in Int /\ mid \in Int /\ low \in Int /\ right \in Int
        /\ at0 \in Int /\ top0 \in Int /\ atR \in Int /\ topB \in Int
    BY <1>1
  <2>2. \A r : /\ in(r, 0, 0) = Inside(r, at0, top0)
               /\ in(r, 0, BarHeight) = Inside(r, at0, topB)
               /\ in(r, right, BarHeight) = Inside(r, atR, topB)
    BY DEF in
  <2>3. \A a, b, c, d : /\ Box(a, b, c, d, 0, 0)
                             = (a <= at0 /\ at0 <= a + c /\ b <= top0 /\ top0 <= b + d)
                        /\ Box(a, b, c, d, 0, BarHeight)
                             = (a <= at0 /\ at0 <= a + c /\ b <= topB /\ topB <= b + d)
                        /\ Box(a, b, c, d, right, BarHeight)
                             = (a <= atR /\ atR <= a + c /\ b <= topB /\ topB <= b + d)
    BY Zenon DEF Box
  <2> HIDE DEF at0, top0, atR, topB
  <2>4. in(g["tabs"], 0, 0) <=> Box(0, 0, w, BarHeight, 0, 0)
    <3>1. Inside(R(0, 0, w, BarHeight), at0, top0)
            <=> 0 <= at0 /\ at0 <= 0 + w /\ 0 <= top0 /\ top0 <= 0 + BarHeight
      BY <2>1, CoversIs
    <3> QED BY <1>2, <2>2, <2>3, <3>1, Zenon
  <2>5. in(g["view"], 0, 0) <=> Box(0, BarHeight, w, m, 0, 0)
    <3>1. Inside(R(0, BarHeight, w, m), at0, top0)
            <=> 0 <= at0 /\ at0 <= 0 + w /\ BarHeight <= top0 /\ top0 <= BarHeight + m
      BY <2>1, CoversIs
    <3> QED BY <1>2, <2>2, <2>3, <3>1, Zenon
  <2>6. in(g["status"], 0, 0) <=> Box(0, low, w, BarHeight, 0, 0)
    <3>1. Inside(R(0, low, w, BarHeight), at0, top0)
            <=> 0 <= at0 /\ at0 <= 0 + w /\ low <= top0 /\ top0 <= low + BarHeight
      BY <2>1, CoversIs
    <3> QED BY <1>2, <2>2, <2>3, <3>1, Zenon
  <2>7. in(g["lines"], 0, BarHeight) <=> Box(0, 0, BarWidth, m, 0, BarHeight)
    <3>1. Inside(R(0, 0, BarWidth, m), at0, topB)
            <=> 0 <= at0 /\ at0 <= 0 + BarWidth /\ 0 <= topB /\ topB <= 0 + m
      BY <2>1, CoversIs
    <3> QED BY <1>2, <2>2, <2>3, <3>1, Zenon
  <2>8. in(g["text"], 0, BarHeight) <=> Box(BarWidth, 0, mid, m, 0, BarHeight)
    <3>1. Inside(R(BarWidth, 0, mid, m), at0, topB)
            <=> BarWidth <= at0 /\ at0 <= BarWidth + mid /\ 0 <= topB /\ topB <= 0 + m
      BY <2>1, CoversIs
    <3> QED BY <1>2, <2>2, <2>3, <3>1, Zenon
  <2>9. in(g["area"], 0, BarHeight) <=> Box(right, 0, BarWidth, m, 0, BarHeight)
    <3>1. Inside(R(right, 0, BarWidth, m), at0, topB)
            <=> right <= at0 /\ at0 <= right + BarWidth /\ 0 <= topB /\ topB <= 0 + m
      BY <2>1, CoversIs
    <3> QED BY <1>2, <2>2, <2>3, <3>1, Zenon
  <2>10. in(g["bar"], right, BarHeight) <=> Box(0, 0, BarWidth, m, right, BarHeight)
    <3>1. Inside(R(0, 0, BarWidth, m), atR, topB)
            <=> 0 <= atR /\ atR <= 0 + BarWidth /\ 0 <= topB /\ topB <= 0 + m
      BY <2>1, CoversIs
    <3> QED BY <1>2, <2>2, <2>3, <3>1, Zenon
  <2> QED BY <2>4, <2>5, <2>6, <2>7, <2>8, <2>9, <2>10
<1>6. Hits(g, "win", x, y) # {} /\ in(g[Hit(g, "win", x, y)], 0, 0)
  <2>1. in(g["tabs"], 0, 0) \/ in(g["view"], 0, 0) \/ in(g["status"], 0, 0)
    <3>1. in(g["tabs"], 0, 0) <=> Box(0, 0, w, BarHeight, 0, 0) BY <1>4
    <3>2. in(g["view"], 0, 0) <=> Box(0, BarHeight, w, m, 0, 0) BY <1>4
    <3>3. in(g["status"], 0, 0) <=> Box(0, low, w, BarHeight, 0, 0) BY <1>4
    <3> QED BY <1>1, <3>1, <3>2, <3>3 DEF Box
  <2>2. /\ DOMAIN Kids["win"] = {1, 2, 3} /\ "win" \in Widgets
        /\ Kids["win"][1] = "tabs" /\ Kids["win"][2] = "view" /\ Kids["win"][3] = "status"
    BY KidsAre, WidgetsAre
  <2>3. Hits(g, "win", x, y) # {} BY <1>3, <2>1, <2>2, HasHit DEF in
  <2> QED BY <1>3, <2>2, <2>3, HitInside DEF in
<1>7. ASSUME in(g["view"], 0, 0)
      PROVE  Hits(g, "view", x, y) # {} /\ in(g[Hit(g, "view", x, y)], 0, BarHeight)
  <2>1. in(g["lines"], 0, BarHeight) \/ in(g["text"], 0, BarHeight) \/ in(g["area"], 0, BarHeight)
    <3>1. in(g["lines"], 0, BarHeight) <=> Box(0, 0, BarWidth, m, 0, BarHeight) BY <1>4
    <3>2. in(g["text"], 0, BarHeight) <=> Box(BarWidth, 0, mid, m, 0, BarHeight) BY <1>4
    <3>3. in(g["area"], 0, BarHeight) <=> Box(right, 0, BarWidth, m, 0, BarHeight) BY <1>4
    <3>4. Box(0, BarHeight, w, m, 0, 0) BY <1>7, <1>4
    <3> QED BY <1>1, <3>1, <3>2, <3>3, <3>4 DEF Box
  <2>2. /\ DOMAIN Kids["view"] = {1, 2, 3} /\ "view" \in Widgets
        /\ Kids["view"][1] = "lines" /\ Kids["view"][2] = "text" /\ Kids["view"][3] = "area"
    BY KidsAre, WidgetsAre
  <2>3. Hits(g, "view", x, y) # {} BY <1>3, <2>1, <2>2, HasHit DEF in
  <2> QED BY <1>3, <2>2, <2>3, HitInside DEF in
<1>8. ASSUME in(g["area"], 0, BarHeight)
      PROVE  Hits(g, "area", x, y) # {} /\ in(g["bar"], right, BarHeight)
  <2>1. in(g["bar"], right, BarHeight)
    <3>1. in(g["bar"], right, BarHeight) <=> Box(0, 0, BarWidth, m, right, BarHeight) BY <1>4
    <3>2. Box(right, 0, BarWidth, m, 0, BarHeight) BY <1>8, <1>4
    <3> QED BY <1>1, <3>1, <3>2 DEF Box
  <2>2. DOMAIN Kids["area"] = {1} /\ "area" \in Widgets /\ Kids["area"][1] = "bar"
    BY KidsAre, WidgetsAre
  <2>3. Hits(g, "area", x, y) # {} BY <1>3, <2>1, <2>2, HasHit DEF in
  <2> QED BY <2>1, <2>3
<1>9. /\ in(g["tabs"], 0, 0) => Inside(at["tabs"], x, y)
      /\ in(g["status"], 0, 0) => Inside(at["status"], x, y)
      /\ in(g["lines"], 0, BarHeight) => Inside(at["lines"], x, y)
      /\ in(g["text"], 0, BarHeight) => Inside(at["text"], x, y)
      /\ in(g["bar"], right, BarHeight) => Inside(at["bar"], x, y)
  <2>1. in(g["tabs"], 0, 0) => Inside(at["tabs"], x, y)
    <3>1. in(g["tabs"], 0, 0) <=> Box(0, 0, w, BarHeight, 0, 0) BY <1>4
    <3>2. Inside(at["tabs"], x, y) <=> 0 <= x /\ x <= 0 + w /\ 0 <= y /\ y <= 0 + BarHeight
      BY <1>1, <1>3, <1>5
    <3> QED BY <1>1, <3>1, <3>2 DEF Box
  <2>2. in(g["status"], 0, 0) => Inside(at["status"], x, y)
    <3>1. in(g["status"], 0, 0) <=> Box(0, low, w, BarHeight, 0, 0) BY <1>4
    <3>2. Inside(at["status"], x, y) <=> 0 <= x /\ x <= 0 + w /\ low <= y /\ y <= low + BarHeight
      BY <1>1, <1>3, <1>5
    <3> QED BY <1>1, <3>1, <3>2 DEF Box
  <2>3. in(g["lines"], 0, BarHeight) => Inside(at["lines"], x, y)
    <3>1. in(g["lines"], 0, BarHeight) <=> Box(0, 0, BarWidth, m, 0, BarHeight) BY <1>4
    <3>2. Inside(at["lines"], x, y)
            <=> 0 <= x /\ x <= 0 + BarWidth /\ BarHeight <= y /\ y <= BarHeight + m
      BY <1>1, <1>3, <1>5
    <3> QED BY <1>1, <3>1, <3>2 DEF Box
  <2>4. in(g["text"], 0, BarHeight) => Inside(at["text"], x, y)
    <3>1. in(g["text"], 0, BarHeight) <=> Box(BarWidth, 0, mid, m, 0, BarHeight) BY <1>4
    <3>2. Inside(at["text"], x, y)
            <=> BarWidth <= x /\ x <= BarWidth + mid /\ BarHeight <= y /\ y <= BarHeight + m
      BY <1>1, <1>3, <1>5
    <3> QED BY <1>1, <3>1, <3>2 DEF Box
  <2>5. in(g["bar"], right, BarHeight) => Inside(at["bar"], x, y)
    <3>1. in(g["bar"], right, BarHeight) <=> Box(0, 0, BarWidth, m, right, BarHeight) BY <1>4
    <3>2. Inside(at["bar"], x, y)
            <=> right <= x /\ x <= right + BarWidth /\ BarHeight <= y /\ y <= BarHeight + m
      BY <1>1, <1>3, <1>5
    <3> QED BY <1>1, <3>1, <3>2 DEF Box
  <2> QED BY <2>1, <2>2, <2>3, <2>4, <2>5
<1>10. PICK u : /\ WidgetUnder(g, "win", x, y) = u["win"]
                /\ \A v \in Widgets :
                     u[v] = IF Hits(g, v, x, y) = {} THEN v ELSE u[Hit(g, v, x, y)]
  BY UnderIs
<1>11. \A v \in Widgets : Hits(g, v, x, y) = {} \/
         \/ v = "win" /\ Hit(g, v, x, y) \in {"tabs", "view", "status"}
         \/ v = "view" /\ Hit(g, v, x, y) \in {"lines", "text", "area"}
         \/ v = "area" /\ Hit(g, v, x, y) = "bar"
  BY HitIs
<1>12. \A v \in {"tabs", "status", "lines", "text", "bar"} : u[v] = v
  BY <1>10, <1>11, WidgetsAre
<1> DEFINE Good(v) == v \in Leaves /\ Inside(at[v], x, y)
<1> HIDE DEF Good
<1>13. in(g["area"], 0, BarHeight) => Good(u["area"])
  <2> SUFFICES ASSUME in(g["area"], 0, BarHeight) PROVE Good(u["area"])
    OBVIOUS
  <2>1. Hits(g, "area", x, y) # {} /\ in(g["bar"], right, BarHeight) BY <1>8
  <2>2. u["area"] = "bar" BY <1>10, <1>11, <1>12, <2>1, WidgetsAre
  <2> QED BY <1>9, <2>1, <2>2, LeavesAre DEF Good
<1>14. in(g["view"], 0, 0) => Good(u["view"])
  <2> SUFFICES ASSUME in(g["view"], 0, 0) PROVE Good(u["view"])
    OBVIOUS
  <2>1. Hits(g, "view", x, y) # {} /\ in(g[Hit(g, "view", x, y)], 0, BarHeight) BY <1>7
  <2>2. /\ u["view"] = u[Hit(g, "view", x, y)]
        /\ Hit(g, "view", x, y) \in {"lines", "text", "area"}
    BY <1>10, <1>11, <2>1, WidgetsAre
  <2>3. CASE Hit(g, "view", x, y) = "area" BY <1>13, <2>1, <2>2, <2>3
  <2>4. CASE Hit(g, "view", x, y) # "area"
    BY <1>9, <1>12, <2>1, <2>2, <2>4, LeavesAre DEF Good
  <2> QED BY <2>3, <2>4
<1>15. Good(u["win"])
  <2>1. Hits(g, "win", x, y) # {} /\ in(g[Hit(g, "win", x, y)], 0, 0) BY <1>6
  <2>2. /\ u["win"] = u[Hit(g, "win", x, y)]
        /\ Hit(g, "win", x, y) \in {"tabs", "view", "status"}
    BY <1>10, <1>11, <2>1, WidgetsAre
  <2>3. CASE Hit(g, "win", x, y) = "view" BY <1>14, <2>1, <2>2, <2>3
  <2>4. CASE Hit(g, "win", x, y) # "view"
    BY <1>9, <1>12, <2>1, <2>2, <2>4, LeavesAre DEF Good
  <2> QED BY <2>3, <2>4
<1> QED BY <1>10, <1>15 DEF Good, at

-----------------------------------------------------------------------------

(* What the variables can hold.                                            *)
BarType == [begin : 0 .. Parts, end : 0 .. Parts, y : Int, h : Int, w : Nat,
            over : BOOLEAN, pressed : BOOLEAN, grip : Int]

(* A screen: the ratios at which it begins and ends.                       *)
Screen == [begin : 0 .. Parts, end : 0 .. Parts]

(* What the text view knows.                                               *)
TextType == [asked : BOOLEAN, buffer : BOOLEAN, screen : Screen \cup {Null}, pending : BOOLEAN]

(* The type invariant.                                                     *)
TypeOK ==
  /\ created \in BOOLEAN /\ laidOut \in BOOLEAN /\ cut \in BOOLEAN
  /\ geo \in [Widgets -> Rect]
  /\ selected \in Widgets \cup {Null} /\ focused \in Widgets \cup {Null}
  /\ told \in SUBSET Widgets
  /\ pressedOn \in [Buttons -> Widgets \cup {Null}]
  /\ bar \in BarType /\ text \in TextType
  /\ draws \in 0 .. MaxDraws
  /\ sent \in {"nothing", "event", "nameless click"}
  /\ fault \in {"none", "ratio"}

(* The lengths on_create fixed stay; a window laid out with room fits.     *)
GeoInv ==
  /\ created => Built(geo)
  /\ laidOut => /\ created
                /\ Fits(geo, geo["win"].w, geo["win"].h)
                /\ Room(geo["win"].w, geo["win"].h)

(* Until a button goes up while another is down, the selected widget is    *)
(* the one every button that is down was pressed on.                       *)
PressInv == ~cut => \A b \in Buttons : pressedOn[b] # Null => pressedOn[b] = selected

(* Only a screen is waiting to be drawn, and screens are in order; without *)
(* one the bar still ends where it was built to, and its assertion needs a *)
(* begin above that.                                                       *)
TextInv ==
  /\ text.pending => text.screen # Null
  /\ text.screen # Null => text.screen.begin <= text.screen.end
  /\ text.screen = Null => bar.end = 0
  /\ fault # "none" => text.screen = Null /\ bar.begin > 0

(* The inductive invariant.                                                *)
IInv == TypeOK /\ GeoInv /\ WidgetsKnowTheirFocus /\ DragHasTheGrab /\ PressInv
        /\ NewScreensGetDrawn /\ TextInv

-----------------------------------------------------------------------------
(* What the callbacks make of the scroll bar.                              *)

(* Products and quotients of integers.                                     *)
LEMMA Products ==
  ASSUME NEW a \in Int, NEW b \in Int, NEW d \in Nat \ {0}
  PROVE  a * b \in Int /\ a \div d \in Int
  OBVIOUS

(* An event is for a widget.                                               *)
LEMMA TargetType ==
  ASSUME TypeOK, NEW x, NEW y
  PROVE  Target(x, y) \in Widgets
  BY UnderType, NullAssumption DEF TypeOK, Target

(* Coordinates in a widget are integers.                                   *)
LEMMA LocalType ==
  ASSUME TypeOK, NEW w \in Widgets, NEW v \in Int
  PROVE  Local(w, "w", v) \in Int /\ Local(w, "h", v) \in Int
<1>1. Global(geo, w, "x") \in Nat /\ Global(geo, w, "y") \in Nat BY GlobalType DEF TypeOK
<1> QED BY <1>1, AxisIs DEF Local

(* The focus moves: the bar keeps all but the pointer over its thumb.      *)
LEMMA FocusOnIs ==
  ASSUME TypeOK, NEW b \in BarType, b.over => focused = "bar", NEW wid, NEW x, NEW y
  PROVE  LET n == FocusOn(b, wid, x, y)
         IN  /\ n \in BarType /\ n.begin = b.begin /\ n.end = b.end /\ n.pressed = b.pressed
             /\ n.over => wid = "bar"
<1> DEFINE left == IF focused = "bar" /\ wid # "bar" THEN BarOut(b) ELSE b
           n == FocusOn(b, wid, x, y)
<1>1. /\ left \in BarType /\ left.begin = b.begin /\ left.end = b.end
      /\ left.pressed = b.pressed
      /\ left.over => wid = "bar" /\ focused = "bar"
  <2>1. CASE focused = "bar" /\ wid # "bar" BY <2>1 DEF BarOut, BarType
  <2>2. CASE ~(focused = "bar" /\ wid # "bar") BY <2>2 DEF BarType
  <2> QED BY <2>1, <2>2
<1> HIDE DEF left
<1>2. n = left \/ \E o \in BOOLEAN : n = [left EXCEPT !.over = o]
  <2> DEFINE o == InThumb(left, Local("bar", "w", x), Local("bar", "h", y))
  <2>1. o \in BOOLEAN BY DEF InThumb
  <2>2. n = left \/ n = [left EXCEPT !.over = o] BY DEF FocusOn, BarIn, left
  <2> HIDE DEF o, n
  <2> QED BY <2>1, <2>2
<1>3. wid # "bar" => n = left BY DEF FocusOn, left
<1> HIDE DEF n
<1>4. /\ n \in BarType /\ n.begin = left.begin /\ n.end = left.end /\ n.pressed = left.pressed
  <2>1. CASE n = left BY <1>1, <2>1
  <2>2. ASSUME NEW o \in BOOLEAN, n = [left EXCEPT !.over = o]
        PROVE  n \in BarType /\ n.begin = left.begin /\ n.end = left.end /\ n.pressed = left.pressed
    BY <1>1, <2>2 DEF BarType
  <2> QED BY <1>2, <2>1, <2>2
<1>5. n.over => wid = "bar" BY <1>1, <1>3
<1> QED BY <1>1, <1>4, <1>5 DEF n

(* The room of the thumb is an integer.                                    *)
LEMMA RoomType ==
  ASSUME TypeOK
  PROVE  ThumbRoom \in Int /\ geo["bar"].w \in Nat
<1>1. geo["bar"] \in Rect BY WidgetsAre DEF TypeOK
<1> QED BY <1>1, LengthsAssumption DEF Rect, ThumbRoom

(* Drawing the thumb leaves the rest of the bar as it was.                 *)
LEMMA ThumbKeeps ==
  ASSUME TypeOK, NEW b \in BarType, NEW y \in Int, NEW h \in Int
  PROVE  LET n == Thumb(b, y, h)
         IN  /\ n \in BarType /\ n.begin = b.begin /\ n.end = b.end
             /\ n.pressed = b.pressed /\ n.over = b.over
<1>1. geo["bar"].w \in Nat BY RoomType
<1>2. ASSUME NEW n, n = [b EXCEPT !.w = geo["bar"].w, !.y = y, !.h = h]
      PROVE  /\ n \in BarType /\ n.begin = b.begin /\ n.end = b.end
             /\ n.pressed = b.pressed /\ n.over = b.over
  BY <1>1, <1>2 DEF BarType
<1> QED BY <1>2, Zenon DEF Thumb

(* So does every thumb render may draw.                                    *)
LEMMA ThumbsKeep ==
  ASSUME TypeOK, NEW b \in BarType, NEW n \in Thumbs(b)
  PROVE  /\ n \in BarType /\ n.begin = b.begin /\ n.end = b.end
         /\ n.pressed = b.pressed /\ n.over = b.over
<1> DEFINE h == ((b.end - b.begin) * ThumbRoom) \div Parts
           top == (b.begin * ThumbRoom) \div Parts
           long == IF h > MinThumb THEN h ELSE MinThumb
<1>1. top \in Int /\ long \in Int
  <2>1. b.begin \in Int /\ b.end - b.begin \in Int BY LengthsAssumption DEF BarType
  <2>2. b.begin * ThumbRoom \in Int /\ (b.end - b.begin) * ThumbRoom \in Int
    BY <2>1, RoomType, Products
  <2>3. top \in Int /\ h \in Int BY <2>2, LengthsAssumption, Products
  <2> HIDE DEF h
  <2> QED BY <2>3, LengthsAssumption
<1>2. \E y, k \in Int : n = Thumb(b, y, k)
  <2>1. CASE ThumbRoom >= 0
    <3>1. n = Thumb(b, top, long) BY <2>1 DEF Thumbs
    <3> HIDE DEF top, long
    <3> QED BY <1>1, <3>1
  <2>2. CASE ~(ThumbRoom >= 0)
    <3>1. \E y \in (IF b.begin = 0 THEN {0} ELSE {Word, -Word}),
             k \in (IF b.begin = b.end THEN {MinThumb} ELSE {MinThumb, Word, -Word}) :
            n = Thumb(b, y, k)
      BY <2>2 DEF Thumbs
    <3>2. 0 \in Int /\ Word \in Int /\ -Word \in Int /\ MinThumb \in Int BY LengthsAssumption
    <3> QED BY <3>1, <3>2
  <2> QED BY <2>1, <2>2
<1> QED BY <1>2, ThumbKeeps

(* Painting: the bar's ratios become those of the screen; its assertion    *)
(* can only fail without one.                                              *)
Shows(b) == /\ b \in BarType
            /\ text.screen = Null => b.end = 0

(* What painting leaves of a bar that can be painted.                      *)
LEMMA PaintedIs ==
  ASSUME TypeOK, TextInv, NEW b, Shows(b), fault = "none", Painted(b)
  PROVE  /\ bar' \in BarType /\ bar'.pressed = b.pressed /\ bar'.over = b.over
         /\ text' \in TextType /\ text'.screen = text.screen
         /\ text.screen = Null => bar'.end = 0
         /\ text'.pending => text.pending /\ text.screen = Null
         /\ fault' \in {"none", "ratio"}
         /\ fault' # "none" => text.screen = Null /\ bar'.begin > 0
<1> DEFINE u == Updated(b)
<1>1. /\ u \in BarType /\ u.pressed = b.pressed /\ u.over = b.over
      /\ text.screen = Null => u = b
      /\ text.screen # Null => u.begin <= u.end
  <2>1. CASE text.screen = Null BY <2>1 DEF Updated, Shows
  <2>2. CASE text.screen # Null
    <3>1. text.screen \in Screen BY <2>2 DEF TypeOK, TextType
    <3>2. text.screen.begin \in 0 .. Parts /\ text.screen.end \in 0 .. Parts BY <3>1 DEF Screen
    <3>3. u = [b EXCEPT !.begin = text.screen.begin, !.end = text.screen.end]
      BY <2>2 DEF Updated
    <3>4. u \in BarType /\ u.pressed = b.pressed /\ u.over = b.over
          /\ u.begin = text.screen.begin /\ u.end = text.screen.end
      <4> HIDE DEF u
      <4> QED BY <3>2, <3>3 DEF BarType, Shows
    <3> QED BY <2>2, <3>4 DEF TextInv
  <2> QED BY <2>1, <2>2
<1>2. /\ text' = [text EXCEPT !.pending = IF text.screen = Null THEN @ ELSE FALSE]
      /\ IF u.end < u.begin THEN fault' = "ratio" /\ bar' = u
         ELSE bar' \in Thumbs(u) /\ UNCHANGED fault
  BY DEF Painted
<1> HIDE DEF u
<1>3. /\ text' \in TextType /\ text'.screen = text.screen
      /\ text'.pending => text.pending /\ text.screen = Null
  BY <1>2 DEF TypeOK, TextType
<1>4. u.begin \in Int /\ u.end \in Int BY <1>1, LengthsAssumption DEF BarType
<1>5. CASE u.end < u.begin
  <2>1. fault' = "ratio" /\ bar' = u BY <1>2, <1>5
  <2>2. text.screen = Null BY <1>1, <1>4, <1>5
  <2>3. u.end = 0 /\ u.begin > 0 BY <1>1, <1>4, <1>5, <2>2 DEF Shows
  <2> QED BY <1>1, <1>3, <2>1, <2>2, <2>3
<1>6. CASE ~(u.end < u.begin)
  <2>1. bar' \in Thumbs(u) /\ fault' = "none" BY <1>2, <1>6
  <2>2. /\ bar' \in BarType /\ bar'.begin = u.begin /\ bar'.end = u.end
        /\ bar'.pressed = u.pressed /\ bar'.over = u.over
    BY <1>1, <2>1, ThumbsKeep
  <2> QED BY <1>1, <1>3, <2>1, <2>2 DEF Shows
<1> QED BY <1>5, <1>6

(* The same, whether the event painted or not.                             *)
LEMMA AfterIs ==
  ASSUME TypeOK, TextInv, NEW b, Shows(b), fault = "none", NEW wid, After(b, wid)
  PROVE  /\ bar' \in BarType /\ bar'.pressed = b.pressed /\ bar'.over = b.over
         /\ text' \in TextType /\ text'.screen = text.screen
         /\ text.screen = Null => bar'.end = 0
         /\ text'.pending => text.pending
         /\ fault' \in {"none", "ratio"}
         /\ fault' # "none" => text.screen = Null /\ bar'.begin > 0
<1>1. CASE wid = "win"
  <2>1. Painted(b) BY <1>1 DEF After
  <2> QED BY <2>1, PaintedIs
<1>2. CASE wid # "win"
  <2>1. bar' = b /\ text' = text /\ fault' = fault BY <1>2 DEF After
  <2> QED BY <2>1 DEF Shows, TypeOK
<1> QED BY <1>1, <1>2

-----------------------------------------------------------------------------
(* Every handler keeps the invariant.                                      *)

(* After the focus moved to wid, wid is the one widget that was told.      *)
LEMMA ToldOnIs ==
  ASSUME TypeOK, WidgetsKnowTheirFocus, NEW wid \in Widgets
  PROVE  ToldOn(wid) = {wid} \ {Null}
  BY NullAssumption DEF TypeOK, WidgetsKnowTheirFocus, ToldOn

(* While the thumb is held, every event is for the scroll bar.             *)
LEMMA HeldByBar ==
  ASSUME IInv, bar.pressed, NEW x, NEW y
  PROVE  Target(x, y) = "bar"
<1>1. selected = "bar" BY DEF IInv, DragHasTheGrab
<1>2. "bar" # Null BY NullAssumption, WidgetsAre
<1> QED BY <1>1, <1>2 DEF Target

(* What a handler that leaves the widgets where they are has to keep.      *)
LEMMA HandlerKeeps ==
  ASSUME IInv, fault = "none",
         created' = created, laidOut' = laidOut, geo' = geo,
         focused' \in Widgets \cup {Null}, told' = {focused'} \ {Null},
         selected' \in Widgets \cup {Null}, cut' \in BOOLEAN,
         pressedOn' \in [Buttons -> Widgets \cup {Null}], PressInv',
         bar' \in BarType, bar'.over => focused' = "bar", bar'.pressed => selected' = "bar",
         text' \in TextType, text'.screen = text.screen, text'.pending => text.pending,
         text'.pending => draws' > 0, text.screen = Null => bar'.end = 0,
         draws' \in 0 .. MaxDraws, sent' \in {"nothing", "event", "nameless click"},
         fault' \in {"none", "ratio"},
         fault' # "none" => text.screen = Null /\ bar'.begin > 0
  PROVE  IInv'
<1> USE DEF IInv
<1>1. TypeOK' BY DEF TypeOK
<1>2. GeoInv' BY DEF GeoInv
<1>3. WidgetsKnowTheirFocus' BY DEF WidgetsKnowTheirFocus
<1>4. DragHasTheGrab' BY DEF DragHasTheGrab
<1>5. NewScreensGetDrawn' BY DEF NewScreensGetDrawn
<1>6. TextInv' BY DEF TextInv
<1> QED BY <1>1, <1>2, <1>3, <1>4, <1>5, <1>6

(* A handler that leaves buttons and selection alone keeps PressInv.       *)
LEMMA PressKept ==
  ASSUME PressInv, cut' = cut, pressedOn' = pressedOn, selected' = selected
  PROVE  PressInv'
<1> SUFFICES ASSUME ~cut', NEW b \in Buttons, pressedOn'[b] # Null
             PROVE  pressedOn'[b] = selected'
  BY DEF PressInv
<1>1. ~cut BY Zenon
<1> QED BY <1>1 DEF PressInv

(* The same for one that only moves the focus and the pointer.             *)
LEMMA MoveKeeps ==
  ASSUME IInv, Ready,
         UNCHANGED <<created, laidOut, geo, selected, pressedOn, cut, text, draws, fault>>,
         focused' \in Widgets \cup {Null}, told' = {focused'} \ {Null},
         bar' \in BarType, bar'.over => focused' = "bar", bar'.pressed => bar.pressed,
         bar'.end = bar.end, sent' \in {"nothing", "event", "nameless click"}
  PROVE  IInv'
<1>1. /\ fault = "none" /\ fault' = "none" /\ created' = created /\ laidOut' = laidOut /\ geo' = geo
      /\ selected' = selected /\ pressedOn' = pressedOn /\ cut' = cut /\ text' = text /\ draws' = draws
  BY DEF Ready
<1>2. /\ selected \in Widgets \cup {Null} /\ cut \in BOOLEAN
      /\ pressedOn \in [Buttons -> Widgets \cup {Null}]
      /\ text \in TextType /\ draws \in 0 .. MaxDraws
      /\ text.pending => draws > 0
      /\ text.screen = Null => bar.end = 0
  BY <1>1 DEF IInv, TypeOK, NewScreensGetDrawn, TextInv
<1>3. PressInv'
  <2>1. PressInv /\ cut' = cut /\ pressedOn' = pressedOn /\ selected' = selected
    BY <1>1 DEF IInv
  <2> QED BY <2>1, PressKept
<1>4. bar'.pressed => selected' = "bar" BY <1>1 DEF IInv, DragHasTheGrab
<1>5. /\ fault' \in {"none", "ratio"}
      /\ fault' # "none" => text.screen = Null /\ bar'.begin > 0
  BY <1>1
<1> QED BY <1>1, <1>2, <1>3, <1>4, <1>5, HandlerKeeps

(* The bar as the focus leaves it.                                         *)
LEMMA SeenIs ==
  ASSUME IInv, NEW wid, NEW x, NEW y
  PROVE  LET seen == FocusOn(bar, wid, x, y)
         IN  /\ seen \in BarType /\ seen.begin = bar.begin /\ seen.end = bar.end
             /\ seen.pressed = bar.pressed
             /\ seen.over => wid = "bar"
<1>1. TypeOK /\ bar \in BarType BY DEF IInv, TypeOK
<1>2. bar.over => focused = "bar" BY DEF IInv, WidgetsKnowTheirFocus
<1> QED BY <1>1, <1>2, FocusOnIs

(* Moving the focus to a widget.                                           *)
LEMMA FocusIs ==
  ASSUME IInv, NEW wid \in Widgets, Focus(wid)
  PROVE  focused' = wid /\ focused' \in Widgets \cup {Null} /\ told' = {focused'} \ {Null}
  BY ToldOnIs DEF IInv, Focus

(* Giving the focus up.                                                    *)
LEMMA GiveUpIs ==
  ASSUME IInv, NEW wid \in Widgets, GiveUp(wid)
  PROVE  focused' = Null /\ focused' \in Widgets \cup {Null} /\ told' = {focused'} \ {Null}
  BY ToldOnIs DEF IInv, GiveUp

(* The pointer's coordinates are integers.                                 *)
LEMMA PointType ==
  ASSUME NEW p \in Points
  PROVE  p[1] \in Int /\ p[2] \in Int
  BY PointsAssumption

(* A key.                                                                  *)
LEMMA KeyKeeps ==
  ASSUME IInv, NEW x \in Int, NEW y \in Int, Key(x, y)
  PROVE  IInv'
<1> DEFINE wid == Target(x, y)
<1>1. wid \in Widgets BY TargetType DEF IInv
<1>2. Ready /\ Focus(wid) /\ bar' = FocusOn(bar, wid, x, y)
      /\ UNCHANGED <<created, laidOut, geo, selected, pressedOn, cut, text, draws, fault>>
  BY DEF Key
<1>3. sent' \in {"nothing", "event", "nameless click"} BY DEF Key, KeySent, Quiet
<1> HIDE DEF wid
<1>4. focused' = wid /\ focused' \in Widgets \cup {Null} /\ told' = {focused'} \ {Null}
  BY <1>1, <1>2, FocusIs
<1>5. /\ bar' \in BarType /\ bar'.end = bar.end /\ bar'.pressed = bar.pressed
      /\ bar'.over => focused' = "bar"
  BY <1>2, <1>4, SeenIs
<1> QED BY <1>2, <1>3, <1>4, <1>5, MoveKeeps

(* The pointer enters the window, or a key goes up.                        *)
LEMMA EnterKeeps ==
  ASSUME IInv, NEW x \in Int, NEW y \in Int, Enter(x, y)
  PROVE  IInv'
<1> DEFINE wid == Target(x, y)
<1>1. wid \in Widgets BY TargetType DEF IInv
<1>2. Ready /\ Focus(wid) /\ bar' = FocusOn(bar, wid, x, y)
      /\ UNCHANGED <<created, laidOut, geo, selected, pressedOn, cut, text, draws, fault>>
      /\ sent' = "nothing"
  BY DEF Enter, Quiet
<1> HIDE DEF wid
<1>4. focused' = wid /\ focused' \in Widgets \cup {Null} /\ told' = {focused'} \ {Null}
  BY <1>1, <1>2, FocusIs
<1>5. /\ bar' \in BarType /\ bar'.end = bar.end /\ bar'.pressed = bar.pressed
      /\ bar'.over => focused' = "bar"
  BY <1>2, <1>4, SeenIs
<1> QED BY <1>2, <1>4, <1>5, MoveKeeps

(* A clamped ratio is a ratio.                                             *)
LEMMA ClampType ==
  ASSUME NEW n \in Int
  PROVE  Clamp(n) \in 0 .. Parts
  BY LengthsAssumption DEF Clamp

(* A thumb is dragged to a ratio, in a bar of any height.                  *)
LEMMA DraggedType ==
  ASSUME TypeOK, NEW b \in BarType, NEW y \in Int
  PROVE  Dragged(b, y) \in 0 .. Parts
<1>1. ThumbRoom \in Int /\ b.grip \in Int /\ Parts \in Nat BY RoomType, LengthsAssumption DEF BarType
<1>2. (y - b.grip) * Parts \in Int /\ (b.grip - y) * Parts \in Int BY <1>1, LengthsAssumption, Products
<1>3. CASE ThumbRoom > 0
  <2>1. ((y - b.grip) * Parts) \div ThumbRoom \in Int BY <1>1, <1>2, <1>3, Products
  <2>2. Dragged(b, y) = Clamp(((y - b.grip) * Parts) \div ThumbRoom) BY <1>3 DEF Dragged
  <2> QED BY <2>1, <2>2, ClampType
<1>4. CASE ThumbRoom < 0
  <2>1. -ThumbRoom \in Nat \ {0} BY <1>1, <1>4
  <2>2. ((b.grip - y) * Parts) \div (-ThumbRoom) \in Int BY <1>2, <2>1, Products
  <2>3. Dragged(b, y) = Clamp(((b.grip - y) * Parts) \div (-ThumbRoom)) BY <1>1, <1>4 DEF Dragged
  <2> QED BY <2>2, <2>3, ClampType
<1>5. CASE ThumbRoom = 0
  <2>1. Dragged(b, y) = IF y > b.grip THEN Parts ELSE 0 BY <1>5 DEF Dragged
  <2> QED BY <1>1, <2>1
<1> QED BY <1>1, <1>3, <1>4, <1>5

(* The pointer moves; a held thumb moves with it.                          *)
LEMMA MotionKeeps ==
  ASSUME IInv, NEW x \in Int, NEW y \in Int, Motion(x, y)
  PROVE  IInv'
<1> DEFINE wid == Target(x, y)
           seen == FocusOn(bar, wid, x, y)
           lx == Local("bar", "w", x)
           ly == Local("bar", "h", y)
           over == [seen EXCEPT !.over = InThumb(seen, lx, ly)]
<1>1. wid \in Widgets BY TargetType DEF IInv
<1>2. Ready /\ Focus(wid)
      /\ UNCHANGED <<created, laidOut, geo, selected, pressedOn, cut, text, draws, fault>>
      /\ sent' = "nothing"
  BY DEF Motion, Quiet
<1>3. IF wid # "bar" THEN bar' = seen
      ELSE IF ~seen.pressed THEN bar' = over
      ELSE bar' = [over EXCEPT !.begin = Dragged(seen, ly)]
  BY DEF Motion
<1>4. ly \in Int
  <2>1. "bar" \in Widgets BY WidgetsAre
  <2> QED BY <2>1, LocalType DEF IInv
<1>5. InThumb(seen, lx, ly) \in BOOLEAN BY DEF InThumb
<1> HIDE DEF wid, lx, ly
<1>6. focused' = wid /\ focused' \in Widgets \cup {Null} /\ told' = {focused'} \ {Null}
  BY <1>1, <1>2, FocusIs
<1>7. /\ seen \in BarType /\ seen.end = bar.end /\ seen.pressed = bar.pressed
      /\ seen.over => wid = "bar"
  BY SeenIs
<1>8. Dragged(seen, ly) \in 0 .. Parts BY <1>4, <1>7, DraggedType DEF IInv
<1> HIDE DEF seen
<1>9. over \in BarType /\ over.end = bar.end /\ over.pressed = bar.pressed
  BY <1>5, <1>7 DEF BarType
<1> HIDE DEF over
<1>10. /\ bar' \in BarType /\ bar'.end = bar.end /\ bar'.pressed = bar.pressed
       /\ bar'.over => wid = "bar"
  <2>1. CASE wid # "bar" BY <1>3, <1>7, <2>1
  <2>2. CASE wid = "bar"
    <3>1. bar' = seen \/ bar' = over \/ bar' = [over EXCEPT !.begin = Dragged(seen, ly)]
      BY <1>3
    <3>2. CASE bar' = seen BY <1>7, <3>2
    <3>3. CASE bar' = over BY <1>9, <2>2, <3>3
    <3>4. CASE bar' = [over EXCEPT !.begin = Dragged(seen, ly)]
      <4>1. bar' \in BarType /\ bar'.end = bar.end /\ bar'.pressed = bar.pressed
        BY <1>8, <1>9, <3>4 DEF BarType
      <4> QED BY <2>2, <4>1
    <3> QED BY <3>1, <3>2, <3>3, <3>4
  <2> QED BY <2>1, <2>2
<1> QED BY <1>2, <1>6, <1>10, MoveKeeps

(* The pointer is over the thumb or not.                                   *)
LEMMA BarInIs ==
  ASSUME NEW b \in BarType, NEW x, NEW y
  PROVE  /\ BarIn(b, x, y) \in BarType /\ BarIn(b, x, y).end = b.end
         /\ BarIn(b, x, y).pressed = b.pressed
         /\ BarOut(b) \in BarType /\ BarOut(b).end = b.end
         /\ BarOut(b).pressed = b.pressed /\ ~BarOut(b).over
<1> DEFINE o == InThumb(b, x, y)
<1>1. o \in BOOLEAN BY DEF InThumb
<1>2. BarIn(b, x, y) = [b EXCEPT !.over = o] /\ BarOut(b) = [b EXCEPT !.over = FALSE]
  BY DEF BarIn, BarOut
<1> HIDE DEF o
<1> QED BY <1>1, <1>2 DEF BarType

(* The window gets the focus of the X server.                              *)
LEMMA FocusInKeeps ==
  ASSUME IInv, FocusIn
  PROVE  IInv'
<1> DEFINE wid == Target(0, 0)
           seen == FocusOn(bar, wid, 0, 0)
<1>1. wid \in Widgets BY TargetType DEF IInv
<1>2. Ready /\ Focus(wid)
      /\ UNCHANGED <<created, laidOut, geo, selected, pressedOn, cut, text, draws, fault>>
      /\ sent' = "nothing"
  BY DEF FocusIn, Quiet
<1>3. bar' = IF wid = "bar" THEN BarIn(seen, Local("bar", "w", 0), Local("bar", "h", 0)) ELSE seen
  BY DEF FocusIn
<1> HIDE DEF wid
<1>4. focused' = wid /\ focused' \in Widgets \cup {Null} /\ told' = {focused'} \ {Null}
  BY <1>1, <1>2, FocusIs
<1>5. /\ seen \in BarType /\ seen.end = bar.end /\ seen.pressed = bar.pressed
      /\ seen.over => wid = "bar"
  BY SeenIs
<1> HIDE DEF seen
<1>6. /\ bar' \in BarType /\ bar'.end = bar.end /\ bar'.pressed = bar.pressed
      /\ bar'.over => wid = "bar"
  <2>1. CASE wid = "bar" BY <1>3, <1>5, <2>1, BarInIs
  <2>2. CASE wid # "bar" BY <1>3, <1>5, <2>2
  <2> QED BY <2>1, <2>2
<1> QED BY <1>2, <1>4, <1>6, MoveKeeps

(* The pointer leaves the window.                                          *)
LEMMA PointerLeaveKeeps ==
  ASSUME IInv, NEW x \in Int, NEW y \in Int, PointerLeave(x, y)
  PROVE  IInv'
<1> DEFINE wid == Target(x, y)
           seen == FocusOn(bar, wid, x, y)
<1>1. wid \in Widgets BY TargetType DEF IInv
<1>2. Ready
      /\ UNCHANGED <<created, laidOut, geo, selected, pressedOn, cut, text, draws, fault>>
      /\ sent' = "nothing"
  BY DEF PointerLeave, Quiet
<1>3. IF selected = Null
      THEN GiveUp(wid) /\ bar' = (IF wid = "bar" THEN BarOut(seen) ELSE seen)
      ELSE Focus(wid) /\ bar' = seen
  BY DEF PointerLeave
<1> HIDE DEF wid
<1>4. /\ seen \in BarType /\ seen.end = bar.end /\ seen.pressed = bar.pressed
      /\ seen.over => wid = "bar"
  BY SeenIs
<1> HIDE DEF seen
<1>5. CASE selected = Null
  <2>1. focused' = Null /\ focused' \in Widgets \cup {Null} /\ told' = {focused'} \ {Null}
    BY <1>1, <1>3, <1>5, GiveUpIs
  <2>2. bar' \in BarType /\ bar'.end = bar.end /\ bar'.pressed = bar.pressed /\ ~bar'.over
    <3>1. CASE wid = "bar" BY <1>3, <1>4, <1>5, <3>1, BarInIs
    <3>2. CASE wid # "bar" BY <1>3, <1>4, <1>5, <3>2
    <3> QED BY <3>1, <3>2
  <2> QED BY <1>2, <2>1, <2>2, MoveKeeps
<1>6. CASE selected # Null
  <2>1. focused' = wid /\ focused' \in Widgets \cup {Null} /\ told' = {focused'} \ {Null}
    BY <1>1, <1>3, <1>6, FocusIs
  <2>2. bar' = seen BY <1>3, <1>6
  <2> QED BY <1>2, <1>4, <2>1, <2>2, MoveKeeps
<1> QED BY <1>5, <1>6

(* Handlers that may paint.                                                *)
LEMMA PaintKeeps ==
  ASSUME IInv, Ready, NEW b, Shows(b), NEW wid, After(b, wid),
         created' = created, laidOut' = laidOut, geo' = geo, draws' = draws,
         focused' \in Widgets \cup {Null}, told' = {focused'} \ {Null},
         selected' \in Widgets \cup {Null}, cut' \in BOOLEAN,
         pressedOn' \in [Buttons -> Widgets \cup {Null}], PressInv',
         b.over => focused' = "bar", b.pressed => selected' = "bar",
         sent' \in {"nothing", "event", "nameless click"}
  PROVE  IInv'
<1>1. TypeOK /\ TextInv /\ fault = "none" BY DEF IInv, Ready
<1>2. /\ bar' \in BarType /\ bar'.pressed = b.pressed /\ bar'.over = b.over
      /\ text' \in TextType /\ text'.screen = text.screen
      /\ text.screen = Null => bar'.end = 0
      /\ text'.pending => text.pending
      /\ fault' \in {"none", "ratio"}
      /\ fault' # "none" => text.screen = Null /\ bar'.begin > 0
  BY <1>1, AfterIs
<1>3. draws \in 0 .. MaxDraws /\ (text.pending => draws > 0)
  BY <1>1 DEF IInv, TypeOK, NewScreensGetDrawn
<1> QED BY <1>1, <1>2, <1>3, HandlerKeeps

(* A bar whose end was not touched can be painted.                         *)
LEMMA SeenShows ==
  ASSUME IInv, NEW b \in BarType, b.end = bar.end
  PROVE  Shows(b)
  BY DEF IInv, TextInv, Shows

(* What a click sends.                                                     *)
LEMMA ClickedType ==
  ASSUME NEW wid
  PROVE  Clicked(wid) \in {"nothing", "event", "nameless click"}
  BY DEF Clicked, Quiet

(* A press on the bar takes hold of the thumb or of nothing.               *)
LEMMA BarPressIs ==
  ASSUME NEW b \in BarType, NEW y \in Int
  PROVE  LET n == BarPress(b, y)
         IN  n \in BarType /\ n.end = b.end /\ n.over = b.over
<1>1. BarPress(b, y) = b \/ BarPress(b, y) = [b EXCEPT !.pressed = TRUE, !.grip = y - b.y]
  BY DEF BarPress
<1>2. y - b.y \in Int BY DEF BarType
<1>3. ASSUME NEW n, n = [b EXCEPT !.pressed = TRUE, !.grip = y - b.y]
      PROVE  n \in BarType /\ n.end = b.end /\ n.over = b.over
  BY <1>2, <1>3 DEF BarType
<1> HIDE DEF BarPress
<1> QED BY <1>1, <1>3

(* A release over the bar lets the thumb go.                               *)
LEMMA BarReleaseIs ==
  ASSUME NEW b \in BarType, NEW x, NEW y
  PROVE  LET n == BarRelease(b, x, y)
         IN  n \in BarType /\ n.end = b.end /\ ~n.pressed
<1>1. InThumb(b, x, y) \in BOOLEAN BY DEF InThumb
<1>2. ASSUME NEW held \in BOOLEAN, NEW grip \in Int, NEW over \in BOOLEAN,
             NEW n, n = [b EXCEPT !.pressed = held, !.grip = grip, !.over = over]
      PROVE  n \in BarType /\ n.end = b.end /\ n.pressed = held
  BY <1>2 DEF BarType
<1>3. FALSE \in BOOLEAN /\ 0 \in Int OBVIOUS
<1>4. ASSUME NEW n, n = BarRelease(b, x, y)
      PROVE  n \in BarType /\ n.end = b.end /\ n.pressed = FALSE
  BY <1>1, <1>2, <1>3, <1>4, Zenon DEF BarRelease
<1> QED BY <1>4

(* A button goes down: its widget becomes the selected one.                *)
LEMMA PressKeeps ==
  ASSUME IInv, NEW x \in Int, NEW y \in Int, NEW b \in Buttons, Press(x, y, b)
  PROVE  IInv'
<1> DEFINE wid == Target(x, y)
           seen == FocusOn(bar, wid, x, y)
           ly == Local("bar", "h", y)
           now == IF wid = "bar" THEN BarPress(seen, ly) ELSE seen
<1>1. wid \in Widgets /\ (selected # Null => wid = selected)
  BY TargetType DEF IInv, Target
<1>2. /\ Ready /\ Focus(wid) /\ After(now, wid) /\ selected' = wid
      /\ pressedOn' = [pressedOn EXCEPT ![b] = wid]
      /\ created' = created /\ laidOut' = laidOut /\ geo' = geo /\ cut' = cut /\ draws' = draws
  BY DEF Press
<1>3. sent' \in {"nothing", "event", "nameless click"}
  <2>1. sent' = Clicked(wid) BY DEF Press
  <2> QED BY <2>1, ClickedType
<1>4. ly \in Int
  <2>1. "bar" \in Widgets BY WidgetsAre
  <2> QED BY <2>1, LocalType DEF IInv
<1>5. bar.pressed => wid = "bar" BY HeldByBar
<1> HIDE DEF wid, ly
<1>6. focused' = wid /\ focused' \in Widgets \cup {Null} /\ told' = {focused'} \ {Null}
  BY <1>1, <1>2, FocusIs
<1>7. /\ seen \in BarType /\ seen.end = bar.end /\ seen.pressed = bar.pressed
      /\ seen.over => wid = "bar"
  BY SeenIs
<1> HIDE DEF seen
<1>8. /\ now \in BarType /\ now.end = bar.end
      /\ now.over => wid = "bar"
      /\ now.pressed => wid = "bar"
  <2>1. CASE wid = "bar" BY <1>4, <1>7, <2>1, BarPressIs
  <2>2. CASE wid # "bar" BY <1>5, <1>7, <2>2
  <2> QED BY <2>1, <2>2
<1>9. Shows(now) BY <1>8, SeenShows
<1> HIDE DEF now
<1>10. pressedOn' \in [Buttons -> Widgets \cup {Null}] /\ cut' \in BOOLEAN
  BY <1>1, <1>2 DEF IInv, TypeOK
<1>11. PressInv'
  <2> SUFFICES ASSUME ~cut', NEW o \in Buttons, pressedOn'[o] # Null
               PROVE  pressedOn'[o] = selected'
    BY DEF PressInv
  <2>1. ~cut BY <1>2, Zenon
  <2>2. pressedOn \in [Buttons -> Widgets \cup {Null}] BY DEF IInv, TypeOK
  <2>3. CASE o = b BY <1>2, <2>2, <2>3
  <2>4. CASE o # b
    <3>1. pressedOn'[o] = pressedOn[o] BY <1>2, <2>2, <2>4
    <3>2. pressedOn[o] = selected BY <2>1, <3>1 DEF IInv, PressInv
    <3> QED BY <1>1, <1>2, <3>1, <3>2
  <2> QED BY <2>3, <2>4
<1>12. selected' \in Widgets \cup {Null} BY <1>1, <1>2
<1> QED BY <1>2, <1>3, <1>6, <1>8, <1>9, <1>10, <1>11, <1>12, PaintKeeps

(* The wheel.                                                              *)
LEMMA WheelKeeps ==
  ASSUME IInv, NEW x \in Int, NEW y \in Int, Wheel(x, y)
  PROVE  IInv'
<1> DEFINE wid == Target(x, y)
           seen == FocusOn(bar, wid, x, y)
<1>1. wid \in Widgets BY TargetType DEF IInv
<1>2. /\ Ready /\ Focus(wid) /\ After(seen, wid) /\ selected' = selected /\ pressedOn' = pressedOn
      /\ created' = created /\ laidOut' = laidOut /\ geo' = geo /\ cut' = cut /\ draws' = draws
  BY DEF Wheel
<1>3. sent' \in {"nothing", "event", "nameless click"}
  <2>1. sent' = Clicked(IF wid = "bar" THEN "text" ELSE wid) BY DEF Wheel
  <2> QED BY <2>1, ClickedType
<1>4. bar.pressed => selected = "bar" BY DEF IInv, DragHasTheGrab
<1> HIDE DEF wid
<1>6. focused' = wid /\ focused' \in Widgets \cup {Null} /\ told' = {focused'} \ {Null}
  BY <1>1, <1>2, FocusIs
<1>7. /\ seen \in BarType /\ seen.end = bar.end /\ seen.pressed = bar.pressed
      /\ seen.over => wid = "bar"
  BY SeenIs
<1> HIDE DEF seen
<1>8. Shows(seen) BY <1>7, SeenShows
<1>9. /\ pressedOn' \in [Buttons -> Widgets \cup {Null}] /\ cut' \in BOOLEAN
      /\ selected' \in Widgets \cup {Null}
  BY <1>2 DEF IInv, TypeOK
<1>10. PressInv' BY <1>2, PressKept DEF IInv
<1>11. /\ seen.over => focused' = "bar"
       /\ seen.pressed => selected' = "bar"
  BY <1>2, <1>4, <1>6, <1>7
<1> QED BY <1>2, <1>3, <1>6, <1>8, <1>9, <1>10, <1>11, PaintKeeps

(* A button goes up: nothing is selected any more.                         *)
LEMMA ReleaseKeeps ==
  ASSUME IInv, NEW x \in Int, NEW y \in Int, NEW b \in Buttons, Release(x, y, b)
  PROVE  IInv'
<1> DEFINE wid == Target(x, y)
           seen == FocusOn(bar, wid, x, y)
           now == IF wid = "bar" THEN BarRelease(seen, Local("bar", "w", x), Local("bar", "h", y))
                  ELSE seen
<1>1. wid \in Widgets BY TargetType DEF IInv
<1>2. /\ Ready /\ Focus(wid) /\ After(now, wid) /\ selected' = Null
      /\ pressedOn' = [pressedOn EXCEPT ![b] = Null] /\ cut' = (Others(b) # {})
      /\ created' = created /\ laidOut' = laidOut /\ geo' = geo /\ draws' = draws
  BY DEF Release
<1>3. sent' \in {"nothing", "event", "nameless click"}
  <2>1. sent' = Clicked(wid) BY DEF Release
  <2> QED BY <2>1, ClickedType
<1>5. bar.pressed => wid = "bar" BY HeldByBar
<1> HIDE DEF wid
<1>6. focused' = wid /\ focused' \in Widgets \cup {Null} /\ told' = {focused'} \ {Null}
  BY <1>1, <1>2, FocusIs
<1>7. /\ seen \in BarType /\ seen.end = bar.end /\ seen.pressed = bar.pressed
      /\ seen.over => wid = "bar"
  BY SeenIs
<1> HIDE DEF seen
<1>8. /\ now \in BarType /\ now.end = bar.end /\ ~now.pressed
      /\ now.over => wid = "bar"
  <2>1. CASE wid = "bar" BY <1>7, <2>1, BarReleaseIs
  <2>2. CASE wid # "bar" BY <1>5, <1>7, <2>2
  <2> QED BY <2>1, <2>2
<1>9. Shows(now) BY <1>8, SeenShows
<1> HIDE DEF now
<1>10. pressedOn' \in [Buttons -> Widgets \cup {Null}] BY <1>2 DEF IInv, TypeOK
<1>11. cut' \in BOOLEAN BY <1>2
<1>12. PressInv'
  <2> SUFFICES ASSUME ~cut', NEW o \in Buttons, pressedOn'[o] # Null
               PROVE  FALSE
    BY DEF PressInv
  <2>1. Others(b) = {} BY <1>2
  <2>2. pressedOn \in [Buttons -> Widgets \cup {Null}] BY DEF IInv, TypeOK
  <2>3. o # b /\ pressedOn[o] # Null BY <1>2, <2>2
  <2> QED BY <2>1, <2>3 DEF Others
<1>13. /\ now.over => focused' = "bar"
       /\ now.pressed => selected' = "bar"
       /\ selected' \in Widgets \cup {Null}
  BY <1>2, <1>6, <1>8
<1> QED BY <1>2, <1>3, <1>6, <1>9, <1>10, <1>11, <1>12, <1>13, PaintKeeps

(* The window loses the focus of the X server.                             *)
LEMMA FocusOutKeeps ==
  ASSUME IInv, FocusOut
  PROVE  IInv'
<1> DEFINE wid == Target(0, 0)
           seen == FocusOn(bar, wid, 0, 0)
           now == IF wid = "bar" THEN BarOut(seen) ELSE seen
<1>1. wid \in Widgets BY TargetType DEF IInv
<1>2. /\ Ready /\ GiveUp(wid) /\ After(now, wid) /\ selected' = selected /\ pressedOn' = pressedOn
      /\ created' = created /\ laidOut' = laidOut /\ geo' = geo /\ cut' = cut /\ draws' = draws
      /\ sent' = "nothing"
  BY DEF FocusOut, Quiet
<1>4. bar.pressed => selected = "bar" BY DEF IInv, DragHasTheGrab
<1> HIDE DEF wid
<1>6. focused' = Null /\ focused' \in Widgets \cup {Null} /\ told' = {focused'} \ {Null}
  BY <1>1, <1>2, GiveUpIs
<1>7. /\ seen \in BarType /\ seen.end = bar.end /\ seen.pressed = bar.pressed
      /\ seen.over => wid = "bar"
  BY SeenIs
<1> HIDE DEF seen
<1>8. now \in BarType /\ now.end = bar.end /\ now.pressed = bar.pressed /\ ~now.over
  <2>1. CASE wid = "bar" BY <1>7, <2>1, BarInIs
  <2>2. CASE wid # "bar" BY <1>7, <2>2
  <2> QED BY <2>1, <2>2
<1>9. Shows(now) BY <1>8, SeenShows
<1> HIDE DEF now
<1>10. /\ pressedOn' \in [Buttons -> Widgets \cup {Null}] /\ cut' \in BOOLEAN
       /\ selected' \in Widgets \cup {Null}
  BY <1>2 DEF IInv, TypeOK
<1>11. PressInv' BY <1>2, PressKept DEF IInv
<1>12. /\ now.over => focused' = "bar"
       /\ now.pressed => selected' = "bar"
  BY <1>2, <1>4, <1>8
<1> QED BY <1>2, <1>6, <1>9, <1>10, <1>11, <1>12, PaintKeeps

(* The number of draw events waiting.                                      *)
LEMMA DrawsType ==
  ASSUME IInv
  PROVE  draws \in Nat /\ draws <= MaxDraws /\ MaxDraws \in Nat
<1>1. draws \in 0 .. MaxDraws BY DEF IInv, TypeOK
<1>2. MaxDraws \in Nat BY LengthsAssumption
<1> QED BY <1>1, <1>2

(* The X server asks for a draw.                                           *)
LEMMA ExposeKeeps ==
  ASSUME IInv, Expose
  PROVE  IInv'
<1>1. /\ fault = "none" /\ draws' = draws + 1 /\ draws < MaxDraws
      /\ created' = created /\ laidOut' = laidOut /\ geo' = geo
      /\ selected' = selected /\ focused' = focused /\ told' = told /\ pressedOn' = pressedOn
      /\ cut' = cut /\ bar' = bar /\ text' = text /\ sent' = sent /\ fault' = fault
  BY DEF Expose, Ready, input
<1>2. /\ focused' \in Widgets \cup {Null} /\ selected' \in Widgets \cup {Null}
      /\ pressedOn' \in [Buttons -> Widgets \cup {Null}] /\ cut' \in BOOLEAN
      /\ bar' \in BarType /\ text' \in TextType
      /\ sent' \in {"nothing", "event", "nameless click"}
      /\ fault' \in {"none", "ratio"} /\ fault' = "none"
  BY <1>1 DEF IInv, TypeOK
<1>3. draws' \in 0 .. MaxDraws /\ draws' > 0
  <2>1. draws' = draws + 1 /\ draws < MaxDraws BY <1>1
  <2> QED BY <2>1, DrawsType
<1>4. told' = {focused'} \ {Null} /\ (bar'.over => focused' = "bar")
  BY <1>1 DEF IInv, WidgetsKnowTheirFocus
<1>5. bar'.pressed => selected' = "bar" BY <1>1 DEF IInv, DragHasTheGrab
<1>6. PressInv' BY <1>1, PressKept DEF IInv
<1>7. text.screen = Null => bar'.end = 0 BY <1>1 DEF IInv, TextInv
<1> QED BY <1>1, <1>2, <1>3, <1>4, <1>5, <1>6, <1>7, HandlerKeeps

(* A draw event paints, and with a screen nothing is waiting any more.     *)
LEMMA DrawKeeps ==
  ASSUME IInv, Draw
  PROVE  IInv'
<1>1. /\ fault = "none" /\ draws' = draws - 1 /\ draws > 0 /\ Painted(bar)
      /\ created' = created /\ laidOut' = laidOut /\ geo' = geo
      /\ selected' = selected /\ focused' = focused /\ told' = told /\ pressedOn' = pressedOn
      /\ cut' = cut /\ sent' = "nothing"
  BY DEF Draw, Ready, input, Quiet
<1>2. /\ focused' \in Widgets \cup {Null} /\ selected' \in Widgets \cup {Null}
      /\ pressedOn' \in [Buttons -> Widgets \cup {Null}] /\ cut' \in BOOLEAN
      /\ bar \in BarType
  BY <1>1 DEF IInv, TypeOK
<1>3. draws' \in 0 .. MaxDraws
  <2>1. draws' = draws - 1 /\ draws > 0 BY <1>1
  <2> QED BY <2>1, DrawsType
<1>4. Shows(bar) BY <1>2, SeenShows
<1>5. /\ bar' \in BarType /\ bar'.pressed = bar.pressed /\ bar'.over = bar.over
      /\ text' \in TextType /\ text'.screen = text.screen
      /\ text.screen = Null => bar'.end = 0
      /\ text'.pending => text.pending /\ text.screen = Null
      /\ fault' \in {"none", "ratio"}
      /\ fault' # "none" => text.screen = Null /\ bar'.begin > 0
  BY <1>1, <1>4, PaintedIs DEF IInv
<1>6. ~text'.pending BY <1>5 DEF IInv, TextInv
<1>7. told' = {focused'} \ {Null} /\ (bar.over => focused' = "bar")
  BY <1>1 DEF IInv, WidgetsKnowTheirFocus
<1>8. bar.pressed => selected' = "bar" BY <1>1 DEF IInv, DragHasTheGrab
<1>9. PressInv' BY <1>1, PressKept DEF IInv
<1> QED BY <1>1, <1>2, <1>3, <1>5, <1>6, <1>7, <1>8, <1>9, HandlerKeeps

(* The core names its buffers.                                             *)
LEMMA BufferListKeeps ==
  ASSUME IInv, NEW some \in BOOLEAN, BufferList(some)
  PROVE  IInv'
<1>1. /\ fault = "none" /\ text' = [text EXCEPT !.buffer = some, !.asked = FALSE]
      /\ created' = created /\ laidOut' = laidOut /\ geo' = geo
      /\ selected' = selected /\ focused' = focused /\ told' = told /\ pressedOn' = pressedOn
      /\ cut' = cut /\ bar' = bar /\ draws' = draws /\ fault' = fault
  BY DEF BufferList, Ready, input
<1>2. sent' \in {"nothing", "event", "nameless click"} BY DEF BufferList, Quiet
<1>3. /\ focused' \in Widgets \cup {Null} /\ selected' \in Widgets \cup {Null}
      /\ pressedOn' \in [Buttons -> Widgets \cup {Null}] /\ cut' \in BOOLEAN
      /\ bar' \in BarType /\ draws' \in 0 .. MaxDraws
      /\ fault' \in {"none", "ratio"} /\ fault' = "none"
  BY <1>1 DEF IInv, TypeOK
<1>4. text' \in TextType /\ text'.screen = text.screen /\ text'.pending = text.pending
  <2>1. text \in TextType BY DEF IInv, TypeOK
  <2> QED BY <1>1, <2>1 DEF TextType
<1>5. text'.pending => draws' > 0 BY <1>1, <1>4 DEF IInv, NewScreensGetDrawn
<1>6. told' = {focused'} \ {Null} /\ (bar'.over => focused' = "bar")
  BY <1>1 DEF IInv, WidgetsKnowTheirFocus
<1>7. bar'.pressed => selected' = "bar" BY <1>1 DEF IInv, DragHasTheGrab
<1>8. PressInv' BY <1>1, PressKept DEF IInv
<1>9. text.screen = Null => bar'.end = 0 BY <1>1 DEF IInv, TextInv
<1> QED BY <1>1, <1>2, <1>3, <1>4, <1>5, <1>6, <1>7, <1>8, <1>9, HandlerKeeps

(* The core sends a screen, and a draw event waits for it.                 *)
LEMMA NewScreenKeeps ==
  ASSUME IInv, NEW b \in 0 .. Parts, NEW e \in b .. Parts, NewScreen(b, e)
  PROVE  IInv'
<1>1. /\ fault = "none"
      /\ text' = [text EXCEPT !.screen = [begin |-> b, end |-> e], !.pending = TRUE]
      /\ draws' = (IF ~text.pending THEN draws + 1 ELSE draws) /\ draws' <= MaxDraws
      /\ created' = created /\ laidOut' = laidOut /\ geo' = geo
      /\ selected' = selected /\ focused' = focused /\ told' = told /\ pressedOn' = pressedOn
      /\ cut' = cut /\ bar' = bar /\ fault' = fault /\ sent' = "nothing"
  BY DEF NewScreen, Ready, input, PushDraw, Quiet
<1>2. [begin |-> b, end |-> e] \in Screen /\ b <= e
  <2>1. e \in 0 .. Parts /\ b <= e BY LengthsAssumption
  <2> QED BY <2>1 DEF Screen
<1>3. [begin |-> b, end |-> e] # Null
  BY <1>2, ScreenAssumption DEF Screen
<1>4. text' \in TextType /\ text'.screen = [begin |-> b, end |-> e]
  <2>1. text \in TextType BY DEF IInv, TypeOK
  <2> QED BY <1>1, <1>2, <2>1 DEF TextType
<1>5. draws' \in 0 .. MaxDraws /\ draws' > 0
  <2>1. text.pending => draws > 0 BY <1>1 DEF IInv, NewScreensGetDrawn
  <2>4. draws' <= MaxDraws BY <1>1
  <2>2. CASE text.pending
    <3>1. draws' = draws BY <1>1, <2>2
    <3> QED BY <2>1, <2>2, <2>4, <3>1, DrawsType
  <2>3. CASE ~text.pending
    <3>1. draws' = draws + 1 BY <1>1, <2>3
    <3> QED BY <2>3, <2>4, <3>1, DrawsType
  <2> QED BY <2>2, <2>3
<1>6. TypeOK' BY <1>1, <1>4, <1>5 DEF IInv, TypeOK
<1>7. GeoInv' BY <1>1 DEF IInv, GeoInv
<1>8. WidgetsKnowTheirFocus' BY <1>1 DEF IInv, WidgetsKnowTheirFocus
<1>9. DragHasTheGrab' BY <1>1 DEF IInv, DragHasTheGrab
<1>10. PressInv' BY <1>1, PressKept DEF IInv
<1>11. NewScreensGetDrawn' BY <1>5 DEF NewScreensGetDrawn
<1>12. TextInv' BY <1>1, <1>2, <1>3, <1>4 DEF TextInv
<1> QED BY <1>6, <1>7, <1>8, <1>9, <1>10, <1>11, <1>12 DEF IInv

(* on_create: every widget gets its first size.                            *)
LEMMA CreateKeeps ==
  ASSUME IInv, NEW w \in Nat, NEW h \in Nat, Create(w, h)
  PROVE  IInv'
<1>1. /\ ~created /\ created' = TRUE /\ laidOut' = laidOut /\ draws' = draws
      /\ text' = [text EXCEPT !.asked = TRUE]
      /\ selected' = selected /\ focused' = focused /\ told' = told /\ pressedOn' = pressedOn
      /\ cut' = cut /\ bar' = bar /\ fault' = fault /\ sent' = "event"
  BY DEF Create, input
<1>2. geo' = [c \in Widgets |->
                [x |-> 0, y |-> 0,
                 w |-> IF c \in {"lines", "area", "bar"} THEN BarWidth ELSE w,
                 h |-> IF c \in {"tabs", "status"} THEN BarHeight
                       ELSE IF c = "bar" THEN 0 ELSE h]]
  BY DEF Create
<1>3. BarWidth \in Nat /\ BarHeight \in Nat BY LengthsAssumption
<1>4. geo' \in [Widgets -> Rect] BY <1>2, <1>3 DEF Rect
<1>5. Built(geo') BY <1>2, WidgetsAre DEF Built
<1>6. ~laidOut BY <1>1 DEF IInv, GeoInv
<1>7. text' \in TextType /\ text'.screen = text.screen /\ text'.pending = text.pending
  <2>1. text \in TextType BY DEF IInv, TypeOK
  <2> QED BY <1>1, <2>1 DEF TextType
<1>8. TypeOK' BY <1>1, <1>4, <1>7 DEF IInv, TypeOK
<1>9. GeoInv' BY <1>1, <1>5, <1>6 DEF GeoInv
<1>10. WidgetsKnowTheirFocus' BY <1>1 DEF IInv, WidgetsKnowTheirFocus
<1>11. DragHasTheGrab' BY <1>1 DEF IInv, DragHasTheGrab
<1>12. PressInv' BY <1>1, PressKept DEF IInv
<1>13. NewScreensGetDrawn' BY <1>1, <1>7 DEF IInv, NewScreensGetDrawn
<1>14. TextInv' BY <1>1, <1>7 DEF IInv, TextInv
<1> QED BY <1>8, <1>9, <1>10, <1>11, <1>12, <1>13, <1>14 DEF IInv

(* The window gets another size, with room for its bars or without.        *)
LEMMA ResizeKeeps ==
  ASSUME IInv, NEW w \in 1 .. Word - 1, NEW h \in 1 .. Word - 1, Resize(w, h)
  PROVE  IInv'
<1> DEFINE old == [geo EXCEPT !["win"].w = w, !["win"].h = h]
<1>1. /\ created /\ fault = "none" /\ geo' = Resized(old, "win", w, h) /\ laidOut' = Room(w, h)
      /\ created' = created /\ draws' = draws /\ text' = text
      /\ selected' = selected /\ focused' = focused /\ told' = told /\ pressedOn' = pressedOn
      /\ cut' = cut /\ bar' = bar /\ fault' = fault
  BY DEF Resize, Ready, input
<1>2. sent' \in {"nothing", "event", "nameless click"} BY DEF Resize, Quiet
<1>3. w \in Nat /\ h \in Nat /\ BarHeight \in Nat /\ BarWidth \in Nat BY LengthsAssumption
<1>4. geo \in [Widgets -> Rect] /\ Built(geo) BY <1>1 DEF IInv, TypeOK, GeoInv
<1>5. old \in [Widgets -> Rect] /\ Built(old)
  <2>1. /\ old["win"] = R(geo["win"].x, geo["win"].y, w, h)
        /\ old = [c \in Widgets |-> old[c]]
        /\ \A c \in Widgets \ {"win"} : old[c] = geo[c]
    <3>1. geo["win"] \in Rect BY <1>4, WidgetsAre
    <3>2. old = [geo EXCEPT !["win"] = [geo["win"] EXCEPT !.w = w, !.h = h]]
      BY <1>4
    <3>3. [geo["win"] EXCEPT !.w = w, !.h = h] = R(geo["win"].x, geo["win"].y, w, h)
      BY <3>1, Widened
    <3>4. old = [geo EXCEPT !["win"] = R(geo["win"].x, geo["win"].y, w, h)]
      BY <3>2, <3>3, Zenon
    <3> HIDE DEF old
    <3> QED BY <1>4, <3>4, WidgetsAre
  <2> HIDE DEF old
  <2>2. old["win"] \in Rect
    <3>1. geo["win"] \in Rect BY <1>4, WidgetsAre
    <3> QED BY <1>3, <2>1, <3>1 DEF Rect, R
  <2>3. old \in [Widgets -> Rect]
    <3>1. \A c \in Widgets : old[c] \in Rect BY <1>4, <2>1, <2>2
    <3>2. old = [c \in Widgets |-> old[c]] BY <2>1
    <3> QED BY <3>1, <3>2
  <2>4. old["win"].x = 0 /\ old["win"].y = 0 BY <1>4, <2>1, FieldsOfR DEF Built
  <2> QED BY <1>4, <2>1, <2>3, <2>4, WidgetsAre DEF Built
<1> HIDE DEF old
<1>6. geo' \in [Widgets -> Rect] /\ Built(geo') BY <1>1, <1>3, <1>5, ResizedType, BuiltKept
<1>7. Room(w, h) => Fits(geo', w, h) /\ geo'["win"].w = w /\ geo'["win"].h = h
  <2>1. Room(w, h) => Fits(geo', w, h) BY <1>1, <1>5, LayoutFits
  <2> QED BY <2>1, FieldsOfR DEF Fits
<1>8. laidOut' \in BOOLEAN BY <1>1, <1>3 DEF Room
<1>9. TypeOK' BY <1>1, <1>2, <1>6, <1>8 DEF IInv, TypeOK
<1>10. GeoInv' BY <1>1, <1>6, <1>7 DEF GeoInv
<1>11. WidgetsKnowTheirFocus' BY <1>1 DEF IInv, WidgetsKnowTheirFocus
<1>12. DragHasTheGrab' BY <1>1 DEF IInv, DragHasTheGrab
<1>13. PressInv' BY <1>1, PressKept DEF IInv
<1>14. NewScreensGetDrawn' BY <1>1 DEF IInv, NewScreensGetDrawn
<1>15. TextInv' BY <1>1 DEF IInv, TextInv
<1> QED BY <1>9, <1>10, <1>11, <1>12, <1>13, <1>14, <1>15 DEF IInv

(* Before on_create.                                                       *)
LEMMA InitHolds ==
  ASSUME Init
  PROVE  IInv
<1>1. Null \notin Widgets BY NullAssumption
<1>2. TypeOK
  <2>1. geo \in [Widgets -> Rect] BY DEF Init, Rect
  <2>2. bar \in BarType BY LengthsAssumption DEF Init, BarType
  <2>3. text \in TextType BY DEF Init, TextType
  <2>4. draws \in 0 .. MaxDraws BY LengthsAssumption DEF Init
  <2>5. pressedOn \in [Buttons -> Widgets \cup {Null}] BY DEF Init
  <2> QED BY <2>1, <2>2, <2>3, <2>4, <2>5 DEF Init, TypeOK, Quiet
<1>3. GeoInv BY DEF Init, GeoInv
<1>4. WidgetsKnowTheirFocus BY DEF Init, WidgetsKnowTheirFocus
<1>5. DragHasTheGrab BY DEF Init, DragHasTheGrab
<1>6. PressInv BY DEF Init, PressInv
<1>7. NewScreensGetDrawn BY DEF Init, NewScreensGetDrawn
<1>8. TextInv BY DEF Init, TextInv
<1> QED BY <1>2, <1>3, <1>4, <1>5, <1>6, <1>7, <1>8 DEF IInv

(* Sizes are pairs of lengths above zero.                                  *)
LEMMA SizeType ==
  ASSUME NEW s \in Sizes
  PROVE  s[1] \in 1 .. Word - 1 /\ s[2] \in 1 .. Word - 1 /\ s[1] \in Nat /\ s[2] \in Nat
<1>1. s[1] \in 1 .. Word - 1 /\ s[2] \in 1 .. Word - 1 BY SizesAssumption
<1> QED BY <1>1, LengthsAssumption

(* Every step keeps the invariant.                                         *)
LEMMA StepHolds ==
  ASSUME IInv, [Next]_vars
  PROVE  IInv'
<1>1. ASSUME NEW s \in Sizes, Create(s[1], s[2]) PROVE IInv'
  BY <1>1, SizeType, CreateKeeps
<1>2. ASSUME NEW s \in Sizes, Resize(s[1], s[2]) PROVE IInv'
  BY <1>2, SizeType, ResizeKeeps
<1>3. ASSUME NEW p \in Points, Key(p[1], p[2]) PROVE IInv'
  BY <1>3, PointType, KeyKeeps
<1>4. ASSUME NEW p \in Points, NEW b \in Buttons, Press(p[1], p[2], b) PROVE IInv'
  BY <1>4, PointType, PressKeeps
<1>5. ASSUME NEW p \in Points, NEW b \in Buttons, Release(p[1], p[2], b) PROVE IInv'
  BY <1>5, PointType, ReleaseKeeps
<1>6. ASSUME NEW p \in Points, Wheel(p[1], p[2]) PROVE IInv'
  BY <1>6, PointType, WheelKeeps
<1>7. ASSUME NEW p \in Points, Motion(p[1], p[2]) PROVE IInv'
  BY <1>7, PointType, MotionKeeps
<1>8. ASSUME NEW p \in Points, Enter(p[1], p[2]) PROVE IInv'
  BY <1>8, PointType, EnterKeeps
<1>9. ASSUME NEW p \in Points, PointerLeave(p[1], p[2]) PROVE IInv'
  BY <1>9, PointType, PointerLeaveKeeps
<1>10. ASSUME NEW some \in BOOLEAN, BufferList(some) PROVE IInv'
  BY <1>10, BufferListKeeps
<1>11. ASSUME NEW b \in 0 .. Parts, NEW e \in b .. Parts, NewScreen(b, e) PROVE IInv'
  BY <1>11, NewScreenKeeps
<1>12. CASE UNCHANGED vars
  <2>1. /\ created' = created /\ laidOut' = laidOut /\ geo' = geo
        /\ selected' = selected /\ focused' = focused /\ told' = told
        /\ pressedOn' = pressedOn /\ cut' = cut /\ bar' = bar /\ text' = text
        /\ draws' = draws /\ sent' = sent /\ fault' = fault
    BY <1>12 DEF vars, input
  <2>2. TypeOK' BY <2>1 DEF IInv, TypeOK
  <2>3. GeoInv' BY <2>1 DEF IInv, GeoInv
  <2>4. WidgetsKnowTheirFocus' BY <2>1 DEF IInv, WidgetsKnowTheirFocus
  <2>5. DragHasTheGrab' BY <2>1 DEF IInv, DragHasTheGrab
  <2>6. PressInv' BY <2>1, PressKept DEF IInv
  <2>7. NewScreensGetDrawn' BY <2>1 DEF IInv, NewScreensGetDrawn
  <2>8. TextInv' BY <2>1 DEF IInv, TextInv
  <2> QED BY <2>2, <2>3, <2>4, <2>5, <2>6, <2>7, <2>8 DEF IInv
<1>13. CASE Next
  BY <1>1, <1>2, <1>3, <1>4, <1>5, <1>6, <1>7, <1>8, <1>9, <1>10, <1>11, <1>13,
     FocusInKeeps, FocusOutKeeps, ExposeKeeps, DrawKeeps DEF Next
<1> QED BY <1>12, <1>13

(* In every reachable state, for windows of every size, the inductive      *)
(* invariant holds.                                                        *)
THEOREM InvariantHolds == Spec => []IInv
<1>1. Init => IInv BY InitHolds
<1>2. IInv /\ [Next]_vars => IInv' BY StepHolds
<1> QED BY <1>1, <1>2, PTL DEF Spec

(* Every variable has its type: no ratio leaves 0 .. Parts, no length goes *)
(* below zero whatever the size and the drag, and every event finds a      *)
(* widget.                                                                 *)
THEOREM TypeCorrect == Spec => []TypeOK
<1>1. IInv => TypeOK BY DEF IInv
<1> QED BY <1>1, InvariantHolds, PTL

(* The widget that has the focus, and no other, has been told so and not   *)
(* yet told otherwise, and only a focused scroll bar shows the pointer     *)
(* over its thumb (get_focused_widget and dispatch_event, for any order of *)
(* events).                                                                *)
THEOREM FocusIsKnown == Spec => []WidgetsKnowTheirFocus
<1>1. IInv => WidgetsKnowTheirFocus BY DEF IInv
<1> QED BY <1>1, InvariantHolds, PTL

(* While the thumb is held the scroll bar is the selected widget, so that  *)
(* the release cannot miss it, in whatever order any number of buttons go  *)
(* up (dispatch_event, scroll_bar.cpp).                                    *)
THEOREM DragKeepsTheGrab == Spec => []DragHasTheGrab
<1>1. IInv => DragHasTheGrab BY DEF IInv
<1> QED BY <1>1, InvariantHolds, PTL

(* A screen of the core that was not drawn yet has a draw event waiting,   *)
(* for any number of screens and draw events (main_window.cpp,             *)
(* text_view.hpp).                                                         *)
THEOREM ScreensGetDrawn == Spec => []NewScreensGetDrawn
<1>1. IInv => NewScreensGetDrawn BY DEF IInv
<1> QED BY <1>1, InvariantHolds, PTL

(* The scroll bar's assertion (scroll_bar.cpp:157) fails only when its     *)
(* thumb was dragged before the first screen, whatever screens, drags and  *)
(* sizes follow each other, for ratios and bars of every size.             *)
THEOREM FaultsAreExplained == Spec => []FaultsHaveACause
<1>1. IInv => FaultsHaveACause BY DEF IInv, TextInv, FaultsHaveACause
<1> QED BY <1>1, InvariantHolds, PTL

(* After a layout that had room, whatever the sizes before it, every pixel *)
(* of the window belongs to exactly one widget without children and the    *)
(* hit test finds one that holds it (the layouts and                       *)
(* find_widget_under_coords of widget.cpp, for windows and bars of every   *)
(* size).                                                                  *)
THEOREM LayoutTilesTheWindow == Spec => []TilesTheWindow
<1>1. ASSUME IInv, laidOut PROVE Tiled(geo, "win") /\ EveryPixelHits
  <2> DEFINE w == geo["win"].w
             h == geo["win"].h
  <2>1. geo \in [Widgets -> Rect] /\ Fits(geo, w, h) /\ Room(w, h)
    BY <1>1 DEF IInv, TypeOK, GeoInv
  <2>2. w \in Nat /\ h \in Nat
    <3>1. geo["win"] \in Rect BY <2>1, WidgetsAre
    <3> QED BY <3>1 DEF Rect
  <2> HIDE DEF w, h
  <2>3. Tiled(geo, "win") BY <2>1, <2>2, FitsTiles
  <2>4. \A x \in 0 .. w - 1, y \in 0 .. h - 1 :
          /\ WidgetUnder(geo, "win", x, y) \in Leaves
          /\ Inside(OnScreen(geo)[WidgetUnder(geo, "win", x, y)], x, y)
    BY <2>1, <2>2, FitsHits
  <2> QED BY <2>3, <2>4 DEF EveryPixelHits, w, h
<1>2. IInv => TilesTheWindow BY <1>1 DEF TilesTheWindow
<1> QED BY <1>2, InvariantHolds, PTL

(* The release of a button that was alone down.                            *)
LEMMA StepFollows ==
  ASSUME IInv, [Next]_vars, NEW b \in Buttons, pressedOn[b] # Null, pressedOn'[b] = Null, ~cut
  PROVE  focused' = pressedOn[b]
<1>1. pressedOn \in [Buttons -> Widgets \cup {Null}] BY DEF IInv, TypeOK
<1>2. pressedOn[b] = selected BY DEF IInv, PressInv
<1>3. ASSUME pressedOn' = pressedOn PROVE FALSE
  BY <1>3
<1>4. ASSUME NEW p \in Points, NEW o \in Buttons, Press(p[1], p[2], o) PROVE FALSE
  <2>1. pressedOn' = [pressedOn EXCEPT ![o] = Target(p[1], p[2])] BY <1>4 DEF Press
  <2>2. Target(p[1], p[2]) # Null BY TargetType, NullAssumption DEF IInv
  <2> QED BY <1>1, <2>1, <2>2
<1>5. ASSUME NEW p \in Points, NEW o \in Buttons, Release(p[1], p[2], o)
      PROVE  focused' = pressedOn[b]
  <2>1. focused' = Target(p[1], p[2]) BY <1>5 DEF Release, Focus
  <2> QED BY <1>2, <2>1 DEF Target
<1>6. ASSUME NEW s \in Sizes, Create(s[1], s[2]) PROVE pressedOn' = pressedOn
  BY <1>6 DEF Create, input
<1>7. ASSUME NEW s \in Sizes, Resize(s[1], s[2]) PROVE pressedOn' = pressedOn
  BY <1>7 DEF Resize, input
<1>8. ASSUME NEW p \in Points,
             \/ Key(p[1], p[2]) \/ Wheel(p[1], p[2]) \/ Motion(p[1], p[2])
             \/ Enter(p[1], p[2]) \/ PointerLeave(p[1], p[2])
      PROVE  pressedOn' = pressedOn
  BY <1>8 DEF Key, Wheel, Motion, Enter, PointerLeave
<1>9. ASSUME FocusIn \/ FocusOut \/ Expose \/ Draw PROVE pressedOn' = pressedOn
  BY <1>9 DEF FocusIn, FocusOut, Expose, Draw, input
<1>10. ASSUME NEW some \in BOOLEAN, BufferList(some) PROVE pressedOn' = pressedOn
  BY <1>10 DEF BufferList, input
<1>11. ASSUME NEW k \in 0 .. Parts, NEW e \in k .. Parts, NewScreen(k, e)
       PROVE  pressedOn' = pressedOn
  BY <1>11 DEF NewScreen, input
<1>12. CASE UNCHANGED vars
  <2>1. pressedOn' = pressedOn BY <1>12 DEF vars, input
  <2> QED BY <1>3, <2>1
<1>13. CASE Next
  BY <1>3, <1>4, <1>5, <1>6, <1>7, <1>8, <1>9, <1>10, <1>11, <1>13 DEF Next
<1> QED BY <1>12, <1>13

(* A button goes up over the widget it was pressed on, wherever the        *)
(* pointer is, unless another went up between (dispatch_event, for any     *)
(* number of buttons).                                                     *)
THEOREM ReleasesFollow == Spec => ReleaseFollowsPress
<1>1. IInv /\ [Next]_vars
        => [\A b \in Buttons : pressedOn[b] # Null /\ pressedOn'[b] = Null /\ ~cut
                                 => focused' = pressedOn[b]]_vars
  BY StepFollows
<1> QED BY <1>1, InvariantHolds, PTL DEF Spec, ReleaseFollowsPress
=============================================================================

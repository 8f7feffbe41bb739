--------------------------- MODULE TextViewProofs ---------------------------
(***************************************************************************)
(* TextView proved: the screen shows the text in order, it is the one of   *)
(* the text as it is, a page up goes up, and each stop has its cause.      *)
(*                                                                         *)
(* The pen is kept at the end of the last line, in pixels and in cells     *)
(* (PenInv), and the lines drawn so far show the text from a first cell    *)
(* on, without a gap (Drawn).  So every screen of a layout is drawn from   *)
(* the first cell of its start (LayoutIs).                                 *)
(*                                                                         *)
(* The cells of a text are in the order of their ranks: the offset, and    *)
(* among the cells of a tab the split.  A page up lays out screens one     *)
(* after the other, and the first cell of each has a greater rank than the *)
(* one before, unless the search stops: so it ends within MaxScreens       *)
(* screens (LineListIs), at the old start or at a cause.  The offsets in   *)
(* its list of lines never fall and, without tabs, grow over two lines     *)
(* (GoodList): some lines above the old start the offset is smaller.       *)
(*                                                                         *)
(* The invariant (ViewInv) adds what the layouts need of the start: fewer  *)
(* cells of a tab above the screen than it has.                            *)
(***************************************************************************)
EXTENDS TextView, SequenceTheorems, FiniteSetTheorems, TLAPS

\* Arithmetic.
LEMMA MulMono == ASSUME NEW a \in Nat, NEW b \in Nat, NEW d \in Nat, a <= b PROVE a * d <= b * d
OBVIOUS

LEMMA MulNext == ASSUME NEW a \in Nat, NEW d \in Nat PROVE (a + 1) * d = a * d + d /\ a * d \in Nat
OBVIOUS

LEMMA RangeNext ==
  ASSUME NEW a \in Nat, NEW b \in Nat, NEW d \in b .. b + 1, NEW o \in a .. d
  PROVE  o \in a .. b \/ o = d
<1>1. o \in Nat /\ a <= o /\ o <= d /\ (d = b \/ d = b + 1)
  OBVIOUS
<1> QED BY <1>1

LEMMA DivIs ==
  ASSUME NEW n \in Nat, NEW d \in Nat \ {0},
         NEW q, q = n \div d, NEW r, r = n % d
  PROVE  n = q * d + r /\ q \in Nat /\ r \in 0 .. d - 1
<1>1. q \in Nat /\ r \in 0 .. d - 1
  OBVIOUS
<1>2. r \in Nat
  BY <1>1
<1> QED BY <1>1, <1>2

\* How many lines or columns there are for the pixels.
LEMMA DivUpIs ==
  ASSUME NEW n \in Nat, NEW d \in Nat \ {0}, NEW k \in Nat
  PROVE  DivUp(n, d) \in Nat /\ (k * d < n <=> k < DivUp(n, d))
<1> DEFINE q == n \div d
           r == n % d
<1>1. n = q * d + r /\ q \in Nat /\ r \in 0 .. d - 1
  BY DivIs
<1> HIDE DEF q, r
<1>2. DivUp(n, d) = IF r # 0 THEN q + 1 ELSE q
  BY <1>1 DEF DivUp, q, r
<1>3. q * d \in Nat /\ k * d \in Nat /\ (q + 1) * d = q * d + d
  BY <1>1, MulNext
<1>4. CASE k < q
  <2>1. (k + 1) * d <= q * d /\ (k + 1) * d = k * d + d
    BY <1>1, <1>4, MulMono, MulNext
  <2>2. k * d < q * d
    BY <2>1, <1>3
  <2> QED BY <1>1, <1>2, <1>3, <1>4, <2>2
<1>5. CASE k = q
  BY <1>1, <1>2, <1>3, <1>5
<1>6. CASE k > q
  <2>1. (q + 1) * d <= k * d
    BY <1>1, <1>6, MulMono
  <2>2. n < k * d
    BY <1>1, <1>3, <2>1
  <2> QED BY <1>1, <1>2, <1>3, <1>6, <2>2
<1> QED BY <1>1, <1>4, <1>5, <1>6

-----------------------------------------------------------------------------
(* Lines of cells, in the order of the text.                                *)

\* What a screen is made of.
Cell == [ch : Char \cup {"end"}, off : Nat, split : Nat, index : Nat, sel : BOOLEAN]

Lines == Seq(Seq(Cell))

\* A cell that shows what the text t has at its offset, with the mark at m.
GoodCell(t, m, c) ==
  /\ c \in Cell
  /\ c.off <= Len(t)
  /\ c.ch = IF c.off < Len(t) THEN t[c.off + 1] ELSE "end"
  /\ c.split < Expansion /\ c.index < Expansion
  /\ c.ch # "tab" => c.split = 0
  /\ c.ch = "tab" /\ c.split = 0 => c.index = 0
  /\ c.off = m => c.sel

\* Cells in the order of the text, on one line.
Chained(t, m, s) ==
  /\ \A k \in 1 .. Len(s) : GoodCell(t, m, s[k])
  /\ \A k \in 1 .. Len(s) - 1 : Follows(s[k], s[k + 1]) /\ s[k].ch # "newline"

\* A line that ends at an end of line or at the right border.
Ended(d, s) == Last(s).ch = "newline" \/ Len(s) = Cols(d) - 1

\* Lines that show the text from the cell "first" on; the last may be empty.
Drawn(t, m, d, first, lines) ==
  /\ lines \in Lines
  /\ Len(lines) \in 1 .. Rows(d)
  /\ \A l \in 1 .. Len(lines) : Chained(t, m, lines[l]) /\ Len(lines[l]) <= Cols(d) - 1
  /\ \A l \in 1 .. Len(lines) - 1 : lines[l] # <<>> /\ Ended(d, lines[l])
  /\ \A l \in 1 .. Len(lines) - 1 : lines[l + 1] # <<>> => Follows(Last(lines[l]), lines[l + 1][1])
  /\ lines[Len(lines)] # <<>> => Len(lines) < Rows(d)
  /\ lines[1] # <<>> => lines[1][1] = first

\* Whether a cell has been put, and the last one.
HasCells(lines) == Len(lines) # 1 \/ lines[1] # <<>>

LastOn(lines) ==
  IF lines[Len(lines)] # <<>> THEN Last(lines[Len(lines)]) ELSE Last(lines[Len(lines) - 1])

\* The cell to be put next.
IsNext(lines, first, c) == IF HasCells(lines) THEN Follows(LastOn(lines), c) ELSE c = first

\* The cell c at the end of the last line.
AddCell(lines, c) ==
  [l \in 1 .. Len(lines) |-> IF l = Len(lines) THEN Append(lines[l], c) ELSE lines[l]]

LEMMA AddCellIs ==
  ASSUME NEW lines \in Lines, NEW c \in Cell, Len(lines) # 0
  PROVE  /\ AddCell(lines, c) \in Lines /\ Len(AddCell(lines, c)) = Len(lines)
         /\ \A l \in 1 .. Len(lines) - 1 : AddCell(lines, c)[l] = lines[l]
         /\ AddCell(lines, c)[Len(lines)] = Append(lines[Len(lines)], c)
<1>1. Len(lines) \in Nat \ {0} /\ \A l \in 1 .. Len(lines) : lines[l] \in Seq(Cell)
  BY DEF Lines
<1>2. \A l \in 1 .. Len(lines) : Append(lines[l], c) \in Seq(Cell)
  BY <1>1
<1>3. AddCell(lines, c) \in [1 .. Len(lines) -> Seq(Cell)]
  BY <1>1, <1>2 DEF AddCell
<1>4. AddCell(lines, c) \in Seq(Seq(Cell)) /\ Len(AddCell(lines, c)) = Len(lines)
  BY <1>1, <1>3
<1>5. \A l \in 1 .. Len(lines) :
        AddCell(lines, c)[l] = IF l = Len(lines) THEN Append(lines[l], c) ELSE lines[l]
  BY DEF AddCell
<1>6. Len(lines) \in 1 .. Len(lines) /\ \A l \in 1 .. Len(lines) - 1 : l \in 1 .. Len(lines) /\ l # Len(lines)
  BY <1>1
<1> QED
  BY <1>4, <1>5, <1>6 DEF Lines

\* Small facts about sequences.
LEMMA AppendIs ==
  ASSUME NEW S, NEW s \in Seq(S), NEW c \in S
  PROVE  /\ Append(s, c) \in Seq(S) /\ Len(Append(s, c)) = Len(s) + 1 /\ Len(s) \in Nat
         /\ \A k \in 1 .. Len(s) : Append(s, c)[k] = s[k]
         /\ Append(s, c)[Len(s) + 1] = c
         /\ Append(s, c) # <<>> /\ Last(Append(s, c)) = c
BY DEF Last

LEMMA EmptyIs ==
  ASSUME NEW S, NEW s \in Seq(S)
  PROVE  s = <<>> <=> Len(s) = 0
OBVIOUS

\* A line that goes on with the cell that follows.
LEMMA ChainGrows ==
  ASSUME NEW t, NEW m, NEW s \in Seq(Cell), Chained(t, m, s), NEW c, GoodCell(t, m, c),
         s # <<>> => Follows(Last(s), c) /\ Last(s).ch # "newline"
  PROVE  Chained(t, m, Append(s, c))
<1>1. c \in Cell
  BY DEF GoodCell
<1> DEFINE s2 == Append(s, c)
           n == Len(s)
<1>2. /\ Len(s2) = n + 1 /\ n \in Nat /\ (\A k \in 1 .. n : s2[k] = s[k]) /\ s2[n + 1] = c
      /\ n # 0 => s # <<>> /\ Last(s) = s[n]
  BY <1>1, AppendIs, EmptyIs DEF Last
<1> HIDE DEF s2, n
<1>3. ASSUME NEW k \in 1 .. Len(s2) PROVE GoodCell(t, m, s2[k])
  <2>1. k \in 1 .. n \/ k = n + 1
    BY <1>2
  <2> QED BY <1>2, <2>1 DEF Chained, n
<1>4. ASSUME NEW k \in 1 .. Len(s2) - 1 PROVE Follows(s2[k], s2[k + 1]) /\ s2[k].ch # "newline"
  <2>1. CASE k = n
    <3>1. s2[k] = s[n] /\ s2[k + 1] = c /\ n # 0
      BY <1>2, <2>1
    <3> QED BY <1>2, <3>1
  <2>2. CASE k # n
    <3>1. k \in 1 .. n - 1 /\ k \in 1 .. n /\ k + 1 \in 1 .. n
      BY <1>2, <2>2
    <3> QED BY <1>2, <3>1 DEF Chained, n
  <2> QED BY <2>1, <2>2
<1> QED
  BY <1>3, <1>4 DEF Chained, s2

\* A cell put at the end of the last line keeps the lines in order.
LEMMA CellAdded ==
  ASSUME NEW t, NEW m, NEW d, NEW first, NEW lines, Drawn(t, m, d, first, lines),
         Rows(d) \in Nat, Cols(d) \in Nat,
         NEW n, n = Len(lines), n < Rows(d), Len(lines[n]) + 1 <= Cols(d) - 1,
         NEW c, GoodCell(t, m, c), IsNext(lines, first, c),
         lines[n] # <<>> => Last(lines[n]).ch # "newline"
  PROVE  Drawn(t, m, d, first, AddCell(lines, c))
<1> DEFINE L2 == AddCell(lines, c)
<1>1. /\ lines \in Lines /\ c \in Cell /\ n \in Nat \ {0} /\ n \in 1 .. n
      /\ \A l \in 1 .. n : lines[l] \in Seq(Cell)
  BY DEF Drawn, Lines, GoodCell
<1>2. /\ L2 \in Lines /\ Len(L2) = n /\ (\A l \in 1 .. n - 1 : L2[l] = lines[l])
      /\ L2[n] = Append(lines[n], c)
  BY <1>1, AddCellIs
<1>3. /\ L2[n] # <<>> /\ Last(L2[n]) = c /\ Len(L2[n]) = Len(lines[n]) + 1 /\ Len(lines[n]) \in Nat
      /\ L2[n][1] = IF lines[n] = <<>> THEN c ELSE lines[n][1]
  <2>1. lines[n] \in Seq(Cell)
    BY <1>1
  <2> QED BY <1>1, <1>2, <2>1, AppendIs, EmptyIs
<1>4. lines[n] # <<>> => Follows(Last(lines[n]), c)
  <2>1. lines[n] # <<>> => HasCells(lines) /\ LastOn(lines) = Last(lines[n])
    BY <1>1 DEF HasCells, LastOn
  <2> QED BY <2>1 DEF IsNext
<1>5. Chained(t, m, L2[n])
  <2>1. lines[n] \in Seq(Cell) /\ Chained(t, m, lines[n])
    BY <1>1 DEF Drawn
  <2> QED BY <1>2, <1>4, <2>1, ChainGrows
<1>6. n # 1 /\ lines[n] = <<>> => Follows(Last(lines[n - 1]), c)
  <2>1. n # 1 /\ lines[n] = <<>> => HasCells(lines) /\ LastOn(lines) = Last(lines[n - 1])
    BY DEF HasCells, LastOn
  <2> QED BY <2>1 DEF IsNext
<1>7. n = 1 /\ lines[n] = <<>> => c = first
  BY DEF IsNext, HasCells
<1> HIDE DEF L2
<1>8. \A l \in 1 .. n : Chained(t, m, L2[l]) /\ Len(L2[l]) <= Cols(d) - 1
  <2>1. ASSUME NEW l \in 1 .. n PROVE Chained(t, m, L2[l]) /\ Len(L2[l]) <= Cols(d) - 1
    <3>1. CASE l = n
      BY <1>3, <1>5, <3>1
    <3>2. CASE l # n
      <4>1. l \in 1 .. n - 1
        BY <1>1, <3>2
      <4> QED BY <1>2, <4>1 DEF Drawn
    <3> QED BY <3>1, <3>2
  <2> QED BY <2>1
<1>9. \A l \in 1 .. n - 1 : L2[l] # <<>> /\ Ended(d, L2[l])
  BY <1>2 DEF Drawn
<1>10. \A l \in 1 .. n - 1 : L2[l + 1] # <<>> => Follows(Last(L2[l]), L2[l + 1][1])
  <2>1. ASSUME NEW l \in 1 .. n - 1, L2[l + 1] # <<>> PROVE Follows(Last(L2[l]), L2[l + 1][1])
    <3>1. CASE l + 1 = n
      <4>1. l = n - 1 /\ n # 1
        BY <1>1, <3>1
      <4>2. L2[l] = lines[n - 1] /\ L2[l + 1] = L2[n] /\ lines[l + 1] = lines[n]
        BY <1>2, <3>1, <4>1
      <4>3. lines[n] # <<>> => Follows(Last(lines[l]), lines[n][1])
        BY <3>1 DEF Drawn
      <4> QED BY <1>3, <1>6, <4>1, <4>2, <4>3
    <3>2. CASE l + 1 # n
      <4>1. l + 1 \in 1 .. n - 1
        BY <1>1, <3>2
      <4> QED BY <1>2, <2>1, <4>1 DEF Drawn
    <3> QED BY <3>1, <3>2
  <2> QED BY <2>1
<1>11. L2[1] # <<>> => L2[1][1] = first
  <2>1. CASE n = 1
    BY <1>3, <1>7, <2>1 DEF Drawn
  <2>2. CASE n # 1
    <3>1. 1 \in 1 .. n - 1
      BY <1>1, <2>2
    <3> QED BY <1>2, <3>1 DEF Drawn
  <2> QED BY <2>1, <2>2
<1>12. Len(L2) \in 1 .. Rows(d)
  BY <1>2 DEF Drawn
<1> QED
  BY <1>2, <1>8, <1>9, <1>10, <1>11, <1>12 DEF Drawn, L2

\* The cell put is the last one.
LEMMA LastAdded ==
  ASSUME NEW lines \in Lines, NEW c \in Cell, Len(lines) # 0
  PROVE  LET L2 == AddCell(lines, c)
         IN  /\ HasCells(L2) /\ LastOn(L2) = c
             /\ Len(L2) = Len(lines) /\ L2[Len(lines)] # <<>> /\ Last(L2[Len(lines)]) = c
             /\ Len(L2[Len(lines)]) = Len(lines[Len(lines)]) + 1
<1> DEFINE n == Len(lines)
           L2 == AddCell(lines, c)
<1>1. n \in Nat \ {0} /\ lines[n] \in Seq(Cell)
  BY DEF Lines
<1>2. Len(L2) = n /\ L2[n] = Append(lines[n], c)
  BY AddCellIs
<1>3. L2[n] # <<>> /\ Last(L2[n]) = c /\ Len(L2[n]) = Len(lines[n]) + 1
  BY <1>1, <1>2, AppendIs
<1> HIDE DEF L2, n
<1>4. HasCells(L2) /\ LastOn(L2) = c
  BY <1>2, <1>3 DEF HasCells, LastOn
<1> QED
  BY <1>2, <1>3, <1>4 DEF L2, n

\* A new empty line keeps them in order too.
LEMMA LineAdded ==
  ASSUME NEW t, NEW m, NEW d, NEW first, NEW lines, Drawn(t, m, d, first, lines),
         Rows(d) \in Nat, Len(lines) < Rows(d), lines[Len(lines)] # <<>>,
         Ended(d, lines[Len(lines)]), Cols(d) - 1 >= 0
  PROVE  /\ Drawn(t, m, d, first, Append(lines, <<>>))
         /\ Len(Append(lines, <<>>)) = Len(lines) + 1
         /\ Append(lines, <<>>)[Len(lines) + 1] = <<>>
         /\ HasCells(Append(lines, <<>>))
         /\ LastOn(Append(lines, <<>>)) = Last(lines[Len(lines)])
<1> DEFINE n == Len(lines)
           L2 == Append(lines, <<>>)
<1>1. /\ lines \in Lines /\ n \in Nat \ {0} /\ <<>> \in Seq(Cell)
      /\ \A l \in 1 .. n : lines[l] \in Seq(Cell)
  BY DEF Drawn, Lines
<1>2. /\ L2 \in Lines /\ Len(L2) = n + 1 /\ (\A l \in 1 .. n : L2[l] = lines[l]) /\ L2[n + 1] = <<>>
  BY <1>1, AppendIs DEF Lines
<1>0. n = Len(lines) /\ n < Rows(d) /\ lines[n] # <<>> /\ Ended(d, lines[n])
  OBVIOUS
<1> HIDE DEF L2, n
<1>3. Len(<<>>) = 0 /\ Chained(t, m, <<>>)
  BY DEF Chained
<1>4. \A l \in 1 .. n + 1 : Chained(t, m, L2[l]) /\ Len(L2[l]) <= Cols(d) - 1
  <2>1. \A l \in 1 .. n + 1 : l \in 1 .. n \/ l = n + 1
    BY <1>1
  <2>2. Len(L2[n + 1]) = 0
    BY <1>2, <1>3
  <2> QED BY <1>0, <1>2, <1>3, <2>1, <2>2 DEF Drawn
<1>5. \A l \in 1 .. n : L2[l] # <<>> /\ Ended(d, L2[l])
  <2>1. \A l \in 1 .. n : l \in 1 .. n - 1 \/ l = n
    BY <1>1
  <2> QED BY <1>0, <1>2, <2>1 DEF Drawn
<1>6. \A l \in 1 .. n : L2[l + 1] # <<>> => Follows(Last(L2[l]), L2[l + 1][1])
  <2>1. \A l \in 1 .. n : (l \in 1 .. n - 1 /\ l + 1 \in 1 .. n) \/ l + 1 = n + 1
    BY <1>1
  <2> QED BY <1>0, <1>2, <2>1 DEF Drawn
<1>7. L2[1] # <<>> => L2[1][1] = first
  <2>1. 1 \in 1 .. n
    BY <1>1
  <2> QED BY <1>0, <1>2, <2>1 DEF Drawn
<1>8. Len(L2) \in 1 .. Rows(d) /\ Len(L2) - 1 = n
  BY <1>0, <1>1, <1>2
<1>9. Drawn(t, m, d, first, L2)
  BY <1>2, <1>4, <1>5, <1>6, <1>7, <1>8 DEF Drawn
<1>10. HasCells(L2) /\ LastOn(L2) = Last(lines[n])
  <2>1. n \in 1 .. n
    BY <1>1
  <2> QED BY <1>0, <1>1, <1>2, <1>8, <2>1 DEF HasCells, LastOn
<1> QED
  BY <1>2, <1>9, <1>10 DEF L2, n

-----------------------------------------------------------------------------
(* The pen.                                                                 *)

\* The pen.
Pens == [x : Nat, y : Nat, lines : Lines, full : BOOLEAN]

IsDim(d) == d.w \in Nat \ {0} /\ d.h \in Nat \ {0}

\* Where the pen is, in pixels: at the end of the last line.
AtTheEnd(p) ==
  /\ p \in Pens /\ Len(p.lines) # 0
  /\ p.y = (Len(p.lines) - 1) * VAdvance
  /\ p.x = Len(p.lines[Len(p.lines)]) * HAdvance

\* The pen is where the next cell goes.
PenInv(t, m, d, first, p) ==
  /\ AtTheEnd(p) /\ ~p.full
  /\ Drawn(t, m, d, first, p.lines)
  /\ p.lines[Len(p.lines)] # <<>> => Last(p.lines[Len(p.lines)]).ch # "newline"

\* Nothing more goes on this screen.
FullUp(d, lines) ==
  \/ Len(lines) = 1 /\ lines[1] = <<>> /\ (Cols(d) = 1 \/ Rows(d) = 1)
  \/ lines[Len(lines)] # <<>> /\ Len(lines) = Rows(d) - 1
  \/ Len(lines) = Rows(d) /\ Len(lines) # 1 /\ lines[Len(lines)] = <<>>

\* What the tests of pixels say of lines and columns.
LEMMA DimIs ==
  ASSUME NEW d, IsDim(d)
  PROVE  Rows(d) \in Nat \ {0} /\ Cols(d) \in Nat \ {0}
<1>1. VAdvance \in Nat \ {0} /\ HAdvance \in Nat \ {0} /\ d.h \in Nat \ {0} /\ d.w \in Nat \ {0}
  BY LayoutAssumption DEF IsDim
<1>2. Rows(d) \in Nat /\ (0 * VAdvance < d.h <=> 0 < Rows(d))
  BY <1>1, DivUpIs DEF Rows
<1>3. Cols(d) \in Nat /\ (0 * HAdvance < d.w <=> 0 < Cols(d))
  BY <1>1, DivUpIs DEF Cols
<1>4. 0 * VAdvance = 0 /\ 0 * HAdvance = 0
  BY <1>1
<1> QED BY <1>1, <1>2, <1>3, <1>4

LEMMA BottomIs ==
  ASSUME NEW d, IsDim(d), NEW p, NEW n \in Nat, p.y = n * VAdvance
  PROVE  AtBottom(p, d) <=> n + 1 >= Rows(d)
<1>1. VAdvance \in Nat \ {0} /\ d.h \in Nat \ {0}
  BY LayoutAssumption DEF IsDim
<1>2. Rows(d) \in Nat /\ ((n + 1) * VAdvance < d.h <=> n + 1 < Rows(d))
  <2>1. n + 1 \in Nat
    OBVIOUS
  <2> QED BY <1>1, <2>1, DivUpIs DEF Rows
<1>3. (n + 1) * VAdvance = p.y + VAdvance /\ p.y \in Nat
  BY <1>1, MulNext
<1> QED BY <1>1, <1>2, <1>3 DEF AtBottom

LEMMA FitsIs ==
  ASSUME NEW d, IsDim(d), NEW p, NEW n \in Nat, p.x = n * HAdvance
  PROVE  Fits(p, d) <=> n + 1 < Cols(d)
<1>1. HAdvance \in Nat \ {0} /\ d.w \in Nat \ {0}
  BY LayoutAssumption DEF IsDim
<1>2. Cols(d) \in Nat /\ ((n + 1) * HAdvance < d.w <=> n + 1 < Cols(d))
  <2>1. n + 1 \in Nat
    OBVIOUS
  <2> QED BY <1>1, <2>1, DivUpIs DEF Cols
<1>3. (n + 1) * HAdvance = p.x + HAdvance /\ p.x \in Nat
  BY <1>1, MulNext
<1> QED BY <1>1, <1>2, <1>3 DEF Fits

\* The fields of the pen after a move.
LEMMA PenDownIs ==
  ASSUME NEW p \in Pens
  PROVE  /\ PenDown(p) \in Pens /\ PenDown(p).x = 0 /\ PenDown(p).y = p.y + VAdvance
         /\ PenDown(p).lines = Append(p.lines, <<>>) /\ PenDown(p).full = p.full
<1>1. VAdvance \in Nat /\ <<>> \in Seq(Cell) /\ p.lines \in Lines /\ p.y \in Nat
  BY LayoutAssumption DEF Pens
<1>2. Append(p.lines, <<>>) \in Lines
  BY <1>1 DEF Lines
<1>3. /\ PenDown(p).x = 0 /\ PenDown(p).y = p.y + VAdvance
      /\ PenDown(p).lines = Append(p.lines, <<>>) /\ PenDown(p).full = p.full
  BY DEF PenDown, Pens
<1>4. PenDown(p).lines \in Lines /\ PenDown(p).y \in Nat
  BY <1>1, <1>2, <1>3
<1>5. PenDown(p) \in Pens
  BY <1>4 DEF PenDown, Pens
<1> QED
  BY <1>3, <1>5

LEMMA PutCellIs ==
  ASSUME NEW p \in Pens, NEW c \in Cell, Len(p.lines) # 0
  PROVE  /\ PutCell(p, c) \in Pens /\ PutCell(p, c).x = p.x + HAdvance /\ PutCell(p, c).y = p.y
         /\ PutCell(p, c).lines = AddCell(p.lines, c) /\ PutCell(p, c).full = p.full
<1>1. HAdvance \in Nat /\ p.lines \in Lines /\ p.x \in Nat
  BY LayoutAssumption DEF Pens
<1>2. AddCell(p.lines, c) \in Lines
  BY <1>1, AddCellIs
<1>3. DOMAIN p.lines = 1 .. Len(p.lines)
  BY <1>1 DEF Lines
<1>4. PutCell(p, c).lines = AddCell(p.lines, c)
  <2>1. PutCell(p, c).lines = [p.lines EXCEPT ![Len(p.lines)] = Append(@, c)]
    BY DEF PutCell, Pens
  <2>2. p.lines \in [1 .. Len(p.lines) -> Seq(Cell)]
    BY <1>1, <1>3 DEF Lines
  <2>3. [p.lines EXCEPT ![Len(p.lines)] = Append(@, c)] = AddCell(p.lines, c)
    BY <2>2 DEF AddCell
  <2> QED BY <2>1, <2>3
<1>5. PutCell(p, c).x = p.x + HAdvance /\ PutCell(p, c).y = p.y /\ PutCell(p, c).full = p.full
  BY DEF PutCell, Pens
<1>6. PutCell(p, c).x \in Nat /\ PutCell(p, c).lines \in Lines
  BY <1>1, <1>2, <1>4, <1>5
<1>7. PutCell(p, c) \in Pens
  BY <1>6 DEF PutCell, Pens
<1> QED
  BY <1>4, <1>5, <1>7

\* A pen that finds no room stays where it is.
LEMMA FullIs ==
  ASSUME NEW p \in Pens
  PROVE  LET q == [p EXCEPT !.full = TRUE]
         IN  q \in Pens /\ q.full /\ q.lines = p.lines
BY DEF Pens

\* The pen at the start of the next line.
LEMMA DownKeeps ==
  ASSUME NEW t, NEW m, NEW d, IsDim(d), NEW first, NEW p, AtTheEnd(p), Drawn(t, m, d, first, p.lines),
         p.lines[Len(p.lines)] # <<>>, Ended(d, p.lines[Len(p.lines)])
  PROVE  /\ AtTheEnd(PenDown(p)) /\ PenDown(p).full = p.full
         /\ Drawn(t, m, d, first, PenDown(p).lines)
         /\ Len(PenDown(p).lines) = Len(p.lines) + 1 /\ PenDown(p).lines[Len(p.lines) + 1] = <<>>
         /\ HasCells(PenDown(p).lines) /\ LastOn(PenDown(p).lines) = Last(p.lines[Len(p.lines)])
<1> DEFINE q == PenDown(p)
           n == Len(p.lines)
<1>1. /\ p \in Pens /\ n \in Nat \ {0} /\ p.y = (n - 1) * VAdvance /\ n < Rows(d)
      /\ Rows(d) \in Nat /\ Cols(d) - 1 >= 0 /\ VAdvance \in Nat /\ HAdvance \in Nat
  <2>1. p \in Pens /\ p.lines \in Lines
    BY DEF AtTheEnd, Drawn
  <2>2. n \in Nat \ {0}
    BY <2>1 DEF Lines, AtTheEnd
  <2>3. Rows(d) \in Nat \ {0} /\ Cols(d) \in Nat \ {0}
    BY DimIs
  <2> QED BY <2>1, <2>2, <2>3, LayoutAssumption DEF AtTheEnd, Drawn
<1>2. /\ q \in Pens /\ q.x = 0 /\ q.y = p.y + VAdvance /\ q.lines = Append(p.lines, <<>>) /\ q.full = p.full
  BY <1>1, PenDownIs
<1> HIDE DEF q
<1>3. /\ Drawn(t, m, d, first, q.lines) /\ Len(q.lines) = n + 1 /\ q.lines[n + 1] = <<>>
      /\ HasCells(q.lines) /\ LastOn(q.lines) = Last(p.lines[n])
  <2>1. q.lines = Append(p.lines, <<>>)
    BY <1>2
  <2>2. Rows(d) \in Nat /\ Len(p.lines) < Rows(d) /\ Cols(d) - 1 >= 0
    BY <1>1
  <2>3. /\ Drawn(t, m, d, first, Append(p.lines, <<>>))
        /\ Len(Append(p.lines, <<>>)) = Len(p.lines) + 1
        /\ Append(p.lines, <<>>)[Len(p.lines) + 1] = <<>>
        /\ HasCells(Append(p.lines, <<>>))
        /\ LastOn(Append(p.lines, <<>>)) = Last(p.lines[Len(p.lines)])
    BY <2>2, LineAdded
  <2> QED BY <2>1, <2>3
<1>4. q.y = n * VAdvance /\ (n + 1) - 1 = n
  <2>1. (n - 1) \in Nat /\ (n - 1) + 1 = n
    BY <1>1
  <2>2. ((n - 1) + 1) * VAdvance = (n - 1) * VAdvance + VAdvance
    BY <1>1, <2>1, MulNext
  <2> QED BY <1>1, <1>2, <2>1, <2>2
<1>5. q.x = Len(q.lines[n + 1]) * HAdvance
  <2>1. Len(q.lines[n + 1]) = 0
    BY <1>3
  <2> QED BY <1>1, <1>2, <2>1
<1>6. AtTheEnd(q)
  <2>1. n + 1 # 0
    BY <1>1
  <2> QED BY <1>2, <1>3, <1>4, <1>5, <2>1 DEF AtTheEnd
<1> QED
  BY <1>2, <1>3, <1>6 DEF q

\* What Put does with a cell that fits at the pen.
PutHere(p, c, d) ==
  LET here == PutCell(p, c)
  IN  IF EndsLine(c) \/ here.x >= d.w THEN PenDown(here) ELSE here

\* A cell that fits is put.
LEMMA HereKeeps ==
  ASSUME NEW t, NEW m, NEW d, IsDim(d), NEW first, NEW p, PenInv(t, m, d, first, p),
         NEW c, GoodCell(t, m, c), IsNext(p.lines, first, c),
         Len(p.lines) < Rows(d), Fits(p, d)
  PROVE  /\ PenInv(t, m, d, first, PutHere(p, c, d))
         /\ HasCells(PutHere(p, c, d).lines) /\ LastOn(PutHere(p, c, d).lines) = c
<1> DEFINE q == PutCell(p, c)
           n == Len(p.lines)
           k == Len(p.lines[n])
<1>1. /\ p \in Pens /\ p.lines \in Lines /\ c \in Cell /\ n \in Nat \ {0} /\ k \in Nat
      /\ Rows(d) \in Nat /\ Cols(d) \in Nat /\ HAdvance \in Nat
      /\ p.x = k * HAdvance /\ p.y = (n - 1) * VAdvance
      /\ Drawn(t, m, d, first, p.lines) /\ ~p.full
      /\ p.lines[n] # <<>> => Last(p.lines[n]).ch # "newline"
  <2>1. p \in Pens /\ p.lines \in Lines /\ c \in Cell
    BY DEF PenInv, AtTheEnd, Drawn, GoodCell
  <2>2. n \in Nat \ {0} /\ p.lines[n] \in Seq(Cell)
    BY <2>1 DEF Lines, PenInv, AtTheEnd
  <2>3. Rows(d) \in Nat /\ Cols(d) \in Nat
    BY DimIs
  <2> QED BY <2>1, <2>2, <2>3, LayoutAssumption DEF PenInv, AtTheEnd
<1>2. k + 1 <= Cols(d) - 1
  BY <1>1, FitsIs
<1>3. Drawn(t, m, d, first, AddCell(p.lines, c))
  BY <1>1, <1>2, CellAdded
<1>4. /\ q \in Pens /\ q.x = p.x + HAdvance /\ q.y = p.y
      /\ q.lines = AddCell(p.lines, c) /\ q.full = p.full
  BY <1>1, PutCellIs
<1>5. /\ HasCells(q.lines) /\ LastOn(q.lines) = c /\ Len(q.lines) = n
      /\ q.lines[n] # <<>> /\ Last(q.lines[n]) = c /\ Len(q.lines[n]) = k + 1
  BY <1>1, <1>4, LastAdded
<1> HIDE DEF q, n, k
<1>6. q.x = (k + 1) * HAdvance
  BY <1>1, <1>4, MulNext
<1>7. AtTheEnd(q)
  BY <1>1, <1>4, <1>5, <1>6 DEF AtTheEnd
<1>8. q.x < d.w
  BY <1>4 DEF Fits
<1>9. d.w \in Nat /\ q.x \in Nat
  BY <1>4 DEF IsDim, Pens
<1>10. PutHere(p, c, d) = IF EndsLine(c) THEN PenDown(q) ELSE q
  BY <1>8, <1>9 DEF PutHere, q
<1>11. CASE EndsLine(c)
  <2>1. Ended(d, q.lines[n])
    BY <1>5, <1>11 DEF Ended, EndsLine
  <2>2. /\ AtTheEnd(PenDown(q)) /\ PenDown(q).full = q.full
        /\ Drawn(t, m, d, first, PenDown(q).lines)
        /\ Len(PenDown(q).lines) = n + 1 /\ PenDown(q).lines[n + 1] = <<>>
        /\ HasCells(PenDown(q).lines) /\ LastOn(PenDown(q).lines) = c
    <3>1. q.lines[Len(q.lines)] # <<>> /\ Ended(d, q.lines[Len(q.lines)])
      BY <1>5, <2>1
    <3>2. Drawn(t, m, d, first, q.lines)
      BY <1>3, <1>4
    <3> QED BY <1>5, <1>7, <3>1, <3>2, DownKeeps
  <2>3. PenDown(q).lines[Len(PenDown(q).lines)] = <<>> /\ ~PenDown(q).full
    BY <1>1, <1>4, <2>2
  <2>4. PenInv(t, m, d, first, PenDown(q))
    BY <2>2, <2>3 DEF PenInv
  <2> QED BY <1>10, <1>11, <2>2, <2>4
<1>12. CASE ~EndsLine(c)
  <2>1. c.ch # "newline"
    BY <1>12 DEF EndsLine
  <2> QED BY <1>1, <1>3, <1>4, <1>5, <1>7, <1>10, <1>12, <2>1 DEF PenInv
<1> QED
  BY <1>11, <1>12

\* What Put makes of a pen: either there is room for no more, or c is put.
PutOrFull(t, m, d, first, p, c, q) ==
  \/ q \in Pens /\ q.full /\ q.lines = p.lines /\ FullUp(d, p.lines)
  \/ PenInv(t, m, d, first, q) /\ HasCells(q.lines) /\ LastOn(q.lines) = c

\* A code point goes at the pen, at the start of the next line, or nowhere.
LEMMA PutKeeps ==
  ASSUME NEW t, NEW m, NEW d, IsDim(d), NEW first, NEW p, PenInv(t, m, d, first, p),
         NEW c, GoodCell(t, m, c), IsNext(p.lines, first, c)
  PROVE  PutOrFull(t, m, d, first, p, c, Put(p, c, d))
<1> DEFINE n == Len(p.lines)
           k == Len(p.lines[n])
           at == IF Fits(p, d) THEN p ELSE PenDown(p)
           full == [p EXCEPT !.full = TRUE]
<1>1. /\ p \in Pens /\ p.lines \in Lines /\ c \in Cell /\ n \in Nat \ {0} /\ k \in Nat
      /\ p.lines[n] = <<>> <=> k = 0
      /\ Rows(d) \in Nat \ {0} /\ Cols(d) \in Nat \ {0} /\ HAdvance \in Nat /\ VAdvance \in Nat
      /\ p.x = k * HAdvance /\ p.y = (n - 1) * VAdvance
      /\ Drawn(t, m, d, first, p.lines) /\ ~p.full
  <2>1. p \in Pens /\ p.lines \in Lines /\ c \in Cell
    BY DEF PenInv, AtTheEnd, Drawn, GoodCell
  <2>2. n \in Nat \ {0} /\ p.lines[n] \in Seq(Cell)
    BY <2>1 DEF Lines, PenInv, AtTheEnd
  <2>3. Rows(d) \in Nat \ {0} /\ Cols(d) \in Nat \ {0}
    BY DimIs
  <2>4. p.lines[n] = <<>> <=> k = 0
    BY <2>2, EmptyIs
  <2> QED BY <2>1, <2>2, <2>3, <2>4, LayoutAssumption DEF PenInv, AtTheEnd
<1>2. full \in Pens /\ full.full /\ full.lines = p.lines
  BY <1>1, FullIs
<1>3. Put(p, c, d) = IF AtBottom(p, d) \/ AtBottom(at, d) \/ ~Fits(at, d) THEN full ELSE PutHere(at, c, d)
  BY DEF Put, PutHere
<1> HIDE DEF full, at, n, k
<1>4. /\ AtBottom(p, d) <=> n >= Rows(d)
      /\ Fits(p, d) <=> k + 1 < Cols(d)
  <2>1. (n - 1) \in Nat /\ (n - 1) + 1 = n
    BY <1>1
  <2> QED BY <1>1, <2>1, BottomIs, FitsIs
<1>5. n \in 1 .. Rows(d) /\ k <= Cols(d) - 1 /\ (k # 0 => n < Rows(d))
  <2>1. n \in 1 .. Rows(d) /\ n \in 1 .. n
    BY <1>1 DEF Drawn, n
  <2>2. k <= Cols(d) - 1 /\ (p.lines[n] # <<>> => n < Rows(d))
    BY <1>1, <2>1 DEF Drawn, n, k
  <2> QED BY <1>1, <2>1, <2>2
<1>6. CASE AtBottom(p, d)
  <2>1. n = Rows(d) /\ k = 0
    BY <1>1, <1>4, <1>5, <1>6
  <2>2. FullUp(d, p.lines)
    BY <1>1, <2>1 DEF FullUp, n
  <2> QED BY <1>2, <1>3, <1>6, <2>2 DEF PutOrFull
<1>7. CASE ~AtBottom(p, d) /\ Fits(p, d)
  <2>1. at = p /\ n < Rows(d)
    BY <1>1, <1>4, <1>7 DEF at
  <2>2. Put(p, c, d) = PutHere(p, c, d)
    BY <1>3, <1>7, <2>1
  <2> QED BY <1>7, <2>1, <2>2, HereKeeps DEF PutOrFull, n
<1>8. CASE ~AtBottom(p, d) /\ ~Fits(p, d)
  <2>1. k = Cols(d) - 1 /\ n < Rows(d) /\ at = PenDown(p)
    BY <1>1, <1>4, <1>5, <1>8 DEF at
  <2>2. CASE k = 0
    <3>1. n = 1
      <4>1. n # 1 => p.lines[n - 1] # <<>> /\ Len(p.lines[n - 1]) <= Cols(d) - 1 /\ p.lines[n - 1] \in Seq(Cell)
        <5>1. n # 1 => n - 1 \in 1 .. n - 1 /\ n - 1 \in 1 .. n
          BY <1>1
        <5>2. \A l \in 1 .. n : p.lines[l] \in Seq(Cell) /\ Len(p.lines[l]) <= Cols(d) - 1
          BY <1>1 DEF Drawn, n, Lines
        <5>3. \A l \in 1 .. n - 1 : p.lines[l] # <<>>
          BY <1>1 DEF Drawn, n
        <5> QED BY <5>1, <5>2, <5>3
      <4>2. n # 1 => Len(p.lines[n - 1]) # 0 /\ Len(p.lines[n - 1]) \in Nat
        BY <4>1, EmptyIs
      <4>3. Cols(d) - 1 = 0
        BY <2>1, <2>2
      <4> QED BY <4>1, <4>2, <4>3
    <3>2. FullUp(d, p.lines)
      BY <1>1, <2>1, <2>2, <3>1 DEF FullUp, n
    <3>3. ~Fits(at, d)
      <4>1. at.x = 0 * HAdvance
        BY <1>1, <2>1, PenDownIs
      <4>2. Fits(at, d) <=> 0 + 1 < Cols(d)
        BY <4>1, FitsIs
      <4> QED BY <1>1, <2>1, <2>2, <4>2
    <3> QED BY <1>2, <1>3, <3>2, <3>3 DEF PutOrFull
  <2>3. CASE k # 0
    <3>1. p.lines[n] # <<>> /\ Ended(d, p.lines[n])
      BY <1>1, <2>1, <2>3 DEF Ended, k
    <3>2. /\ AtTheEnd(at) /\ at.full = p.full
          /\ Drawn(t, m, d, first, at.lines)
          /\ Len(at.lines) = n + 1 /\ at.lines[n + 1] = <<>>
          /\ HasCells(at.lines) /\ LastOn(at.lines) = Last(p.lines[n])
      <4>1. AtTheEnd(p)
        BY DEF PenInv
      <4> QED BY <1>1, <2>1, <3>1, <4>1, DownKeeps DEF n
    <3>3. PenInv(t, m, d, first, at)
      BY <1>1, <3>2 DEF PenInv
    <3>4. IsNext(at.lines, first, c)
      <4>1. HasCells(p.lines) /\ LastOn(p.lines) = Last(p.lines[n])
        BY <1>1, <3>1 DEF HasCells, LastOn, n
      <4> QED BY <3>2, <4>1 DEF IsNext
    <3>5. AtBottom(at, d) <=> n + 1 >= Rows(d)
      <4>1. at.y = n * VAdvance
        <5>1. at.y = ((n + 1) - 1) * VAdvance /\ (n + 1) - 1 = n
          BY <1>1, <3>2 DEF AtTheEnd
        <5> QED BY <5>1
      <4> QED BY <1>1, <4>1, BottomIs
    <3>6. CASE AtBottom(at, d)
      <4>1. n = Rows(d) - 1
        BY <1>1, <2>1, <3>5, <3>6
      <4>2. FullUp(d, p.lines)
        BY <3>1, <4>1 DEF FullUp, n
      <4> QED BY <1>2, <1>3, <3>6, <4>2 DEF PutOrFull
    <3>7. CASE ~AtBottom(at, d)
      <4>1. Len(at.lines) < Rows(d)
        BY <1>1, <3>2, <3>5, <3>7
      <4>2. Fits(at, d)
        <5>1. at.x = 0 * HAdvance
          BY <1>1, <2>1, PenDownIs
        <5>2. Fits(at, d) <=> 0 + 1 < Cols(d)
          BY <5>1, FitsIs
        <5> QED BY <1>1, <2>1, <2>3, <5>2
      <4>3. Put(p, c, d) = PutHere(at, c, d)
        BY <1>3, <1>8, <3>7, <4>2
      <4> QED BY <3>3, <3>4, <4>1, <4>2, <4>3, HereKeeps DEF PutOrFull
    <3> QED BY <3>6, <3>7
  <2> QED BY <2>2, <2>3
<1> QED
  BY <1>6, <1>7, <1>8

-----------------------------------------------------------------------------
(* Recursion: each function the model defines exists.                       *)

\* Induction over the members of a set.
LEMMA NatSetInduction ==
  ASSUME NEW S, 0 \in S, \A n \in Nat : n \in S => n + 1 \in S
  PROVE  Nat \subseteq S
<1> DEFINE R == OpToRel(<, Nat)
           T == Nat \ S
<1>1. IsWellFoundedOn(R, Nat)
  BY NatLessThanWellFounded
<1>2. SUFFICES ASSUME T # {} PROVE FALSE
  OBVIOUS
<1>3. PICK x \in T : \A y \in T : <<y, x>> \notin R
  <2>1. T \subseteq Nat
    OBVIOUS
  <2> HIDE DEF R, T
  <2> QED
    BY <1>1, <1>2, <2>1, WFMin
<1>4. x # 0 /\ x - 1 \in Nat
  OBVIOUS
<1>5. x - 1 \in T
  BY <1>4
<1>6. <<x - 1, x>> \in R
  BY <1>4 DEF OpToRel
<1> QED
  BY <1>3, <1>5, <1>6

LEMMA UpToInduction ==
  ASSUME NEW n \in Nat, NEW S, 0 \in S, \A k \in 0 .. n - 1 : k \in S => k + 1 \in S
  PROVE  \A k \in 0 .. n : k \in S
<1> DEFINE T == {k \in Nat : k <= n => k \in S}
<1>1. 0 \in T
  OBVIOUS
<1>2. \A k \in Nat : k \in T => k + 1 \in T
  OBVIOUS
<1>3. Nat \subseteq T
  <2> HIDE DEF T
  <2> QED BY <1>1, <1>2, NatSetInduction
<1> QED
  BY <1>3

\* f is the pen after each of the first n cells.
PutsUpTo(pen, cells, d, n, f) ==
  f = [k \in 0 .. n |-> IF k = 0 THEN pen ELSE PutUnlessFull(f[k - 1], cells[k], d)]

\* The pens of the cells of a chunk, as a function.
LEMMA OnePutMore ==
  ASSUME NEW pen, NEW cells, NEW d, NEW n \in Nat, NEW f, PutsUpTo(pen, cells, d, n, f), NEW g,
         g = [k \in 0 .. n + 1 |-> IF k <= n THEN f[k] ELSE PutUnlessFull(f[n], cells[n + 1], d)]
  PROVE  PutsUpTo(pen, cells, d, n + 1, g)
<1> DEFINE R(k) == IF k = 0 THEN pen ELSE PutUnlessFull(g[k - 1], cells[k], d)
<1>0. \A k \in 0 .. n : f[k] = IF k = 0 THEN pen ELSE PutUnlessFull(f[k - 1], cells[k], d)
  BY DEF PutsUpTo
<1>1. \A k \in 0 .. n + 1 : g[k] = R(k)
  <2> TAKE k \in 0 .. n + 1
  <2>1. CASE k = 0
    BY <2>1, <1>0
  <2>2. CASE k \in 1 .. n
    <3>1. g[k] = f[k] /\ g[k - 1] = f[k - 1]
      BY <2>2
    <3> QED BY <2>2, <3>1, <1>0
  <2>3. CASE k = n + 1
    <3>1. g[k] = PutUnlessFull(f[n], cells[n + 1], d) /\ g[k - 1] = f[n]
      BY <2>3
    <3> QED BY <2>3, <3>1
  <2> QED BY <2>1, <2>2, <2>3
<1>2. g = [k \in 0 .. n + 1 |-> g[k]]
  OBVIOUS
<1>3. g = [k \in 0 .. n + 1 |-> R(k)]
  <2> HIDE DEF R
  <2> QED BY <1>1, <1>2
<1> QED
  BY <1>3, Zenon DEF PutsUpTo

LEMMA PutsExist ==
  ASSUME NEW pen, NEW cells, NEW d, NEW top \in Nat
  PROVE  \E f : PutsUpTo(pen, cells, d, top, f)
<1> DEFINE S == {n \in Nat : \E f : PutsUpTo(pen, cells, d, n, f)}
<1>1. 0 \in S
  <2> DEFINE f == [k \in 0 .. 0 |-> pen]
  <2>1. PutsUpTo(pen, cells, d, 0, f)
    BY DEF PutsUpTo
  <2> QED
    BY <2>1
<1>2. ASSUME NEW n \in Nat, n \in S PROVE n + 1 \in S
  <2>1. PICK f : PutsUpTo(pen, cells, d, n, f)
    BY <1>2
  <2>2. PutsUpTo(pen, cells, d, n + 1,
                   [k \in 0 .. n + 1 |-> IF k <= n THEN f[k] ELSE PutUnlessFull(f[n], cells[n + 1], d)])
    BY <2>1, OnePutMore
  <2> QED
    BY <2>2
<1>3. Nat \subseteq S
  <2> HIDE DEF S
  <2> QED BY <1>1, <1>2, NatSetInduction
<1> QED
  BY <1>3

\* The pens of a chunk exist, and PutAll is the last of them.
LEMMA PutsAre ==
  ASSUME NEW pen, NEW cells, NEW d, Len(cells) \in Nat
  PROVE  \E f : /\ PutAll(pen, cells, d) = f[Len(cells)]
                /\ f[0] = pen
                /\ \A k \in 0 .. Len(cells) - 1 : f[k + 1] = PutUnlessFull(f[k], cells[k + 1], d)
<1> DEFINE n == Len(cells)
           f == CHOOSE f : PutsUpTo(pen, cells, d, n, f)
<1>1. PutsUpTo(pen, cells, d, n, f)
  BY PutsExist
<1>2. PutAll(pen, cells, d) = f[n]
  BY DEF PutAll, PutsUpTo
<1> HIDE DEF f, n
<1>3. n \in Nat /\ f = [k \in 0 .. n |-> IF k = 0 THEN pen ELSE PutUnlessFull(f[k - 1], cells[k], d)]
  BY <1>1 DEF PutsUpTo, n
<1>4. f[0] = pen
  <2>1. 0 \in 0 .. n
    BY <1>3
  <2> QED BY <1>3, <2>1
<1>5. ASSUME NEW k \in 0 .. n - 1 PROVE f[k + 1] = PutUnlessFull(f[k], cells[k + 1], d)
  <2>1. k + 1 \in 0 .. n /\ k + 1 # 0 /\ (k + 1) - 1 = k
    BY <1>3
  <2> QED BY <1>3, <2>1
<1>6. Len(cells) = n
  BY DEF n
<1> QED
  BY <1>2, <1>4, <1>5, <1>6

\* f is the pipeline after each of its first n turns.
TurnsUpTo(t, at, m, d, n, f) ==
  f = [k \in 0 .. n |-> IF k = 0 THEN NewRun(at) ELSE Turn(f[k - 1], t, m, d)]

\* The turns of the pipeline, as a function.
LEMMA OneTurnMore ==
  ASSUME NEW t, NEW at, NEW m, NEW d, NEW n \in Nat, NEW f, TurnsUpTo(t, at, m, d, n, f), NEW g,
         g = [k \in 0 .. n + 1 |-> IF k <= n THEN f[k] ELSE Turn(f[n], t, m, d)]
  PROVE  TurnsUpTo(t, at, m, d, n + 1, g)
<1> DEFINE R(k) == IF k = 0 THEN NewRun(at) ELSE Turn(g[k - 1], t, m, d)
<1>0. \A k \in 0 .. n : f[k] = IF k = 0 THEN NewRun(at) ELSE Turn(f[k - 1], t, m, d)
  BY DEF TurnsUpTo
<1>1. \A k \in 0 .. n + 1 : g[k] = R(k)
  <2> TAKE k \in 0 .. n + 1
  <2>1. CASE k = 0
    BY <2>1, <1>0
  <2>2. CASE k \in 1 .. n
    <3>1. g[k] = f[k] /\ g[k - 1] = f[k - 1]
      BY <2>2
    <3> QED BY <2>2, <3>1, <1>0
  <2>3. CASE k = n + 1
    <3>1. g[k] = Turn(f[n], t, m, d) /\ g[k - 1] = f[n]
      BY <2>3
    <3> QED BY <2>3, <3>1
  <2> QED BY <2>1, <2>2, <2>3
<1>2. g = [k \in 0 .. n + 1 |-> g[k]]
  OBVIOUS
<1>3. g = [k \in 0 .. n + 1 |-> R(k)]
  <2> HIDE DEF R
  <2> QED BY <1>1, <1>2
<1> QED
  BY <1>3, Zenon DEF TurnsUpTo

LEMMA TurnsExist ==
  ASSUME NEW t, NEW at, NEW m, NEW d, NEW top \in Nat
  PROVE  \E f : TurnsUpTo(t, at, m, d, top, f)
<1> DEFINE S == {n \in Nat : \E f : TurnsUpTo(t, at, m, d, n, f)}
<1>1. 0 \in S
  <2> DEFINE f == [k \in 0 .. 0 |-> NewRun(at)]
  <2>1. TurnsUpTo(t, at, m, d, 0, f)
    BY DEF TurnsUpTo
  <2> QED
    BY <2>1
<1>2. ASSUME NEW n \in Nat, n \in S PROVE n + 1 \in S
  <2>1. PICK f : TurnsUpTo(t, at, m, d, n, f)
    BY <1>2
  <2>2. TurnsUpTo(t, at, m, d, n + 1,
                   [k \in 0 .. n + 1 |-> IF k <= n THEN f[k] ELSE Turn(f[n], t, m, d)])
    BY <2>1, OneTurnMore
  <2> QED
    BY <2>2
<1>3. Nat \subseteq S
  <2> HIDE DEF S
  <2> QED BY <1>1, <1>2, NatSetInduction
<1> QED
  BY <1>3

\* The turns of the pipeline exist.
LEMMA TurnsAre ==
  ASSUME NEW t, NEW at, NEW m, NEW d, Len(t) \in Nat
  PROVE  \E f : /\ RunPipeline(t, at, m, d) = f[Len(t) + 1].pen
                /\ f[0] = NewRun(at)
                /\ \A k \in 0 .. Len(t) : f[k + 1] = Turn(f[k], t, m, d)
<1> DEFINE n == Len(t) + 1
           f == CHOOSE f : TurnsUpTo(t, at, m, d, n, f)
<1>1. TurnsUpTo(t, at, m, d, n, f)
  BY TurnsExist
<1>2. RunPipeline(t, at, m, d) = f[n].pen
  BY Zenon DEF RunPipeline, TurnsUpTo
<1>6. n = Len(t) + 1 /\ Len(t) \in Nat
  BY DEF n
<1> HIDE DEF f, n
<1>3. n \in Nat /\ f = [k \in 0 .. n |-> IF k = 0 THEN NewRun(at) ELSE Turn(f[k - 1], t, m, d)]
  BY <1>1 DEF TurnsUpTo, n
<1>4. f[0] = NewRun(at)
  <2>1. 0 \in 0 .. n
    BY <1>3
  <2> QED BY <1>3, <2>1
<1>5. ASSUME NEW k \in 0 .. Len(t) PROVE f[k + 1] = Turn(f[k], t, m, d)
  <2>1. k + 1 \in 0 .. n /\ k + 1 # 0 /\ (k + 1) - 1 = k
    BY <1>3, <1>6
  <2> QED BY <1>3, <2>1
<1> QED
  BY <1>2, <1>4, <1>5, <1>6

\* f is the list after each of the first n screens.
ScreensUpTo(start, until, n, f) ==
  f = [k \in 0 .. n |-> IF k = 0 THEN NewList(start) ELSE NextScreen(f[k - 1], until)]

\* The lists of lines of a page up, as a function.
LEMMA OneScreenMore ==
  ASSUME NEW start, NEW until, NEW n \in Nat, NEW f, ScreensUpTo(start, until, n, f), NEW g,
         g = [k \in 0 .. n + 1 |-> IF k <= n THEN f[k] ELSE NextScreen(f[n], until)]
  PROVE  ScreensUpTo(start, until, n + 1, g)
<1> DEFINE R(k) == IF k = 0 THEN NewList(start) ELSE NextScreen(g[k - 1], until)
<1>0. \A k \in 0 .. n : f[k] = IF k = 0 THEN NewList(start) ELSE NextScreen(f[k - 1], until)
  BY DEF ScreensUpTo
<1>1. \A k \in 0 .. n + 1 : g[k] = R(k)
  <2> TAKE k \in 0 .. n + 1
  <2>1. CASE k = 0
    BY <2>1, <1>0
  <2>2. CASE k \in 1 .. n
    <3>1. g[k] = f[k] /\ g[k - 1] = f[k - 1]
      BY <2>2
    <3> QED BY <2>2, <3>1, <1>0
  <2>3. CASE k = n + 1
    <3>1. g[k] = NextScreen(f[n], until) /\ g[k - 1] = f[n]
      BY <2>3
    <3> QED BY <2>3, <3>1
  <2> QED BY <2>1, <2>2, <2>3
<1>2. g = [k \in 0 .. n + 1 |-> g[k]]
  OBVIOUS
<1>3. g = [k \in 0 .. n + 1 |-> R(k)]
  <2> HIDE DEF R
  <2> QED BY <1>1, <1>2
<1> QED
  BY <1>3, Zenon DEF ScreensUpTo

LEMMA ScreensExist ==
  ASSUME NEW start, NEW until, NEW top \in Nat
  PROVE  \E f : ScreensUpTo(start, until, top, f)
<1> DEFINE S == {n \in Nat : \E f : ScreensUpTo(start, until, n, f)}
<1>1. 0 \in S
  <2> DEFINE f == [k \in 0 .. 0 |-> NewList(start)]
  <2>1. ScreensUpTo(start, until, 0, f)
    BY DEF ScreensUpTo
  <2> QED
    BY <2>1
<1>2. ASSUME NEW n \in Nat, n \in S PROVE n + 1 \in S
  <2>1. PICK f : ScreensUpTo(start, until, n, f)
    BY <1>2
  <2>2. ScreensUpTo(start, until, n + 1,
                   [k \in 0 .. n + 1 |-> IF k <= n THEN f[k] ELSE NextScreen(f[n], until)])
    BY <2>1, OneScreenMore
  <2> QED
    BY <2>2
<1>3. Nat \subseteq S
  <2> HIDE DEF S
  <2> QED BY <1>1, <1>2, NatSetInduction
<1> QED
  BY <1>3

\* The lists of a page up exist.
LEMMA ScreensAre ==
  ASSUME NEW start, NEW until, MaxScreens \in Nat
  PROVE  \E f : /\ LineList(start, until) = f[MaxScreens]
                /\ f[0] = NewList(start)
                /\ \A k \in 0 .. MaxScreens - 1 : f[k + 1] = NextScreen(f[k], until)
<1> DEFINE n == MaxScreens
           f == CHOOSE f : ScreensUpTo(start, until, n, f)
<1>1. ScreensUpTo(start, until, n, f)
  BY ScreensExist
<1>2. LineList(start, until) = f[n]
  BY DEF LineList, ScreensUpTo
<1> HIDE DEF f, n
<1>3. n \in Nat /\ f = [k \in 0 .. n |-> IF k = 0 THEN NewList(start) ELSE NextScreen(f[k - 1], until)]
  BY <1>1 DEF ScreensUpTo, n
<1>4. f[0] = NewList(start)
  <2>1. 0 \in 0 .. n
    BY <1>3
  <2> QED BY <1>3, <2>1
<1>5. ASSUME NEW k \in 0 .. n - 1 PROVE f[k + 1] = NextScreen(f[k], until)
  <2>1. k + 1 \in 0 .. n /\ k + 1 # 0 /\ (k + 1) - 1 = k
    BY <1>3
  <2> QED BY <1>3, <2>1
<1>6. MaxScreens = n
  BY DEF n
<1> QED
  BY <1>2, <1>4, <1>5, <1>6

-----------------------------------------------------------------------------
(* From a code point to its cells.                                          *)

\* Where a code point is: its offset, the cells of it above the screen, its index.
Positions == [off : Nat, split : Nat, index : Nat]

\* A place from which a layout can start.
GoodStart(t, at) == at \in Positions /\ at.index < Expansion /\ ~Overflows(t, at)

\* The code point at a place.
LEMMA DecodeIs ==
  ASSUME NEW t \in Seq(Char), NEW at \in Positions
  PROVE  LET c == Decode(t, at)
         IN  /\ c \in Cell /\ c.off <= Len(t)
             /\ c.ch = (IF c.off < Len(t) THEN t[c.off + 1] ELSE "end")
             /\ c.off < Len(t) => c.ch \in Char
             /\ at.off < Len(t) => c.off = at.off /\ c.split = at.split /\ c.index = at.index
             /\ at.off >= Len(t) => c.off = Len(t) /\ c.split = 0 /\ c.index = 0 /\ c.sel
<1> DEFINE c == Decode(t, at)
<1>1. at.off \in Nat /\ at.split \in Nat /\ at.index \in Nat /\ Len(t) \in Nat
  BY DEF Positions
<1>2. CASE at.off >= Len(t)
  <2>1. c = EndOfBuffer(t)
    BY <1>2 DEF Decode, ReadForward
  <2> QED BY <1>1, <1>2, <2>1 DEF EndOfBuffer, Cell
<1>3. CASE at.off < Len(t)
  <2>1. at.off + 1 \in 1 .. Len(t)
    BY <1>1, <1>3
  <2>2. t[at.off + 1] \in Char
    BY <2>1
  <2>3. ReadForward(t, at.off) = <<t[at.off + 1]>>
    BY <1>1, <1>3 DEF ReadForward
  <2>4. ReadForward(t, at.off) # <<>> /\ Head(ReadForward(t, at.off)) = t[at.off + 1]
    BY <2>3
  <2>5. c = [ch |-> t[at.off + 1], off |-> at.off, split |-> at.split, index |-> at.index, sel |-> FALSE]
    BY <2>4 DEF Decode
  <2>6. c \in Cell
    BY <1>1, <2>2, <2>5 DEF Cell
  <2> QED BY <1>1, <1>3, <2>2, <2>5, <2>6
<1> QED
  BY <1>1, <1>2, <1>3

\* The cells of the code point at a place.
Chunk(t, m, at) == MarkFirst(ExpandTab(Decode(t, at)), m)

\* The cells of a code point.
CellsOf(t, m, c, s) ==
  /\ s \in Seq(Cell) /\ Chained(t, m, s)
  /\ s = <<>> => c.ch = "tab" /\ c.split = Expansion
  /\ s # <<>> =>
       /\ s[1].off = c.off /\ s[1].index = c.index /\ s[1].ch = c.ch
       /\ s[1].split = IF c.ch = "tab" THEN Filled(c) ELSE 0
       /\ Last(s).off = c.off /\ Last(s).ch = c.ch
       /\ c.ch = "tab" => Last(s).split = Expansion - 1

\* A code point that is no tab has one cell.
LEMMA OneCell ==
  ASSUME NEW t, NEW m, NEW e \in Cell, GoodCell(t, m, e), NEW s, s = <<e>>
  PROVE  s \in Seq(Cell) /\ Chained(t, m, s) /\ s # <<>> /\ s[1] = e /\ Last(s) = e
<1>1. s \in Seq(Cell) /\ Len(s) = 1 /\ s[1] = e
  OBVIOUS
<1>2. s # <<>> /\ Last(s) = e
  BY <1>1 DEF Last
<1>3. 1 .. Len(s) = {1} /\ 1 .. Len(s) - 1 = {}
  BY <1>1
<1> QED
  BY <1>1, <1>2, <1>3 DEF Chained

LEMMA OnlyCell ==
  ASSUME NEW b, NEW e
  PROVE  [<<b>> EXCEPT ![1] = e] = <<e>>
OBVIOUS

LEMMA SingleIs ==
  ASSUME NEW t, NEW m, NEW c \in Cell, c.off <= Len(t), c.index < Expansion,
         c.ch = (IF c.off < Len(t) THEN t[c.off + 1] ELSE "end"), c.ch # "tab"
  PROVE  CellsOf(t, m, c, MarkFirst(ExpandTab(c), m))
<1> DEFINE b == [c EXCEPT !.split = 0]
           e == [b EXCEPT !.sel = TRUE]
           s == MarkFirst(ExpandTab(c), m)
<1>0. Expansion \in Nat \ {0}
  BY LayoutAssumption
<1>1. /\ b \in Cell /\ b.off = c.off /\ b.ch = c.ch /\ b.index = c.index /\ b.split = 0
      /\ e \in Cell /\ e.off = c.off /\ e.ch = c.ch /\ e.index = c.index /\ e.split = 0 /\ e.sel
  BY DEF Cell
<1>2. ExpandTab(c) = <<b>>
  BY DEF ExpandTab
<1> HIDE DEF b, e
<1>3. s = <<IF b.off = m THEN e ELSE b>>
  <2>1. <<b>> # <<>> /\ <<b>>[1] = b
    OBVIOUS
  <2>2. [<<b>> EXCEPT ![1].sel = TRUE] = <<e>>
    <3>1. [<<b>>[1] EXCEPT !.sel = TRUE] = e
      BY <2>1, Zenon DEF e
    <3>2. [<<b>> EXCEPT ![1].sel = TRUE] = [<<b>> EXCEPT ![1] = e]
      BY <3>1
    <3> QED BY <3>2, OnlyCell
  <2>3. s = IF b.off = m THEN [<<b>> EXCEPT ![1].sel = TRUE] ELSE <<b>>
    BY <1>2, <2>1, Zenon DEF MarkFirst
  <2> QED BY <2>2, <2>3
<1> DEFINE f == IF b.off = m THEN e ELSE b
<1>4. f \in Cell /\ f.off = c.off /\ f.ch = c.ch /\ f.index = c.index /\ f.split = 0 /\ (f.off = m => f.sel)
  BY <1>1
<1> HIDE DEF f
<1>5. GoodCell(t, m, f)
  BY <1>0, <1>4 DEF GoodCell
<1>6. s \in Seq(Cell) /\ Chained(t, m, s) /\ s # <<>> /\ s[1] = f /\ Last(s) = f
  BY <1>3, <1>4, <1>5, OneCell DEF f
<1> QED
  BY <1>4, <1>6 DEF CellsOf

\* A tab has the cells up to the next stop, or what its split leaves of them.
LEMMA TabIs ==
  ASSUME NEW t, NEW m, NEW c \in Cell, c.off < Len(t), Len(t) \in Nat, c.index < Expansion,
         c.ch = t[c.off + 1], c.ch = "tab", c.split <= Expansion
  PROVE  CellsOf(t, m, c, MarkFirst(ExpandTab(c), m))
<1> DEFINE F == Filled(c)
           N == Expansion - F
           e(n) == [c EXCEPT !.split = F + n - 1, !.sel = TRUE]
           x == ExpandTab(c)
           s == MarkFirst(x, m)
<1>0. Expansion \in Nat \ {0} /\ c.off \in Nat /\ c.split \in Nat /\ c.index \in Nat
  BY LayoutAssumption DEF Cell
<1>1. c.index % Expansion = c.index
  BY <1>0
<1>2. /\ F \in Nat /\ F <= Expansion /\ N \in Nat
      /\ F = 0 => c.index = 0
      /\ N = 0 => c.split = Expansion
  <2>1. F = IF c.split # 0 THEN c.split ELSE c.index
    BY <1>1 DEF Filled
  <2> HIDE DEF F
  <2> QED BY <1>0, <2>1
<1>3. x = [n \in 1 .. N |-> e(n)]
  BY DEF ExpandTab
<1> HIDE DEF F, N
<1>4. ASSUME NEW n \in 1 .. N
      PROVE  /\ e(n) \in Cell /\ e(n).off = c.off /\ e(n).ch = "tab" /\ e(n).index = c.index
             /\ e(n).split = F + n - 1 /\ e(n).sel
  <2>1. F + n - 1 \in Nat
    BY <1>2
  <2> QED BY <2>1 DEF Cell
<1> HIDE DEF e, x
<1>5. x \in Seq(Cell) /\ Len(x) = N /\ \A n \in 1 .. N : x[n] = e(n)
  <2>1. x \in [1 .. N -> Cell]
    BY <1>3, <1>4
  <2> QED BY <1>2, <1>3, <2>1
<1>6. s = x
  <2>1. CASE x # <<>> /\ x[1].off = m
    <3>1. 1 \in 1 .. N
      BY <1>2, <1>5, <2>1
    <3>2. x[1] \in Cell /\ x[1].sel
      BY <1>4, <1>5, <3>1
    <3>3. [x[1] EXCEPT !.sel = TRUE] = x[1]
      BY <3>2 DEF Cell
    <3>4. [x EXCEPT ![1] = [x[1] EXCEPT !.sel = TRUE]] = x
      BY <3>3, <1>3
    <3>5. [x EXCEPT ![1].sel = TRUE] = x
      BY <3>4
    <3> QED BY <2>1, <3>5 DEF MarkFirst
  <2>2. CASE ~(x # <<>> /\ x[1].off = m)
    BY <2>2 DEF MarkFirst
  <2> QED BY <2>1, <2>2
<1>7. ASSUME NEW n \in 1 .. N PROVE GoodCell(t, m, x[n])
  <2>1. F + n - 1 < Expansion
    BY <1>0, <1>2 DEF N
  <2>2. e(n).ch = "tab" /\ e(n).split = 0 => e(n).index = 0
    <3>1. F + n - 1 = 0 => F = 0
      BY <1>2
    <3> QED BY <1>2, <1>4, <3>1
  <2> DEFINE y == x[n]
  <2>3. /\ y \in Cell /\ y.off = c.off /\ y.ch = "tab" /\ y.index = c.index
        /\ y.split < Expansion /\ y.sel /\ (y.split = 0 => y.index = 0)
    BY <1>4, <1>5, <2>1, <2>2
  <2> HIDE DEF y
  <2>4. GoodCell(t, m, y)
    <3>1. c.off < Len(t) /\ c.ch = t[c.off + 1] /\ c.ch = "tab"
      OBVIOUS
    <3>2. y.off <= Len(t) /\ y.index < Expansion
      BY <1>0, <2>3, <3>1
    <3>3. y.ch = IF y.off < Len(t) THEN t[y.off + 1] ELSE "end"
      BY <2>3, <3>1
    <3> QED BY <2>3, <3>2, <3>3 DEF GoodCell
  <2> QED BY <2>4 DEF y
<1>8. ASSUME NEW n \in 1 .. N - 1 PROVE Follows(x[n], x[n + 1]) /\ x[n].ch # "newline"
  <2>1. n \in 1 .. N /\ n + 1 \in 1 .. N /\ F + n - 1 < Expansion - 1 /\ F + (n + 1) - 1 = (F + n - 1) + 1
    BY <1>0, <1>2 DEF N
  <2> QED BY <1>4, <1>5, <2>1 DEF Follows
<1>9. Chained(t, m, x)
  BY <1>5, <1>7, <1>8 DEF Chained
<1>10. x = <<>> <=> N = 0
  BY <1>5, EmptyIs
<1>11. ASSUME x # <<>>
       PROVE  /\ x[1].off = c.off /\ x[1].index = c.index /\ x[1].ch = c.ch /\ x[1].split = F
              /\ Last(x).off = c.off /\ Last(x).ch = c.ch /\ Last(x).split = Expansion - 1
  <2>1. 1 \in 1 .. N /\ N \in 1 .. N /\ F + 1 - 1 = F /\ F + N - 1 = Expansion - 1
    BY <1>0, <1>2, <1>10, <1>11 DEF N
  <2>2. Last(x) = x[N]
    BY <1>5 DEF Last
  <2>3. x[1] = e(1) /\ Last(x) = e(N)
    BY <1>5, <2>1, <2>2
  <2>4. e(1).off = c.off /\ e(1).index = c.index /\ e(1).ch = "tab" /\ e(1).split = F + 1 - 1
    BY <1>4, <2>1
  <2>5. e(N).off = c.off /\ e(N).ch = "tab" /\ e(N).split = F + N - 1
    BY <1>4, <2>1
  <2> QED BY <2>1, <2>3, <2>4, <2>5
<1> QED
  BY <1>2, <1>5, <1>6, <1>9, <1>10, <1>11 DEF CellsOf, F, x

\* What the pipeline makes of the code point at a place.
LEMMA ChunkIs ==
  ASSUME NEW t \in Seq(Char), NEW m, NEW at, GoodStart(t, at)
  PROVE  CellsOf(t, m, Decode(t, at), Chunk(t, m, at))
<1> DEFINE c == Decode(t, at)
<1>1. /\ at \in Positions /\ at.off \in Nat /\ at.index < Expansion /\ Len(t) \in Nat
      /\ Expansion \in Nat \ {0}
  BY LayoutAssumption DEF GoodStart, Positions
<1>2. /\ c \in Cell /\ c.off <= Len(t)
      /\ c.ch = (IF c.off < Len(t) THEN t[c.off + 1] ELSE "end")
      /\ at.off < Len(t) => c.off = at.off /\ c.split = at.split /\ c.index = at.index
      /\ at.off >= Len(t) => c.off = Len(t) /\ c.split = 0 /\ c.index = 0
  BY <1>1, DecodeIs
<1> HIDE DEF c
<1>3. c.off \in Nat /\ c.index < Expansion
  BY <1>1, <1>2 DEF Cell
<1>4. CASE c.ch = "tab"
  <2>1. c.off < Len(t) /\ at.off < Len(t)
    BY <1>1, <1>2, <1>3, <1>4
  <2>2. c.split <= Expansion /\ c.ch = t[c.off + 1]
    <3>1. at.split \in Nat
      BY <1>1 DEF Positions
    <3> QED BY <1>1, <1>2, <1>4, <2>1, <3>1 DEF GoodStart, Overflows
  <2> QED BY <1>1, <1>2, <1>3, <1>4, <2>1, <2>2, TabIs DEF Chunk, c
<1>5. CASE c.ch # "tab"
  BY <1>2, <1>3, <1>5, SingleIs DEF Chunk, c
<1> QED
  BY <1>4, <1>5

-----------------------------------------------------------------------------
(* The pipeline.                                                            *)

\* The pen when the screen is full.
Finished(t, m, d, first, q) ==
  q \in Pens /\ q.full /\ Drawn(t, m, d, first, q.lines) /\ FullUp(d, q.lines)

\* The pen behind the cell c, or no room for more.
PutSo(t, m, d, first, c, q) ==
  \/ Finished(t, m, d, first, q)
  \/ PenInv(t, m, d, first, q) /\ HasCells(q.lines) /\ LastOn(q.lines) = c

\* One cell.
LEMMA PutOnce ==
  ASSUME NEW t, NEW m, NEW d, IsDim(d), NEW first, NEW p, PenInv(t, m, d, first, p),
         NEW c, GoodCell(t, m, c), IsNext(p.lines, first, c)
  PROVE  PutSo(t, m, d, first, c, PutUnlessFull(p, c, d))
<1>1. PutUnlessFull(p, c, d) = Put(p, c, d)
  BY DEF PutUnlessFull, PenInv
<1>2. PutOrFull(t, m, d, first, p, c, Put(p, c, d))
  BY PutKeeps
<1>3. Drawn(t, m, d, first, p.lines)
  BY DEF PenInv
<1> QED
  BY <1>1, <1>2, <1>3 DEF PutOrFull, PutSo, Finished

\* A chunk leaves the pen behind its last cell, or the screen full.
LEMMA PutAllKeeps ==
  ASSUME NEW t, NEW m, NEW d, IsDim(d), NEW first, NEW p, PenInv(t, m, d, first, p),
         NEW s \in Seq(Cell), Chained(t, m, s), s # <<>>, IsNext(p.lines, first, s[1])
  PROVE  PutSo(t, m, d, first, Last(s), PutAll(p, s, d))
<1> DEFINE n == Len(s)
<1>1. n \in Nat \ {0} /\ Last(s) = s[n] /\ \A k \in 1 .. n : GoodCell(t, m, s[k])
  BY EmptyIs DEF Last, Chained
<1>2. \A k \in 1 .. n - 1 : Follows(s[k], s[k + 1])
  BY DEF Chained
<1>3. PICK f : /\ PutAll(p, s, d) = f[n] /\ f[0] = p
               /\ \A k \in 0 .. n - 1 : f[k + 1] = PutUnlessFull(f[k], s[k + 1], d)
  BY <1>1, PutsAre
<1> HIDE DEF n
<1> DEFINE S == {k \in 1 .. n : PutSo(t, m, d, first, s[k], f[k])}
           T == {0} \cup S
<1>4. f[1] = PutUnlessFull(p, s[1], d)
  <2>1. 0 \in 0 .. n - 1 /\ 0 + 1 = 1
    BY <1>1
  <2> QED BY <1>3, <2>1
<1>5. 1 \in S
  <2>1. 1 \in 1 .. n
    BY <1>1
  <2> QED BY <1>1, <1>4, <2>1, PutOnce
<1>6. ASSUME NEW k \in 1 .. n - 1, k \in S PROVE k + 1 \in S
  <2>1. k \in 0 .. n - 1 /\ k + 1 \in 1 .. n /\ k \in 1 .. n
    BY <1>1
  <2>2. f[k + 1] = PutUnlessFull(f[k], s[k + 1], d) /\ GoodCell(t, m, s[k + 1]) /\ Follows(s[k], s[k + 1])
    BY <1>1, <1>2, <1>3, <2>1
  <2>3. PutSo(t, m, d, first, s[k], f[k])
    BY <1>6
  <2>4. CASE Finished(t, m, d, first, f[k])
    <3>1. f[k + 1] = f[k]
      BY <2>2, <2>4 DEF PutUnlessFull, Finished
    <3>2. PutSo(t, m, d, first, s[k + 1], f[k + 1])
      BY <2>4, <3>1 DEF PutSo
    <3> QED BY <2>1, <3>2
  <2>5. CASE PenInv(t, m, d, first, f[k]) /\ HasCells(f[k].lines) /\ LastOn(f[k].lines) = s[k]
    <3>1. IsNext(f[k].lines, first, s[k + 1])
      BY <2>2, <2>5 DEF IsNext
    <3>2. PutSo(t, m, d, first, s[k + 1], f[k + 1])
      BY <2>2, <2>5, <3>1, PutOnce
    <3> QED BY <2>1, <3>2
  <2> QED BY <2>3, <2>4, <2>5 DEF PutSo
<1> HIDE DEF S
<1>7. n \in T
  <2>1. ASSUME NEW k \in 0 .. n - 1, k \in T PROVE k + 1 \in T
    <3>1. CASE k = 0
      BY <1>5, <3>1
    <3>2. CASE k # 0
      <4>1. k \in S /\ k \in 1 .. n - 1
        BY <1>1, <2>1, <3>2
      <4> QED BY <1>6, <4>1
    <3> QED BY <3>1, <3>2
  <2>2. 0 \in T /\ n \in 0 .. n /\ n \in Nat
    BY <1>1
  <2> HIDE DEF T
  <2> QED BY <2>1, <2>2, UpToInduction
<1>8. n \in S
  BY <1>1, <1>7
<1> QED
  BY <1>1, <1>3, <1>8 DEF S

\* The first cell of a layout: a tab may have no cell, the code point behind it
\* has one.
FirstOf(t, m, at) ==
  IF Chunk(t, m, at) # <<>> THEN Chunk(t, m, at)[1]
  ELSE Chunk(t, m, After(Decode(t, at)))[1]

\* The pipeline before a turn, with the pen where the next cell goes.
Waiting(t, m, d, at0, r) ==
  /\ ~r.done
  /\ PenInv(t, m, d, FirstOf(t, m, at0), r.pen)
  /\ GoodStart(t, r.at)
  /\ IF Chunk(t, m, r.at) # <<>>
       THEN IsNext(r.pen.lines, FirstOf(t, m, at0), Chunk(t, m, r.at)[1])
       ELSE r.at = at0 /\ ~HasCells(r.pen.lines)

\* The pipeline after its last turn.
Stopped(t, m, d, at0, r) ==
  /\ r.done
  /\ \/ Finished(t, m, d, FirstOf(t, m, at0), r.pen)
     \/ /\ PenInv(t, m, d, FirstOf(t, m, at0), r.pen)
        /\ HasCells(r.pen.lines) /\ LastOn(r.pen.lines).ch = "end"

\* The place of the next code point.
LEMMA AfterIs ==
  ASSUME NEW t \in Seq(Char), NEW at, GoodStart(t, at), Decode(t, at).ch # "end"
  PROVE  LET p == After(Decode(t, at))
         IN  /\ GoodStart(t, p) /\ p.off = at.off + 1 /\ p.off <= Len(t) /\ p.split = 0
             /\ Decode(t, at).off = at.off /\ at.off < Len(t)
             /\ Decode(t, p).off = p.off
<1> DEFINE c == Decode(t, at)
           p == After(c)
<1>1. /\ at \in Positions /\ at.off \in Nat /\ Len(t) \in Nat /\ Expansion \in Nat \ {0}
      /\ "end" \notin Char
  BY LayoutAssumption DEF GoodStart, Positions, Char
<1>2. /\ c \in Cell /\ c.ch = (IF c.off < Len(t) THEN t[c.off + 1] ELSE "end")
      /\ at.off < Len(t) => c.off = at.off
      /\ at.off >= Len(t) => c.off = Len(t)
  BY <1>1, DecodeIs
<1>3. c.ch # "end"
  OBVIOUS
<1> HIDE DEF c
<1>4. at.off < Len(t) /\ c.off = at.off
  BY <1>1, <1>2, <1>3
<1>5. /\ p.off = c.off + 1 /\ p.split = 0
      /\ p.index = IF c.ch = "newline" THEN 0 ELSE (c.index + 1) % Expansion
      /\ p = [off |-> p.off, split |-> p.split, index |-> p.index]
  BY DEF After, Start
<1> HIDE DEF p
<1>6. c.index \in Nat
  BY <1>2 DEF Cell
<1>7. p.index \in 0 .. Expansion - 1 /\ p.index \in Nat /\ p.index < Expansion
  <2>1. (c.index + 1) % Expansion \in 0 .. Expansion - 1
    BY <1>1, <1>6
  <2> QED BY <1>1, <1>5, <2>1
<1>8. p.off \in Nat /\ p.off <= Len(t) /\ p.off = at.off + 1
  BY <1>1, <1>4, <1>5
<1>9. p \in Positions
  BY <1>5, <1>7, <1>8 DEF Positions
<1>10. ~(p.split > Expansion)
  BY <1>1, <1>5
<1>11. GoodStart(t, p)
  BY <1>7, <1>9, <1>10 DEF GoodStart, Overflows
<1>12. Decode(t, p).off = p.off
  <2>1. p.off < Len(t) => Decode(t, p).off = p.off
    BY <1>9, DecodeIs
  <2>2. p.off >= Len(t) => Decode(t, p).off = Len(t)
    BY <1>9, DecodeIs
  <2> QED BY <1>1, <1>8, <2>1, <2>2
<1> QED
  BY <1>4, <1>5, <1>8, <1>11, <1>12 DEF p, c

\* A place without a split always has a cell.
LEMMA ChunkIsThere ==
  ASSUME NEW t \in Seq(Char), NEW m, NEW at, GoodStart(t, at), at.split = 0
  PROVE  Chunk(t, m, at) # <<>>
<1>1. Expansion \in Nat \ {0} /\ at \in Positions /\ Len(t) \in Nat /\ at.off \in Nat
  BY LayoutAssumption DEF GoodStart, Positions
<1>2. Decode(t, at).split = 0
  <2>1. /\ at.off < Len(t) => Decode(t, at).split = at.split
        /\ at.off >= Len(t) => Decode(t, at).split = 0
    BY <1>1, DecodeIs
  <2> QED BY <1>1, <2>1
<1> QED
  BY <1>1, <1>2, ChunkIs DEF CellsOf

\* A turn moves the pipeline on by one code point, or ends it.
LEMMA TurnKeeps ==
  ASSUME NEW t \in Seq(Char), NEW m, NEW d, IsDim(d), NEW at0, GoodStart(t, at0),
         NEW r, Waiting(t, m, d, at0, r)
  PROVE  LET q == Turn(r, t, m, d)
         IN  \/ Stopped(t, m, d, at0, q)
             \/ Waiting(t, m, d, at0, q) /\ q.at.off = r.at.off + 1 /\ r.at.off < Len(t)
<1> DEFINE c == Decode(t, r.at)
           s == Chunk(t, m, r.at)
           first == FirstOf(t, m, at0)
           pen == PutAll(r.pen, s, d)
           q == Turn(r, t, m, d)
           at2 == After(c)
<1>1. q = [pen |-> pen, at |-> at2, done |-> pen.full \/ c.ch = "end"]
  BY DEF Turn, Waiting, Chunk
<1>2. q.pen = pen /\ q.at = at2 /\ (q.done <=> pen.full \/ c.ch = "end")
  <2> HIDE DEF q, pen, at2, c
  <2>1. q.pen = pen /\ q.at = at2
    BY <1>1
  <2>2. q.done <=> pen.full \/ c.ch = "end"
    BY <1>1, Zenon
  <2> QED BY <2>1, <2>2
<1>3. /\ PenInv(t, m, d, first, r.pen) /\ GoodStart(t, r.at)
      /\ s # <<>> => IsNext(r.pen.lines, first, s[1])
      /\ s = <<>> => r.at = at0 /\ ~HasCells(r.pen.lines)
  BY DEF Waiting
<1>4. CellsOf(t, m, c, s)
  BY <1>3, ChunkIs
<1>5. ASSUME c.ch # "end"
      PROVE  /\ GoodStart(t, at2) /\ at2.off = r.at.off + 1 /\ r.at.off < Len(t)
             /\ Chunk(t, m, at2) # <<>> /\ Chunk(t, m, at2)[1].off = c.off + 1
  <2>1. /\ GoodStart(t, at2) /\ at2.off = r.at.off + 1 /\ at2.split = 0 /\ r.at.off < Len(t)
        /\ c.off = r.at.off /\ Decode(t, at2).off = at2.off
    BY <1>3, <1>5, AfterIs
  <2>2. Chunk(t, m, at2) # <<>>
    BY <2>1, ChunkIsThere
  <2>3. CellsOf(t, m, Decode(t, at2), Chunk(t, m, at2))
    BY <2>1, ChunkIs
  <2>4. Chunk(t, m, at2)[1].off = at2.off
    BY <2>1, <2>2, <2>3 DEF CellsOf
  <2> QED BY <2>1, <2>2, <2>4
<1> HIDE DEF q
<1>6. CASE s = <<>>
  <2>1. c.ch # "end"
    BY <1>4, <1>6 DEF CellsOf
  <2>2. pen = r.pen
    <3>1. Len(s) = 0
      BY <1>6
    <3>2. \E f : PutAll(r.pen, s, d) = f[Len(s)] /\ f[0] = r.pen
      BY <3>1, PutsAre
    <3> QED BY <3>1, <3>2
  <2>3. first = Chunk(t, m, at2)[1]
    BY <1>3, <1>6 DEF FirstOf
  <2>4. IsNext(r.pen.lines, first, Chunk(t, m, at2)[1])
    BY <1>3, <1>6, <2>3 DEF IsNext
  <2>5. ~q.done
    BY <1>2, <1>3, <2>1, <2>2 DEF PenInv
  <2>6. Waiting(t, m, d, at0, q)
    <3> HIDE DEF first, pen, at2
    <3> QED BY <1>2, <1>3, <1>5, <2>1, <2>2, <2>4, <2>5 DEF Waiting, first
  <2> QED BY <1>2, <1>5, <2>1, <2>6 DEF q
<1>7. CASE s # <<>>
  <2>1. s \in Seq(Cell) /\ Chained(t, m, s)
    BY <1>4 DEF CellsOf
  <2>2. PutSo(t, m, d, first, Last(s), pen)
    BY <1>3, <1>7, <2>1, PutAllKeeps
  <2>3. Last(s).ch = c.ch /\ Last(s).off = c.off /\ (c.ch = "tab" => Last(s).split = Expansion - 1)
    BY <1>4, <1>7 DEF CellsOf
  <2>4. CASE Finished(t, m, d, first, pen)
    <3>1. q.done /\ Finished(t, m, d, first, q.pen)
      BY <1>2, <2>4 DEF Finished
    <3>2. Stopped(t, m, d, at0, q)
      BY <3>1 DEF Stopped
    <3> QED BY <3>2 DEF q
  <2>5. CASE PenInv(t, m, d, first, pen) /\ HasCells(pen.lines) /\ LastOn(pen.lines) = Last(s)
    <3>1. CASE c.ch = "end"
      <4>1. q.done /\ LastOn(q.pen.lines).ch = "end"
        BY <1>2, <2>3, <2>5, <3>1
      <4>2. Stopped(t, m, d, at0, q)
        BY <1>2, <2>5, <4>1 DEF Stopped
      <4> QED BY <4>2 DEF q
    <3>2. CASE c.ch # "end"
      <4>1. Follows(Last(s), Chunk(t, m, at2)[1])
        <5>1. ~(Last(s).ch = "tab" /\ Last(s).split < Expansion - 1)
          BY <2>3, LayoutAssumption
        <5>2. Chunk(t, m, at2)[1].off = Last(s).off + 1
          BY <1>5, <2>3, <3>2
        <5> QED BY <5>1, <5>2, Zenon DEF Follows
      <4>2. IsNext(pen.lines, first, Chunk(t, m, at2)[1])
        BY <2>5, <4>1 DEF IsNext
      <4>3. ~q.done
        BY <1>2, <2>5, <3>2 DEF PenInv
      <4>4. Waiting(t, m, d, at0, q)
        <5> HIDE DEF pen, at2
        <5> QED BY <1>2, <1>5, <2>5, <3>2, <4>2, <4>3 DEF Waiting
      <4> QED BY <1>2, <1>5, <3>2, <4>4 DEF q
    <3> QED BY <3>1, <3>2
  <2> QED BY <2>2, <2>4, <2>5 DEF PutSo
<1> QED
  BY <1>6, <1>7

-----------------------------------------------------------------------------
(* The screen.                                                              *)

\* The pipeline before its first turn.
LEMMA NewRunWaits ==
  ASSUME NEW t \in Seq(Char), NEW m, NEW d, IsDim(d), NEW at, GoodStart(t, at)
  PROVE  Waiting(t, m, d, at, NewRun(at))
<1> DEFINE p == NewPen
           L == <<(<<>>)>>
           e == <<>>
<1>1. Rows(d) \in Nat \ {0} /\ Cols(d) \in Nat \ {0} /\ HAdvance \in Nat /\ VAdvance \in Nat
  BY DimIs, LayoutAssumption
<1>2. /\ e \in Seq(Cell) /\ Len(e) = 0
      /\ L \in Seq(Seq(Cell)) /\ Len(L) = 1 /\ L[1] = e
  OBVIOUS
<1>3. p.x = 0 /\ p.y = 0 /\ p.lines = L /\ p.full = FALSE /\ p \in Pens
  BY <1>2 DEF NewPen, Pens, Lines
<1> HIDE DEF p, L, e
<1>4. AtTheEnd(p)
  <2>1. Len(p.lines) = 1 /\ p.lines[1] = e /\ 1 - 1 = 0
    BY <1>2, <1>3
  <2>2. (1 - 1) * VAdvance = 0 /\ 0 * HAdvance = 0
    BY <1>1
  <2>3. p.y = (Len(p.lines) - 1) * VAdvance
    BY <1>3, <2>1, <2>2
  <2>4. p.x = Len(p.lines[Len(p.lines)]) * HAdvance
    BY <1>2, <1>3, <2>1, <2>2
  <2> QED BY <1>3, <2>1, <2>3, <2>4 DEF AtTheEnd
<1>5. Chained(t, m, e)
  BY <1>2 DEF Chained
<1>6. Drawn(t, m, d, FirstOf(t, m, at), L)
  <2>1. \A l \in 1 .. Len(L) : l = 1
    BY <1>2
  <2>2. 1 .. Len(L) - 1 = {} /\ L[Len(L)] = <<>> /\ L[1] = <<>>
    BY <1>2 DEF e
  <2>3. Len(L) \in 1 .. Rows(d) /\ Len(L[1]) <= Cols(d) - 1
    BY <1>1, <1>2
  <2> QED BY <1>2, <1>5, <2>1, <2>2, <2>3 DEF Drawn, Lines
<1>7. L[Len(L)] = <<>> /\ ~HasCells(L)
  BY <1>2 DEF HasCells, e
<1>8. PenInv(t, m, d, FirstOf(t, m, at), p)
  BY <1>3, <1>4, <1>6, <1>7 DEF PenInv
<1>9. NewRun(at).pen = p /\ NewRun(at).at = at /\ NewRun(at).done = FALSE
  BY DEF NewRun, p
<1>10. Chunk(t, m, at) # <<>> => FirstOf(t, m, at) = Chunk(t, m, at)[1]
  BY DEF FirstOf
<1> QED
  BY <1>3, <1>7, <1>8, <1>9, <1>10 DEF Waiting, IsNext

\* The pipeline ends: the text has an end.
LEMMA PipelineStops ==
  ASSUME NEW t \in Seq(Char), NEW m, NEW d, IsDim(d), NEW at, GoodStart(t, at)
  PROVE  \E r : Stopped(t, m, d, at, r) /\ RunPipeline(t, at, m, d) = r.pen
<1> DEFINE n == Len(t)
<1>1. n \in Nat
  OBVIOUS
<1>2. PICK f : /\ RunPipeline(t, at, m, d) = f[Len(t) + 1].pen
               /\ f[0] = NewRun(at)
               /\ \A k \in 0 .. Len(t) : f[k + 1] = Turn(f[k], t, m, d)
  BY <1>1, TurnsAre
<1> DEFINE Wait(k) == /\ Waiting(t, m, d, at, f[k])
                      /\ k # 0 => k <= f[k].at.off /\ f[k].at.off <= n
           S == {k \in 0 .. n + 1 : Stopped(t, m, d, at, f[k]) \/ Wait(k)}
<1>3. 0 \in S
  <2>1. Waiting(t, m, d, at, f[0])
    BY <1>2, NewRunWaits
  <2> QED BY <1>1, <2>1
<1>4. ASSUME NEW k \in 0 .. n + 1 - 1, k \in S PROVE k + 1 \in S
  <2>1. k \in 0 .. Len(t) /\ k + 1 \in 0 .. n + 1 /\ k \in Nat
    BY <1>1
  <2>2. f[k + 1] = Turn(f[k], t, m, d)
    BY <1>2, <2>1
  <2>3. CASE Stopped(t, m, d, at, f[k])
    <3>1. f[k + 1] = f[k]
      BY <2>2, <2>3 DEF Turn, Stopped
    <3>2. Stopped(t, m, d, at, f[k + 1])
      BY <2>3, <3>1
    <3> QED BY <2>1, <3>2
  <2>4. CASE Wait(k)
    <3>1. Waiting(t, m, d, at, f[k])
      BY <2>4
    <3> DEFINE q == Turn(f[k], t, m, d)
    <3>2. \/ Stopped(t, m, d, at, q)
          \/ Waiting(t, m, d, at, q) /\ q.at.off = f[k].at.off + 1 /\ f[k].at.off < Len(t)
      BY <3>1, TurnKeeps
    <3>3. f[k].at.off \in Nat /\ (k # 0 => k <= f[k].at.off)
      BY <2>4 DEF Waiting, GoodStart, Positions
    <3> HIDE DEF q
    <3>4. CASE Stopped(t, m, d, at, q)
      BY <2>1, <2>2, <3>4 DEF q
    <3>5. CASE Waiting(t, m, d, at, q) /\ q.at.off = f[k].at.off + 1 /\ f[k].at.off < Len(t)
      <4>1. k + 1 <= q.at.off /\ q.at.off <= n
        BY <1>1, <2>1, <3>3, <3>5
      <4>2. f[k + 1] = q
        BY <2>2 DEF q
      <4>3. Wait(k + 1)
        BY <3>5, <4>1, <4>2
      <4> QED BY <2>1, <4>3
    <3> QED BY <3>2, <3>4, <3>5
  <2> QED BY <1>4, <2>3, <2>4
<1>5. n + 1 \in S
  <2> DEFINE N == n + 1
  <2>1. N \in Nat /\ N \in 0 .. N
    BY <1>1
  <2>2. \A k \in 0 .. N - 1 : k \in S => k + 1 \in S
    BY <1>4
  <2> HIDE DEF S, N
  <2>3. N \in S
    BY <1>3, <2>1, <2>2, UpToInduction
  <2> QED BY <2>3 DEF N
<1>6. ~Wait(n + 1)
  <2>1. ASSUME Wait(n + 1) PROVE FALSE
    <3>1. n + 1 # 0
      BY <1>1
    <3>2. n + 1 <= f[n + 1].at.off /\ f[n + 1].at.off <= n
      BY <2>1, <3>1
    <3>3. f[n + 1].at.off \in Nat
      BY <2>1 DEF Waiting, GoodStart, Positions
    <3> HIDE DEF n
    <3> QED BY <1>1, <3>2, <3>3
  <2> QED BY <2>1
<1>7. Stopped(t, m, d, at, f[n + 1])
  BY <1>5, <1>6
<1> QED
  BY <1>2, <1>7

\* A screen that shows the text from the cell "first" on.
ScreenOf(t, m, d, first, scr) ==
  /\ scr \in Lines
  /\ Len(scr) <= Rows(d) - 1
  /\ \A l \in 1 .. Len(scr) : scr[l] # <<>> /\ Chained(t, m, scr[l]) /\ Len(scr[l]) <= Cols(d) - 1
  /\ \A l \in 1 .. Len(scr) - 1 : Ended(d, scr[l]) /\ Follows(Last(scr[l]), scr[l + 1][1])
  /\ scr = <<>> => Rows(d) = 1 \/ Cols(d) = 1
  /\ scr # <<>> => scr[1][1] = first /\ (LastCell(scr).ch = "end" \/ Len(scr) = Rows(d) - 1)

\* A sequence without its last element.
LEMMA FrontIs ==
  ASSUME NEW S, NEW s \in Seq(S), s # <<>>
  PROVE  /\ Front(s) \in Seq(S) /\ Len(Front(s)) = Len(s) - 1 /\ Len(s) \in Nat \ {0}
         /\ \A k \in 1 .. Len(s) - 1 : Front(s)[k] = s[k]
         /\ Last(s) = s[Len(s)]
<1> DEFINE n == Len(s)
<1>1. n \in Nat \ {0}
  BY EmptyIs
<1>2. Front(s) = SubSeq(s, 1, n - 1)
  BY DEF Front
<1> HIDE DEF n
<1>3. 1 \in Int /\ n - 1 \in Int /\ \A k \in 1 .. n - 1 : s[k] \in S
  BY <1>1 DEF n
<1>4. /\ SubSeq(s, 1, n - 1) \in Seq(S)
      /\ Len(SubSeq(s, 1, n - 1)) = IF 1 <= n - 1 THEN (n - 1) - 1 + 1 ELSE 0
      /\ \A k \in 1 .. (n - 1) - 1 + 1 : SubSeq(s, 1, n - 1)[k] = s[1 + k - 1]
  BY <1>3, SubSeqProperties
<1>5. /\ Len(SubSeq(s, 1, n - 1)) = n - 1
      /\ \A k \in 1 .. n - 1 : SubSeq(s, 1, n - 1)[k] = s[k]
  <2>1. (n - 1) - 1 + 1 = n - 1 /\ \A k \in 1 .. n - 1 : 1 + k - 1 = k
    BY <1>1
  <2>2. Len(SubSeq(s, 1, n - 1)) = n - 1
    BY <1>1, <1>4, <2>1
  <2>3. \A k \in 1 .. n - 1 : SubSeq(s, 1, n - 1)[k] = s[k]
    BY <1>4, <2>1
  <2> QED BY <2>2, <2>3
<1> QED
  BY <1>1, <1>2, <1>4, <1>5 DEF Last, n

\* The used lines of a screen.
LEMMA UsedIs ==
  ASSUME NEW t, NEW m, NEW d, IsDim(d), NEW first, NEW lines, Drawn(t, m, d, first, lines),
         FullUp(d, lines) \/ (HasCells(lines) /\ LastOn(lines).ch = "end")
  PROVE  ScreenOf(t, m, d, first, Used(lines))
<1> DEFINE n == Len(lines)
           scr == Used(lines)
<1>1. Rows(d) \in Nat \ {0} /\ Cols(d) \in Nat \ {0}
  BY DimIs
<1>2. /\ lines \in Lines /\ n \in 1 .. Rows(d)
      /\ \A l \in 1 .. n : Chained(t, m, lines[l]) /\ Len(lines[l]) <= Cols(d) - 1
      /\ \A l \in 1 .. n - 1 : lines[l] # <<>> /\ Ended(d, lines[l])
      /\ \A l \in 1 .. n - 1 : lines[l + 1] # <<>> => Follows(Last(lines[l]), lines[l + 1][1])
      /\ lines[n] # <<>> => n < Rows(d)
      /\ lines[1] # <<>> => lines[1][1] = first
  BY DEF Drawn
<1>3. lines # <<>> /\ n \in Nat \ {0}
  BY <1>1, <1>2, EmptyIs DEF Lines
<1>4. Last(lines) = lines[n]
  BY <1>2 DEF Last
<1>5. CASE lines[n] # <<>>
  <2>1. scr = lines
    BY <1>4, <1>5 DEF Used
  <2>2. LastOn(lines) = Last(lines[n])
    BY <1>5 DEF LastOn
  <2>3. LastCell(scr) = Last(lines[n])
    BY <1>4, <2>1 DEF LastCell
  <2>4. LastCell(scr).ch = "end" \/ n = Rows(d) - 1
    <3>1. FullUp(d, lines) => n = Rows(d) - 1
      BY <1>5 DEF FullUp
    <3> QED BY <2>2, <2>3, <3>1
  <2> HIDE DEF n, scr
  <2>5. \A l \in 1 .. n : lines[l] # <<>>
    <3>1. \A l \in 1 .. n : l \in 1 .. n - 1 \/ l = n
      BY <1>3
    <3> QED BY <1>2, <1>5, <3>1
  <2>6. \A l \in 1 .. n - 1 : l + 1 \in 1 .. n
    BY <1>3
  <2>7. 1 \in 1 .. n /\ n <= Rows(d) - 1
    BY <1>1, <1>2, <1>3, <1>5
  <2> QED BY <1>2, <1>3, <2>1, <2>4, <2>5, <2>6, <2>7 DEF ScreenOf, scr, n
<1>6. CASE lines[n] = <<>>
  <2>1. scr = Front(lines)
    BY <1>4, <1>6 DEF Used
  <2>2. /\ scr \in Lines /\ Len(scr) = n - 1 /\ \A k \in 1 .. n - 1 : scr[k] = lines[k]
    <3>1. /\ Front(lines) \in Lines /\ Len(Front(lines)) = Len(lines) - 1
          /\ \A k \in 1 .. Len(lines) - 1 : Front(lines)[k] = lines[k]
      BY <1>2, <1>3, FrontIs DEF Lines
    <3> QED BY <2>1, <3>1
  <2>3. FullUp(d, lines) => \/ n = 1 /\ (Cols(d) = 1 \/ Rows(d) = 1)
                            \/ n = Rows(d) /\ n # 1
    BY <1>6 DEF FullUp
  <2>4. HasCells(lines) => n # 1 /\ LastOn(lines) = Last(lines[n - 1])
    BY <1>6 DEF HasCells, LastOn
  <2> HIDE DEF n, scr
  <2>5. CASE n = 1
    <3>1. Len(scr) = 0 /\ 1 .. Len(scr) = {} /\ 1 .. Len(scr) - 1 = {} /\ scr = <<>>
      BY <2>2, <2>5, EmptyIs DEF Lines
    <3>2. Cols(d) = 1 \/ Rows(d) = 1
      BY <1>1, <2>3, <2>4, <2>5 DEF n
    <3>3. Len(scr) <= Rows(d) - 1
      BY <1>1, <3>1
    <3> QED BY <2>2, <3>1, <3>2, <3>3 DEF ScreenOf, scr
  <2>6. CASE n # 1
    <3>1. scr # <<>> /\ Len(scr) = n - 1 /\ n - 1 \in 1 .. n - 1 /\ n - 1 <= Rows(d) - 1 /\ 1 \in 1 .. n - 1
      <4>1. n - 1 \in Nat \ {0}
        BY <1>3, <2>6
      <4>2. scr # <<>>
        BY <2>2, <4>1, EmptyIs DEF Lines
      <4> QED BY <1>1, <1>2, <2>2, <4>1, <4>2
    <3>2. Last(scr) = lines[n - 1]
      BY <2>2, <3>1 DEF Last
    <3>3. LastCell(scr) = Last(lines[n - 1])
      BY <3>2 DEF LastCell
    <3>4. LastCell(scr).ch = "end" \/ Len(scr) = Rows(d) - 1
      BY <1>1, <2>2, <2>3, <2>4, <2>6, <3>3 DEF n
    <3>5. scr[1] = lines[1] /\ lines[1] # <<>>
      BY <1>2, <2>2, <3>1
    <3>6. ASSUME NEW l \in 1 .. Len(scr)
          PROVE  scr[l] # <<>> /\ Chained(t, m, scr[l]) /\ Len(scr[l]) <= Cols(d) - 1
      <4>1. l \in 1 .. n - 1 /\ l \in 1 .. n
        BY <1>3, <3>1
      <4> QED BY <1>2, <2>2, <4>1
    <3>7. ASSUME NEW l \in 1 .. Len(scr) - 1
          PROVE  Ended(d, scr[l]) /\ Follows(Last(scr[l]), scr[l + 1][1])
      <4>1. l \in 1 .. n - 1 /\ l + 1 \in 1 .. n - 1
        BY <1>3, <3>1
      <4>2. scr[l] = lines[l] /\ scr[l + 1] = lines[l + 1]
        BY <2>2, <4>1
      <4> QED BY <1>2, <4>1, <4>2
    <3> QED BY <1>2, <2>2, <3>1, <3>4, <3>5, <3>6, <3>7 DEF ScreenOf, scr
  <2> QED BY <2>5, <2>6
<1> QED
  BY <1>5, <1>6

\* What a layout shows.
LEMMA LayoutIs ==
  ASSUME NEW t \in Seq(Char), NEW m, NEW d, IsDim(d), NEW at, GoodStart(t, at)
  PROVE  ScreenOf(t, m, d, FirstOf(t, m, at), Layout(t, at, m, d))
<1>1. PICK r : Stopped(t, m, d, at, r) /\ RunPipeline(t, at, m, d) = r.pen
  BY PipelineStops
<1>2. Drawn(t, m, d, FirstOf(t, m, at), r.pen.lines)
  BY <1>1 DEF Stopped, Finished, PenInv
<1>3. FullUp(d, r.pen.lines) \/ (HasCells(r.pen.lines) /\ LastOn(r.pen.lines).ch = "end")
  BY <1>1 DEF Stopped, Finished
<1>4. ScreenOf(t, m, d, FirstOf(t, m, at), Used(r.pen.lines))
  BY <1>2, <1>3, UsedIs
<1> QED
  BY <1>1, <1>4 DEF Layout

-----------------------------------------------------------------------------
(* The order of the cells.                                                  *)

\* The place of a cell among all the cells of a text.
Rank(c) == c.off * Expansion + c.split

\* A text without tabs.
NoTab(t) == \A p \in DOMAIN t : t[p] # "tab"

\* The types of a cell.
LEMMA CellIs ==
  ASSUME NEW t, NEW m, NEW c, GoodCell(t, m, c)
  PROVE  /\ c \in Cell /\ c.off \in Nat /\ c.split \in Nat /\ c.index \in Nat /\ Rank(c) \in Nat
         /\ c.split < Expansion /\ c.index < Expansion
<1>1. c \in Cell /\ Expansion \in Nat
  BY LayoutAssumption DEF GoodCell
<1>2. c.off \in Nat /\ c.split \in Nat /\ c.index \in Nat
  BY <1>1 DEF Cell
<1>3. c.off * Expansion \in Nat
  BY <1>1, <1>2, MulNext
<1>4. Rank(c) \in Nat
  BY <1>2, <1>3 DEF Rank
<1> QED
  BY <1>1, <1>2, <1>4 DEF GoodCell

\* The rank orders cells by offset, and the cells of a tab by split.
LEMMA RankOrder ==
  ASSUME NEW t, NEW m, NEW c, GoodCell(t, m, c), NEW e, GoodCell(t, m, e)
  PROVE  /\ c.off < e.off => Rank(c) < Rank(e)
         /\ Rank(c) <= Rank(e) => c.off <= e.off
         /\ c.off = e.off /\ Rank(c) < Rank(e) => c.split < e.split
         /\ c.off = e.off /\ c.split < e.split => Rank(c) < Rank(e)
<1>1. /\ c.off \in Nat /\ c.split \in Nat /\ c.split < Expansion
      /\ e.off \in Nat /\ e.split \in Nat /\ e.split < Expansion
      /\ Expansion \in Nat
  BY CellIs, LayoutAssumption
<1> DEFINE C == c.off * Expansion
           D == e.off * Expansion
<1>2. /\ C \in Nat /\ D \in Nat
      /\ (c.off + 1) * Expansion = C + Expansion
      /\ (e.off + 1) * Expansion = D + Expansion
  BY <1>1, MulNext
<1>3. Rank(c) = C + c.split /\ Rank(e) = D + e.split
  BY DEF Rank
<1>4. c.off < e.off => C + Expansion <= D
  <2>1. ASSUME c.off < e.off PROVE (c.off + 1) * Expansion <= e.off * Expansion
    <3>1. c.off + 1 \in Nat /\ c.off + 1 <= e.off
      BY <1>1, <2>1
    <3> QED BY <1>1, <3>1, MulMono
  <2> QED BY <1>2, <2>1
<1>5. e.off < c.off => D + Expansion <= C
  <2>1. ASSUME e.off < c.off PROVE (e.off + 1) * Expansion <= c.off * Expansion
    <3>1. e.off + 1 \in Nat /\ e.off + 1 <= c.off
      BY <1>1, <2>1
    <3> QED BY <1>1, <3>1, MulMono
  <2> QED BY <1>2, <2>1
<1>6. c.off = e.off => C = D
  OBVIOUS
<1> HIDE DEF C, D
<1> QED
  BY <1>1, <1>2, <1>3, <1>4, <1>5, <1>6

\* The cell that follows has the next rank or the next offset.
LEMMA FollowsIs ==
  ASSUME NEW t, NEW m, NEW c, GoodCell(t, m, c), NEW e, GoodCell(t, m, e), Follows(c, e)
  PROVE  Rank(c) < Rank(e) /\ e.off \in c.off .. c.off + 1
<1>1. /\ c.off \in Nat /\ c.split \in Nat /\ e.off \in Nat /\ e.split \in Nat
  BY CellIs
<1>2. (e.off = c.off /\ e.split = c.split + 1) \/ e.off = c.off + 1
  BY DEF Follows
<1>3. (e.off = c.off /\ c.split < e.split) \/ c.off < e.off
  BY <1>1, <1>2
<1> QED
  BY <1>1, <1>2, <1>3, RankOrder

\* Nothing follows the end of the buffer.
LEMMA EndIsLast ==
  ASSUME NEW t \in Seq(Char), NEW m, NEW c, GoodCell(t, m, c), NEW e, GoodCell(t, m, e), Follows(c, e)
  PROVE  c.ch # "end"
<1>1. c.ch = "end" => c.off >= Len(t)
  <2>1. ASSUME c.off < Len(t) PROVE c.ch # "end"
    <3>1. c.off + 1 \in 1 .. Len(t)
      BY <2>1, CellIs
    <3>2. t[c.off + 1] \in Char
      BY <3>1
    <3>3. c.ch = t[c.off + 1]
      BY <2>1 DEF GoodCell
    <3> QED BY <3>2, <3>3 DEF Char
  <2> QED BY <2>1, CellIs
<1>2. c.ch = "end" => e.off = c.off + 1
  BY DEF Follows
<1>3. e.off <= Len(t) /\ c.off \in Nat /\ Len(t) \in Nat
  <2>1. e.off <= Len(t)
    BY DEF GoodCell
  <2> QED BY <2>1, CellIs
<1> QED
  BY <1>1, <1>2, <1>3

\* Along a line the rank grows and no offset is left out.
LEMMA LineOrder ==
  ASSUME NEW t, NEW m, NEW s \in Seq(Cell), Chained(t, m, s), NEW j \in 1 .. Len(s)
  PROVE  /\ Rank(s[1]) <= Rank(s[j]) /\ s[1].off <= s[j].off
         /\ \A o \in s[1].off .. s[j].off : \E k \in 1 .. j : s[k].off = o
<1> DEFINE n == Len(s)
           P(k) == /\ Rank(s[1]) <= Rank(s[k]) /\ s[1].off <= s[k].off
                   /\ \A o \in s[1].off .. s[k].off : \E i \in 1 .. k : s[i].off = o
           S == {k \in 1 .. n : P(k)}
           T == {0} \cup S
<1>1. n \in Nat \ {0} /\ 1 \in 1 .. n
  OBVIOUS
<1>2. \A k \in 1 .. n : /\ GoodCell(t, m, s[k]) /\ s[k].off \in Nat /\ Rank(s[k]) \in Nat
  BY CellIs DEF Chained
<1>3. \A k \in 1 .. n - 1 : Follows(s[k], s[k + 1])
  BY DEF Chained
<1> HIDE DEF n
<1>4. P(1)
  <2>1. s[1].off \in Nat /\ Rank(s[1]) \in Nat
    BY <1>1, <1>2
  <2>2. ASSUME NEW o \in s[1].off .. s[1].off PROVE \E i \in 1 .. 1 : s[i].off = o
    <3>1. s[1].off = o /\ 1 \in 1 .. 1
      BY <2>1
    <3> QED BY <3>1
  <2> QED BY <2>1, <2>2
<1>5. ASSUME NEW k \in 1 .. n - 1, P(k) PROVE P(k + 1)
  <2>1. k \in 1 .. n /\ k + 1 \in 1 .. n /\ k \in Nat
    BY <1>1
  <2>2. /\ Rank(s[k]) < Rank(s[k + 1]) /\ s[k + 1].off \in s[k].off .. s[k].off + 1
    BY <1>2, <1>3, <2>1, FollowsIs
  <2>3. /\ s[k].off \in Nat /\ s[k + 1].off \in Nat /\ s[1].off \in Nat
        /\ Rank(s[k]) \in Nat /\ Rank(s[k + 1]) \in Nat /\ Rank(s[1]) \in Nat
    BY <1>1, <1>2, <2>1
  <2>4. Rank(s[1]) <= Rank(s[k]) /\ s[1].off <= s[k].off
    BY <1>5
  <2>5. Rank(s[1]) <= Rank(s[k + 1]) /\ s[1].off <= s[k + 1].off
    BY <2>2, <2>3, <2>4
  <2>6. ASSUME NEW o \in s[1].off .. s[k + 1].off PROVE \E i \in 1 .. k + 1 : s[i].off = o
    <3> DEFINE a == s[1].off
               b == s[k].off
               d == s[k + 1].off
    <3>1. a \in Nat /\ b \in Nat /\ d \in b .. b + 1 /\ o \in a .. d
      BY <2>2, <2>3, <2>6
    <3> HIDE DEF a, b, d
    <3>2. o \in a .. b \/ o = d
      BY <3>1, RangeNext
    <3>3. o \in s[1].off .. s[k].off \/ o = s[k + 1].off
      BY <3>2 DEF a, b, d
    <3>4. CASE o \in s[1].off .. s[k].off
      <4>1. PICK i \in 1 .. k : s[i].off = o
        BY <1>5, <3>4
      <4>2. i \in 1 .. k + 1
        BY <2>1
      <4> QED BY <4>1, <4>2
    <3>5. CASE o = s[k + 1].off
      <4>1. k + 1 \in 1 .. k + 1
        BY <2>1
      <4> QED BY <3>5, <4>1
    <3> QED BY <3>3, <3>4, <3>5
  <2> QED BY <2>5, <2>6
<1> HIDE DEF P
<1>6. \A k \in 0 .. n : k \in T
  <2>1. ASSUME NEW k \in 0 .. n - 1, k \in T PROVE k + 1 \in T
    <3>1. CASE k = 0
      BY <1>1, <1>4, <3>1
    <3>2. CASE k # 0
      <4>1. k \in 1 .. n - 1 /\ P(k) /\ k + 1 \in 1 .. n
        BY <1>1, <2>1, <3>2
      <4> QED BY <1>5, <4>1
    <3> QED BY <3>1, <3>2
  <2>2. 0 \in T
    OBVIOUS
  <2> HIDE DEF T
  <2> QED BY <1>1, <2>1, <2>2, UpToInduction
<1>7. j \in 0 .. n /\ j # 0
  BY DEF n
<1>8. P(j)
  BY <1>6, <1>7
<1> QED
  BY <1>8 DEF P

\* What a line of a screen is.
LEMMA LineIs ==
  ASSUME NEW t, NEW m, NEW d, NEW first, NEW scr, ScreenOf(t, m, d, first, scr), NEW l \in 1 .. Len(scr)
  PROVE  /\ scr[l] \in Seq(Cell) /\ Len(scr[l]) \in Nat \ {0} /\ Chained(t, m, scr[l])
         /\ Last(scr[l]) = scr[l][Len(scr[l])]
         /\ GoodCell(t, m, scr[l][1]) /\ GoodCell(t, m, Last(scr[l]))
         /\ Rank(scr[l][1]) <= Rank(Last(scr[l])) /\ scr[l][1].off <= Last(scr[l]).off
         /\ \A o \in scr[l][1].off .. Last(scr[l]).off : \E k \in 1 .. Len(scr[l]) : scr[l][k].off = o
         /\ \A k \in 1 .. Len(scr[l]) : scr[l][1].off <= scr[l][k].off /\ GoodCell(t, m, scr[l][k])
<1> DEFINE s == scr[l]
           n == Len(s)
<1>1. s \in Seq(Cell) /\ s # <<>> /\ Chained(t, m, s)
  BY DEF ScreenOf, Lines
<1>2. n \in Nat \ {0}
  BY <1>1, EmptyIs
<1>3. 1 \in 1 .. n /\ n \in 1 .. n
  BY <1>2
<1>4. Last(s) = s[n]
  BY DEF Last
<1>5. \A k \in 1 .. n : GoodCell(t, m, s[k])
  BY <1>1 DEF Chained
<1>6. \A k \in 1 .. n : s[1].off <= s[k].off
  BY <1>1, LineOrder
<1>7. Rank(s[1]) <= Rank(s[n]) /\ \A o \in s[1].off .. s[n].off : \E k \in 1 .. n : s[k].off = o
  BY <1>1, <1>3, LineOrder
<1> HIDE DEF s, n
<1>8. GoodCell(t, m, s[1]) /\ GoodCell(t, m, Last(s)) /\ s[1].off <= Last(s).off
  BY <1>3, <1>4, <1>5, <1>6
<1>9. Rank(s[1]) <= Rank(Last(s)) /\ \A o \in s[1].off .. Last(s).off : \E k \in 1 .. n : s[k].off = o
  BY <1>4, <1>7
<1>10. \A k \in 1 .. n : s[1].off <= s[k].off /\ GoodCell(t, m, s[k])
  BY <1>5, <1>6
<1> QED
  BY <1>1, <1>2, <1>4, <1>8, <1>9, <1>10 DEF s, n

\* From one line to the next.
LEMMA NextLineIs ==
  ASSUME NEW t, NEW m, NEW d, NEW first, NEW scr, ScreenOf(t, m, d, first, scr), NEW l \in 1 .. Len(scr) - 1
  PROVE  /\ Rank(scr[l][1]) < Rank(scr[l + 1][1])
         /\ scr[l + 1][1].off \in Last(scr[l]).off .. Last(scr[l]).off + 1
<1>1. l \in 1 .. Len(scr) /\ l + 1 \in 1 .. Len(scr)
  <2>1. Len(scr) \in Nat
    BY DEF ScreenOf, Lines
  <2> QED BY <2>1
<1>2. Follows(Last(scr[l]), scr[l + 1][1])
  BY DEF ScreenOf
<1>3. GoodCell(t, m, scr[l][1]) /\ GoodCell(t, m, Last(scr[l])) /\ Rank(scr[l][1]) <= Rank(Last(scr[l]))
  BY <1>1, LineIs
<1>4. GoodCell(t, m, scr[l + 1][1])
  BY <1>1, LineIs
<1>5. Rank(Last(scr[l])) < Rank(scr[l + 1][1]) /\ scr[l + 1][1].off \in Last(scr[l]).off .. Last(scr[l]).off + 1
  BY <1>2, <1>3, <1>4, FollowsIs
<1>6. Rank(scr[l][1]) \in Nat /\ Rank(Last(scr[l])) \in Nat /\ Rank(scr[l + 1][1]) \in Nat
  BY <1>3, <1>4, CellIs
<1> QED
  BY <1>3, <1>5, <1>6

\* The lines begin in the order of the text.
LEMMA HeadsGrow ==
  ASSUME NEW t, NEW m, NEW d, NEW first, NEW scr, ScreenOf(t, m, d, first, scr)
  PROVE  \A j \in 1 .. Len(scr) : \A i \in 1 .. j - 1 : Rank(scr[i][1]) < Rank(scr[j][1])
<1> DEFINE n == Len(scr)
           S == {j \in 0 .. n : \A i \in 1 .. j - 1 : Rank(scr[i][1]) < Rank(scr[j][1])}
<1>1. n \in Nat
  BY DEF ScreenOf, Lines
<1>2. \A l \in 1 .. n - 1 : Rank(scr[l][1]) < Rank(scr[l + 1][1])
  BY NextLineIs
<1>3. \A l \in 1 .. n : Rank(scr[l][1]) \in Nat
  <2>1. ASSUME NEW l \in 1 .. n PROVE Rank(scr[l][1]) \in Nat
    <3>1. GoodCell(t, m, scr[l][1])
      BY LineIs
    <3> QED BY <3>1, CellIs
  <2> QED BY <2>1
<1> HIDE DEF n
<1>4. 0 \in S
  BY <1>1
<1>5. ASSUME NEW j \in 0 .. n - 1, j \in S PROVE j + 1 \in S
  <2>1. j + 1 \in 0 .. n
    BY <1>1
  <2>2. ASSUME NEW i \in 1 .. (j + 1) - 1 PROVE Rank(scr[i][1]) < Rank(scr[j + 1][1])
    <3>1. j \in 1 .. n - 1 /\ j \in 1 .. n /\ i \in 1 .. n /\ j + 1 \in 1 .. n /\ (i \in 1 .. j - 1 \/ i = j)
      BY <1>1, <2>2
    <3>2. Rank(scr[j][1]) < Rank(scr[j + 1][1]) /\ Rank(scr[i][1]) \in Nat /\ Rank(scr[j][1]) \in Nat
          /\ Rank(scr[j + 1][1]) \in Nat
      BY <1>2, <1>3, <3>1
    <3>3. i \in 1 .. j - 1 => Rank(scr[i][1]) < Rank(scr[j][1])
      BY <1>5
    <3> QED BY <3>1, <3>2, <3>3
  <2> QED BY <2>1, <2>2
<1>6. \A j \in 0 .. n : j \in S
  <2> HIDE DEF S
  <2> QED BY <1>1, <1>4, <1>5, UpToInduction
<1>7. \A j \in 1 .. n : j \in 0 .. n
  BY <1>1
<1> QED
  BY <1>6, <1>7 DEF n

\* No offset is left out from the first cell to the last cell of a line.
LEMMA NothingLeftOut ==
  ASSUME NEW t, NEW m, NEW d, NEW first, NEW scr, ScreenOf(t, m, d, first, scr), NEW l \in 1 .. Len(scr),
         NEW o \in scr[1][1].off .. Last(scr[l]).off
  PROVE  \E i \in 1 .. l : \E k \in 1 .. Len(scr[i]) : scr[i][k].off = o
<1> DEFINE n == Len(scr)
           Shown(q, j) == \E i \in 1 .. j : \E k \in 1 .. Len(scr[i]) : scr[i][k].off = q
           All(j) == \A q \in scr[1][1].off .. Last(scr[j]).off : Shown(q, j)
           S == {j \in 1 .. n : All(j)}
           T == {0} \cup S
<1>1. n \in Nat \ {0} /\ 1 \in 1 .. n
  <2>1. n \in Nat
    BY DEF ScreenOf, Lines
  <2> QED BY <2>1
<1>2. \A j \in 1 .. n :
        /\ scr[j][1].off \in Nat /\ Last(scr[j]).off \in Nat
        /\ \A q \in scr[j][1].off .. Last(scr[j]).off : \E k \in 1 .. Len(scr[j]) : scr[j][k].off = q
  <2>1. ASSUME NEW j \in 1 .. n
        PROVE  /\ GoodCell(t, m, scr[j][1]) /\ GoodCell(t, m, Last(scr[j]))
               /\ \A q \in scr[j][1].off .. Last(scr[j]).off : \E k \in 1 .. Len(scr[j]) : scr[j][k].off = q
    BY LineIs
  <2> QED BY <2>1, CellIs
<1>3. \A j \in 1 .. n - 1 : scr[j + 1][1].off \in Last(scr[j]).off .. Last(scr[j]).off + 1
  BY NextLineIs
<1> HIDE DEF n
<1>4. 1 \in S
  <2>1. 1 \in 1 .. 1
    OBVIOUS
  <2> QED BY <1>1, <1>2, <2>1
<1>5. ASSUME NEW j \in 1 .. n - 1, All(j) PROVE All(j + 1)
  <2>1. j \in 1 .. n /\ j + 1 \in 1 .. n /\ j + 1 \in 1 .. j + 1 /\ 1 .. j \subseteq 1 .. j + 1
    BY <1>1
  <2>2. ASSUME NEW q \in scr[1][1].off .. Last(scr[j + 1]).off PROVE Shown(q, j + 1)
    <3>1. /\ scr[1][1].off \in Nat /\ Last(scr[j]).off \in Nat
          /\ scr[j + 1][1].off \in Nat /\ Last(scr[j + 1]).off \in Nat
          /\ scr[j + 1][1].off \in Last(scr[j]).off .. Last(scr[j]).off + 1
      BY <1>1, <1>2, <1>3, <2>1
    <3>2. q \in scr[1][1].off .. Last(scr[j]).off \/ q \in scr[j + 1][1].off .. Last(scr[j + 1]).off
      BY <3>1
    <3>3. CASE q \in scr[1][1].off .. Last(scr[j]).off
      <4>1. Shown(q, j)
        BY <1>5, <3>3
      <4> QED BY <2>1, <4>1
    <3>4. CASE q \in scr[j + 1][1].off .. Last(scr[j + 1]).off
      <4>1. \E k \in 1 .. Len(scr[j + 1]) : scr[j + 1][k].off = q
        BY <1>2, <2>1, <3>4
      <4> QED BY <2>1, <4>1
    <3> QED BY <3>2, <3>3, <3>4
  <2> HIDE DEF Shown
  <2> QED BY <2>2
<1> HIDE DEF All
<1>6. \A j \in 0 .. n : j \in T
  <2>1. ASSUME NEW j \in 0 .. n - 1, j \in T PROVE j + 1 \in T
    <3>1. CASE j = 0
      BY <1>4, <3>1
    <3>2. CASE j # 0
      <4>1. j \in 1 .. n - 1 /\ All(j) /\ j + 1 \in 1 .. n
        BY <1>1, <2>1, <3>2
      <4> QED BY <1>5, <4>1
    <3> QED BY <3>1, <3>2
  <2>2. 0 \in T
    OBVIOUS
  <2> HIDE DEF T
  <2> QED BY <1>1, <2>1, <2>2, UpToInduction
<1>7. l \in 0 .. n /\ l # 0
  BY DEF n
<1>8. All(l)
  BY <1>6, <1>7
<1> QED
  BY <1>8 DEF All

\* Offsets do not fall along a line.
LEMMA LineGrows ==
  ASSUME NEW t, NEW m, NEW s \in Seq(Cell), Chained(t, m, s)
  PROVE  \A j \in 1 .. Len(s) : \A i \in 1 .. j : s[i].off <= s[j].off
<1> DEFINE n == Len(s)
           S == {j \in 0 .. n : \A i \in 1 .. j : s[i].off <= s[j].off}
<1>1. n \in Nat
  OBVIOUS
<1>2. \A l \in 1 .. n : s[l].off \in Nat
  BY CellIs DEF Chained
<1>3. \A l \in 1 .. n - 1 : s[l].off <= s[l + 1].off
  <2>1. ASSUME NEW l \in 1 .. n - 1 PROVE s[l].off <= s[l + 1].off
    <3>1. l \in 1 .. n /\ l + 1 \in 1 .. n
      BY <1>1
    <3>2. GoodCell(t, m, s[l]) /\ GoodCell(t, m, s[l + 1]) /\ Follows(s[l], s[l + 1])
      BY <3>1 DEF Chained
    <3>3. s[l + 1].off \in s[l].off .. s[l].off + 1
      BY <3>2, FollowsIs
    <3> QED BY <1>2, <3>1, <3>3
  <2> QED BY <2>1
<1> HIDE DEF n
<1>4. 0 \in S
  BY <1>1
<1>5. ASSUME NEW j \in 0 .. n - 1, j \in S PROVE j + 1 \in S
  <2>1. j + 1 \in 0 .. n
    BY <1>1
  <2>2. ASSUME NEW i \in 1 .. j + 1 PROVE s[i].off <= s[j + 1].off
    <3>1. j + 1 \in 1 .. n /\ i \in 1 .. n /\ (i \in 1 .. j \/ i = j + 1)
      BY <1>1, <2>2
    <3>2. CASE i = j + 1
      BY <1>2, <3>1, <3>2
    <3>3. CASE i \in 1 .. j
      <4>1. j \in 1 .. n - 1 /\ j \in 1 .. n
        BY <1>1, <3>3
      <4>2. s[i].off <= s[j].off /\ s[j].off <= s[j + 1].off
        BY <1>3, <1>5, <3>3, <4>1
      <4> QED BY <1>2, <3>1, <4>1, <4>2
    <3> QED BY <3>1, <3>2, <3>3
  <2> QED BY <2>1, <2>2
<1>6. \A j \in 0 .. n : j \in S
  <2> HIDE DEF S
  <2> QED BY <1>1, <1>4, <1>5, UpToInduction
<1>7. \A j \in 1 .. n : j \in 0 .. n
  BY <1>1
<1> QED
  BY <1>6, <1>7 DEF n

\* What the core reads off a screen.
LEMMA ScreenIs ==
  ASSUME NEW t \in Seq(Char), NEW m, NEW d, NEW first, NEW scr, ScreenOf(t, m, d, first, scr), scr # <<>>
  PROVE  /\ Len(scr) \in Nat \ {0} /\ FirstCell(scr) = first /\ scr[1][1] = first
         /\ Last(scr) = scr[Len(scr)]
         /\ GoodCell(t, m, first) /\ GoodCell(t, m, Last(scr)[1]) /\ GoodCell(t, m, LastCell(scr))
         /\ first.off <= LastCell(scr).off /\ Last(scr)[1].off <= LastCell(scr).off
         /\ Rank(first) <= Rank(Last(scr)[1])
         /\ Len(scr) # 1 => Rank(first) < Rank(Last(scr)[1])
         /\ LastCell(scr).ch = "end" => LastCell(scr).off = Len(t)
<1> DEFINE n == Len(scr)
<1>1. scr \in Lines /\ n \in Nat \ {0} /\ scr[1][1] = first
  BY EmptyIs DEF ScreenOf, Lines
<1>2. FirstCell(scr) = first /\ Last(scr) = scr[n] /\ LastCell(scr) = Last(scr[n])
  BY <1>1 DEF FirstCell, LastCell, Last
<1>3. 1 \in 1 .. n /\ n \in 1 .. n
  BY <1>1
<1>4. GoodCell(t, m, first)
  BY <1>1, <1>3, LineIs
<1>5. GoodCell(t, m, scr[n][1]) /\ GoodCell(t, m, Last(scr[n])) /\ scr[n][1].off <= Last(scr[n]).off
  BY <1>3, LineIs
<1>6. n # 1 => Rank(scr[1][1]) < Rank(scr[n][1])
  <2>1. n # 1 => 1 \in 1 .. n - 1
    <3> HIDE DEF n
    <3> QED BY <1>1
  <2> QED BY <1>3, <2>1, HeadsGrow
<1>7. Rank(first) \in Nat /\ Rank(scr[n][1]) \in Nat
  BY <1>4, <1>5, CellIs
<1>8. /\ first.off \in Nat /\ scr[n][1].off \in Nat /\ Last(scr[n]).off \in Nat
  BY <1>4, <1>5, CellIs
<1>9. Rank(first) <= Rank(scr[n][1])
  BY <1>1, <1>6, <1>7
<1>10. first.off <= scr[n][1].off
  BY <1>4, <1>5, <1>9, RankOrder
<1>11. Last(scr[n]).ch = "end" => Last(scr[n]).off = Len(t)
  <2>1. Last(scr[n]).off <= Len(t)
    BY <1>5 DEF GoodCell
  <2>2. ASSUME Last(scr[n]).off < Len(t) PROVE Last(scr[n]).ch # "end"
    <3>1. Last(scr[n]).off + 1 \in 1 .. Len(t)
      BY <1>8, <2>2
    <3>2. t[Last(scr[n]).off + 1] \in Char
      BY <3>1
    <3>3. Last(scr[n]).ch = t[Last(scr[n]).off + 1]
      BY <1>5, <2>2 DEF GoodCell
    <3> QED BY <3>2, <3>3 DEF Char
  <2> QED BY <1>8, <2>1, <2>2
<1> HIDE DEF n
<1>12. first.off <= Last(scr[n]).off
  BY <1>5, <1>8, <1>10
<1> QED
  BY <1>1, <1>2, <1>4, <1>5, <1>6, <1>9, <1>11, <1>12 DEF n

\* A screen that contains an offset has a line that shows it.
LEMMA ContainedIsShown ==
  ASSUME NEW t \in Seq(Char), NEW m, NEW d, NEW first, NEW scr, ScreenOf(t, m, d, first, scr), scr # <<>>,
         NEW o \in Nat, ContainsOffset(scr, o)
  PROVE  HasLineOf(scr, o)
<1> DEFINE n == Len(scr)
<1>1. n \in Nat \ {0} /\ FirstCell(scr) = scr[1][1] /\ Last(scr) = scr[n]
  BY ScreenIs
<1>2. n \in 1 .. n /\ 1 \in 1 .. n
  BY <1>1
<1>3. GoodCell(t, m, scr[1][1]) /\ GoodCell(t, m, Last(scr[n]))
  BY <1>2, LineIs
<1>4. o \in scr[1][1].off .. Last(scr[n]).off
  <2>1. scr[1][1].off \in Nat /\ Last(scr[n]).off \in Nat
    BY <1>3, CellIs
  <2> QED BY <1>1, <2>1 DEF ContainsOffset, LastCell
<1>5. PICK i \in 1 .. n : \E k \in 1 .. Len(scr[i]) : scr[i][k].off = o
  BY <1>2, <1>4, NothingLeftOut
<1>6. PICK k \in 1 .. Len(scr[i]) : scr[i][k].off = o
  BY <1>5
<1>7. scr[i] \in Seq(Cell) /\ Len(scr[i]) \in Nat \ {0} /\ Chained(t, m, scr[i]) /\ Last(scr[i]) = scr[i][Len(scr[i])]
  BY LineIs
<1>8. o <= Last(scr[i]).off
  <2>1. Len(scr[i]) \in 1 .. Len(scr[i])
    BY <1>7
  <2> QED BY <1>6, <1>7, <2>1, LineGrows
<1>9. k \in DOMAIN scr[i]
  BY <1>7
<1> QED
  BY <1>6, <1>8, <1>9 DEF HasLineOf, n

\* An offset that is shown is between the ends of a line.
LEMMA ShownIsInALine ==
  ASSUME NEW t \in Seq(Char), NEW m, NEW d, NEW first, NEW scr, ScreenOf(t, m, d, first, scr),
         NEW o, HasLineOf(scr, o)
  PROVE  \E l \in 1 .. Len(scr) : scr[l][1].off <= o /\ o <= Last(scr[l]).off
<1>1. PICK l \in 1 .. Len(scr) : o <= Last(scr[l]).off /\ \E k \in DOMAIN scr[l] : scr[l][k].off = o
  BY DEF HasLineOf
<1>2. PICK k \in DOMAIN scr[l] : scr[l][k].off = o
  BY <1>1
<1>3. k \in 1 .. Len(scr[l])
  BY LineIs
<1>4. scr[l][1].off <= scr[l][k].off
  BY <1>3, LineIs
<1> QED
  BY <1>1, <1>2, <1>4

\* The start of a layout that begins at a cell.
StartAt(c) == Start(c.off, c.split, c.index)

\* A layout that begins at a cell shows that cell first.
LEMMA StartAtIs ==
  ASSUME NEW t \in Seq(Char), NEW m, NEW c, GoodCell(t, m, c)
  PROVE  /\ GoodStart(t, StartAt(c)) /\ StartAt(c).off = c.off
         /\ StartAt(c).split < Expansion /\ StartAt(c) \in Positions
         /\ FirstOf(t, m, StartAt(c)).off = c.off /\ FirstOf(t, m, StartAt(c)).split = c.split
         /\ c.off < Len(t) => FirstOf(t, m, StartAt(c)).index = c.index
<1> DEFINE at == StartAt(c)
           e == Decode(t, at)
           s == Chunk(t, m, at)
<1>1. /\ c.off \in Nat /\ c.split \in Nat /\ c.index \in Nat /\ c.split < Expansion /\ c.index < Expansion
      /\ Len(t) \in Nat /\ Expansion \in Nat \ {0}
  BY CellIs, LayoutAssumption
<1>2. at.off = c.off /\ at.split = c.split /\ at.index = c.index /\ at \in Positions
  BY <1>1 DEF StartAt, Start, Positions
<1>3. GoodStart(t, at)
  BY <1>1, <1>2 DEF GoodStart, Overflows
<1>4. /\ e.ch = (IF e.off < Len(t) THEN t[e.off + 1] ELSE "end")
      /\ c.off < Len(t) => e.off = c.off /\ e.split = c.split /\ e.index = c.index
      /\ c.off >= Len(t) => e.off = Len(t) /\ e.split = 0
  BY <1>1, <1>2, DecodeIs
<1>5. CellsOf(t, m, e, s)
  BY <1>3, ChunkIs
<1>6. c.off <= Len(t) /\ (c.ch # "tab" => c.split = 0) /\ (c.ch = "tab" /\ c.split = 0 => c.index = 0)
      /\ c.ch = (IF c.off < Len(t) THEN t[c.off + 1] ELSE "end")
  BY DEF GoodCell
<1> HIDE DEF at, e, s
<1>7. e.off = c.off /\ e.ch = c.ch /\ e.split = c.split
  <2>1. CASE c.off < Len(t)
    BY <1>1, <1>4, <1>6, <2>1
  <2>2. CASE c.off >= Len(t)
    <3>1. c.off = Len(t) /\ ~(c.off < Len(t))
      BY <1>1, <1>6, <2>2
    <3> QED BY <1>1, <1>4, <1>6, <2>2, <3>1
  <2> QED BY <1>1, <2>1, <2>2
<1>8. s # <<>>
  BY <1>1, <1>5, <1>7 DEF CellsOf
<1>9. FirstOf(t, m, at) = s[1]
  BY <1>8 DEF FirstOf, s
<1>10. s[1].off = c.off /\ s[1].index = e.index /\ s[1].split = IF c.ch = "tab" THEN Filled(e) ELSE 0
  BY <1>5, <1>7, <1>8 DEF CellsOf
<1>11. s[1].split = c.split
  <2>1. CASE c.ch = "tab"
    <3>1. c.off < Len(t)
      BY <1>6, <2>1
    <3>2. e.index = c.index
      BY <1>4, <3>1
    <3>3. c.split = 0 => c.index % Expansion = 0
      BY <1>1, <1>6, <2>1
    <3>4. Filled(e) = IF c.split # 0 THEN c.split ELSE c.index % Expansion
      BY <1>7, <3>2, Zenon DEF Filled
    <3> QED BY <1>10, <2>1, <3>3, <3>4
  <2>2. CASE c.ch # "tab"
    BY <1>6, <1>10, <2>2
  <2> QED BY <2>1, <2>2
<1> QED
  BY <1>1, <1>2, <1>3, <1>4, <1>9, <1>10, <1>11 DEF at

\* Where a layout that starts inside the text shows its first cell: a tab
\* whose cells are all above the screen is skipped.
LEMMA FirstFrom ==
  ASSUME NEW t \in Seq(Char), NEW m, NEW at, GoodStart(t, at), at.off <= Len(t)
  PROVE  LET f == FirstOf(t, m, at)
         IN  /\ f.off = at.off \/ (f.off = at.off + 1 /\ at.off < Len(t) /\ t[at.off + 1] = "tab")
             /\ f.off = at.off /\ at.off < Len(t) /\ t[at.off + 1] = "tab" => at.split <= f.split
<1> DEFINE c == Decode(t, at)
           s == Chunk(t, m, at)
           f == FirstOf(t, m, at)
<1>1. /\ at \in Positions /\ at.off \in Nat /\ at.split \in Nat /\ at.index \in Nat /\ Len(t) \in Nat
      /\ Expansion \in Nat \ {0}
  BY LayoutAssumption DEF GoodStart, Positions
<1>2. /\ c.ch = (IF c.off < Len(t) THEN t[c.off + 1] ELSE "end")
      /\ at.off < Len(t) => c.off = at.off /\ c.split = at.split /\ c.index = at.index
      /\ at.off >= Len(t) => c.off = Len(t)
  BY <1>1, DecodeIs
<1>3. CellsOf(t, m, c, s)
  BY ChunkIs
<1>4. c.off = at.off
  BY <1>1, <1>2
<1>5. CASE s # <<>>
  <2>1. f = s[1]
    BY <1>5 DEF FirstOf
  <2>2. f.off = c.off /\ f.split = IF c.ch = "tab" THEN Filled(c) ELSE 0
    BY <1>3, <1>5, <2>1 DEF CellsOf
  <2> HIDE DEF f, s, c
  <2>3. ASSUME at.off < Len(t), t[at.off + 1] = "tab" PROVE at.split <= f.split
    <3>1. c.ch = "tab" /\ c.split = at.split /\ c.index = at.index
      BY <1>2, <1>4, <2>3
    <3>2. Filled(c) = IF at.split # 0 THEN at.split ELSE at.index % Expansion
      BY <3>1, Zenon DEF Filled
    <3>3. at.index % Expansion \in 0 .. Expansion - 1
      BY <1>1
    <3> QED BY <1>1, <2>2, <3>1, <3>2, <3>3
  <2> QED BY <1>4, <2>2, <2>3 DEF f
<1>6. CASE s = <<>>
  <2>1. c.ch = "tab"
    BY <1>3, <1>6 DEF CellsOf
  <2>2. at.off < Len(t) /\ t[at.off + 1] = "tab"
    BY <1>1, <1>2, <1>4, <2>1
  <2> DEFINE p == After(c)
  <2>3. GoodStart(t, p) /\ p.off = at.off + 1 /\ p.split = 0 /\ Decode(t, p).off = p.off
    BY <2>1, AfterIs
  <2>4. Chunk(t, m, p) # <<>> /\ CellsOf(t, m, Decode(t, p), Chunk(t, m, p))
    BY <2>3, ChunkIs, ChunkIsThere
  <2>5. f = Chunk(t, m, p)[1]
    BY <1>6 DEF FirstOf
  <2>6. f.off = at.off + 1
    BY <2>3, <2>4, <2>5 DEF CellsOf
  <2> QED BY <1>1, <2>2, <2>6
<1> QED
  BY <1>5, <1>6

\* A screen of several lines starts the next one further down.
LEMMA LastLineMoves ==
  ASSUME NEW t \in Seq(Char), NEW m, NEW d, NEW at, GoodStart(t, at), at.off <= Len(t),
         NEW scr, ScreenOf(t, m, d, FirstOf(t, m, at), scr), scr # <<>>, Len(scr) # 1
  PROVE  LastLineStart(scr) # at
<1> DEFINE f == FirstOf(t, m, at)
           h == Last(scr)[1]
<1>1. GoodCell(t, m, f) /\ GoodCell(t, m, h) /\ Rank(f) < Rank(h)
  BY ScreenIs
<1>2. /\ f.off = at.off \/ (f.off = at.off + 1 /\ at.off < Len(t) /\ t[at.off + 1] = "tab")
      /\ f.off = at.off /\ at.off < Len(t) /\ t[at.off + 1] = "tab" => at.split <= f.split
  BY FirstFrom
<1>3. /\ f.off \in Nat /\ f.split \in Nat /\ h.off \in Nat /\ h.split \in Nat
      /\ Rank(f) \in Nat /\ Rank(h) \in Nat /\ Len(t) \in Nat /\ at.off \in Nat /\ at.split \in Nat
  BY <1>1, CellIs DEF GoodStart, Positions
<1>4. ASSUME h.off = at.off, h.split = at.split PROVE FALSE
  <2>1. f.off = at.off
    <3>1. f.off <= h.off
      BY <1>1, <1>3, RankOrder
    <3> QED BY <1>2, <1>3, <1>4, <3>1
  <2>2. f.split < h.split
    BY <1>1, <1>4, <2>1, RankOrder
  <2>3. h.ch = "tab"
    <3>1. h.ch # "tab" => h.split = 0
      BY <1>1 DEF GoodCell
    <3> QED BY <1>3, <2>2, <3>1
  <2>4. at.off < Len(t) /\ t[at.off + 1] = "tab"
    BY <1>1, <1>4, <2>3 DEF GoodCell
  <2> QED BY <1>2, <1>3, <1>4, <2>1, <2>2, <2>4
<1>5. LastLineStart(scr).off = h.off /\ LastLineStart(scr).split = h.split
  BY DEF LastLineStart, Start
<1> QED
  BY <1>4, <1>5

\* Without tabs no cell has a split.
LEMMA NoTabIs ==
  ASSUME NEW t \in Seq(Char), NEW m, NoTab(t), NEW c, GoodCell(t, m, c)
  PROVE  c.split = 0
<1>1. c.off \in Nat /\ Len(t) \in Nat
  BY CellIs
<1>2. c.ch # "tab"
  <2>1. CASE c.off < Len(t)
    <3>1. c.off + 1 \in DOMAIN t
      BY <1>1, <2>1
    <3>2. t[c.off + 1] # "tab"
      BY <3>1 DEF NoTab
    <3> QED BY <2>1, <3>2 DEF GoodCell
  <2>2. CASE ~(c.off < Len(t))
    BY <2>2 DEF GoodCell
  <2> QED BY <2>1, <2>2
<1> QED
  BY <1>2 DEF GoodCell

\* The offsets of the first cells of lines.
LEMMA HeadOffsets ==
  ASSUME NEW t \in Seq(Char), NEW m, NEW d, NEW first, NEW scr, ScreenOf(t, m, d, first, scr),
         NEW j \in 1 .. Len(scr), NEW i \in 1 .. j
  PROVE  /\ scr[i][1].off \in Nat /\ scr[i][1].off <= scr[j][1].off
         /\ NoTab(t) /\ i # j => scr[i][1].off < scr[j][1].off
<1>1. Len(scr) \in Nat
  BY DEF ScreenOf, Lines
<1>2. i \in 1 .. Len(scr) /\ (i # j => i \in 1 .. j - 1)
  BY <1>1
<1>3. GoodCell(t, m, scr[i][1]) /\ GoodCell(t, m, scr[j][1])
  BY <1>2, LineIs
<1>4. i # j => Rank(scr[i][1]) < Rank(scr[j][1])
  BY <1>2, HeadsGrow
<1>5. /\ scr[i][1].off \in Nat /\ scr[j][1].off \in Nat
      /\ Rank(scr[i][1]) \in Nat /\ Rank(scr[j][1]) \in Nat
  BY <1>3, CellIs
<1>6. scr[i][1].off <= scr[j][1].off
  <2>1. CASE i = j
    BY <1>5, <2>1
  <2>2. CASE i # j
    BY <1>3, <1>4, <1>5, <2>2, RankOrder
  <2> QED BY <2>1, <2>2
<1>7. ASSUME NoTab(t), i # j PROVE scr[i][1].off < scr[j][1].off
  <2>1. scr[i][1].split = 0 /\ scr[j][1].split = 0
    BY <1>3, <1>7, NoTabIs
  <2>2. scr[i][1].off # scr[j][1].off
    <3>1. scr[i][1].off = scr[j][1].off => scr[i][1].split < scr[j][1].split
      BY <1>3, <1>4, <1>7, RankOrder
    <3> QED BY <2>1, <3>1
  <2> QED BY <1>5, <1>6, <2>2
<1> QED
  BY <1>5, <1>6, <1>7

-----------------------------------------------------------------------------
(* The lines a page up lists.                                               *)

\* The list of lines of a page up.
Entries == [first : Nat, last : Nat]

\* A list of lines whose first entry begins at the offset o, for a text that has
\* no tab if b.
GoodList(d, o, b, lines) ==
  /\ lines \in Seq(Entries)
  /\ \A j \in 1 .. Len(lines) : \A i \in 1 .. j : lines[i].first <= lines[j].first
  /\ lines # <<>> => lines[1].first = o
  /\ b /\ Rows(d) # 2 => \A i \in 1 .. Len(lines) - 2 : lines[i].first < lines[i + 2].first
  /\ Rows(d) = 2 => Len(lines) <= 2

\* Where a list can go on with a screen that begins at the offset o.
OpenEnd(d, o, b, lines) ==
  /\ lines # <<>> /\ lines[Len(lines)].first = o
  /\ Rows(d) = 2 => Len(lines) = 1
  /\ b /\ Rows(d) # 2 => Len(lines) > 1 /\ lines[Len(lines) - 1].first < lines[Len(lines)].first

\* The entries of one screen.
LEMMA LineOffsetsIs ==
  ASSUME NEW t \in Seq(Char), NEW m, NEW d, NEW first, NEW scr, ScreenOf(t, m, d, first, scr)
  PROVE  /\ LineOffsets(scr) \in Seq(Entries) /\ Len(LineOffsets(scr)) = Len(scr) /\ Len(scr) \in Nat
         /\ \A l \in 1 .. Len(scr) : /\ LineOffsets(scr)[l].first = scr[l][1].off
                                     /\ LineOffsets(scr)[l].last = Last(scr[l]).off
<1>1. DOMAIN scr = 1 .. Len(scr) /\ Len(scr) \in Nat
  BY DEF ScreenOf, Lines
<1>2. LineOffsets(scr) = [l \in 1 .. Len(scr) |-> [first |-> scr[l][1].off, last |-> Last(scr[l]).off]]
  BY <1>1 DEF LineOffsets
<1>3. ASSUME NEW l \in 1 .. Len(scr)
      PROVE  [first |-> scr[l][1].off, last |-> Last(scr[l]).off] \in Entries
  <2>1. GoodCell(t, m, scr[l][1]) /\ GoodCell(t, m, Last(scr[l]))
    BY LineIs
  <2>2. scr[l][1].off \in Nat /\ Last(scr[l]).off \in Nat
    BY <2>1, CellIs
  <2> QED BY <2>2 DEF Entries
<1>4. LineOffsets(scr) \in [1 .. Len(scr) -> Entries]
  BY <1>2, <1>3
<1>5. LineOffsets(scr) \in Seq(Entries) /\ Len(LineOffsets(scr)) = Len(scr)
  BY <1>1, <1>4
<1> QED
  BY <1>1, <1>2, <1>5

\* One sequence behind another.
LEMMA ConcatIs ==
  ASSUME NEW S, NEW a \in Seq(S), NEW b \in Seq(S)
  PROVE  /\ a \o b \in Seq(S) /\ Len(a \o b) = Len(a) + Len(b)
         /\ \A i \in 1 .. Len(a) : (a \o b)[i] = a[i]
         /\ \A i \in 1 .. Len(b) : (a \o b)[Len(a) + i] = b[i]
         /\ Len(a) \in Nat /\ Len(b) \in Nat
OBVIOUS

\* The list with the lines of the next screen.
LEMMA ListGrows ==
  ASSUME NEW t \in Seq(Char), NEW m, NEW d, NEW first, NEW scr, ScreenOf(t, m, d, first, scr), scr # <<>>,
         NEW o, NEW b, b => NoTab(t), NEW lines, GoodList(d, o, b, lines),
         lines = <<>> => first.off = o,
         lines # <<>> => OpenEnd(d, first.off, b, lines)
  PROVE  GoodList(d, o, b, lines \o LineOffsets(scr))
<1> DEFINE n == Len(lines)
           k == Len(scr)
           O == LineOffsets(scr)
           all == lines \o O
           h(l) == scr[l][1].off
<1>1. /\ lines \in Seq(Entries) /\ n \in Nat /\ (lines = <<>> <=> n = 0)
      /\ O \in Seq(Entries) /\ Len(O) = k /\ k \in Nat \ {0}
      /\ \A l \in 1 .. k : O[l].first = h(l)
  <2>1. lines \in Seq(Entries)
    BY DEF GoodList
  <2>2. k \in Nat \ {0}
    BY ScreenIs
  <2> QED BY <2>1, <2>2, LineOffsetsIs, EmptyIs
<1>2. /\ all \in Seq(Entries) /\ Len(all) = n + k
      /\ \A i \in 1 .. n : all[i] = lines[i]
      /\ \A l \in 1 .. k : all[n + l] = O[l]
  <2>1. lines \in Seq(Entries) /\ O \in Seq(Entries)
    BY <1>1
  <2> HIDE DEF O
  <2>2. /\ lines \o O \in Seq(Entries) /\ Len(lines \o O) = Len(lines) + Len(O)
        /\ \A i \in 1 .. Len(lines) : (lines \o O)[i] = lines[i]
        /\ \A i \in 1 .. Len(O) : (lines \o O)[Len(lines) + i] = O[i]
    BY <2>1, ConcatIs
  <2> QED BY <1>1, <2>2
<1>3. /\ \A j \in 1 .. k : \A i \in 1 .. j : h(i) \in Nat /\ h(i) <= h(j) /\ (b /\ i # j => h(i) < h(j))
  BY HeadOffsets
<1>4. h(1) = first.off
  BY ScreenIs
<1>5. Rows(d) = 2 => k <= 1
  BY DEF ScreenOf
<1>6. /\ \A j \in 1 .. n : \A i \in 1 .. j : lines[i].first <= lines[j].first
      /\ n # 0 => lines[1].first = o
      /\ b /\ Rows(d) # 2 => \A i \in 1 .. n - 2 : lines[i].first < lines[i + 2].first
      /\ n # 0 => /\ lines[n].first = h(1)
                  /\ Rows(d) = 2 => n = 1
                  /\ b /\ Rows(d) # 2 => n > 1 /\ lines[n - 1].first < lines[n].first
      /\ n = 0 => h(1) = o
  BY <1>1, <1>4 DEF GoodList, OpenEnd
<1>7. /\ \A i \in 1 .. n : all[i].first = lines[i].first /\ all[i].first \in Nat
      /\ \A l \in 1 .. k : all[n + l].first = h(l) /\ h(l) \in Nat
  <2>1. \A i \in 1 .. n : lines[i].first \in Nat
    <3>1. \A i \in 1 .. n : lines[i] \in Entries
      BY <1>1
    <3> QED BY <3>1 DEF Entries
  <2>2. \A l \in 1 .. k : l \in 1 .. l
    BY <1>1
  <2> QED BY <1>1, <1>2, <1>3, <2>1, <2>2
<1> HIDE DEF n, k, O, all, h
<1>8. \A j \in 1 .. n + k : j \in 1 .. n \/ (j - n \in 1 .. k /\ n + (j - n) = j)
  BY <1>1
<1>9. 1 \in 1 .. k /\ (n # 0 => n \in 1 .. n)
  BY <1>1
<1>10. ASSUME NEW j \in 1 .. n + k, NEW i \in 1 .. j PROVE all[i].first <= all[j].first
  <2>1. CASE j \in 1 .. n
    <3>1. i \in 1 .. n
      BY <1>1, <2>1
    <3> QED BY <1>6, <1>7, <2>1, <3>1
  <2>2. CASE j \notin 1 .. n /\ i \in 1 .. n
    <3>1. j - n \in 1 .. k /\ n + (j - n) = j /\ n # 0 /\ 1 \in 1 .. j - n
      BY <1>1, <1>8, <2>2
    <3>2. all[j].first = h(j - n) /\ h(1) <= h(j - n) /\ h(j - n) \in Nat /\ h(1) \in Nat
      BY <1>3, <1>7, <1>9, <3>1
    <3>3. all[i].first <= h(1) /\ all[i].first \in Nat
      BY <1>6, <1>7, <1>9, <2>2, <3>1
    <3> QED BY <3>2, <3>3
  <2>3. CASE j \notin 1 .. n /\ i \notin 1 .. n
    <3>1. j - n \in 1 .. k /\ n + (j - n) = j /\ i - n \in 1 .. j - n /\ n + (i - n) = i /\ i - n \in 1 .. k
      BY <1>1, <1>8, <2>3
    <3> QED BY <1>3, <1>7, <3>1
  <2> QED BY <2>1, <2>2, <2>3
<1>11. all # <<>> /\ all[1].first = o
  <2>1. n = 0 => all[1].first = o
    <3>1. n = 0 => n + 1 = 1
      BY <1>1
    <3> QED BY <1>6, <1>7, <1>9, <3>1
  <2>2. n # 0 => 1 \in 1 .. n
    BY <1>1
  <2>3. Len(all) # 0
    BY <1>1, <1>2
  <2> QED BY <1>2, <1>6, <1>7, <2>1, <2>2, <2>3, EmptyIs
<1>12. ASSUME b, Rows(d) # 2, NEW i \in 1 .. n + k - 2 PROVE all[i].first < all[i + 2].first
  <2>1. CASE i + 2 <= n
    <3>1. i \in 1 .. n - 2 /\ i \in 1 .. n /\ i + 2 \in 1 .. n
      BY <1>1, <2>1
    <3> QED BY <1>6, <1>7, <1>12, <3>1
  <2>2. CASE i = n - 1
    <3>1. i \in 1 .. n /\ n # 0 /\ n + 1 = i + 2
      BY <1>1, <2>2
    <3>2. all[i + 2].first = h(1) /\ all[i].first = lines[n - 1].first
      BY <1>7, <1>9, <2>2, <3>1
    <3> QED BY <1>6, <1>12, <3>1, <3>2
  <2>3. CASE i = n
    <3>1. n # 0 /\ n + 2 = i + 2 /\ 2 \in 1 .. k /\ 1 \in 1 .. 2 /\ i \in 1 .. n
      BY <1>1, <2>3
    <3>2. all[i + 2].first = h(2) /\ all[i].first = lines[n].first
      BY <1>7, <2>3, <3>1
    <3>3. h(1) < h(2)
      BY <1>3, <1>12, <3>1
    <3> QED BY <1>6, <3>1, <3>2, <3>3
  <2>4. CASE i > n
    <3>1. i - n \in 1 .. k /\ (i - n) + 2 \in 1 .. k /\ i - n \in 1 .. (i - n) + 2 /\ i - n # (i - n) + 2
          /\ n + (i - n) = i /\ n + ((i - n) + 2) = i + 2
      BY <1>1, <2>4
    <3>2. all[i].first = h(i - n) /\ all[i + 2].first = h((i - n) + 2)
      BY <1>7, <3>1
    <3>3. h(i - n) < h((i - n) + 2)
      BY <1>3, <1>12, <3>1
    <3> QED BY <3>2, <3>3
  <2> QED BY <1>1, <2>1, <2>2, <2>3, <2>4
<1>13. Rows(d) = 2 => n + k <= 2
  BY <1>1, <1>5, <1>6 DEF k
<1>14. GoodList(d, o, b, all)
  <2>1. Len(all) = n + k /\ all \in Seq(Entries)
    BY <1>2
  <2>2. \A j \in 1 .. Len(all) : \A i \in 1 .. j : all[i].first <= all[j].first
    BY <1>10, <2>1
  <2>3. b /\ Rows(d) # 2 => \A i \in 1 .. Len(all) - 2 : all[i].first < all[i + 2].first
    <3>1. ASSUME b, Rows(d) # 2, NEW i \in 1 .. Len(all) - 2 PROVE all[i].first < all[i + 2].first
      <4>1. i \in 1 .. n + k - 2
        <5>1. Len(all) - 2 = n + k - 2
          BY <1>1, <2>1
        <5>2. i \in 1 .. Len(all) - 2
          BY <3>1
        <5> QED BY <5>1, <5>2, Zenon
      <4> QED BY <1>12, <3>1, <4>1
    <3> QED BY <3>1
  <2>4. Rows(d) = 2 => Len(all) <= 2
    BY <1>13, <2>1
  <2> QED BY <1>11, <2>1, <2>2, <2>3, <2>4 DEF GoodList
<1> QED
  BY <1>14 DEF all, O

\* The buffer without tabs, and where the first screen of a page up begins.
Untabbed == NoTab(text)

\* A page up may look for "until" from at0 on.
Ready(at0, until) ==
  /\ text \in Seq(Char) /\ IsDim(dim)
  /\ at0 \in Positions /\ at0.index < Expansion
  /\ until \in Nat /\ until <= Len(text) /\ at0.off <= until
  /\ at0.off < Len(text) => at0.off < until

Origin(at0) == FirstOf(text, mark, at0).off

\* The list after k screens, when the offset is further down: the next start is
\* a cell, and each screen has moved it down by one cell at least.
Searching(at0, until, k, list) ==
  /\ list.fault = "searching"
  /\ GoodList(dim, Origin(at0), Untabbed, list.lines)
  /\ k = 0 => list.start = at0 /\ list.lines = <<>>
  /\ k # 0 => \E c : /\ GoodCell(text, mark, c) /\ list.start = StartAt(c)
                     /\ c.off < until /\ k - 1 <= Rank(c)
                     /\ OpenEnd(dim, c.off, Untabbed, list.lines)
                     /\ Rows(dim) = 2 => k = 1

\* The list when the search has ended.
SearchEnds(at0, until, list) ==
  /\ list.fault \in {"none", "overflow", "unused_cell", "no_progress"}
  /\ list.fault = "overflow" => at0.off < Len(text) /\ text[at0.off + 1] = "tab"
  /\ list.fault = "unused_cell" => Rows(dim) = 1 \/ Cols(dim) = 1
  /\ list.fault = "no_progress" => Rows(dim) = 2 /\ Cols(dim) # 1
  /\ list.fault = "none" =>
       /\ GoodList(dim, Origin(at0), Untabbed, list.lines)
       /\ \E n \in DOMAIN list.lines : list.lines[n].first <= until /\ until <= list.lines[n].last

\* Where the next screen of a search starts.
LEMMA SearchStart ==
  ASSUME NEW at0, NEW until, Ready(at0, until), NEW k \in Nat, NEW list, Searching(at0, until, k, list),
         ~Overflows(text, list.start)
  PROVE  /\ GoodStart(text, list.start) /\ list.start.off <= Len(text)
         /\ FirstOf(text, mark, list.start).off <= until
         /\ list.lines = <<>> => FirstOf(text, mark, list.start).off = Origin(at0)
         /\ list.lines # <<>> => OpenEnd(dim, FirstOf(text, mark, list.start).off, Untabbed, list.lines)
<1> DEFINE f == FirstOf(text, mark, list.start)
<1>1. text \in Seq(Char) /\ Len(text) \in Nat /\ until \in Nat /\ until <= Len(text)
      /\ at0 \in Positions /\ at0.off \in Nat /\ at0.index < Expansion /\ at0.off <= until
      /\ (at0.off < Len(text) => at0.off < until)
  BY DEF Ready, Positions
<1>2. CASE k = 0
  <2>1. list.start = at0 /\ list.lines = <<>>
    BY <1>2 DEF Searching
  <2>2. GoodStart(text, at0)
    BY <1>1, <2>1 DEF GoodStart
  <2>3. f.off = at0.off \/ (f.off = at0.off + 1 /\ at0.off < Len(text))
    <3>1. at0.off <= Len(text)
      BY <1>1
    <3> QED BY <1>1, <2>1, <2>2, <3>1, FirstFrom
  <2>4. f.off <= until
    BY <1>1, <2>3
  <2>5. f.off = Origin(at0)
    BY <2>1 DEF Origin
  <2>6. list.start.off <= Len(text)
    BY <1>1, <2>1
  <2> QED BY <2>1, <2>2, <2>4, <2>5, <2>6
<1>3. CASE k # 0
  <2>1. PICK c : /\ GoodCell(text, mark, c) /\ list.start = StartAt(c) /\ c.off < until
                 /\ OpenEnd(dim, c.off, Untabbed, list.lines)
    BY <1>3 DEF Searching
  <2>2. GoodStart(text, list.start) /\ list.start.off = c.off /\ f.off = c.off
    BY <1>1, <2>1, StartAtIs
  <2>3. c.off \in Nat
    BY <2>1, CellIs
  <2>4. c.off <= Len(text) /\ f.off <= until
    BY <1>1, <2>1, <2>2, <2>3
  <2>5. list.lines # <<>>
    BY <2>1 DEF OpenEnd
  <2> QED BY <2>1, <2>2, <2>4, <2>5
<1> QED
  BY <1>2, <1>3

\* A search that goes on has moved its start down, and has found all of the
\* screen's lines full.
LEMMA SearchMoves ==
  ASSUME NEW at0, NEW until, Ready(at0, until), NEW k \in Nat, NEW list, Searching(at0, until, k, list),
         ~Overflows(text, list.start),
         NEW scr, ScreenOf(text, mark, dim, FirstOf(text, mark, list.start), scr), scr # <<>>,
         LastCell(scr).off < until
  PROVE  /\ Len(scr) = Rows(dim) - 1
         /\ Len(scr) = 1 => Cols(dim) # 1
         /\ Len(scr) # 1 => LastLineStart(scr) # list.start
         /\ LastLineStart(scr) # list.start =>
              k <= Rank(Last(scr)[1]) /\ (Len(scr) = 1 => k = 0)
<1> DEFINE f == FirstOf(text, mark, list.start)
           h == Last(scr)[1]
<1>1. /\ text \in Seq(Char) /\ Len(text) \in Nat /\ until \in Nat /\ until <= Len(text) /\ IsDim(dim)
  BY DEF Ready
<1>2. GoodStart(text, list.start) /\ list.start.off <= Len(text)
  BY SearchStart
<1>3. /\ Len(scr) \in Nat \ {0} /\ GoodCell(text, mark, f) /\ GoodCell(text, mark, h)
      /\ GoodCell(text, mark, LastCell(scr)) /\ scr[1][1] = f /\ Last(scr) = scr[Len(scr)]
      /\ f.off <= LastCell(scr).off
      /\ Rank(f) <= Rank(h) /\ (Len(scr) # 1 => Rank(f) < Rank(h))
      /\ LastCell(scr).ch = "end" => LastCell(scr).off = Len(text)
  BY <1>1, ScreenIs
<1>4. /\ f.off \in Nat /\ LastCell(scr).off \in Nat /\ Rank(f) \in Nat /\ Rank(h) \in Nat
  BY <1>3, CellIs
<1>5. LastCell(scr).ch # "end"
  BY <1>1, <1>3, <1>4
<1>6. Len(scr) = Rows(dim) - 1
  BY <1>5 DEF ScreenOf
<1>7. Cols(dim) # 1
  <2>1. 1 \in 1 .. Len(scr)
    BY <1>3
  <2>2. Len(scr[1]) \in Nat \ {0} /\ Len(scr[1]) <= Cols(dim) - 1
    BY <2>1, LineIs DEF ScreenOf
  <2>3. Cols(dim) \in Nat
    BY <1>1, DimIs
  <2> QED BY <2>2, <2>3
<1>8. Len(scr) # 1 => LastLineStart(scr) # list.start
  BY <1>1, <1>2, LastLineMoves
<1>9. ASSUME LastLineStart(scr) # list.start, k # 0 PROVE k <= Rank(h) /\ Len(scr) # 1
  <2>1. PICK c : GoodCell(text, mark, c) /\ list.start = StartAt(c) /\ k - 1 <= Rank(c)
    BY <1>9 DEF Searching
  <2>2. f.off = c.off /\ f.split = c.split /\ (c.off < Len(text) => f.index = c.index)
    BY <1>1, <2>1, StartAtIs
  <2>3. Rank(f) = Rank(c)
    BY <2>2 DEF Rank
  <2>4. Len(scr) # 1
    <3>1. ASSUME Len(scr) = 1 PROVE FALSE
      <4>1. h = f
        BY <1>3, <3>1
      <4>2. c.off < Len(text)
        BY <1>1, <1>3, <1>4, <2>2
      <4>3. LastLineStart(scr) = Start(c.off, c.split, c.index)
        BY <2>2, <4>1, <4>2 DEF LastLineStart
      <4> QED BY <1>9, <2>1, <4>3 DEF StartAt
    <3> QED BY <3>1
  <2>5. Rank(c) < Rank(h)
    BY <1>3, <2>3, <2>4
  <2> QED BY <1>4, <2>1, <2>3, <2>4, <2>5
<1>10. k = 0 => k <= Rank(h)
  BY <1>4
<1> QED
  BY <1>6, <1>7, <1>8, <1>9, <1>10

\* The entries of the list with one more screen.
LEMMA AllIs ==
  ASSUME NEW t \in Seq(Char), NEW m, NEW d, NEW first, NEW scr, ScreenOf(t, m, d, first, scr),
         NEW lines \in Seq(Entries)
  PROVE  /\ lines \o LineOffsets(scr) \in Seq(Entries)
         /\ Len(lines) \in Nat /\ Len(scr) \in Nat
         /\ Len(lines \o LineOffsets(scr)) = Len(lines) + Len(scr)
         /\ \A l \in 1 .. Len(scr) :
              /\ Len(lines) + l \in DOMAIN (lines \o LineOffsets(scr))
              /\ (lines \o LineOffsets(scr))[Len(lines) + l].first = scr[l][1].off
              /\ (lines \o LineOffsets(scr))[Len(lines) + l].last = Last(scr[l]).off
<1> DEFINE O == LineOffsets(scr)
           n == Len(lines)
           k == Len(scr)
           all == lines \o O
<1>1. /\ O \in Seq(Entries) /\ Len(O) = k /\ k \in Nat
      /\ \A l \in 1 .. k : O[l].first = scr[l][1].off /\ O[l].last = Last(scr[l]).off
  BY LineOffsetsIs
<1> HIDE DEF O, k
<1>2. /\ all \in Seq(Entries) /\ Len(all) = n + k /\ n \in Nat
      /\ \A l \in 1 .. k : all[n + l] = O[l]
  <2>1. /\ all \in Seq(Entries) /\ Len(all) = Len(lines) + Len(O) /\ Len(lines) \in Nat
        /\ \A i \in 1 .. Len(O) : all[Len(lines) + i] = O[i]
    BY <1>1, ConcatIs
  <2> QED BY <1>1, <2>1
<1> HIDE DEF all, n
<1>3. \A l \in 1 .. k : n + l \in 1 .. n + k
  BY <1>1, <1>2
<1>4. DOMAIN all = 1 .. n + k
  BY <1>2
<1>5. \A l \in 1 .. k : /\ n + l \in DOMAIN all
                        /\ all[n + l].first = scr[l][1].off /\ all[n + l].last = Last(scr[l]).off
  BY <1>1, <1>2, <1>3, <1>4
<1> QED
  BY <1>1, <1>2, <1>5 DEF all, n, k, O

\* One more screen of a search.
LEMMA NextScreenKeeps ==
  ASSUME NEW at0, NEW until, Ready(at0, until), NEW k \in Nat, NEW list, Searching(at0, until, k, list)
  PROVE  \/ Searching(at0, until, k + 1, NextScreen(list, until))
         \/ SearchEnds(at0, until, NextScreen(list, until))
<1> DEFINE at == list.start
           scr == Layout(text, at, mark, dim)
           all == list.lines \o LineOffsets(scr)
           next == NextScreen(list, until)
           f == FirstOf(text, mark, at)
           h == Last(scr)[1]
<1>1. /\ text \in Seq(Char) /\ Len(text) \in Nat /\ until \in Nat /\ until <= Len(text) /\ IsDim(dim)
      /\ list.fault = "searching"
  BY DEF Ready, Searching
<1>2. CASE Overflows(text, at)
  <2>1. next.fault = "overflow"
    BY <1>1, <1>2 DEF NextScreen
  <2>2. k = 0
    <3>1. ASSUME k # 0 PROVE FALSE
      <4>1. PICK c : GoodCell(text, mark, c) /\ at = StartAt(c)
        BY <3>1 DEF Searching
      <4>2. GoodStart(text, at)
        BY <1>1, <4>1, StartAtIs
      <4> QED BY <1>2, <4>2 DEF GoodStart
    <3> QED BY <3>1
  <2>3. at = at0
    BY <2>2 DEF Searching
  <2>4. at0.off < Len(text) /\ text[at0.off + 1] = "tab"
    BY <1>2, <2>3 DEF Overflows
  <2>5. SearchEnds(at0, until, next)
    BY <2>1, <2>4 DEF SearchEnds
  <2> QED BY <2>5
<1>3. CASE ~Overflows(text, at)
  <2>1. /\ GoodStart(text, at) /\ f.off <= until
        /\ list.lines = <<>> => f.off = Origin(at0)
        /\ list.lines # <<>> => OpenEnd(dim, f.off, Untabbed, list.lines)
    BY <1>3, SearchStart
  <2>2. ScreenOf(text, mark, dim, f, scr)
    BY <1>1, <2>1, LayoutIs
  <2>3. CASE scr = <<>>
    <3>1. next.fault = "unused_cell"
      BY <1>1, <1>3, <2>3 DEF NextScreen
    <3>2. Rows(dim) = 1 \/ Cols(dim) = 1
      BY <2>2, <2>3 DEF ScreenOf
    <3>3. SearchEnds(at0, until, next)
      BY <3>1, <3>2 DEF SearchEnds
    <3> QED BY <3>3
  <2>4. CASE scr # <<>>
    <3>1. GoodList(dim, Origin(at0), Untabbed, all)
      <4>1. GoodList(dim, Origin(at0), Untabbed, list.lines)
        BY DEF Searching
      <4>2. Untabbed => NoTab(text)
        BY DEF Untabbed
      <4> HIDE DEF scr, f, at
      <4> QED BY <1>1, <2>1, <2>2, <2>4, <4>1, <4>2, ListGrows
    <3>2. FirstCell(scr) = f
      BY <1>1, <2>2, <2>4, ScreenIs
    <3>3. CASE HasLineOf(scr, until)
      <4>1. next = [start |-> at, lines |-> all, fault |-> "none"]
        BY <1>1, <1>3, <2>4, <3>3 DEF NextScreen
      <4>2. next.fault = "none" /\ next.lines = all
        <5> HIDE DEF next, all, at
        <5> QED BY <4>1
      <4>3. PICK l \in 1 .. Len(scr) : scr[l][1].off <= until /\ until <= Last(scr[l]).off
        BY <1>1, <2>2, <3>3, ShownIsInALine
      <4>4. list.lines \in Seq(Entries)
        BY DEF Searching, GoodList
      <4>5. /\ Len(list.lines) + l \in DOMAIN all
            /\ all[Len(list.lines) + l].first = scr[l][1].off
            /\ all[Len(list.lines) + l].last = Last(scr[l]).off
        <5> HIDE DEF scr, f
        <5> QED BY <1>1, <2>2, <4>4, AllIs
      <4>8. \E n \in DOMAIN all : all[n].first <= until /\ until <= all[n].last
        <5> HIDE DEF all, scr
        <5> QED BY <4>3, <4>5
      <4>9. SearchEnds(at0, until, next)
        <5> HIDE DEF next, all
        <5> QED BY <3>1, <4>2, <4>8 DEF SearchEnds
      <4> QED BY <4>9
    <3>4. CASE ~HasLineOf(scr, until)
      <4>1. ~ContainsOffset(scr, until)
        BY <1>1, <2>2, <2>4, <3>4, ContainedIsShown
      <4>2. GoodCell(text, mark, f) /\ GoodCell(text, mark, LastCell(scr)) /\ GoodCell(text, mark, h)
            /\ h.off <= LastCell(scr).off /\ Last(scr) = scr[Len(scr)] /\ Len(scr) \in Nat \ {0}
        BY <1>1, <2>2, <2>4, ScreenIs
      <4>3. f.off \in Nat /\ LastCell(scr).off \in Nat /\ h.off \in Nat
        BY <4>2, CellIs
      <4>4. LastCell(scr).off < until
        BY <1>1, <2>1, <3>2, <4>1, <4>3 DEF ContainsOffset
      <4>5. ~(until < FirstCell(scr).off)
        BY <1>1, <2>1, <3>2, <4>3
      <4>6. /\ Len(scr) = Rows(dim) - 1
            /\ Len(scr) = 1 => Cols(dim) # 1
            /\ Len(scr) # 1 => LastLineStart(scr) # at
            /\ LastLineStart(scr) # at => k <= Rank(h) /\ (Len(scr) = 1 => k = 0)
        BY <1>3, <2>2, <2>4, <4>4, SearchMoves
      <4>7. CASE LastLineStart(scr) = at
        <5>1. next.fault = "no_progress"
          BY <1>1, <1>3, <2>4, <3>4, <4>1, <4>5, <4>7 DEF NextScreen
        <5>2. Rows(dim) = 2 /\ Cols(dim) # 1
          <6>1. Rows(dim) \in Nat
            BY <1>1, DimIs
          <6> QED BY <4>6, <4>7, <6>1
        <5>3. SearchEnds(at0, until, next)
          BY <5>1, <5>2 DEF SearchEnds
        <5> QED BY <5>3
      <4>8. CASE LastLineStart(scr) # at
        <5>1. next = [start |-> LastLineStart(scr), lines |-> all, fault |-> "searching"]
          BY <1>1, <1>3, <2>4, <3>4, <4>1, <4>5, <4>8 DEF NextScreen
        <5>2. next.fault = "searching" /\ next.lines = all /\ next.start = StartAt(h)
          <6>1. LastLineStart(scr) = StartAt(h)
            BY DEF LastLineStart, StartAt
          <6> HIDE DEF next, all, h, scr
          <6> QED BY <5>1, <6>1
        <5>3. OpenEnd(dim, h.off, Untabbed, all)
          <6> DEFINE n == Len(list.lines)
                     j == Len(scr)
          <6>1. j \in Nat \ {0}
            BY <4>2
          <6>2. list.lines \in Seq(Entries) /\ (list.lines = <<>> <=> n = 0)
            <7>1. list.lines \in Seq(Entries)
              BY DEF Searching, GoodList
            <7> QED BY <7>1, EmptyIs
          <6>3. /\ all \in Seq(Entries) /\ Len(all) = n + j /\ n \in Nat
                /\ \A l \in 1 .. j : all[n + l].first = scr[l][1].off
            <7>1. list.lines \in Seq(Entries)
              BY <6>2
            <7> HIDE DEF scr, f
            <7> QED BY <1>1, <2>2, <7>1, AllIs
          <6>4. h = scr[j][1]
            BY <4>2
          <6>5. Rows(dim) \in Nat /\ j = Rows(dim) - 1 /\ (j = 1 => k = 0)
            BY <1>1, <4>6, <4>8, DimIs
          <6>6. k = 0 => n = 0
            BY <6>2 DEF Searching
          <6>7. ASSUME NoTab(text), j # 1
                PROVE  j - 1 \in 1 .. j /\ scr[j - 1][1].off < scr[j][1].off
            <7>1. j \in 1 .. j /\ j - 1 \in 1 .. j /\ j - 1 # j
              <8> HIDE DEF j
              <8> QED BY <6>1, <6>7
            <7> QED BY <1>1, <2>2, <6>7, <7>1, HeadOffsets
          <6> HIDE DEF n, j, all, scr
          <6>8. all[n + j].first = h.off /\ all # <<>>
            <7>1. j \in 1 .. j /\ n + j # 0
              BY <6>1, <6>3
            <7>2. all # <<>>
              BY <6>3, <7>1, EmptyIs
            <7> QED BY <6>1, <6>3, <6>4, <7>1, <7>2
          <6>9. Rows(dim) = 2 => n + j = 1
            BY <6>1, <6>3, <6>5, <6>6
          <6>10. ASSUME Untabbed, Rows(dim) # 2
                 PROVE  n + j > 1 /\ all[n + j - 1].first < all[n + j].first
            <7>1. j # 1 /\ NoTab(text)
              BY <6>5, <6>10 DEF Untabbed
            <7>2. j - 1 \in 1 .. j /\ scr[j - 1][1].off < scr[j][1].off
              BY <6>7, <7>1
            <7>3. j \in 1 .. j /\ n + (j - 1) = n + j - 1 /\ n + j > 1
              BY <6>1, <6>3, <7>1
            <7>4. all[n + (j - 1)].first = scr[j - 1][1].off /\ all[n + j].first = scr[j][1].off
              BY <6>1, <6>3, <7>2, <7>3
            <7> QED BY <7>2, <7>3, <7>4
          <6>11. /\ all[Len(all)].first = h.off
                 /\ Rows(dim) = 2 => Len(all) = 1
                 /\ Untabbed /\ Rows(dim) # 2 =>
                      Len(all) > 1 /\ all[Len(all) - 1].first < all[Len(all)].first
            <7>1. Len(all) = n + j
              BY <6>3
            <7>2. all[Len(all)].first = h.off
              BY <6>8, <7>1
            <7>3. Rows(dim) = 2 => Len(all) = 1
              BY <6>9, <7>1
            <7>4. ASSUME Untabbed, Rows(dim) # 2
                  PROVE  Len(all) > 1 /\ all[Len(all) - 1].first < all[Len(all)].first
              <8>1. n + j > 1 /\ all[n + j - 1].first < all[n + j].first
                BY <6>10, <7>4
              <8>2. Len(all) - 1 = n + j - 1
                BY <6>1, <6>3, <7>1
              <8> QED BY <7>1, <8>1, <8>2, Zenon
            <7> QED BY <7>2, <7>3, <7>4
          <6> QED BY <6>8, <6>11 DEF OpenEnd
        <5>4. Rows(dim) = 2 => k + 1 = 1
          <6>1. Rows(dim) = 2 => Len(scr) = 1
            BY <4>6
          <6> QED BY <4>6, <4>8, <6>1
        <5>5. h.off < until /\ (k + 1) - 1 <= Rank(h)
          <6>1. (k + 1) - 1 = k
            OBVIOUS
          <6> QED BY <1>1, <4>2, <4>3, <4>4, <4>6, <4>8, <6>1
        <5>6. Searching(at0, until, k + 1, next)
          <6>1. k + 1 # 0
            OBVIOUS
          <6> HIDE DEF next, all, h
          <6> QED BY <3>1, <4>2, <5>2, <5>3, <5>4, <5>5, <6>1 DEF Searching
        <5> QED BY <5>6
      <4> QED BY <4>7, <4>8
    <3> QED BY <3>3, <3>4
  <2> QED BY <2>3, <2>4
<1> QED
  BY <1>2, <1>3

\* A set of numbers has a least one.
LEMMA MinIsThere ==
  ASSUME NEW S \in SUBSET Nat, S # {}
  PROVE  Min(S) \in S /\ \A y \in S : Min(S) <= y
<1> DEFINE R == OpToRel(<, Nat)
<1>1. IsWellFoundedOn(R, Nat)
  BY NatLessThanWellFounded
<1>2. PICK x \in S : \A y \in S : <<y, x>> \notin R
  <2>1. S \subseteq Nat
    OBVIOUS
  <2> HIDE DEF R
  <2> QED BY <1>1, <2>1, WFMin
<1>3. ASSUME NEW y \in S PROVE x <= y
  <2>1. x \in Nat /\ y \in Nat
    OBVIOUS
  <2>2. y < x => <<y, x>> \in R
    BY <2>1 DEF OpToRel
  <2> HIDE DEF R
  <2> QED BY <1>2, <2>1, <2>2
<1>4. \E z \in S : \A y \in S : z <= y
  BY <1>3
<1>5. Min(S) = CHOOSE z \in S : \A y \in S : z <= y
  BY DEF Min
<1> QED
  BY <1>4, <1>5

\* A set of numbers up to a bound has a greatest one.
LEMMA MaxIsThere ==
  ASSUME NEW n \in Nat, NEW S \in SUBSET (0 .. n), S # {}
  PROVE  Max(S) \in S /\ \A y \in S : Max(S) >= y
<1> DEFINE T == {n - x : x \in S}
<1>0. \A x \in S : x \in Nat /\ n - x \in Nat
  OBVIOUS
<1>1. T \in SUBSET Nat /\ T # {}
  BY <1>0
<1>2. Min(T) \in T /\ \A y \in T : Min(T) <= y
  <2> HIDE DEF T
  <2> QED BY <1>1, MinIsThere
<1>3. PICK x \in S : Min(T) = n - x
  BY <1>2
<1>4. \A y \in S : n - y \in T
  OBVIOUS
<1>5. \A y \in S : x >= y
  BY <1>2, <1>3, <1>4
<1> QED
  BY <1>5 DEF Max

\* A search that has ended stays so.
LEMMA NextScreenEnds ==
  ASSUME NEW at0, NEW until, NEW list, SearchEnds(at0, until, list)
  PROVE  NextScreen(list, until) = list
<1>1. list.fault # "searching"
  BY DEF SearchEnds
<1> QED
  BY <1>1 DEF NextScreen

\* A search always ends.
LEMMA LineListIs ==
  ASSUME NEW at0, NEW until, Ready(at0, until)
  PROVE  SearchEnds(at0, until, LineList(at0, until))
<1> DEFINE n == Len(text)
           N == MaxScreens
<1>1. text \in Seq(Char) /\ n \in Nat /\ Expansion \in Nat \ {0} /\ until \in Nat /\ until <= n
  BY LayoutAssumption DEF Ready
<1>2. N \in Nat /\ N = (n + 1) * Expansion + 1 /\ (n + 1) * Expansion \in Nat
  <2>1. n + 1 \in Nat /\ Expansion * (n + 1) = (n + 1) * Expansion /\ (n + 1) * Expansion \in Nat
    BY <1>1, MulNext
  <2> QED BY <2>1 DEF MaxScreens
<1>3. PICK f : /\ LineList(at0, until) = f[N]
               /\ f[0] = NewList(at0)
               /\ \A k \in 0 .. N - 1 : f[k + 1] = NextScreen(f[k], until)
  BY <1>2, ScreensAre
<1> HIDE DEF N, n
<1> DEFINE S == {k \in 0 .. N : SearchEnds(at0, until, f[k]) \/ Searching(at0, until, k, f[k])}
<1>4. 0 \in S
  <2> DEFINE new == NewList(at0)
             e == <<>>
  <2>1. new.start = at0 /\ new.lines = e /\ new.fault = "searching"
    BY DEF NewList
  <2>2. e \in Seq(Entries) /\ Len(e) = 0 /\ e = <<>>
    OBVIOUS
  <2> HIDE DEF new, e
  <2>3. 1 .. Len(e) = {} /\ 1 .. Len(e) - 2 = {} /\ Len(e) <= 2
    BY <2>2
  <2>4. GoodList(dim, Origin(at0), Untabbed, e)
    BY <2>2, <2>3 DEF GoodList
  <2>5. Searching(at0, until, 0, new)
    BY <2>1, <2>2, <2>4 DEF Searching
  <2>6. 0 \in 0 .. N
    BY <1>2
  <2> QED BY <1>3, <2>5, <2>6 DEF new
<1>5. ASSUME NEW k \in 0 .. N - 1, k \in S PROVE k + 1 \in S
  <2>1. k + 1 \in 0 .. N /\ k \in Nat
    BY <1>2
  <2>2. f[k + 1] = NextScreen(f[k], until)
    BY <1>3
  <2>3. SearchEnds(at0, until, f[k]) => f[k + 1] = f[k]
    BY <2>2, NextScreenEnds
  <2>4. Searching(at0, until, k, f[k]) =>
          SearchEnds(at0, until, f[k + 1]) \/ Searching(at0, until, k + 1, f[k + 1])
    BY <2>1, <2>2, NextScreenKeeps
  <2> QED BY <1>5, <2>1, <2>3, <2>4
<1>6. N \in S
  <2>1. N \in 0 .. N
    BY <1>2
  <2> HIDE DEF S
  <2> QED BY <1>2, <1>4, <1>5, <2>1, UpToInduction
<1>7. ~Searching(at0, until, N, f[N])
  <2>1. ASSUME Searching(at0, until, N, f[N]) PROVE FALSE
    <3>1. N # 0
      BY <1>2
    <3>2. PICK c : GoodCell(text, mark, c) /\ c.off < until /\ N - 1 <= Rank(c)
      BY <2>1, <3>1 DEF Searching
    <3>3. /\ c.off \in Nat /\ c.split \in Nat /\ c.split < Expansion /\ Rank(c) \in Nat
      BY <3>2, CellIs
    <3>4. /\ (c.off + 1) * Expansion = c.off * Expansion + Expansion /\ c.off * Expansion \in Nat
      BY <1>1, <3>3, MulNext
    <3>5. (c.off + 1) * Expansion <= (n + 1) * Expansion
      <4>1. c.off + 1 <= n + 1 /\ c.off + 1 \in Nat /\ n + 1 \in Nat
        BY <1>1, <3>2, <3>3
      <4> QED BY <1>1, <4>1, MulMono
    <3>6. Rank(c) = c.off * Expansion + c.split
      BY DEF Rank
    <3> QED BY <1>1, <1>2, <3>2, <3>3, <3>4, <3>5, <3>6
  <2> QED BY <2>1
<1> QED
  BY <1>3, <1>6, <1>7

-----------------------------------------------------------------------------
(* Where a page up goes.                                                    *)

\* The start of a layout at an offset.
LEMMA StartIs ==
  ASSUME NEW o \in Nat
  PROVE  /\ Start(o, 0, ResetIndex) \in Positions /\ Start(o, 0, ResetIndex).off = o
         /\ Start(o, 0, ResetIndex).split < Expansion /\ Start(o, 0, ResetIndex).index < Expansion
<1>1. Expansion \in Nat \ {0}
  BY LayoutAssumption
<1>2. Expansion - 1 \in Nat /\ Expansion - 1 < Expansion /\ 0 < Expansion
  BY <1>1
<1> QED
  BY <1>2 DEF Start, ResetIndex, Positions

\* The step back is to the top of the list, or over more than a screen of lines.
LEMMA StepBackIs ==
  ASSUME IsDim(dim), NEW n \in Nat \ {0}
  PROVE  /\ StepBack(n) \in 1 .. n
         /\ StepBack(n) = 1 \/ (StepBack(n) + (Rows(dim) + 1) = n /\ Rows(dim) + 2 <= n)
<1>1. Rows(dim) \in Nat \ {0}
  BY DimIs
<1>2. StepBack(n) = IF n - 1 >= Rows(dim) + 1 THEN n - (Rows(dim) + 1) ELSE 1
  BY DEF StepBack
<1> QED
  BY <1>1, <1>2

\* The line a page up starts from, some lines above one that begins at or
\* above the offset c.
LEMMA LineAbove ==
  ASSUME IsDim(dim), NEW o, NEW b, NEW lines, GoodList(dim, o, b, lines), NEW c \in Nat,
         NEW n \in 1 .. Len(lines), lines[n].first <= c
  PROVE  /\ lines[StepBack(n)].first \in Nat /\ lines[StepBack(n)].first <= c
         /\ b /\ o < c => lines[StepBack(n)].first < c
<1> DEFINE k == StepBack(n)
           r == Rows(dim)
<1>1. Len(lines) \in Nat /\ lines \in Seq(Entries) /\ n \in Nat \ {0} /\ r \in Nat \ {0}
  <2>1. lines \in Seq(Entries)
    BY DEF GoodList
  <2>2. Len(lines) \in Nat
    BY <2>1
  <2> QED BY <2>1, <2>2, DimIs
<1>2. k \in 1 .. n /\ (k = 1 \/ (k + (r + 1) = n /\ r + 2 <= n))
  BY <1>1, StepBackIs
<1>3. \A i \in 1 .. Len(lines) : lines[i].first \in Nat
  <2>1. \A i \in 1 .. Len(lines) : lines[i] \in Entries
    BY <1>1
  <2> QED BY <2>1 DEF Entries
<1>4. /\ \A j \in 1 .. Len(lines) : \A i \in 1 .. j : lines[i].first <= lines[j].first
      /\ lines # <<>> => lines[1].first = o
      /\ b /\ r # 2 => \A i \in 1 .. Len(lines) - 2 : lines[i].first < lines[i + 2].first
      /\ r = 2 => Len(lines) <= 2
  BY DEF GoodList
<1>5. lines # <<>>
  BY <1>1, EmptyIs
<1> HIDE DEF k, r
<1>6. k \in 1 .. Len(lines) /\ k \in Nat /\ lines[k].first <= lines[n].first
  BY <1>1, <1>2, <1>4
<1>7. lines[k].first \in Nat /\ lines[n].first \in Nat
  BY <1>3, <1>6
<1>8. lines[k].first <= c
  BY <1>6, <1>7
<1>9. ASSUME b, o < c PROVE lines[k].first < c
  <2>1. CASE k = 1
    BY <1>4, <1>5, <1>9, <2>1
  <2>2. CASE k # 1
    <3>1. k + (r + 1) = n /\ r + 2 <= n
      BY <1>2, <2>2
    <3>2. r # 2
      BY <1>1, <1>4, <3>1
    <3>3. k \in 1 .. Len(lines) - 2 /\ k + 2 \in 1 .. n /\ k + 2 \in 1 .. Len(lines)
      BY <1>1, <1>6, <3>1
    <3>4. lines[k].first < lines[k + 2].first
      BY <1>4, <1>9, <3>2, <3>3
    <3>5. lines[k + 2].first <= lines[n].first /\ lines[k + 2].first \in Nat
      BY <1>3, <1>4, <3>3
    <3> QED BY <1>7, <3>4, <3>5
  <2> QED BY <2>1, <2>2
<1> QED
  BY <1>7, <1>8, <1>9 DEF k

\* A page up begins above the old start.
LEMMA RewindIs ==
  ASSUME IsDim(dim), NEW o \in Nat
  PROVE  /\ Rewind(o) \in Nat /\ (o # 0 => Rewind(o) < o)
         /\ 2 * Rows(dim) * Cols(dim) \in Nat
         /\ Rewind(o) # 0 => o = Rewind(o) + 2 * Rows(dim) * Cols(dim)
<1> DEFINE r == Rows(dim)
           c == Cols(dim)
           p == 2 * Rows(dim) * Cols(dim)
<1>1. r \in Nat \ {0} /\ c \in Nat \ {0}
  BY DimIs
<1>2. p \in Nat /\ p >= 1
  <2>1. 2 * r \in Nat /\ 1 <= 2 * r /\ c \in Nat
    BY <1>1
  <2>2. 1 * c <= (2 * r) * c
    <3> DEFINE q == 2 * r
    <3>1. q \in Nat /\ 1 <= q
      BY <2>1
    <3> HIDE DEF q
    <3>2. 1 * c <= q * c
      BY <1>1, <3>1, MulMono
    <3> QED BY <3>2 DEF q
  <2>3. (2 * r) * c \in Nat
    BY <2>1
  <2>4. p = (2 * r) * c /\ 1 * c = c
    BY <1>1
  <2> HIDE DEF r, c, p
  <2> QED BY <1>1, <2>2, <2>3, <2>4
<1>3. Rewind(o) = IF p >= o THEN 0 ELSE o - p
  BY DEF Rewind
<1> HIDE DEF p
<1>4. /\ Rewind(o) \in Nat /\ (o # 0 => Rewind(o) < o)
      /\ Rewind(o) # 0 => o = Rewind(o) + p
  BY <1>2, <1>3
<1> QED
  BY <1>2, <1>4 DEF p

\* The types of the variables; a start has at least one cell.
ViewTypes ==
  /\ text \in Seq(Char)
  /\ mark \in Nat
  /\ IsDim(dim)
  /\ cpi \in Positions /\ cpi.split < Expansion /\ cpi.index < Expansion

\* The parts of a page up, named.
Until == IF cpi.off > Len(text) THEN Len(text) ELSE cpi.off

RewoundStart(g) == Start(Rewind(cpi.off), g.split, g.index)

Listed(g) == LineList(RewoundStart(g), Until)

LinesShowing(g) ==
  {n \in DOMAIN Listed(g).lines : Listed(g).lines[n].first <= cpi.off /\ cpi.off <= Listed(g).lines[n].last}

\* A page up that does not begin behind the text may look for its start.
LEMMA ReadyIs ==
  ASSUME ViewTypes, cpi.off # 0, NEW g \in Garbage, ~(Rewind(cpi.off) > Until)
  PROVE  /\ Ready(RewoundStart(g), Until) /\ RewoundStart(g).off = Rewind(cpi.off)
         /\ Until \in Nat /\ (cpi.off <= Len(text) => Until = cpi.off)
<1>1. cpi.off \in Nat /\ Len(text) \in Nat /\ text \in Seq(Char) /\ IsDim(dim)
  BY DEF ViewTypes, Positions
<1>2. Rewind(cpi.off) \in Nat /\ Rewind(cpi.off) < cpi.off
  BY <1>1, RewindIs
<1>3. g.split \in Nat /\ g.index \in Nat /\ g.index < Expansion
  <2>1. g.split \in Nat /\ g.index \in 0 .. Expansion - 1 /\ Expansion \in Nat
    BY ViewAssumption, LayoutAssumption
  <2> QED BY <2>1
<1>4. /\ Until \in Nat /\ Until <= Len(text) /\ (cpi.off <= Len(text) => Until = cpi.off)
      /\ Until = cpi.off \/ Until = Len(text)
  BY <1>1 DEF Until
<1>5. RewoundStart(g) \in Positions /\ RewoundStart(g).off = Rewind(cpi.off) /\ RewoundStart(g).index = g.index
  BY <1>2, <1>3 DEF RewoundStart, Start, Positions
<1>6. Rewind(cpi.off) <= Until /\ (Rewind(cpi.off) < Len(text) => Rewind(cpi.off) < Until)
  BY <1>1, <1>2, <1>4
<1> QED
  BY <1>1, <1>3, <1>4, <1>5, <1>6 DEF Ready

\* The definition of a page up, with its parts named.
LEMMA PageUpFromIs ==
  ASSUME NEW g
  PROVE  PageUpFrom(g) =
           IF Rewind(cpi.off) > Until THEN [fault |-> "start_after_end", start |-> Start(0, 0, ResetIndex)]
           ELSE IF Listed(g).fault # "none"
             THEN [fault |-> Listed(g).fault, start |-> Start(0, 0, ResetIndex)]
           ELSE IF LinesShowing(g) = {}
             THEN [fault |-> "line_not_found", start |-> Start(0, 0, ResetIndex)]
           ELSE [fault |-> "none",
                 start |-> Start(Listed(g).lines[StepBack(Max(LinesShowing(g)))].first, 0, ResetIndex)]
BY DEF PageUpFrom, StartAbove, PageTo, Until, Listed, RewoundStart, LinesShowing

\* What a page up does.
LEMMA PageUpIs ==
  ASSUME ViewTypes, cpi.off # 0, NEW g \in Garbage
  PROVE  /\ PageUpFrom(g).fault \in Faults \ {"not_shown", "searching"}
         /\ PageUpFrom(g).fault = "line_not_found"  => cpi.off > Len(text)
         /\ PageUpFrom(g).fault = "start_after_end" => cpi.off > Len(text) + 2 * Rows(dim) * Cols(dim)
         /\ PageUpFrom(g).fault = "no_progress"     => Rows(dim) = 2 /\ Cols(dim) # 1
         /\ PageUpFrom(g).fault = "unused_cell"     => Rows(dim) = 1 \/ Cols(dim) = 1
         /\ PageUpFrom(g).fault = "overflow" =>
              Rewind(cpi.off) < Len(text) /\ text[Rewind(cpi.off) + 1] = "tab"
         /\ PageUpFrom(g).fault = "none" =>
              \E o \in Nat : /\ PageUpFrom(g).start = Start(o, 0, ResetIndex) /\ o <= cpi.off
                             /\ Untabbed => o < cpi.off
<1> DEFINE r == PageUpFrom(g)
           from == Rewind(cpi.off)
           s == Listed(g)
           at0 == RewoundStart(g)
           S == LinesShowing(g)
           p == 2 * Rows(dim) * Cols(dim)
<1>1. cpi.off \in Nat /\ Len(text) \in Nat /\ text \in Seq(Char) /\ IsDim(dim)
  BY DEF ViewTypes, Positions
<1>2. from \in Nat /\ from < cpi.off /\ p \in Nat /\ (from # 0 => cpi.off = from + p)
  BY <1>1, RewindIs
<1>3. CASE from > Until
  <2>1. r.fault = "start_after_end"
    BY <1>3, PageUpFromIs
  <2>2. cpi.off > Len(text) + p
    <3> HIDE DEF from, p
    <3> QED BY <1>1, <1>2, <1>3 DEF Until
  <2> HIDE DEF r, p
  <2>3. r.fault \in Faults \ {"not_shown", "searching"}
    BY <2>1 DEF Faults
  <2> QED BY <2>1, <2>2, <2>3 DEF r, p
<1>4. CASE ~(from > Until)
  <2>1. /\ Ready(at0, Until) /\ at0.off = from
        /\ Until \in Nat /\ (cpi.off <= Len(text) => Until = cpi.off)
    BY <1>4, ReadyIs
  <2>2. SearchEnds(at0, Until, s)
    BY <2>1, LineListIs DEF Listed
  <2>3. CASE s.fault # "none"
    <3>1. r.fault = s.fault
      BY <1>4, <2>3, PageUpFromIs
    <3> HIDE DEF r, s, at0, from
    <3>2. /\ r.fault \in {"overflow", "unused_cell", "no_progress"}
          /\ r.fault = "overflow" => from < Len(text) /\ text[from + 1] = "tab"
          /\ r.fault = "unused_cell" => Rows(dim) = 1 \/ Cols(dim) = 1
          /\ r.fault = "no_progress" => Rows(dim) = 2 /\ Cols(dim) # 1
      BY <2>1, <2>2, <2>3, <3>1 DEF SearchEnds
    <3>3. r.fault \in Faults \ {"not_shown", "searching"}
      BY <3>2 DEF Faults
    <3> QED BY <3>2, <3>3 DEF r, from
  <2>4. CASE s.fault = "none" /\ S = {}
    <3>1. r.fault = "line_not_found"
      BY <1>4, <2>4, PageUpFromIs
    <3>2. cpi.off > Len(text)
      <4>1. ASSUME cpi.off <= Len(text) PROVE FALSE
        <5>1. \E n \in DOMAIN s.lines : s.lines[n].first <= Until /\ Until <= s.lines[n].last
          BY <2>2, <2>4 DEF SearchEnds
        <5>2. Until = cpi.off
          BY <2>1, <4>1
        <5> QED BY <2>4, <5>1, <5>2 DEF LinesShowing
      <4> QED BY <1>1, <4>1
    <3> HIDE DEF r
    <3>3. r.fault \in Faults \ {"not_shown", "searching"}
      BY <3>1 DEF Faults
    <3> QED BY <3>1, <3>2, <3>3 DEF r
  <2>5. CASE s.fault = "none" /\ S # {}
    <3>1. GoodList(dim, Origin(at0), Untabbed, s.lines)
      BY <2>2, <2>5 DEF SearchEnds
    <3>2. s.lines \in Seq(Entries) /\ Len(s.lines) \in Nat /\ DOMAIN s.lines = 1 .. Len(s.lines)
      <4>1. s.lines \in Seq(Entries)
        BY <3>1 DEF GoodList
      <4> QED BY <4>1
    <3> DEFINE n == Max(S)
               o == s.lines[StepBack(n)].first
    <3>3. n \in S
      <4>1. S \in SUBSET (0 .. Len(s.lines))
        <5>1. 1 .. Len(s.lines) \subseteq 0 .. Len(s.lines)
          BY <3>2
        <5> QED BY <3>2, <5>1 DEF LinesShowing
      <4> HIDE DEF S
      <4> QED BY <2>5, <3>2, <4>1, MaxIsThere
    <3>4. n \in 1 .. Len(s.lines) /\ s.lines[n].first <= cpi.off
      <4> HIDE DEF n
      <4> QED BY <3>2, <3>3 DEF LinesShowing
    <3>5. r.fault = "none" /\ r.start = Start(o, 0, ResetIndex)
      BY <1>4, <2>5, PageUpFromIs
    <3>6. /\ o \in Nat /\ o <= cpi.off
          /\ Untabbed /\ Origin(at0) < cpi.off => o < cpi.off
      <4> HIDE DEF n, s
      <4> QED BY <1>1, <3>1, <3>4, LineAbove
    <3>7. Untabbed => Origin(at0) < cpi.off
      <4>1. ASSUME Untabbed PROVE Origin(at0) < cpi.off
        <5>1. from <= Len(text) /\ at0 \in Positions /\ at0.index < Expansion
          <6>1. at0 \in Positions /\ at0.index < Expansion /\ at0.off <= Until /\ Until <= Len(text)
            BY <2>1 DEF Ready
          <6> HIDE DEF from, at0
          <6> QED BY <1>1, <1>2, <2>1, <6>1
        <5>2. ~(from < Len(text) /\ text[from + 1] = "tab")
          <6>1. ASSUME from < Len(text) PROVE text[from + 1] # "tab"
            <7>1. from + 1 \in DOMAIN text
              <8> HIDE DEF from
              <8> QED BY <1>1, <1>2, <6>1
            <7> QED BY <4>1, <7>1 DEF Untabbed, NoTab
          <6> QED BY <6>1
        <5>3. GoodStart(text, at0)
          <6> HIDE DEF at0, from
          <6> QED BY <2>1, <5>1, <5>2 DEF GoodStart, Overflows
        <5>4. FirstOf(text, mark, at0).off = from
          <6> HIDE DEF at0, from
          <6> QED BY <1>1, <2>1, <5>1, <5>2, <5>3, FirstFrom
        <5> QED BY <1>2, <5>4 DEF Origin
      <4> QED BY <4>1
    <3> HIDE DEF r, o, at0
    <3>8. r.fault \in Faults \ {"not_shown", "searching"}
      BY <3>5 DEF Faults
    <3>9. \E q \in Nat : r.start = Start(q, 0, ResetIndex) /\ q <= cpi.off /\ (Untabbed => q < cpi.off)
      BY <3>5, <3>6, <3>7
    <3> QED BY <3>5, <3>8, <3>9 DEF r
  <2> QED BY <2>3, <2>4, <2>5
<1> QED
  BY <1>3, <1>4

-----------------------------------------------------------------------------
(* The invariant.                                                           *)

\* The inductive invariant.
ViewInv ==
  /\ ViewTypes
  /\ screen = Layout(text, cpi, mark, dim)
  /\ fault \in Faults
  /\ FaultsHaveACause

\* The screen of the view shows the text from its first cell on.
LEMMA ScreenShows ==
  ASSUME ViewTypes
  PROVE  ScreenOf(text, mark, dim, FirstOf(text, mark, cpi), Layout(text, cpi, mark, dim))
<1>1. GoodStart(text, cpi)
  <2>1. cpi.split \in Nat /\ Expansion \in Nat /\ cpi.split < Expansion
    BY LayoutAssumption DEF ViewTypes, Positions
  <2> QED BY <2>1 DEF ViewTypes, GoodStart, Overflows
<1> QED
  BY <1>1, LayoutIs DEF ViewTypes

\* The first cell is at the start of the view, or at the end of the text.
LEMMA ViewStartIs ==
  ASSUME ViewTypes
  PROVE  FirstOf(text, mark, cpi).off = IF cpi.off > Len(text) THEN Len(text) ELSE cpi.off
<1> DEFINE c == Decode(text, cpi)
           s == Chunk(text, mark, cpi)
<1>1. /\ cpi \in Positions /\ cpi.off \in Nat /\ cpi.split \in Nat /\ cpi.split < Expansion
      /\ Expansion \in Nat \ {0} /\ Len(text) \in Nat /\ text \in Seq(Char)
  BY LayoutAssumption DEF ViewTypes, Positions
<1>2. /\ cpi.off < Len(text) => c.off = cpi.off /\ c.split = cpi.split
      /\ cpi.off >= Len(text) => c.off = Len(text) /\ c.split = 0
  BY <1>1, DecodeIs
<1>3. GoodStart(text, cpi)
  BY <1>1 DEF ViewTypes, GoodStart, Overflows
<1>4. CellsOf(text, mark, c, s)
  BY <1>1, <1>3, ChunkIs
<1> HIDE DEF c, s
<1>5. s # <<>>
  BY <1>1, <1>2, <1>4 DEF CellsOf
<1>6. FirstOf(text, mark, cpi) = s[1]
  BY <1>5 DEF FirstOf, s
<1>7. s[1].off = c.off
  BY <1>4, <1>5 DEF CellsOf
<1> QED
  BY <1>1, <1>2, <1>6, <1>7

\* What a screen drawn from its first cell says of its cells.
LEMMA InOrder ==
  ASSUME ViewInv
  PROVE  ShowsTextInOrder
<1> DEFINE first == FirstOf(text, mark, cpi)
<1>1. ScreenOf(text, mark, dim, first, screen) /\ text \in Seq(Char)
  BY ScreenShows DEF ViewInv, ViewTypes
<1>2. first.off = IF cpi.off > Len(text) THEN Len(text) ELSE cpi.off
  BY ViewStartIs DEF ViewInv
<1> HIDE DEF first
<1>3. ASSUME screen # <<>>
      PROVE  /\ FirstCell(screen).off = IF cpi.off > Len(text) THEN Len(text) ELSE cpi.off
             /\ LastCell(screen).ch = "end" \/ Len(screen) = Rows(dim) - 1
  <2>1. FirstCell(screen) = first
    BY <1>1, <1>3, ScreenIs
  <2> QED BY <1>1, <1>2, <1>3, <2>1 DEF ScreenOf
<1>4. DOMAIN screen = 1 .. Len(screen) /\ Len(screen) \in Nat
  BY <1>1 DEF ScreenOf, Lines
<1>5. ASSUME NEW l \in DOMAIN screen
      PROVE  LET line == screen[l]
             IN  /\ \A k \in 1 .. Len(line) - 1 :
                      Follows(line[k], line[k + 1]) /\ line[k].ch # "newline"
                 /\ l < Len(screen) =>
                      /\ Follows(Last(line), screen[l + 1][1])
                      /\ Last(line).ch = "newline" \/ Len(line) = Cols(dim) - 1
                 /\ \A k \in DOMAIN line : line[k].off = mark => line[k].sel
  <2> DEFINE line == screen[l]
  <2>1. l \in 1 .. Len(screen) /\ (l < Len(screen) => l \in 1 .. Len(screen) - 1)
    BY <1>4, <1>5
  <2>2. line \in Seq(Cell) /\ Chained(text, mark, line) /\ DOMAIN line = 1 .. Len(line)
    <3>1. line \in Seq(Cell) /\ Chained(text, mark, line)
      BY <1>1, <2>1, LineIs
    <3> QED BY <3>1
  <2>3. l < Len(screen) => Ended(dim, line) /\ Follows(Last(line), screen[l + 1][1])
    BY <1>1, <2>1 DEF ScreenOf
  <2> HIDE DEF line
  <2>4. \A k \in 1 .. Len(line) - 1 : Follows(line[k], line[k + 1]) /\ line[k].ch # "newline"
    BY <2>2 DEF Chained
  <2>5. \A k \in DOMAIN line : line[k].off = mark => line[k].sel
    <3>1. \A k \in DOMAIN line : GoodCell(text, mark, line[k])
      BY <2>2 DEF Chained
    <3> QED BY <3>1 DEF GoodCell
  <2>6. l < Len(screen) =>
          /\ Follows(Last(line), screen[l + 1][1])
          /\ Last(line).ch = "newline" \/ Len(line) = Cols(dim) - 1
    BY <2>3 DEF Ended
  <2> QED BY <2>4, <2>5, <2>6 DEF line
<1> QED
  BY <1>3, <1>5 DEF ShowsTextInOrder

\* Where a page up goes.
LEMMA GoesUp ==
  ASSUME ViewTypes
  PROVE  PageUpGoesUp
<1>1. ASSUME cpi.off # 0, NEW g \in Garbage, PageUpFrom(g).fault = "none"
      PROVE  \/ PageUpFrom(g).start.off < cpi.off
             \/ PageUpFrom(g).start.off = cpi.off /\ \E p \in DOMAIN text : text[p] = "tab"
  <2>1. PICK o \in Nat : /\ PageUpFrom(g).start = Start(o, 0, ResetIndex) /\ o <= cpi.off
                         /\ Untabbed => o < cpi.off
    BY <1>1, PageUpIs
  <2>2. PageUpFrom(g).start.off = o
    BY <2>1 DEF Start
  <2>3. cpi.off \in Nat
    BY DEF ViewTypes, Positions
  <2>4. ~Untabbed => \E p \in DOMAIN text : text[p] = "tab"
    BY DEF Untabbed, NoTab
  <2> QED BY <2>1, <2>2, <2>3, <2>4
<1> QED
  BY <1>1 DEF PageUpGoesUp

\* Nothing has failed after a step that lays out a new screen.
LEMMA NoFault ==
  ASSUME fault' = "none"
  PROVE  fault' \in Faults /\ FaultsHaveACause'
BY DEF Faults, FaultsHaveACause

\* The text after an edit.
LEMMA InsertIs ==
  ASSUME NEW s \in Seq(Char), NEW i \in 1 .. Len(s) + 1, NEW c \in Char
  PROVE  InsertAt(s, i, c) \in Seq(Char)
<1>1. i \in Int /\ i - 1 \in Int /\ Len(s) \in Nat /\ 1 \in Int
  OBVIOUS
<1>2. \A j \in 1 .. i - 1 : s[j] \in Char
  BY <1>1
<1>3. \A j \in i .. Len(s) : s[j] \in Char
  BY <1>1
<1>4. SubSeq(s, 1, i - 1) \in Seq(Char) /\ SubSeq(s, i, Len(s)) \in Seq(Char)
  BY <1>1, <1>2, <1>3, SubSeqProperties
<1>5. <<c>> \in Seq(Char)
  OBVIOUS
<1>6. SubSeq(s, 1, i - 1) \o <<c>> \in Seq(Char)
  BY <1>4, <1>5, ConcatIs
<1>7. (SubSeq(s, 1, i - 1) \o <<c>>) \o SubSeq(s, i, Len(s)) \in Seq(Char)
  BY <1>4, <1>6, ConcatIs
<1> QED
  BY <1>7 DEF InsertAt

LEMMA RemoveIs ==
  ASSUME NEW s \in Seq(Char), NEW i \in 1 .. Len(s)
  PROVE  RemoveAt(s, i) \in Seq(Char)
<1>1. i + 1 \in Int /\ i - 1 \in Int /\ Len(s) \in Nat /\ 1 \in Int
  OBVIOUS
<1>2. \A j \in 1 .. i - 1 : s[j] \in Char
  BY <1>1
<1>3. \A j \in i + 1 .. Len(s) : s[j] \in Char
  BY <1>1
<1>4. SubSeq(s, 1, i - 1) \in Seq(Char) /\ SubSeq(s, i + 1, Len(s)) \in Seq(Char)
  BY <1>1, <1>2, <1>3, SubSeqProperties
<1>5. SubSeq(s, 1, i - 1) \o SubSeq(s, i + 1, Len(s)) \in Seq(Char)
  BY <1>4, ConcatIs
<1> QED
  BY <1>5 DEF RemoveAt

-----------------------------------------------------------------------------
(* The steps.                                                               *)

\* The buffer of a mark operation.
Buffers == [text : Seq(Char), mark : Nat]

\* The steps of a mark operation keep a buffer a buffer.
LEMMA OperationIs ==
  ASSUME NEW b \in Buffers
  PROVE  /\ \A c \in Char : WriteBytes(b, c) \in Buffers
         /\ RemoveBytes(b) \in Buffers
         /\ b.mark > 0 => Backward(b) \in Buffers
         /\ Forward(b) \in Buffers
<1>1. b.text \in Seq(Char) /\ b.mark \in Nat /\ Len(b.text) \in Nat
  BY DEF Buffers
<1>2. ASSUME NEW c \in Char PROVE WriteBytes(b, c) \in Buffers
  <2>1. CASE b.mark > Len(b.text)
    BY <2>1 DEF WriteBytes
  <2>2. CASE ~(b.mark > Len(b.text))
    <3>1. b.mark + 1 \in 1 .. Len(b.text) + 1
      BY <1>1, <2>2
    <3>2. InsertAt(b.text, b.mark + 1, c) \in Seq(Char)
      BY <1>1, <3>1, InsertIs
    <3>3. [b EXCEPT !.text = InsertAt(b.text, b.mark + 1, c)] \in Buffers
      BY <3>2 DEF Buffers
    <3> QED BY <2>2, <3>3 DEF WriteBytes
  <2> QED BY <2>1, <2>2
<1>3. RemoveBytes(b) \in Buffers
  <2>1. CASE b.mark >= Len(b.text)
    BY <2>1 DEF RemoveBytes
  <2>2. CASE ~(b.mark >= Len(b.text))
    <3>1. b.mark + 1 \in 1 .. Len(b.text)
      BY <1>1, <2>2
    <3>2. RemoveAt(b.text, b.mark + 1) \in Seq(Char)
      BY <1>1, <3>1, RemoveIs
    <3>3. [b EXCEPT !.text = RemoveAt(b.text, b.mark + 1)] \in Buffers
      BY <3>2 DEF Buffers
    <3> QED BY <2>2, <3>3 DEF RemoveBytes
  <2> QED BY <2>1, <2>2
<1>4. b.mark > 0 => Backward(b) \in Buffers
  <2>1. b.mark > 0 => b.mark - 1 \in Nat
    BY <1>1
  <2> QED BY <2>1 DEF Backward, Buffers
<1>5. Forward(b) \in Buffers
  <2>1. b.mark + 1 \in Nat
    BY <1>1
  <2>2. [b EXCEPT !.mark = b.mark + 1] \in Buffers
    BY <2>1 DEF Buffers
  <2> QED BY <2>2 DEF Forward
<1> QED
  BY <1>2, <1>3, <1>4, <1>5

LEMMA HereIs ==
  ASSUME ViewInv
  PROVE  Here \in Buffers /\ Here.mark = mark
BY DEF ViewInv, ViewTypes, Here, Buffers

\* A mark operation lays out a new screen.
LEMMA MarkKeeps ==
  ASSUME ViewInv, Running, NEW b \in Buffers, MarkOperation(b)
  PROVE  ViewInv'
<1>1. b.text \in Seq(Char) /\ b.mark \in Nat
  BY DEF Buffers
<1>2. /\ text' = b.text /\ mark' = b.mark /\ dim' = dim /\ cpi' = cpi /\ fault' = "none"
      /\ screen' = Layout(text', cpi', mark', dim')
  BY DEF MarkOperation, Refresh, Running
<1>3. ViewTypes'
  BY <1>1, <1>2 DEF ViewInv, ViewTypes, IsDim
<1> QED
  BY <1>2, <1>3, NoFault DEF ViewInv

\* So does a move to another start.
LEMMA ShowKeeps ==
  ASSUME ViewInv, Running, NEW start \in Positions, start.split < Expansion, start.index < Expansion,
         ShowFrom(start)
  PROVE  ViewInv'
<1>1. /\ text' = text /\ mark' = mark /\ dim' = dim /\ cpi' = start /\ fault' = "none"
      /\ screen' = Layout(text', cpi', mark', dim')
  BY DEF ShowFrom, Refresh, Running
<1>2. ViewTypes'
  BY <1>1 DEF ViewInv, ViewTypes, IsDim
<1> QED
  BY <1>1, <1>2, NoFault DEF ViewInv

\* A page down starts at a cell of the screen.
LEMMA PageDownKeeps ==
  ASSUME ViewInv, PageDown
  PROVE  ViewInv'
<1>1. CASE screen = <<>>
  <2>1. Fail("unused_cell")
    BY <1>1 DEF PageDown
  <2>2. /\ text' = text /\ mark' = mark /\ dim' = dim /\ cpi' = cpi /\ screen' = screen
        /\ fault' = "unused_cell"
    BY <2>1 DEF Fail
  <2>3. ViewTypes'
    BY <2>2 DEF ViewInv, ViewTypes, IsDim
  <2>4. fault' \in Faults /\ FaultsHaveACause'
    BY <1>1, <2>2 DEF Faults, FaultsHaveACause
  <2> QED BY <2>2, <2>3, <2>4 DEF ViewInv
<1>2. CASE screen # <<>>
  <2> DEFINE c == Last(screen)[1]
             start == LastLineStart(screen)
  <2>1. Running /\ ShowFrom(start)
    BY <1>2 DEF PageDown
  <2>2. ScreenOf(text, mark, dim, FirstOf(text, mark, cpi), screen) /\ text \in Seq(Char)
    BY ScreenShows DEF ViewInv, ViewTypes
  <2>3. GoodCell(text, mark, c)
    BY <1>2, <2>2, ScreenIs
  <2>4. start = StartAt(c)
    BY DEF LastLineStart, StartAt
  <2>5. StartAt(c) \in Positions /\ StartAt(c).split < Expansion
    BY <2>2, <2>3, StartAtIs
  <2>6. StartAt(c).index = c.index /\ c.index < Expansion
    <3>1. c.index < Expansion
      BY <2>3, CellIs
    <3> QED BY <3>1 DEF StartAt, Start
  <2> HIDE DEF start, c
  <2> QED BY <2>1, <2>4, <2>5, <2>6, ShowKeeps
<1> QED
  BY <1>1, <1>2

\* A page up starts above, or stops for the cause it has.
LEMMA PageUpKeeps ==
  ASSUME ViewInv, PageUp
  PROVE  ViewInv'
<1>1. Running /\ cpi.off # 0 /\ ViewTypes
  BY DEF PageUp, ViewInv
<1>2. PICK g \in Garbage :
        IF PageUpFrom(g).fault = "none" THEN ShowFrom(PageUpFrom(g).start) ELSE Fail(PageUpFrom(g).fault)
  BY DEF PageUp
<1>3. CASE PageUpFrom(g).fault = "none"
  <2>1. PICK o \in Nat : PageUpFrom(g).start = Start(o, 0, ResetIndex)
    BY <1>1, <1>3, PageUpIs
  <2>2. ShowFrom(Start(o, 0, ResetIndex))
    BY <1>2, <1>3, <2>1
  <2> QED BY <1>1, <2>2, StartIs, ShowKeeps
<1>4. CASE PageUpFrom(g).fault # "none"
  <2> DEFINE f == PageUpFrom(g).fault
  <2>1. /\ f \in Faults \ {"not_shown", "searching"}
        /\ f = "line_not_found"  => cpi.off > Len(text)
        /\ f = "start_after_end" => cpi.off > Len(text) + 2 * Rows(dim) * Cols(dim)
        /\ f = "no_progress"     => Rows(dim) = 2 /\ Cols(dim) # 1
        /\ f = "unused_cell"     => Rows(dim) = 1 \/ Cols(dim) = 1
        /\ f = "overflow" => Rewind(cpi.off) < Len(text) /\ text[Rewind(cpi.off) + 1] = "tab"
    BY <1>1, PageUpIs
  <2> HIDE DEF f
  <2>2. /\ text' = text /\ mark' = mark /\ dim' = dim /\ cpi' = cpi /\ screen' = screen /\ fault' = f
    BY <1>2, <1>4 DEF Fail, f
  <2>3. ScreenOf(text, mark, dim, FirstOf(text, mark, cpi), screen)
    BY <1>1, ScreenShows DEF ViewInv
  <2>4. /\ screen \in Lines /\ Len(screen) \in Nat /\ Len(screen) <= Rows(dim) - 1
        /\ screen = <<>> => Rows(dim) = 1 \/ Cols(dim) = 1
        /\ screen = <<>> <=> Len(screen) = 0
    BY <2>3, EmptyIs DEF ScreenOf, Lines
  <2>5. Rows(dim) \in Nat /\ Cols(dim) \in Nat
    BY <1>1, DimIs DEF ViewTypes
  <2>6. f = "no_progress" => Len(screen) = 1
    <3>1. Len(screen) \in Nat /\ Len(screen) <= Rows(dim) - 1
      BY <2>4
    <3>2. Rows(dim) # 1 /\ Cols(dim) # 1 => Len(screen) # 0
      BY <2>4
    <3> DEFINE n == Len(screen)
    <3> HIDE DEF n
    <3>3. n \in Nat /\ n <= Rows(dim) - 1 /\ (Rows(dim) # 1 /\ Cols(dim) # 1 => n # 0)
      BY <3>1, <3>2 DEF n
    <3>4. Rows(dim) = 2 /\ Cols(dim) # 1 => n = 1
      BY <2>5, <3>3
    <3> QED BY <2>1, <3>4 DEF n
  <2>7. f = "unused_cell" => screen = <<>>
    <3>1. CASE Rows(dim) = 1
      BY <2>4, <3>1
    <3>2. CASE Cols(dim) = 1
      <4>1. ASSUME screen # <<>> PROVE FALSE
        <5>1. 1 \in 1 .. Len(screen)
          BY <2>4, <4>1
        <5>2. Len(screen[1]) \in Nat \ {0} /\ Len(screen[1]) <= Cols(dim) - 1
          BY <2>3, <5>1, LineIs DEF ScreenOf
        <5> QED BY <3>2, <5>2
      <4> QED BY <4>1
    <3> QED BY <2>1, <3>1, <3>2
  <2>8. f \in Faults /\ f \notin {"not_shown", "searching"}
    BY <2>1
  <2>9. /\ f = "line_not_found"  => cpi'.off > Len(text')
        /\ f = "start_after_end" => cpi'.off > Len(text') + 2 * Rows(dim') * Cols(dim')
        /\ f = "no_progress"     => Len(screen') = 1
        /\ f = "unused_cell"     => screen' = <<>>
    BY <2>1, <2>2, <2>6, <2>7
  <2>10. f = "overflow" => Rewind(cpi.off)' < Len(text)' /\ text'[Rewind(cpi.off)' + 1] = "tab"
    <3>1. Rewind(cpi.off)' = Rewind(cpi.off)
      BY <2>2 DEF Rewind
    <3> QED BY <2>1, <2>2, <3>1
  <2>11. FaultsHaveACause'
    BY <2>2, <2>8, <2>9, <2>10 DEF FaultsHaveACause
  <2>12. ViewTypes'
    BY <1>1, <2>2 DEF ViewTypes, IsDim
  <2>13. screen' = Layout(text', cpi', mark', dim')
    BY <2>2 DEF ViewInv
  <2> QED BY <2>2, <2>8, <2>11, <2>12, <2>13 DEF ViewInv
<1> QED
  BY <1>2, <1>3, <1>4

\* The first screen.
LEMMA InitShows ==
  ASSUME Init
  PROVE  ViewInv
<1>1. PICK o \in Opened : text = o.text /\ dim = o.dim
  BY DEF Init
<1>2. text \in Seq(Char) /\ IsDim(dim)
  BY <1>1, ViewAssumption DEF IsDim
<1>3. mark = 0 /\ cpi = Start(0, 0, ResetIndex) /\ screen = Layout(text, cpi, mark, dim) /\ fault = "none"
  BY DEF Init
<1>4. ViewTypes
  BY <1>2, <1>3, StartIs DEF ViewTypes
<1>5. fault \in Faults /\ FaultsHaveACause
  BY <1>3 DEF Faults, FaultsHaveACause
<1> QED
  BY <1>3, <1>4, <1>5 DEF ViewInv

\* Every step keeps the invariant.
LEMMA NextShows ==
  ASSUME ViewInv, [Next]_vars
  PROVE  ViewInv'
<1>1. Here \in Buffers /\ Here.mark = mark
  BY HereIs
<1>2. ASSUME NEW c \in Char, Insert(c) PROVE ViewInv'
  <2>1. Forward(WriteBytes(Here, c)) \in Buffers
    BY <1>1, OperationIs
  <2> QED BY <1>2, <2>1, MarkKeeps DEF Insert
<1>3. ASSUME MoveBackward PROVE ViewInv'
  <2>1. Backward(Here) \in Buffers
    BY <1>1, <1>3, OperationIs DEF MoveBackward
  <2> QED BY <1>3, <2>1, MarkKeeps DEF MoveBackward
<1>4. ASSUME MoveForward PROVE ViewInv'
  <2>1. Forward(Here) \in Buffers
    BY <1>1, OperationIs
  <2> QED BY <1>4, <2>1, MarkKeeps DEF MoveForward
<1>5. ASSUME DeleteLeft PROVE ViewInv'
  <2>1. Backward(Here) \in Buffers
    BY <1>1, <1>5, OperationIs DEF DeleteLeft
  <2>2. RemoveBytes(Backward(Here)) \in Buffers
    BY <2>1, OperationIs
  <2> QED BY <1>5, <2>2, MarkKeeps DEF DeleteLeft
<1>6. ASSUME DeleteRight PROVE ViewInv'
  <2>1. RemoveBytes(Here) \in Buffers
    BY <1>1, OperationIs
  <2> QED BY <1>6, <2>1, MarkKeeps DEF DeleteRight
<1>7. ASSUME PageDown PROVE ViewInv'
  BY <1>7, PageDownKeeps
<1>8. ASSUME PageUp PROVE ViewInv'
  BY <1>8, PageUpKeeps
<1>9. ASSUME GotoBeginning PROVE ViewInv'
  BY <1>9, StartIs, ShowKeeps DEF GotoBeginning
<1>10. ASSUME GotoEnd PROVE ViewInv'
  <2>1. Len(text) \in Nat
    BY DEF ViewInv, ViewTypes
  <2> QED BY <1>10, <2>1, StartIs, ShowKeeps DEF GotoEnd
<1>11. ASSUME NEW o \in 0 .. Len(text) + 1, SetStartOffset(o) PROVE ViewInv'
  <2> DEFINE target == IF o > Len(text) THEN Len(text) ELSE o
  <2>1. Len(text) \in Nat
    BY DEF ViewInv, ViewTypes
  <2>2. target \in Nat
    BY <2>1
  <2>3. Running /\ ShowFrom(Start(target, 0, ResetIndex))
    BY <1>11 DEF SetStartOffset
  <2> HIDE DEF target
  <2> QED BY <2>2, <2>3, StartIs, ShowKeeps
<1>12. ASSUME UNCHANGED vars PROVE ViewInv'
  <2>1. /\ text' = text /\ mark' = mark /\ dim' = dim /\ cpi' = cpi /\ screen' = screen /\ fault' = fault
    BY <1>12 DEF vars
  <2>2. ViewTypes'
    BY <2>1 DEF ViewInv, ViewTypes, IsDim
  <2>3. Rewind(cpi.off)' = Rewind(cpi.off)
    BY <2>1 DEF Rewind
  <2>4. FaultsHaveACause'
    BY <2>1, <2>3 DEF ViewInv, FaultsHaveACause
  <2> QED BY <2>1, <2>2, <2>4 DEF ViewInv
<1> QED
  BY <1>2, <1>3, <1>4, <1>5, <1>6, <1>7, <1>8, <1>9, <1>10, <1>11, <1>12 DEF Next

-----------------------------------------------------------------------------
\* The inductive invariant holds: each variable has its type, the screen is the one laid
\* out from the text, the start and the mark as they are, and a stop has its cause.
THEOREM ViewHolds == Spec => []ViewInv
<1>1. Init => ViewInv
  BY InitShows
<1>2. ViewInv /\ [Next]_vars => ViewInv'
  BY NextShows
<1> QED
  BY <1>1, <1>2, PTL DEF Spec

\* The text is made of code points, and the start of the view (start_cpi) is never
\* behind all the cells of a tab, whatever moves led to it.
THEOREM TypeCorrect == Spec => []ViewTypes
<1>1. ViewInv => ViewTypes
  BY DEF ViewInv
<1> QED
  BY <1>1, ViewHolds, PTL

\* The screen build_layout leaves shows the text from the start on, in order and
\* without a gap, for every text, font and screen size.
THEOREM ScreenShowsTheText == Spec => []ShowsTextInOrder
<1>1. ViewInv => ShowsTextInOrder
  BY InOrder
<1> QED
  BY <1>1, ViewHolds, PTL

\* No command leaves a screen of an earlier text, mark or start.
THEOREM ScreenFollowsTheText == Spec => []ScreenIsCurrent
<1>1. ViewInv => ScreenIsCurrent
  BY DEF ViewInv, ScreenIsCurrent
<1> QED
  BY <1>1, ViewHolds, PTL

\* The search of page_up always ends, and each way to stop the core has its cause.
THEOREM StopsAreExplained == Spec => []FaultsHaveACause
<1>1. ViewInv => FaultsHaveACause
  BY DEF ViewInv
<1> QED
  BY <1>1, ViewHolds, PTL

\* A page up goes to an earlier start, or stays only where the text has a tab.
THEOREM PagesGoUp == Spec => []PageUpGoesUp
<1>1. ViewInv => PageUpGoesUp
  BY GoesUp DEF ViewInv
<1> QED
  BY <1>1, ViewHolds, PTL
=============================================================================

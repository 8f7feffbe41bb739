----------------------------- MODULE MCTextView -----------------------------
(* TextView with glyphs two pixels wide and high: an empty file on screens    *)
(* of three columns and one or two lines, of one column and one line, and of  *)
(* no line; files longer than a page up rewinds, on a screen of one column    *)
(* and two lines, once with a tab where the rewound layout starts.            *)
EXTENDS TextView

Dim(w, h) == [w |-> w, h |-> h]

Long == [k \in 1 .. 14 |-> "letter"]

MCOpened ==
  {[text |-> <<>>, dim |-> d] : d \in {Dim(8, 4), Dim(8, 7), Dim(3, 4), Dim(8, 1)}}
    \cup {[text |-> t, dim |-> Dim(3, 5)] : t \in {Long, [Long EXCEPT ![2] = "tab"]}}

MCGarbage == {Start(0, 0, 0), Start(0, 0, 1), Start(0, Expansion, 0), Start(0, Expansion + 1, 0)}
=============================================================================

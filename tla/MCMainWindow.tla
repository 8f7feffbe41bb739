----------------------------- MODULE MCMainWindow -----------------------------
(***************************************************************************)
(* Instance of MainWindow: a window with room for all widgets and one with *)
(* none for the text; until the first resize the scroll bar has no height. *)
(***************************************************************************)
EXTENDS MainWindow, TLC

\* In the tab bar, the text and the scroll bar, and outside the window, where a
\* held thumb is dragged to the end.
MCPoints == {<<0, 0>>, <<3, 4>>, <<5, 3>>, <<-1, 6>>}

MCSizes == {<<6, 8>>, <<3, 5>>}

\* The buttons are handled alike.
Symmetry == Permutations(Buttons)

\* What was sent changes nothing later on, and no property looks at it.
View == <<created, laidOut, geo, input, bar, text, draws, fault>>
===============================================================================

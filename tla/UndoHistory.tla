----------------------------- MODULE UndoHistory -----------------------------
(***************************************************************************)
(* What eedit's undo promises its user: a trail of texts that only grows,  *)
(* and a place on it.  Undo and redo walk the trail; an edit made in the   *)
(* middle of it first walks back from the end to that place, and the walk  *)
(* becomes part of the trail, so that no text the user has ever seen is    *)
(* out of reach.                                                           *)
(***************************************************************************)
EXTENDS Naturals, Sequences

CONSTANT Text         \* the texts a buffer can hold

VARIABLES trail,      \* every text so far, in the order it was first shown
          at          \* the place of the text shown now

vars == <<trail, at>>

Init == /\ \E t \in Text : trail = <<t>>
        /\ at = 1

(* The way back from the end of the trail to the place the user is at.     *)
WayBack == [i \in 1..(Len(trail) - at) |-> trail[Len(trail) - i]]

Edit(t) == /\ trail' = trail \o WayBack \o <<t>>
           /\ at' = Len(trail')

Undo == /\ at > 1
        /\ at' = at - 1
        /\ UNCHANGED trail

Redo == /\ at < Len(trail)
        /\ at' = at + 1
        /\ UNCHANGED trail

Next == (\E t \in Text : Edit(t)) \/ Undo \/ Redo

Spec == Init /\ [][Next]_vars

=============================================================================

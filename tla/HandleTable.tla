----------------------------- MODULE HandleTable -----------------------------
(* handle_index_allocator (api/src/handle_table.h): a table of pointers whose *)
(* indices are the identifiers given out.  Index 0 is never used, a free one  *)
(* is looked for upwards from the last one given, and not further than the    *)
(* end of the table.                                                          *)
EXTENDS Naturals

\* 1000 in the code.  (With one usable index the search would run past the end
\* of a full table.)
CONSTANT Size
ASSUME SizeAssumption == Size \in Nat /\ Size >= 3

Indices == 1 .. Size - 1

Free == [free |-> TRUE]         \* the null pointer

EmptyTable == [slot |-> [i \in Indices |-> Free], last |-> 0, used |-> 0]

IsFree(t, i) == t.slot[i] = Free

Taken(t) == {i \in Indices : ~IsFree(t, i)}

\* get: an index behind the end finds nothing either.
Holds(t, i) == i \in Indices /\ ~IsFree(t, i)

\* Mutant: the search does not begin again at 1.
FirstWithoutWrap(t) == t.last + 1

\* get_index: the search begins behind the last index, at 1 when that was the
\* end.  It gives up when it comes past the last index, and stops at the first
\* free one.
First(t) == IF t.last + 1 >= Size THEN 1 ELSE t.last + 1

TakenUpTo(t, i) == \A j \in Indices : First(t) <= j /\ j < i => ~IsFree(t, j)

\* Mutant: the next index, free or not.
FindsNext(t, i) == i \in Indices /\ i = First(t)

Finds(t, i) ==
  /\ i \in Indices
  /\ First(t) <= i
  /\ IsFree(t, i)
  /\ TakenUpTo(t, i)
  /\ ~(First(t) < t.last /\ t.last <= i)

Refuses(t) == First(t) < t.last /\ TakenUpTo(t, t.last)

\* Nothing free up to the end and the last index not on the way: table[Size] is
\* read, which is not there.
Overruns(t) == TakenUpTo(t, Size) /\ ~Refuses(t)

\* construct and destroy, at an index that was found.  (The table grows when
\* all Size indices are used: index 0 never is.)
Put(t, i, x) == [slot |-> [t.slot EXCEPT ![i] = x], last |-> i, used |-> t.used + 1]

Erase(t, i) == [slot |-> [t.slot EXCEPT ![i] = Free], last |-> t.last, used |-> t.used - 1]
=============================================================================

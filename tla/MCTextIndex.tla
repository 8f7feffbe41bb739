---------------------------- MODULE MCTextIndex ----------------------------
(***************************************************************************)
(* The rope and its line index on a small instance.  Addresses mean        *)
(* nothing but equal or different, so states are compared with the nodes   *)
(* numbered anew: the tree in preorder, then the replaced leaves.          *)
(* At most two iterators: a set tells them as well as a function.          *)
(* "events" is what the last step told the index: no later step reads it.  *)
(***************************************************************************)
EXTENDS TextIndex

MCInserts == {<<"n">>, <<"x", "n", "r">>}

RECURSIVE Preorder(_)
Preorder(x) == IF x = 0 THEN <<>>
               ELSE <<x>> \o Preorder(tree.node[x].l) \o Preorder(tree.node[x].r)

MCView ==
  LET inTree == Preorder(tree.root)
      all == inTree \o SelectSeq([k \in 1..12 |-> k],
                                 LAMBDA x : x \in DOMAIN tree.node \ ToSet(inTree))
      Rank == [x \in ToSet(all) |-> CHOOSE k \in 1..Len(all) : all[k] = x]
      New(x) == IF x = 0 THEN 0 ELSE IF x \in DOMAIN Rank THEN Rank[x] ELSE -2
      Node(n) == <<New(n.par), New(n.l), New(n.r), New(n.prev), New(n.next),
                   n.size, n.ref, n.page>>
  IN  <<[k \in 1..Len(all) |-> Node(tree.node[all[k]])],
        New(tree.first), New(tree.last), [tree.cache EXCEPT !.n = New(@)],
        {<<IF it[i] = None THEN None ELSE [it[i] EXCEPT !.n = New(@)], age[i]>> : i \in Iter},
        [k \in 1..Len(all) |-> IF all[k] \in DOMAIN count THEN count[all[k]] ELSE -1],
        content, calm, abort, prevByte, numberOfLines, indexed, crFree>>
=============================================================================

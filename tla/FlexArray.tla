----------------------------- MODULE FlexArray -----------------------------
(***************************************************************************)
(* The rope ew::core::container::flexible_array: a binary tree whose       *)
(* leaves own pages of at most MaxPage items, the leaves also linked in a  *)
(* list, a cached leaf for find(), and iterators that keep a counted       *)
(* pointer to a leaf beside copies of the page's end and of the leaf's     *)
(* offset.  An edit does not refresh the iterators: a stale one is found   *)
(* out (the assertions of check_invariants) or it is not.                  *)
(*                                                                         *)
(* Pointers are numbers, 0 is the null pointer.  "content" is what the     *)
(* calls asked for; "calm" turns false with the first edit through an      *)
(* iterator older than the last edit, which is where the promise ends.     *)
(***************************************************************************)
EXTENDS Integers, Sequences, FiniteSets, SequencesExt, TLC

CONSTANTS MaxPage,     \* m_max_page_size: the capacity of a page
          MinPage,     \* m_min_page_size
          MaxLen,      \* bound: items in the rope
          Inserts,     \* bound: the sequences of items an insert may bring
          MaxAge,      \* bound: edits an iterator outlives
          Iter         \* names of the iterators the user holds

ASSUME PageAssumption == /\ MinPage \in Nat \ {0} /\ MaxPage \in Nat \ {0}
                         /\ MinPage <= MaxPage /\ MaxLen \in Nat

VARIABLES tree,     \* the object: its nodes, m_root_node, m_begin_node, m_end_node, the cache
          it,       \* the user's iterators, None when there is none
          events,   \* on_node_event calls of the last operation, in order
          content,  \* history: the items the calls so far ask for
          age,      \* history: edits since the iterator was made
          calm,     \* history: every edit went through a fresh iterator
          abort     \* "no", or the assertion that stopped the program

vars == <<tree, it, events, content, age, calm, abort>>

None == [n |-> -1]
NoCache == [n |-> 0, lo |-> 0, hi |-> 0]
EmptyTree == [node |-> <<>>, root |-> 0, first |-> 0, last |-> 0, cache |-> NoCache]

SizeOf(t, x) == IF x = 0 THEN 0 ELSE t.node[x].size
Size(t) == SizeOf(t, t.root)

\* node::offset(): the sizes of the left siblings on the way to the root.
RECURSIVE Offset(_, _)
Offset(t, x) ==
  LET p == t.node[x].par
  IN  IF p = 0 THEN 0
      ELSE (IF x = t.node[p].r THEN SizeOf(t, t.node[p].l) ELSE 0) + Offset(t, p)

RECURSIVE Ancestors(_, _)
Ancestors(t, x) == IF x = 0 THEN <<>> ELSE <<x>> \o Ancestors(t, t.node[x].par)

\* increment_hierarchy_size and decrement_hierarchy_size
AddSize(t, x, d) ==
  LET up == ToSet(Ancestors(t, x))
  IN  [t EXCEPT !.node = [y \in up |-> [@[y] EXCEPT !.size = @ + d]] @@ @]

(***************************************************************************)
(* Iterators                                                               *)
(***************************************************************************)

\* A mutant: the check without the offset of the leaf.
AcceptedAnyOffset(t, i) ==
  \/ i.n = 0
  \/ LET x == t.node[i.n]
     IN  /\ i.end = Len(x.page)
         /\ IF x.next # 0 THEN i.cur < i.end ELSE i.cur <= i.end
         /\ i.off + x.size <= Size(t)

\* iterator_base::check_invariants (the begin pointer never differs: pages do not move).
Accepted(t, i) ==
  \/ i.n = 0
  \/ LET x == t.node[i.n]
     IN  /\ i.end = Len(x.page)
         /\ i.off = Offset(t, i.n)
         /\ IF x.next # 0 THEN i.cur < i.end ELSE i.cur <= i.end
         /\ i.off + x.size <= Size(t)

\* The node an iterator points to was deleted: looking at it is undefined.
Dangling(t, i) == i.n > 0 /\ i.n \notin DOMAIN t.node
Usable(t, i) == ~Dangling(t, i) /\ Accepted(t, i)
Position(i) == i.off + i.cur

\* ref_current_node; unref_current_node: a node replaced while iterators point
\* to it has a negative count and the one that brings it to zero deletes it.
Ref(t, x) == IF x = 0 THEN t ELSE [t EXCEPT !.node[x].ref = @ + 1]
Unref(t, x) ==
  IF x = 0 THEN t
  ELSE LET r == t.node[x].ref
       IN  IF r >= 0 THEN [t EXCEPT !.node[x].ref = r - 1]
           ELSE IF r + 1 < 0 THEN [t EXCEPT !.node[x].ref = r + 1]
           ELSE [t EXCEPT !.node = [y \in DOMAIN @ \ {x} |-> @[y]]]

At(t, x, cur, off) == [n |-> x, cur |-> cur, off |-> off, end |-> Len(t.node[x].page)]
Null(t) == [n |-> 0, cur |-> 0, off |-> Size(t), end |-> 0]
Begin(t) == IF t.first = 0 THEN [Null(t) EXCEPT !.off = 0] ELSE At(t, t.first, 0, 0)
End(t) == IF t.last = 0 THEN Null(t)
          ELSE LET x == t.node[t.last]
               IN  At(t, t.last, Len(x.page), Size(t) - x.size)

\* find(node, offset): down the tree to the leaf and the offset in it.
RECURSIVE FindFrom(_, _, _)
FindFrom(t, x, off) ==
  LET l == t.node[x].l
  IN  IF l = 0 THEN [n |-> x, lo |-> off]
      ELSE IF off < t.node[l].size THEN FindFrom(t, l, off)
           ELSE FindFrom(t, t.node[x].r, off - t.node[l].size)

\* find(offset): the cached leaf answers for the offsets it was found for.
Find(t, off) ==
  IF t.cache.n # 0 /\ t.cache.lo <= off /\ off < t.cache.hi
  THEN [n |-> t.cache.n, lo |-> off - t.cache.lo]
  ELSE FindFrom(t, t.root, off)

\* build_iterator_base, and the cache it leaves behind.
BuildIt(t, off) == IF off >= Size(t) THEN End(t)
                   ELSE LET f == Find(t, off) IN At(t, f.n, f.lo, off - f.lo)
Cached(t, off) ==
  IF off >= Size(t) THEN t
  ELSE LET f == Find(t, off)
       IN  [t EXCEPT !.cache = [n |-> f.n, lo |-> off - f.lo,
                                hi |-> off - f.lo + t.node[f.n].size]]

(***************************************************************************)
(* Insert                                                                  *)
(***************************************************************************)

\* split_node: a leaf when the size fits, otherwise two halves, in preorder
\* and numbered from 1.
Fits(s) == s <= MaxPage \div 2 \/ s <= MinPage
LeafNode(s) == [par |-> 0, l |-> 0, r |-> 0, prev |-> 0, next |-> 0,
                size |-> s, ref |-> 0, page |-> <<>>]
Shift(nodes, d, p) ==
  [k \in DOMAIN nodes |->
     [nodes[k] EXCEPT !.par = IF @ = 0 THEN p ELSE @ + d,
                      !.l = IF @ = 0 THEN 0 ELSE @ + d,
                      !.r = IF @ = 0 THEN 0 ELSE @ + d]]
SubTree[s \in 1..(MaxLen + MaxPage)] ==
  IF Fits(s) THEN <<LeafNode(s)>>
  ELSE LET a == SubTree[s \div 2]
           b == SubTree[s - s \div 2]
       IN  <<[LeafNode(s) EXCEPT !.l = 2, !.r = 2 + Len(a)]>>
           \o Shift(a, 1, 1) \o Shift(b, 1 + Len(a), 1)

\* build_leafs_list: the leaves of a new sub tree from left to right.
LeafIndices(nodes) == SelectSeq([k \in 1..Len(nodes) |-> k], LAMBDA k : nodes[k].l = 0)

\* Ids for k new nodes: none that is in use or that an iterator still names.
FreshIds(t, k) ==
  LET used == DOMAIN t.node \cup {it[i].n : i \in Iter}
                \cup UNION {{t.node[x].prev, t.node[x].next} : x \in DOMAIN t.node}
      pool == [x \in 1..(Cardinality(used) + k) |-> x]
  IN  SubSeq(SelectSeq(pool, LAMBDA x : x \notin used), 1, k)

\* copy_forward asserts that the node it starts with has room: the part before
\* the insertion point or the new items must not end where a node ends.
EndsAtNode(sizes, k) == \E j \in 1..Len(sizes) : k = FoldLeft(+, 0, SubSeq(sizes, 1, j))
CopyAsserts(sizes, left, nr, right) ==
  \/ left > 0 /\ EndsAtNode(sizes, left)
  \/ right > 0 /\ EndsAtNode(sizes, left + nr)

Event(t, ev, x) == [ev |-> ev, n |-> x, up |-> Tail(Ancestors(t, x)),
                    page |-> t.node[x].page, root |-> t.root]

\* A mutant: the cached leaf survives the insert.
InsertHereKeepsCache(t, b, s) ==
  LET t1 == AddSize([t EXCEPT !.node[b.n].page = SubSeq(@, 1, b.cur) \o s
                                                \o SubSeq(@, b.cur + 1, Len(@))], b.n, Len(s))
  IN  [t |-> t1, ev |-> <<Event(t1, "modified", b.n)>>, why |-> "no"]

\* Room in the leaf the iterator points to.
InsertHere(t, b, s) ==
  LET x == t.node[b.n]
      t1 == AddSize([t EXCEPT !.node[b.n].page = SubSeq(@, 1, b.cur) \o s
                                                \o SubSeq(@, b.cur + 1, Len(@)),
                              !.cache = NoCache], b.n, Len(s))
  IN  [t |-> t1, ev |-> <<Event(t1, "modified", b.n)>>, why |-> "no"]

\* The nodes of a new sub tree in the place of the leaf old: the leaves share the
\* items out and are linked between old's neighbours.
Placed(sub, ids, old, items) ==
  LET leaf    == LeafIndices(sub)
      Id(k)   == IF k = 0 THEN 0 ELSE ids[k]
      From(j) == FoldLeft(+, 0, [i \in 1..(j - 1) |-> sub[leaf[i]].size])
      Tied(n, k) == [n EXCEPT !.par = IF k = 1 THEN old.par ELSE Id(@), !.l = Id(@), !.r = Id(@)]
      Filled(n, j) ==
        [n EXCEPT !.prev = IF j = 1 THEN old.prev ELSE ids[leaf[j - 1]],
                  !.next = IF j = Len(leaf) THEN old.next ELSE ids[leaf[j + 1]],
                  !.page = SubSeq(items, From(j) + 1, From(j) + n.size)]
      Made(k) == IF sub[k].l # 0 THEN Tied(sub[k], k)
                 ELSE Filled(Tied(sub[k], k), CHOOSE j \in 1..Len(leaf) : leaf[j] = k)
  IN  [y \in ToSet(ids) |-> Made(CHOOSE k \in 1..Len(ids) : ids[k] = y)]

\* The neighbours and the parent of the leaf x are told of the new ones; x stays
\* with a negative count for the iterators that point to it.
Relinked(nodes, x, around, top, head, tail) ==
  [y \in DOMAIN nodes |->
     IF y = x THEN [nodes[y] EXCEPT !.ref = -@]
     ELSE IF y \in around
     THEN [nodes[y] EXCEPT !.l = IF @ = x THEN top ELSE @, !.r = IF @ = x THEN top ELSE @,
                           !.next = IF @ = x THEN head ELSE @,
                           !.prev = IF @ = x THEN tail ELSE @]
     ELSE nodes[y]]

\* What the split of b's leaf into the leaves heads gives, t the rope after it.
SplitResult(t, b, heads, sizes, old, nr) ==
  [t |-> t,
   ev |-> (IF b.n = 0 THEN <<>> ELSE <<Event(t, "unlink", b.n)>>)
          \o [j \in 1..Len(heads) |-> Event(t, "insert", heads[j])],
   why |-> IF CopyAsserts(sizes, b.cur, nr, Len(old.page) - b.cur) THEN "copy_size"
           ELSE IF b.n # 0 /\ old.ref <= 0 THEN "refcount"
           ELSE IF ~(Accepted(t, Begin(t)) /\ Accepted(t, End(t))) THEN "begin_end"
           ELSE "no"]

\* No room: a new sub tree sub, with the addresses ids, holds the old page and the
\* new items and takes the leaf's place.
SplitInto(t, b, s, old, sub, ids) ==
  LET leaf  == LeafIndices(sub)
      items == SubSeq(old.page, 1, b.cur) \o s \o SubSeq(old.page, b.cur + 1, Len(old.page))
      head  == ids[leaf[1]]
      tail  == ids[Last(leaf)]
      nodes == Placed(sub, ids, old, items)
               @@ Relinked(t.node, b.n, {old.par, old.prev, old.next}, ids[1], head, tail)
      after == [node  |-> nodes,
                root  |-> IF old.par = 0 THEN ids[1] ELSE t.root,
                first |-> IF old.par = 0 \/ t.first = b.n THEN head ELSE t.first,
                last  |-> IF old.par = 0 \/ t.last = b.n THEN tail ELSE t.last,
                cache |-> NoCache]
  IN  SplitResult(AddSize(after, old.par, Len(s)), b, [j \in 1..Len(leaf) |-> ids[leaf[j]]],
                  [j \in 1..Len(leaf) |-> sub[leaf[j]].size], old, Len(s))

InsertSplit(t, b, s) ==
  LET old == IF b.n = 0 THEN LeafNode(0) ELSE t.node[b.n]
      sub == SubTree[Len(old.page) + Len(s)]
  IN  SplitInto(t, b, s, old, sub, FreshIds(t, Len(sub)))

InsertItems(t, b, s) ==
  IF b.n # 0 /\ MaxPage - Len(t.node[b.n].page) >= Len(s)
  THEN InsertHere(t, b, s) ELSE InsertSplit(t, b, s)

(***************************************************************************)
(* Erase                                                                   *)
(***************************************************************************)

\* unlink_node
Unlink(t, x) ==
  LET n == t.node[x]
      a == IF n.prev = 0 THEN t.node ELSE [t.node EXCEPT ![n.prev].next = n.next]
      b == IF n.next = 0 THEN a ELSE [a EXCEPT ![n.next].prev = n.prev]
  IN  [t EXCEPT !.node = [b EXCEPT ![x].par = 0]]

\* A mutant: the grandparent's size is left alone.
EraseNodeKeepsSize(t, x) ==
  LET p   == t.node[x].par
      sib == IF t.node[p].l = x THEN t.node[p].r ELSE t.node[p].l
      g   == t.node[p].par
      t1  == [t EXCEPT !.cache = NoCache,
                       !.first = IF @ = x THEN t.node[x].next ELSE @,
                       !.last = IF @ = x THEN t.node[x].prev ELSE @]
      top == [Unlink([t1 EXCEPT !.node[t.root].l = 0, !.node[t.root].r = 0], t.root)
              EXCEPT !.root = 0]
  IN  IF p = 0 THEN Unlink(top, x)
      ELSE IF g = 0 THEN Unlink([top EXCEPT !.root = sib, !.node[sib].par = 0], x)
           ELSE Unlink([t1 EXCEPT !.node[sib].par = g,
                                  !.node[g].l = IF @ = p THEN sib ELSE @,
                                  !.node[g].r = IF @ = p THEN sib ELSE @], x)

\* erase_node: the sibling takes the parent's place.
EraseNode(t, x) ==
  LET p   == t.node[x].par
      sib == IF t.node[p].l = x THEN t.node[p].r ELSE t.node[p].l
      g   == t.node[p].par
      t1  == [t EXCEPT !.cache = NoCache,
                       !.first = IF @ = x THEN t.node[x].next ELSE @,
                       !.last = IF @ = x THEN t.node[x].prev ELSE @]
      top == [Unlink([t1 EXCEPT !.node[t.root].l = 0, !.node[t.root].r = 0], t.root)
              EXCEPT !.root = 0]
  IN  IF p = 0 THEN Unlink(top, x)
      ELSE IF g = 0
           THEN Unlink([top EXCEPT !.root = sib, !.node[sib].par = 0,
                                   !.node[p] = IF t.node[p].l = x THEN [@ EXCEPT !.l = 0]
                                               ELSE [@ EXCEPT !.r = 0]], x)
           ELSE Unlink(AddSize([t1 EXCEPT !.node[sib].par = g,
                                          !.node[p].l = IF @ = x THEN 0 ELSE @,
                                          !.node[p].r = IF @ = x THEN 0 ELSE @,
                                          !.node[g].l = IF @ = p THEN sib ELSE @,
                                          !.node[g].r = IF @ = p THEN sib ELSE @],
                               g, -Len(t.node[x].page)), x)

\* The loop of erase over the leaves: whole leaves go, others lose a part.
RECURSIVE EraseFrom(_, _, _, _, _)
EraseFrom(t, x, lo, nr, ev) ==
  IF nr = 0 THEN [t |-> t, ev |-> ev, why |-> "no"]
  ELSE IF x \notin DOMAIN t.node
       THEN [t |-> t, ev |-> ev, why |-> IF x = 0 THEN "cur_node" ELSE "deleted"]
  ELSE LET n    == t.node[x]
           size == Len(n.page)
           cut  == IF nr > size - lo THEN size - lo ELSE nr
           t1   == AddSize([t EXCEPT !.node[x].page = SubSeq(@, 1, lo)
                                        \o SubSeq(@, lo + cut + 1, size)], x, -cut)
       IN  IF lo = 0 /\ nr >= size
           THEN EraseFrom(EraseNode(t, x), n.next, 0, nr - size,
                          Append(ev, Event(t, "unlink", x)))
           ELSE EraseFrom(t1, n.next, 0, nr - cut, Append(ev, Event(t1, "modified", x)))

EraseItems(t, b, e) ==
  IF b.n = 0 THEN [t |-> t, ev |-> <<>>, why |-> "null"]
  ELSE EraseFrom([t EXCEPT !.cache = NoCache], b.n, b.cur, Position(e) - Position(b), <<>>)

(***************************************************************************)
(* Reading                                                                 *)
(***************************************************************************)

\* The iterator after ++ and after --: over the end of a page to the next leaf,
\* which a replaced leaf may name after its deletion.
Next1(t, i) ==
  LET x == t.node[i.n]
  IN  IF i.cur + 1 = i.end /\ x.next # 0 THEN At(t, x.next, 0, i.off + i.end)
      ELSE [i EXCEPT !.cur = @ + 1]
Prev1(t, i) ==
  LET p == t.node[i.n].prev
  IN  IF i.cur > 0 THEN [i EXCEPT !.cur = @ - 1]
      ELSE IF p = 0 THEN i
      ELSE LET k == Len(t.node[p].page) IN At(t, p, k - 1, i.off - k)

\* copy(first, last, out) and read: item by item with ++.
RECURSIVE CopyItems(_, _, _)
CopyItems(t, i, n) ==
  IF n = 0 THEN <<>>
  ELSE <<t.node[i.n].page[i.cur + 1]>> \o CopyItems(t, IF n = 1 THEN i ELSE Next1(t, i), n - 1)
ReadItems(t, off, n) == CopyItems(t, BuildIt(t, off), n)

\* operator []
ItemAt(t, off) == LET f == Find(t, off) IN t.node[f.n].page[f.lo + 1]

\* for_each(begin, end, fn) with a function that always goes on: from begin to the
\* last item of the leaf end points to.  foreach_item and foreach_pages.
RECURSIVE ForEachFrom(_, _, _, _)
ForEachFrom(t, x, lo, last) ==
  LET page == t.node[x].page
      here == SubSeq(page, lo + 1, Len(page))
  IN  IF x = last \/ t.node[x].next = 0 THEN here
      ELSE here \o ForEachFrom(t, t.node[x].next, 0, last)
ForEach(t, b, e) == IF b.n = 0 THEN <<>> ELSE ForEachFrom(t, b.n, b.cur, e.n)
ForEachItem(t) == ForEach(t, Begin(t), End(t))

(***************************************************************************)
(* The calls                                                               *)
(***************************************************************************)

Running == abort = "no" /\ calm

\* Nodes nothing can reach any more (erase_node never deletes its node).
RECURSIVE Reach(_, _)
Reach(t, known) ==
  LET more == known \cup UNION {{t.node[x].par, t.node[x].l, t.node[x].r,
                                 t.node[x].prev, t.node[x].next} : x \in known}
      real == more \cap DOMAIN t.node
  IN  IF real = known THEN known ELSE Reach(t, real)
Prune(t, its) ==
  LET keep == Reach(t, ({t.root} \cup {its[i].n : i \in Iter}) \cap DOMAIN t.node)
  IN  [t EXCEPT !.node = [x \in keep |-> t.node[x]]]

Init == /\ tree = EmptyTree
        /\ it = [i \in Iter |-> None]
        /\ events = <<>>
        /\ content = <<>>
        /\ age = [i \in Iter |-> 0]
        /\ calm = TRUE
        /\ abort = "no"

\* The rope while a call holds copies of iterators to these leaves.
Held(copies) == FoldLeft(Ref, tree, copies)

\* An edit with the result res, through iterators that the call copies and drops
\* again: the last copy of a replaced leaf deletes it.
Edit(res, copies, text) ==
  /\ \A i \in Iter : it[i] # None => age[i] < MaxAge
  /\ tree' = IF res.why # "no" THEN tree ELSE Prune(FoldLeft(Unref, res.t, copies), it)
  /\ events' = IF res.why = "no" THEN res.ev ELSE <<>>
  /\ content' = IF res.why = "no" THEN text ELSE content
  /\ abort' = res.why
  /\ age' = [i \in Iter |-> IF it[i] = None THEN 0 ELSE age[i] + 1]
  /\ UNCHANGED <<it, calm>>

Spliced(pos, s) == SubSeq(content, 1, pos) \o s \o SubSeq(content, pos + 1, Len(content))
Cutout(from, to) == SubSeq(content, 1, from) \o SubSeq(content, to + 1, Len(content))

Stop(why) == abort' = why /\ UNCHANGED <<tree, it, events, content, age, calm>>

\* An edit through a stale iterator that passes its check: it may write to a
\* replaced page, hang a second sub tree beside the first or lose the content
\* (an iterator made when the rope was empty replaces the root).  What it does is
\* not followed: the promise ends here.
Stray == calm' = FALSE /\ UNCHANGED <<tree, it, events, content, age, abort>>

\* insert(offset, items, n): the iterator of the call, and its copy.
InsertOffset(off, s) ==
  LET b == BuildIt(tree, off)
  IN  /\ Running /\ Len(content) + Len(s) <= MaxLen
      /\ Edit(InsertItems(Held(<<b.n, b.n>>), b, s), <<b.n, b.n>>, Spliced(off, s))

\* insert(iterator, items, n)
InsertIt(i, s) ==
  /\ Running /\ it[i] # None /\ Len(content) + Len(s) <= MaxLen
  /\ IF ~Usable(tree, it[i]) THEN Stop("stale")
     ELSE IF age[i] > 0 THEN Stray
     ELSE Edit(InsertItems(Held(<<it[i].n>>), it[i], s), <<it[i].n>>,
               Spliced(Position(it[i]), s))

\* erase(iterator, iterator)
EraseIt(i, j) ==
  /\ Running /\ it[i] # None /\ it[j] # None
  /\ IF ~(Usable(tree, it[i]) /\ Usable(tree, it[j])) THEN Stop("stale")
     ELSE IF age[i] + age[j] > 0 THEN Stray
     ELSE /\ Position(it[i]) <= Position(it[j])
          /\ Edit(EraseItems(Held(<<it[i].n, it[j].n>>), it[i], it[j]), <<it[i].n, it[j].n>>,
                  Cutout(Position(it[i]), Position(it[j])))

\* pop_front and pop_back, and erase between two new iterators
EraseRange(from, to) ==
  LET b == BuildIt(tree, from)
      e == BuildIt(tree, to)
  IN  /\ Running /\ from < to
      /\ Edit(EraseItems(Held(<<b.n, e.n>>), b, e), <<b.n, e.n>>, Cutout(from, to))

\* new_iterator, begin, end
NewIterator(i, off) ==
  /\ Running /\ it[i] = None
  /\ it' = [it EXCEPT ![i] = BuildIt(tree, off)]
  /\ tree' = Ref(Cached(tree, off), BuildIt(tree, off).n)
  /\ age' = [age EXCEPT ![i] = 0] /\ events' = <<>>
  /\ UNCHANGED <<content, calm, abort>>

\* ~iterator_base
DropIterator(i) ==
  /\ Running /\ it[i] # None
  /\ IF Dangling(tree, it[i]) THEN Stop("deleted")
     ELSE LET its == [it EXCEPT ![i] = None]
          IN  /\ it' = its
              /\ tree' = Prune(Unref(tree, it[i].n), its)
              /\ age' = [age EXCEPT ![i] = 0] /\ events' = <<>>
              /\ UNCHANGED <<content, calm, abort>>

\* set_node, when the leaf changes.
Move(i, to) ==
  /\ it' = [it EXCEPT ![i] = to]
  /\ tree' = IF to.n = it[i].n THEN tree ELSE Prune(Ref(Unref(tree, it[i].n), to.n), it')
  /\ events' = <<>>
  /\ UNCHANGED <<content, calm, age, abort>>
Step(i, to, neighbour) ==
  IF neighbour # 0 /\ neighbour \notin DOMAIN tree.node THEN Stop("deleted")
  ELSE IF Usable(tree, to) THEN Move(i, to)
  ELSE Stop("stale")
Forward(i) ==
  /\ Running /\ it[i] # None
  /\ IF ~Usable(tree, it[i]) THEN Stop("stale")
     ELSE /\ it[i].n # 0 /\ it[i].cur < it[i].end
          /\ Step(i, Next1(tree, it[i]), tree.node[it[i].n].next)
Backward(i) ==
  /\ Running /\ it[i] # None
  /\ IF ~Usable(tree, it[i]) THEN Stop("stale")
     ELSE /\ it[i].n # 0
          /\ Step(i, Prev1(tree, it[i]), tree.node[it[i].n].prev)

\* operator +=, -= and +: within the page, or built again from the offset.
Advance(i, d) ==
  /\ Running /\ it[i] # None
  /\ IF ~Usable(tree, it[i]) THEN Stop("stale")
     ELSE LET to == it[i].cur + d
              here == 0 <= to /\ to < it[i].end
              off == Offset(tree, it[i].n) + to
          IN  /\ it[i].n # 0 /\ off >= 0
              /\ IF here THEN Move(i, [it[i] EXCEPT !.cur = to])
                 ELSE /\ it' = [it EXCEPT ![i] = BuildIt(tree, off)]
                      /\ tree' = Prune(Ref(Unref(Cached(tree, off), it[i].n),
                                           BuildIt(tree, off).n), it')
                      /\ age' = [age EXCEPT ![i] = 0] /\ events' = <<>>
                      /\ UNCHANGED <<content, calm, abort>>

\* An iterator passed by value, or the copy a postfix ++ makes: one more reference
\* while the call runs.
PassByValue(i) ==
  /\ Running /\ it[i] # None
  /\ IF ~Usable(tree, it[i]) THEN Stop("stale")
     ELSE /\ tree' = Prune(Unref(Ref(tree, it[i].n), it[i].n), it)
          /\ events' = <<>>
          /\ UNCHANGED <<it, content, calm, age, abort>>

Next ==
  \/ \E off \in 0..Len(content), s \in Inserts : InsertOffset(off, s)
  \/ \E i \in Iter, s \in Inserts : InsertIt(i, s)
  \/ \E i, j \in Iter : EraseIt(i, j)
  \/ \E from, to \in 0..Len(content) : EraseRange(from, to)
  \/ \E i \in Iter, off \in 0..Len(content) : NewIterator(i, off)
  \/ \E i \in Iter : DropIterator(i)
  \/ \E i \in Iter : Forward(i)
  \/ \E i \in Iter : Backward(i)
  \/ \E i \in Iter, d \in {-2, 2} : Advance(i, d)
  \/ \E i \in Iter : PassByValue(i)

Spec == Init /\ [][Next]_vars

(***************************************************************************)
(* Properties                                                              *)
(***************************************************************************)

RECURSIVE Leaves(_, _)
Leaves(t, x) == IF x = 0 THEN <<>>
                ELSE IF t.node[x].l = 0 THEN <<x>>
                ELSE Leaves(t, t.node[x].l) \o Leaves(t, t.node[x].r)
RECURSIVE InnerNodes(_, _)
InnerNodes(t, x) == IF x = 0 THEN {} ELSE IF t.node[x].l = 0 THEN {}
                    ELSE {x} \cup InnerNodes(t, t.node[x].l) \cup InnerNodes(t, t.node[x].r)
RECURSIVE ListFrom(_, _)
ListFrom(t, x) == IF x = 0 THEN <<>> ELSE <<x>> \o ListFrom(t, t.node[x].next)
Flat(t, leaves) == FlattenSeq([k \in 1..Len(leaves) |-> t.node[leaves[k]].page])
InTree(t) == ToSet(Leaves(t, t.root))

\* While every edit goes through a fresh iterator the leaves hold, from left to
\* right, the items the calls asked for, however the leaves were split and erased,
\* and every reader finds them there: read, operator [] and foreach_item.
ContentInOrder ==
  calm => /\ Flat(tree, Leaves(tree, tree.root)) = content
          /\ ForEachItem(tree) = content
          /\ ReadItems(tree, 0, Len(content)) = content
          /\ \A off \in 1..Len(content) : ItemAt(tree, off - 1) = content[off]

\* The list of the leaves and the tree agree: the same leaves in the same order
\* both ways, the sizes of the inner nodes are the sums below them, the cached
\* leaf is one of them and answers for its own offsets.
TreeAndListAgree ==
  calm =>
    LET leaves == Leaves(tree, tree.root)
        node == tree.node
    IN  /\ ListFrom(tree, tree.first) = leaves
        /\ tree.last = (IF leaves = <<>> THEN 0 ELSE Last(leaves))
        /\ \A k \in 1..Len(leaves) :
             /\ node[leaves[k]].prev = (IF k = 1 THEN 0 ELSE leaves[k - 1])
             /\ node[leaves[k]].size = Len(node[leaves[k]].page)
             /\ Offset(tree, leaves[k]) = Len(Flat(tree, SubSeq(leaves, 1, k - 1)))
             /\ node[leaves[k]].page # <<>>
        /\ \A x \in InnerNodes(tree, tree.root) :
             node[x].size = node[node[x].l].size + node[node[x].r].size
        /\ tree.cache.n # 0 =>
             /\ tree.cache.n \in ToSet(leaves)
             /\ tree.cache.lo = Offset(tree, tree.cache.n)
             /\ tree.cache.hi = tree.cache.lo + node[tree.cache.n].size

\* An iterator made or moved since the last edit passes its check and points into
\* the tree; one that passes it and points into the tree reads the item at the offset
\* it reports, however many edits ago it was made.
AcceptedReadsItsOffset ==
  (calm /\ abort = "no") => \A i \in {k \in Iter : it[k] # None} :
    /\ age[i] = 0 => Usable(tree, it[i]) /\ it[i].n \in InTree(tree) \cup {0}
    /\ (Usable(tree, it[i]) /\ it[i].n \in InTree(tree) /\ it[i].cur < it[i].end)
         => tree.node[it[i].n].page[it[i].cur + 1] = content[Position(it[i]) + 1]
=============================================================================

----------------------------- MODULE TextIndex -----------------------------
(***************************************************************************)
(* The line index of the text buffer: a count of line ends beside every    *)
(* node of the rope, kept by the callback the rope calls for the leaves it *)
(* adds, changes and drops, and the two searches that walk the counts.     *)
(* The callback sees the leaves one by one and out of order, and carries   *)
(* the last byte it saw from one call to the next.                         *)
(***************************************************************************)
EXTENDS FlexArray

VARIABLES count,         \* m_nr_new_line of the nodes that have meta data
          prevByte,      \* index_context: the last byte of the last leaf counted
          numberOfLines, \* text_buffer::numberOfLines
          indexed,       \* is_indexed, set when the callback is installed
          crFree         \* history: no "\r" was ever inserted

ivars == <<count, prevByte, numberOfLines, indexed, crFree>>

\* utf8_codec::count_new_line: "\r" counts, and "\n" unless it follows a "\r".
LineEnds(s, prev) ==
  Cardinality({k \in 1..Len(s) :
    s[k] = "r" \/ (s[k] = "n" /\ (IF k = 1 THEN prev ELSE s[k - 1]) # "r")})
LastByte(s, prev) == IF s = <<>> THEN prev ELSE Last(s)

Has(x, n) == n \in DOMAIN x.count
CountOf(x, n) == IF Has(x, n) THEN x.count[n] ELSE 0
Without(f, n) == [y \in DOMAIN f \ {n} |-> f[y]]

\* Every ancestor's count changed by d, made when it has none.
AddUp(x, up, d) == [y \in ToSet(up) |-> CountOf(x, y) + d] @@ x.count

\* Mutant: the ancestors add all of a changed leaf's count.
ModifiedAddsAll(x, e) ==
  LET c == LineEnds(e.page, x.prev)
  IN  [x EXCEPT !.count = (e.n :> c) @@ AddUp(x, e.up, c), !.prev = LastByte(e.page, @)]

\* on_node_unlink, on_node_insert (index_node and on_node_indexed), on_node_modified
OnUnlink(x, e) ==
  IF ~Has(x, e.n) THEN x
  ELSE [x EXCEPT !.count = Without(AddUp(x, e.up, -x.count[e.n]), e.n)]
OnInsert(x, e) ==
  LET c == LineEnds(e.page, x.prev)
  IN  [x EXCEPT !.count = (e.n :> c) @@ AddUp(x, e.up, c), !.prev = LastByte(e.page, @)]
OnModified(x, e) ==
  LET c == LineEnds(e.page, x.prev)
  IN  [x EXCEPT !.count = (e.n :> c) @@ AddUp(x, e.up, c - x.count[e.n]),
                !.prev = LastByte(e.page, @)]

\* text_buffer_indexer::on_node_event: then the global counter, when the root has meta data.
OnNodeEvent(x, e) ==
  LET y == CASE e.ev = "unlink" -> OnUnlink(x, e)
             [] e.ev = "insert" -> OnInsert(x, e)
             [] e.ev = "modified" -> OnModified(x, e)
  IN  IF Has(y, e.root) THEN [y EXCEPT !.lines = y.count[e.root] + 1] ELSE y

IndexState == [count |-> count, prev |-> prevByte, lines |-> numberOfLines]

\* The counts belong to the nodes: they go with the nodes nothing reaches any more.
Follow(x) ==
  /\ count' = [n \in DOMAIN x.count \cap DOMAIN tree'.node |-> x.count[n]]
  /\ prevByte' = x.prev
  /\ numberOfLines' = x.lines

IndexInit == /\ Init
             /\ count = <<>> /\ prevByte = "0" /\ numberOfLines = 0
             /\ indexed = FALSE /\ crFree = TRUE

\* text_buffer_indexer::build_index: installs the callback and counts every leaf.
BuildIndex ==
  /\ Running /\ ~indexed
  /\ LET leaves == Leaves(tree, tree.root)
         x == FoldLeft(LAMBDA y, n : OnInsert(y, Event(tree, "insert", n)), IndexState, leaves)
     IN  /\ count' = x.count
         /\ prevByte' = x.prev
         /\ numberOfLines' = numberOfLines + CountOf(x, tree.root) + 1
  /\ indexed' = TRUE
  /\ UNCHANGED <<vars, crFree>>

\* Every call of the rope, with the callbacks it makes once they are installed.
RopeStep ==
  /\ Next
  /\ IF indexed THEN Follow(FoldLeft(OnNodeEvent, IndexState, events'))
     ELSE UNCHANGED <<count, prevByte, numberOfLines>>
  /\ crFree' = (crFree /\ "r" \notin ToSet(content'))
  /\ UNCHANGED indexed

IndexNext == BuildIndex \/ RopeStep
IndexSpec == IndexInit /\ [][IndexNext]_<<vars, ivars>>

(***************************************************************************)
(* The searches                                                            *)
(***************************************************************************)

Newlines(s) == Cardinality({k \in 1..Len(s) : s[k] = "n"})

\* find_line: down the tree by the counts; the line's number in the leaf it ends in.
RECURSIVE FindLine(_, _)
FindLine(x, line) ==
  LET l == tree.node[x].l
  IN  IF l = 0 THEN [n |-> x, line |-> line]
      ELSE IF line < count[l] THEN FindLine(l, line)
      ELSE FindLine(tree.node[x].r, line - count[l])

\* The scan of find_start_of_line: at least one byte, then up to the line-th "\n".
ScanLine(page, line) ==
  LET Seen(k) == Newlines(SubSeq(page, 1, k))
      stops == {k \in 1..Len(page) : line = Seen(k)}
  IN  IF stops = {} THEN Len(page) ELSE CHOOSE k \in stops : \A m \in stops : k <= m

\* find_start_of_line: the offset it answers for a line
StartOfLine(line) ==
  IF line = 1 THEN 0
  ELSE LET f == FindLine(tree.root, line - 1)
       IN  Offset(tree, f.n) + ScanLine(tree.node[f.n].page, f.line)

\* find_line_from_buffer_iterator: newlines before the place in its leaf and the
\* counts of the left siblings on the way to the root.
RECURSIVE LinesBefore(_)
LinesBefore(x) ==
  LET p == tree.node[x].par
  IN  IF p = 0 THEN 0
      ELSE (IF x = tree.node[p].r THEN count[tree.node[p].l] ELSE 0) + LinesBefore(p)
LineByOffset(off) ==
  LET b == BuildIt(tree, off)
  IN  IF b.n = 0 THEN 0
      ELSE Newlines(SubSeq(tree.node[b.n].page, 1, b.cur)) + LinesBefore(b.n) + 1

(***************************************************************************)
(* Properties                                                              *)
(***************************************************************************)

Watching == indexed /\ calm /\ abort = "no"

\* Every node of the tree has a count, an inner node the sum of its children's.
CountsAddUp ==
  /\ InTree(tree) \subseteq DOMAIN count
  /\ \A x \in InnerNodes(tree, tree.root) :
       x \in DOMAIN count /\ count[x] = count[tree.node[x].l] + count[tree.node[x].r]

\* Without "\r" the number of lines is the number of "\n" plus one, the line of
\* every offset is the one a scan of the whole text gives, and a line is found where
\* it starts unless the "\n" before it is the last one of a left sub tree.
LinesAreExact ==
  /\ numberOfLines = Newlines(content) + 1
  /\ \A off \in 0..Len(content) :
       LineByOffset(off) = Newlines(SubSeq(content, 1, off)) + 1
  /\ \A line \in 2..numberOfLines :
       FindLine(tree.root, line - 1).line > 0 =>
         LET start == StartOfLine(line)
         IN  content[start] = "n" /\ Newlines(SubSeq(content, 1, start)) = line - 1

\* However leaves are split, changed and dropped, the counts the callbacks keep add
\* up, and without "\r" they lead to the text's own lines (unless the rope was
\* emptied: the last callback finds no counts; text_buffer_indexer.cpp:297-339).
IndexMatchesText ==
  Watching => CountsAddUp /\ (crFree /\ content # <<>> => LinesAreExact)
=============================================================================

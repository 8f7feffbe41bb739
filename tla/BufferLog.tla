------------------------------ MODULE BufferLog ------------------------------
(***************************************************************************)
(* The modification log of one eedit buffer (api/src/buffer_log.cpp) with  *)
(* the edits of its client (deprecated/text_buffer.hpp).  Nothing of this  *)
(* commit drives the log as a whole: the text mode does not log its edits  *)
(* yet, and the undo and redo commands (core/undo/undo.cpp) stop at an     *)
(* assert(0) before they reach it.  So what is modelled is the log, under  *)
(* any mix of its four calls, for a client that does what the log is for:  *)
(* it logs the edits of the text that the head of the log stands for.      *)
(*                                                                         *)
(* A commit is a record of the log, a pointer to it is its place there and *)
(* 0 is the null pointer.  An edit made after undos first logs the undone  *)
(* commits again, inverted and last first; each turn of that loop is a     *)
(* step here, and nothing else happens until the edit is done.             *)
(***************************************************************************)
EXTENDS Integers, Sequences

CONSTANTS
  Char,         \* the characters of a text
  MaxText,      \* bound: the length of a text
  MaxCommits    \* bound: the commits of a log

ASSUME BoundsAssumption == MaxText \in Nat /\ MaxCommits \in Nat

VARIABLES
  log,          \* every buffer_commit, in the order of its allocation
  cur,          \* log->cur
  last,         \* log->last
  edit,         \* the edit that waits for the undone commits, or NoEdit
  walk,         \* b, the next commit to invert
  stop,         \* e, where the inversion ends
  versions      \* history: the text after each commit of the log

vars == <<log, cur, last, edit, walk, stop, versions>>

Text == UNION {[1..n -> Char] : n \in 0..MaxText}

Entry(op, offset, data) == [op |-> op, offset |-> offset, data |-> data]

NoEdit == Entry("nop", 0, <<>>)

-----------------------------------------------------------------------------
(* What an entry does to a text.                                           *)

Splice(t, offset, data) ==
  SubSeq(t, 1, offset) \o data \o SubSeq(t, offset + 1, Len(t))

Cut(t, offset, size) ==
  SubSeq(t, 1, offset) \o SubSeq(t, offset + size + 1, Len(t))

Do(e, t) ==
  IF e.op = "insert" THEN Splice(t, e.offset, e.data)
  ELSE IF e.op = "remove" THEN Cut(t, e.offset, Len(e.data))
  ELSE t

(* Mutant: the operation is kept.                                          *)
InverseKeepsOp(e) == Entry(e.op, e.offset, e.data)

(* revert_commits: an insert becomes a remove, anything else an insert.    *)
Inverse(e) ==
  Entry(IF e.op = "insert" THEN "remove" ELSE "insert", e.offset, e.data)

(* The entry finds in the text what it expects.                            *)
Fits(e, t) ==
  CASE e.op = "insert" -> e.offset \in 0..Len(t)
    [] e.op = "remove" -> /\ e.offset + Len(e.data) <= Len(t)
                          /\ SubSeq(t, e.offset + 1, e.offset + Len(e.data)) = e.data
    [] OTHER -> FALSE

-----------------------------------------------------------------------------

Commit(e, rev, parent, prev) ==
  [op |-> e.op, offset |-> e.offset, data |-> e.data,
   rev |-> rev, parent |-> parent, prev |-> prev, next |-> 0]

Init ==
  /\ log = <<Commit(NoEdit, 0, 0, 0)>>
  /\ cur = 1 /\ last = 1
  /\ edit = NoEdit /\ walk = 0 /\ stop = 0
  /\ versions \in {<<t>> : t \in Text}

Idle == edit = NoEdit

(* The text that a client has which follows the head of the log; while an  *)
(* edit waits for its reverts, the text it was made on.                    *)
text == versions[IF Idle THEN cur ELSE stop]

(* ll_insert_commit: the new commit is the child of cur and the successor  *)
(* of last, and becomes both.                                              *)
LlInsert(e) ==
  /\ log' = Append([log EXCEPT ![last].next = Len(log) + 1],
                   Commit(e, log[last].rev + 1, cur, last))
  /\ cur' = Len(log) + 1
  /\ last' = Len(log) + 1
  /\ versions' = Append(versions, Do(e, versions[Len(versions)]))

(* Mutant: the undone commits are not logged again.                        *)
BeginWithoutReverts(e) ==
  /\ LlInsert(e)
  /\ UNCHANGED <<edit, walk, stop>>

(* insert_commit: the entry is logged at once if nothing is undone.        *)
Begin(e) ==
  \/ /\ cur = last
     /\ LlInsert(e)
     /\ UNCHANGED <<edit, walk, stop>>
  \/ /\ cur # last
     /\ edit' = e
     /\ walk' = last /\ stop' = cur
     /\ cur' = last
     /\ UNCHANGED <<log, last, versions>>

(* Bound: the log has room for the reverts and the edit.                   *)
Room == Len(log) + (last - cur) < MaxCommits

(* text_buffer::insert_codepoint                                           *)
Insert(offset, data) ==
  /\ Idle /\ Room
  /\ offset \in 0..Len(text)
  /\ Len(data) > 0 /\ Len(text) + Len(data) <= MaxText
  /\ Begin(Entry("insert", offset, data))

(* text_buffer::remove: the bytes that go are copied into the log.         *)
Remove(offset, size) ==
  /\ Idle /\ Room
  /\ size > 0 /\ offset + size <= Len(text)
  /\ Begin(Entry("remove", offset, SubSeq(text, offset + 1, offset + size)))

(* One turn of the loops of insert_revert_commits.                         *)
Revert ==
  /\ ~Idle /\ walk # stop
  /\ LlInsert(Inverse(log[walk]))
  /\ walk' = log[walk].parent
  /\ UNCHANGED <<edit, stop>>

FinishEdit ==
  /\ ~Idle /\ walk = stop
  /\ LlInsert(edit)
  /\ edit' = NoEdit /\ walk' = 0 /\ stop' = 0

(* buffer_log_undo and buffer_log_redo: the head moves along the tree, and *)
(* back along the list; the log stays as it is.                            *)
Undo ==
  /\ Idle
  /\ cur' = IF log[cur].parent # 0 THEN log[cur].parent ELSE cur
  /\ UNCHANGED <<log, last, edit, walk, stop, versions>>

Redo ==
  /\ Idle
  /\ cur' = IF log[cur].next # 0 THEN log[cur].next ELSE cur
  /\ UNCHANGED <<log, last, edit, walk, stop, versions>>

Next ==
  \/ \E offset \in 0..MaxText :
       \/ \E data \in Text : Insert(offset, data)
       \/ \E size \in 1..MaxText : Remove(offset, size)
  \/ Revert \/ FinishEdit
  \/ Undo \/ Redo

Spec == Init /\ [][Next]_vars

-----------------------------------------------------------------------------

EntryOf(ops) == [op : ops, offset : Nat, data : Seq(Char)]

CommitRecord ==
  [op : {"nop", "insert", "remove"}, offset : Nat, data : Seq(Char),
   rev : Nat, parent : Nat, prev : Nat, next : Nat]

TypeOK ==
  /\ log \in Seq(CommitRecord) /\ log # <<>>
  /\ cur \in 1..Len(log) /\ last \in 1..Len(log)
  /\ edit \in EntryOf({"insert", "remove"}) \cup {NoEdit}
  /\ walk \in 0..Len(log) /\ stop \in 0..Len(log)
  /\ versions \in Seq(Seq(Char)) /\ Len(versions) = Len(log)

(* The log keeps a tree (parent) and a list (prev, next), and undo follows *)
(* the one while redo follows the other.  They never disagree: whatever    *)
(* was undone before an edit, the parent of a commit is the commit before  *)
(* it, and revisions count up without a gap.                               *)
OneLine ==
  /\ last = Len(log)
  /\ \A i \in 1..Len(log) :
       /\ log[i].rev = i - 1
       /\ log[i].parent = i - 1
       /\ log[i].prev = i - 1
       /\ log[i].next = IF i = Len(log) THEN 0 ELSE i + 1

(* The log can be replayed from its root: each commit, the inverted ones   *)
(* included, finds in the text its predecessors left the place it inserts  *)
(* at or the very bytes it removes.                                        *)
Replayable ==
  \A i \in 2..Len(log) : Fits(log[i], versions[i - 1])

-----------------------------------------------------------------------------
(* The abstract history: an edit counts as made when it is finished, and   *)
(* the reverts before it as part of it.                                    *)

(* The length of the log when the edit began: as many commits were added   *)
(* since as walk has gone back from there.                                 *)
Base == (Len(log) + walk) \div 2

History == INSTANCE UndoHistory WITH
  trail <- IF Idle THEN versions ELSE SubSeq(versions, 1, Base),
  at    <- IF Idle THEN cur ELSE stop

(* The log is an undo history in which no text is ever lost.               *)
ImplementsHistory == History!Spec

=============================================================================

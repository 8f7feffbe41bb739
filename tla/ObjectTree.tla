------------------------------ MODULE ObjectTree ------------------------------
(***************************************************************************)
(* The tree of objects every widget is a node of, ew::core::object: each   *)
(* object has its own mutex, a link to its parent, its index there, and an *)
(* array of slots for its children, which keeps a hole where a child has   *)
(* left.  Several threads call set_parent, remove_child and the questions  *)
(* is_parent_of, is_child_of and is_sibling_of at once; a thread holds the *)
(* mutex of one object while it waits for that of another.                 *)
(*                                                                         *)
(* What is done under two mutexes is one step.  An object is only          *)
(* destroyed while no thread is inside a call: to use an object that is    *)
(* being destroyed is the callers' mistake.                                *)
(***************************************************************************)
EXTENDS Naturals, Sequences, FiniteSets

CONSTANTS Objects,   \* the objects there may be
          Threads,   \* the threads that use them
          Null,      \* no object
          Order,     \* the pairs <<child, parent>> of the tree the program means
          MaxCalls   \* bound on the number of calls

ASSUME NullAssumption == Null \notin Objects \cup Threads
ASSUME OrderAssumption == Order \subseteq Objects \X Objects
ASSUME CallsAssumption == MaxCalls \in Nat

VARIABLES alive,     \* the objects constructed and not destroyed
          parent,    \* _parent
          index,     \* _parent_index
          slots,     \* _children_vec
          number,    \* _nrChildren
          lock,      \* who holds each object's mutex
          call,      \* what each thread is doing
          calls,     \* the number of calls so far
          crossed    \* whether a call went against the order of the tree

vars == <<alive, parent, index, slots, number, lock, call, calls, crossed>>
tree == <<alive, parent, index, slots, number>>

Idle == [pc |-> "idle", me |-> Null, other |-> Null]

Init == /\ alive = {}
        /\ parent = [o \in Objects |-> Null]
        /\ index = [o \in Objects |-> 0]
        /\ slots = [o \in Objects |-> <<>>]
        /\ number = [o \in Objects |-> 0]
        /\ lock = [o \in Objects |-> Null]
        /\ call = [t \in Threads |-> Idle]
        /\ calls = 0
        /\ crossed = FALSE

-------------------------------------------------------------------------------
(***************************************************************************)
(* Construction and destruction.                                           *)
(***************************************************************************)

AllIdle == \A t \in Threads : call[t] = Idle

Counted == calls < MaxCalls /\ calls' = calls + 1

New(o) == /\ o \notin alive
          /\ alive' = alive \cup {o}
          /\ parent' = [parent EXCEPT ![o] = Null]
          /\ slots' = [slots EXCEPT ![o] = <<>>]
          /\ number' = [number EXCEPT ![o] = 0]
          /\ UNCHANGED <<index, lock, call, calls, crossed>>

\* o and everything below it: the sets closed under the children they have.
Below(o) ==
  LET closed == {s \in SUBSET alive :
                   o \in s /\ \A c \in alive : parent[c] \in s => c \in s}
  IN  {c \in alive : \A s \in closed : c \in s}

\* No object is its own ancestor: otherwise the destructor would come back to it.
Acyclic(o) == parent[o] # Null => parent[o] \notin Below(o)

\* The destructor deletes the children first, and leaves the parent like any
\* child: one slot becomes a hole.
Destroy(o) ==
  /\ o \in alive
  /\ AllIdle
  /\ Acyclic(o)
  /\ Counted
  /\ alive' = alive \ Below(o)
  /\ parent' = [c \in Objects |-> IF c \in Below(o) THEN Null ELSE parent[c]]
  /\ LET p == parent[o]
     IN  /\ slots' = [q \in Objects |->
                        IF q \in Below(o) THEN <<>>
                        ELSE IF q = p THEN [slots[p] EXCEPT ![index[o]] = Null]
                        ELSE slots[q]]
         /\ number' = [q \in Objects |->
                         IF q \in Below(o) THEN 0
                         ELSE IF q = p THEN number[p] - 1 ELSE number[q]]
  /\ UNCHANGED <<index, lock, call, crossed>>

-------------------------------------------------------------------------------
(***************************************************************************)
(* Calls begin: which mutex is taken first, and which is asked for next.   *)
(***************************************************************************)

Start(t, pc, a, b) ==
  /\ call[t] = Idle
  /\ a \in alive
  /\ b \in alive \cup {Null}
  /\ Counted
  /\ call' = [call EXCEPT ![t] = [pc |-> pc, me |-> a, other |-> b]]
  /\ crossed' = (crossed \/ (b # Null /\ <<a, b>> \notin Order))
  /\ UNCHANGED <<tree, lock>>

\* set_parent: an object cannot be its own parent; add_child is the same call.
SetParent(t, c, p) == c # p /\ Start(t, "take", c, p)

\* remove_child looks at the parent without a mutex, and then calls set_parent.
RemoveChild(t, c, p) == parent[c] = p /\ p # Null /\ Start(t, "take", c, Null)

\* The questions take the mutex of the object asked and then the other's.
Ask(t, a, b) == b # Null /\ Start(t, "ask", a, b)

-------------------------------------------------------------------------------
(***************************************************************************)
(* set_parent, under the child's mutex: out of the old parent's slot, and  *)
(* into the first hole or a new slot of the new one.                       *)
(***************************************************************************)

Goto(t, pc) == call' = [call EXCEPT ![t].pc = pc]

Take(t) ==
  /\ call[t].pc \in {"take", "ask"}
  /\ lock[call[t].me] = Null
  /\ lock' = [lock EXCEPT ![call[t].me] = t]
  /\ Goto(t, IF call[t].pc = "take" THEN "leave" ELSE "compare")
  /\ UNCHANGED <<tree, calls, crossed>>

Leave(t) ==
  LET c == call[t].me
      p == parent[c]
  IN  /\ call[t].pc = "leave"
      /\ p # Null => lock[p] = Null
      /\ slots' = IF p = Null THEN slots
                  ELSE [slots EXCEPT ![p] = [@ EXCEPT ![index[c]] = Null]]
      /\ number' = IF p = Null THEN number ELSE [number EXCEPT ![p] = @ - 1]
      /\ Goto(t, "clear")
      /\ UNCHANGED <<alive, parent, index, lock, calls, crossed>>

\* Mutant: a mutex that is not released on the early return without a new parent.
ClearHolding(t) ==
  LET c == call[t].me
      last == call[t].other = Null
  IN  /\ call[t].pc = "clear"
      /\ parent' = [parent EXCEPT ![c] = Null]
      /\ call' = [call EXCEPT ![t] = IF last THEN Idle ELSE [@ EXCEPT !.pc = "join"]]
      /\ UNCHANGED <<alive, index, slots, number, lock, calls, crossed>>

Clear(t) ==
  LET c == call[t].me
      last == call[t].other = Null
  IN  /\ call[t].pc = "clear"
      /\ parent' = [parent EXCEPT ![c] = Null]
      /\ lock' = IF last THEN [lock EXCEPT ![c] = Null] ELSE lock
      /\ call' = [call EXCEPT ![t] = IF last THEN Idle ELSE [@ EXCEPT !.pc = "join"]]
      /\ UNCHANGED <<alive, index, slots, number, calls, crossed>>

Holes(p) == {i \in DOMAIN slots[p] : slots[p][i] = Null}

\* The slot a new child gets; the holes are only looked for when there is one.
Slot(p) == IF number[p] # Len(slots[p]) /\ Holes(p) # {}
           THEN CHOOSE i \in Holes(p) : \A j \in Holes(p) : i <= j
           ELSE Len(slots[p]) + 1

Put(seq, i, c) == [j \in 1 .. (IF i > Len(seq) THEN i ELSE Len(seq)) |->
                     IF j = i THEN c ELSE seq[j]]

\* The child is put into its slot and told the index i.
JoinAs(t, i) ==
  LET c == call[t].me
      p == call[t].other
  IN  /\ call[t].pc = "join"
      /\ lock[p] = Null
      /\ slots' = [slots EXCEPT ![p] = Put(@, Slot(p), c)]
      /\ index' = [index EXCEPT ![c] = i]
      /\ parent' = [parent EXCEPT ![c] = p]
      /\ number' = [number EXCEPT ![p] = @ + 1]
      /\ lock' = [lock EXCEPT ![c] = Null]
      /\ call' = [call EXCEPT ![t] = Idle]
      /\ UNCHANGED <<alive, calls, crossed>>

\* Mutant: the index is the old size of the array, whichever slot was free.
JoinIndexed(t) == JoinAs(t, Len(slots[call[t].other]) + 1)

Join(t) == JoinAs(t, Slot(call[t].other))

\* A question is answered once both mutexes are held; asked about itself, an
\* object waits for its own mutex.
Compare(t) ==
  /\ call[t].pc = "compare"
  /\ lock[call[t].other] = Null
  /\ lock' = [lock EXCEPT ![call[t].me] = Null]
  /\ call' = [call EXCEPT ![t] = Idle]
  /\ UNCHANGED <<tree, calls, crossed>>

Step(t) == Take(t) \/ Leave(t) \/ Clear(t) \/ Join(t) \/ Compare(t)

Begin(t) == \E a \in Objects, b \in Objects \cup {Null} :
              SetParent(t, a, b) \/ RemoveChild(t, a, b) \/ Ask(t, a, b)

Next == \/ \E o \in Objects : New(o) \/ Destroy(o)
        \/ \E t \in Threads : Begin(t) \/ Step(t)

Spec == Init /\ [][Next]_vars /\ \A t \in Threads : WF_vars(Step(t))

-------------------------------------------------------------------------------
(***************************************************************************)
(* Properties.                                                             *)
(***************************************************************************)

TypeOK ==
  /\ alive \subseteq Objects
  /\ parent \in [Objects -> Objects \cup {Null}]
  /\ index \in [Objects -> Nat]
  /\ slots \in [Objects -> Seq(Objects \cup {Null})]
  /\ number \in [Objects -> Nat]
  /\ lock \in [Objects -> Threads \cup {Null}]
  /\ call \in [Threads -> [pc : {"idle", "take", "leave", "clear", "join", "ask", "compare"},
                           me : Objects \cup {Null}, other : Objects \cup {Null}]]
  /\ calls \in 0 .. MaxCalls
  /\ crossed \in BOOLEAN

\* A thread has taken c out of its parent's slot and not yet cleared the link.
Leaving(c) == \E t \in Threads : call[t].pc = "clear" /\ call[t].me = c

\* Children and parents agree whatever threads move objects at once: a child's
\* link and index lead to the slot that holds it, a slot holds the child whose
\* link and index lead back to it, and the count that decides whether a hole is
\* looked for is the number of slots in use (object.cpp:148-228).
SlotsAndLinksAgree ==
  /\ \A c \in alive :
       parent[c] # Null /\ ~Leaving(c) =>
         index[c] \in DOMAIN slots[parent[c]] /\ slots[parent[c]][index[c]] = c
  /\ \A p \in alive : \A i \in DOMAIN slots[p] :
       slots[p][i] # Null =>
         /\ slots[p][i] \in alive
         /\ parent[slots[p][i]] = p
         /\ index[slots[p][i]] = i
  /\ \A p \in alive : number[p] = Len(slots[p]) - Cardinality(Holes(p))

\* As long as every call goes from a child to the parent the program's tree
\* gives it, no thread waits for ever: each call returns, though it holds one
\* mutex while it takes another (object.cpp:148-228).
EveryCallReturns ==
  \A t \in Threads : call[t] # Idle ~> call[t] = Idle \/ crossed
===============================================================================

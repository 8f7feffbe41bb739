-------------------------- MODULE ObjectTreeProofs --------------------------
(***************************************************************************)
(* Proofs about the tree of objects, for any objects, threads and number   *)
(* of calls.                                                               *)
(*                                                                         *)
(* Links and slots may disagree between the two steps in which set_parent  *)
(* takes a child out of its old parent: the slot is a hole already, the    *)
(* link is not cleared yet, and another thread may fill the hole.  What    *)
(* keeps this from being seen is the child's own mutex (LockInv): only its *)
(* holder is between the two steps, the child is then in no slot at all    *)
(* and, once the link is cleared, has no parent until the same thread      *)
(* gives it one (CallInv).  Links only lead to objects that are alive      *)
(* (AliveInv), because the destructor takes everything below an object.    *)
(***************************************************************************)
EXTENDS ObjectTree, FiniteSetTheorems, TLAPS

Holding == {"leave", "clear", "join", "compare"}

CallType == [pc : {"idle", "take", "leave", "clear", "join", "ask", "compare"},
             me : Objects \cup {Null}, other : Objects \cup {Null}]

(* A mutex is held where the program counters say.                         *)
LockInv ==
  /\ \A t \in Threads : call[t].pc \in Holding => lock[call[t].me] = t
  /\ \A o \in Objects : lock[o] # Null =>
       call[lock[o]].pc \in Holding /\ call[lock[o]].me = o

(* What a thread inside a call knows.                                      *)
CallInv ==
  \A t \in Threads :
    /\ call[t].pc = "idle" => call[t] = Idle
    /\ call[t].pc # "idle" => call[t].me \in alive /\ call[t].other \in alive \cup {Null}
    /\ call[t].pc \in {"ask", "compare", "join"} => call[t].other # Null
    /\ call[t].pc = "join" => parent[call[t].me] = Null
    /\ call[t].pc = "clear" =>
         \A p \in alive : \A i \in DOMAIN slots[p] : slots[p][i] # call[t].me

(* An object that is not there has no parent, and is nobody's.             *)
AliveInv ==
  \A o \in Objects : parent[o] \in alive \cup {Null} /\ (o \notin alive => parent[o] = Null)

(* The three parts of SlotsAndLinksAgree.                                  *)
LinkInv ==
  \A c \in alive : parent[c] # Null /\ ~Leaving(c) =>
    index[c] \in DOMAIN slots[parent[c]] /\ slots[parent[c]][index[c]] = c
SlotInv ==
  \A p \in alive : \A i \in DOMAIN slots[p] : slots[p][i] # Null =>
    slots[p][i] \in alive /\ parent[slots[p][i]] = p /\ index[slots[p][i]] = i
NumberInv == \A p \in alive : number[p] = Len(slots[p]) - Cardinality(Holes(p))

IInv == TypeOK /\ LockInv /\ CallInv /\ AliveInv /\ LinkInv /\ SlotInv /\ NumberInv

LEMMA Agreement == SlotsAndLinksAgree <=> LinkInv /\ SlotInv /\ NumberInv
  BY DEF SlotsAndLinksAgree, LinkInv, SlotInv, NumberInv

-----------------------------------------------------------------------------
(* Sequences with holes.                                                   *)

HolesOf(s) == {i \in DOMAIN s : s[i] = Null}

LEMMA HolesAre == \A p : Holes(p) = HolesOf(slots[p])
  BY DEF Holes, HolesOf

LEMMA HolesFinite ==
  ASSUME NEW S, NEW s \in Seq(S)
  PROVE  /\ Len(s) \in Nat /\ DOMAIN s = 1..Len(s)
         /\ HolesOf(s) \subseteq 1..Len(s)
         /\ IsFiniteSet(HolesOf(s))
         /\ Cardinality(HolesOf(s)) \in Nat
         /\ Cardinality(HolesOf(s)) <= Len(s)
<1>1. Len(s) \in Nat /\ DOMAIN s = 1..Len(s) OBVIOUS
<1>2. HolesOf(s) \subseteq 1..Len(s) BY <1>1 DEF HolesOf
<1>3. IsFiniteSet(1..Len(s)) /\ Cardinality(1..Len(s)) = Len(s)
  BY <1>1, FS_Interval
<1>4. IsFiniteSet(HolesOf(s)) /\ Cardinality(HolesOf(s)) <= Len(s)
  BY <1>2, <1>3, FS_Subset
<1>5. Cardinality(HolesOf(s)) \in Nat BY <1>4, FS_CardinalityType
<1> QED BY <1>1, <1>2, <1>4, <1>5

(* Where a child leaves there is a hole more.                              *)
LEMMA HoleMore ==
  ASSUME NEW S, NEW s \in Seq(S), Null \in S, NEW i \in DOMAIN s, s[i] # Null
  PROVE  /\ [s EXCEPT ![i] = Null] \in Seq(S)
         /\ Len([s EXCEPT ![i] = Null]) = Len(s)
         /\ DOMAIN [s EXCEPT ![i] = Null] = DOMAIN s
         /\ Cardinality(HolesOf([s EXCEPT ![i] = Null])) = Cardinality(HolesOf(s)) + 1
         /\ Cardinality(HolesOf(s)) < Len(s)
<1> DEFINE r == [s EXCEPT ![i] = Null]
<1>1. r \in Seq(S) /\ Len(r) = Len(s) /\ DOMAIN r = DOMAIN s OBVIOUS
<1>2. HolesOf(r) = HolesOf(s) \cup {i} BY <1>1 DEF HolesOf
<1>3. i \notin HolesOf(s) BY DEF HolesOf
<1>4. IsFiniteSet(HolesOf(s)) /\ Cardinality(HolesOf(s)) \in Nat BY HolesFinite
<1>5. Cardinality(HolesOf(s) \cup {i}) = Cardinality(HolesOf(s)) + 1
  BY <1>3, <1>4, FS_AddElement
<1>6. Cardinality(HolesOf(r)) <= Len(r) BY <1>1, HolesFinite
<1>7. Len(s) \in Nat OBVIOUS
<1> HIDE DEF r
<1>8. Cardinality(HolesOf(r)) = Cardinality(HolesOf(s)) + 1 BY <1>2, <1>5
<1>9. Cardinality(HolesOf(s)) < Len(s) BY <1>1, <1>4, <1>6, <1>7, <1>8
<1> QED BY <1>1, <1>8, <1>9 DEF r

(* A child put into a hole, or behind the last slot.                       *)
LEMMA PutFills ==
  ASSUME NEW s \in Seq(Objects \cup {Null}), NEW c \in Objects, c # Null,
         NEW i \in Nat \ {0}, i \in HolesOf(s) \/ i = Len(s) + 1
  PROVE  /\ Put(s, i, c) \in Seq(Objects \cup {Null})
         /\ DOMAIN Put(s, i, c) = DOMAIN s \cup {i}
         /\ Put(s, i, c)[i] = c
         /\ \A j \in DOMAIN s : j # i => Put(s, i, c)[j] = s[j]
         /\ Len(Put(s, i, c)) - Cardinality(HolesOf(Put(s, i, c)))
              = Len(s) - Cardinality(HolesOf(s)) + 1
<1> DEFINE S == Objects \cup {Null}
           r == Put(s, i, c)
           n == IF i > Len(s) THEN i ELSE Len(s)
<1>1. Len(s) \in Nat /\ DOMAIN s = 1..Len(s) OBVIOUS
<1>2. i \in DOMAIN s \/ i = Len(s) + 1 BY DEF HolesOf
<1>3. n \in Nat /\ 1..n = DOMAIN s \cup {i} BY <1>1, <1>2
<1>4. r = [j \in 1..n |-> IF j = i THEN c ELSE s[j]] BY DEF Put
<1>5. \A j \in 1..n : (IF j = i THEN c ELSE s[j]) \in S BY <1>1, <1>3
<1> HIDE DEF r, n, S
<1>6. r \in Seq(S) /\ Len(r) = n /\ DOMAIN r = 1..n
  <2>1. r \in [1..n -> S] BY <1>4, <1>5
  <2>2. DOMAIN r = 1..n BY <1>4
  <2> QED BY <1>3, <2>1, <2>2
<1>7. r[i] = c /\ \A j \in DOMAIN s : j # i => r[j] = s[j] BY <1>3, <1>4
<1>8. HolesOf(r) = HolesOf(s) \ {i}
  BY <1>3, <1>6, <1>7 DEF HolesOf
<1>9. IsFiniteSet(HolesOf(s)) /\ Cardinality(HolesOf(s)) \in Nat BY HolesFinite
<1>10. CASE i \in HolesOf(s)
  <2>1. Cardinality(HolesOf(s) \ {i}) = Cardinality(HolesOf(s)) - 1
    BY <1>9, <1>10, FS_RemoveElement
  <2>2. i \in 1..Len(s) BY <1>1, <1>10 DEF HolesOf
  <2>3. ~(i > Len(s)) BY <1>1, <2>2
  <2>4. n = Len(s) BY <2>3, Zenon DEF n
  <2>5. Cardinality(HolesOf(r)) = Cardinality(HolesOf(s)) - 1 BY <1>8, <2>1
  <2>6. Len(r) - Cardinality(HolesOf(r)) = Len(s) - Cardinality(HolesOf(s)) + 1
    BY <1>1, <1>6, <1>9, <2>4, <2>5
  <2> QED BY <1>3, <1>6, <1>7, <2>6 DEF r, S
<1>11. CASE i = Len(s) + 1
  <2>1. i \notin HolesOf(s) BY <1>1, <1>11 DEF HolesOf
  <2>2. HolesOf(r) = HolesOf(s) BY <1>8, <2>1
  <2>3. n = Len(s) + 1 BY <1>1, <1>11 DEF n
  <2>4. Len(r) - Cardinality(HolesOf(r)) = Len(s) - Cardinality(HolesOf(s)) + 1
    BY <1>1, <1>6, <1>9, <2>2, <2>3
  <2> QED BY <1>3, <1>6, <1>7, <2>4 DEF r, S
<1> QED BY <1>10, <1>11

(* A set of numbers has a least one.                                       *)
LEMMA LeastOne ==
  ASSUME NEW K \in SUBSET Nat, K # {}
  PROVE  \E i \in K : \A j \in K : i <= j
<1> DEFINE lt == OpToRel(<, Nat)
<1>1. IsWellFoundedOn(lt, Nat)
  BY NatLessThanWellFounded
<1>2. PICK i \in K : \A j \in K : <<j, i>> \notin lt
  <2> HIDE DEF lt
  <2> QED BY <1>1, WFMin
<1>3. \A j \in K : ~(j < i) BY <1>2 DEF OpToRel
<1> QED BY <1>3

(* The slot a child gets is the first hole, or the one behind the last.    *)
LEMMA SlotIsFree ==
  ASSUME NEW p \in Objects, TypeOK
  PROVE  /\ Slot(p) \in Nat \ {0}
         /\ Slot(p) \in HolesOf(slots[p]) \/ Slot(p) = Len(slots[p]) + 1
<1>1. slots[p] \in Seq(Objects \cup {Null}) BY DEF TypeOK
<1>2. HolesOf(slots[p]) \subseteq 1..Len(slots[p]) /\ Len(slots[p]) \in Nat
  BY <1>1, HolesFinite
<1>3. CASE number[p] # Len(slots[p]) /\ HolesOf(slots[p]) # {}
  <2>1. \E i \in HolesOf(slots[p]) : \A j \in HolesOf(slots[p]) : i <= j
    BY <1>2, <1>3, LeastOne
  <2>2. Slot(p) = CHOOSE i \in HolesOf(slots[p]) : \A j \in HolesOf(slots[p]) : i <= j
    BY <1>3, HolesAre DEF Slot
  <2>3. Slot(p) \in HolesOf(slots[p]) BY <2>1, <2>2
  <2> QED BY <1>2, <2>3
<1>4. CASE ~(number[p] # Len(slots[p]) /\ HolesOf(slots[p]) # {})
  BY <1>2, <1>4, HolesAre DEF Slot
<1> QED BY <1>3, <1>4

-----------------------------------------------------------------------------
(* The steps that leave the tree as it is.                                 *)

LEMMA InitInv == Init => IInv
<1> SUFFICES ASSUME Init PROVE IInv OBVIOUS
<1> USE DEF Init
<1>1. TypeOK
  <2>1. Idle \in CallType BY DEF Idle, CallType
  <2>2. call \in [Threads -> CallType] BY <2>1
  <2>3. slots \in [Objects -> Seq(Objects \cup {Null})] OBVIOUS
  <2>4. calls \in 0 .. MaxCalls BY CallsAssumption
  <2> QED BY <2>2, <2>3, <2>4 DEF TypeOK, CallType
<1>2. LockInv BY DEF LockInv, Holding, Idle
<1>3. CallInv
  <2>1. \A t \in Threads : call[t] = Idle /\ call[t].pc = "idle" BY DEF Idle
  <2> QED BY <2>1 DEF CallInv
<1>4. AliveInv BY DEF AliveInv
<1>5. LinkInv /\ SlotInv /\ NumberInv BY DEF LinkInv, SlotInv, NumberInv
<1> QED BY <1>1, <1>2, <1>3, <1>4, <1>5 DEF IInv

LEMMA TreeStays ==
  ASSUME IInv, UNCHANGED tree,
         \A t \in Threads : call'[t].pc = "clear" <=> call[t].pc = "clear",
         \A t \in Threads : call[t].pc = "clear" => call'[t].me = call[t].me
  PROVE  AliveInv' /\ LinkInv' /\ SlotInv' /\ NumberInv'
<1>1. AliveInv' /\ SlotInv' BY DEF IInv, AliveInv, SlotInv, tree
<1>2. \A c \in alive : Leaving(c)' <=> Leaving(c) BY DEF Leaving
<1>3. LinkInv' BY <1>2 DEF IInv, LinkInv, tree
<1>4. \A p : Holes(p)' = Holes(p) BY DEF Holes, tree
<1>5. NumberInv' BY <1>4 DEF IInv, NumberInv, tree
<1> QED BY <1>1, <1>3, <1>5

LEMMA StartKeeps ==
  ASSUME IInv, NEW t \in Threads, NEW pc \in {"take", "ask"},
         NEW a \in Objects, NEW b \in Objects \cup {Null}, pc = "ask" => b # Null,
         Start(t, pc, a, b)
  PROVE  IInv'
<1> USE DEF IInv, Start
<1> DEFINE new == [pc |-> pc, me |-> a, other |-> b]
<1>1. call' \in [Threads -> [pc : {"idle", "take", "leave", "clear", "join", "ask", "compare"},
                             me : Objects \cup {Null}, other : Objects \cup {Null}]]
  BY DEF TypeOK
<1>2. calls' \in 0 .. MaxCalls
  BY CallsAssumption DEF TypeOK, Counted
<1>3. crossed' \in BOOLEAN BY DEF TypeOK
<1>4. TypeOK' BY <1>1, <1>2, <1>3 DEF TypeOK, tree
<1>5. call'[t] = new /\ call[t].pc = "idle" BY DEF TypeOK, Idle
<1>6. \A u \in Threads : u # t => call'[u] = call[u] BY DEF TypeOK
<1>7. LockInv' BY <1>5, <1>6 DEF LockInv, Holding, TypeOK
<1>8. CallInv' BY <1>5, <1>6 DEF CallInv, tree
<1>9. AliveInv' /\ LinkInv' /\ SlotInv' /\ NumberInv' BY <1>5, <1>6, TreeStays
<1> QED BY <1>4, <1>7, <1>8, <1>9

LEMMA BeginKeeps ==
  ASSUME IInv, NEW t \in Threads, Begin(t)
  PROVE  IInv'
<1> PICK a \in Objects, b \in Objects \cup {Null} :
       SetParent(t, a, b) \/ RemoveChild(t, a, b) \/ Ask(t, a, b)
  BY DEF Begin
<1>1. CASE SetParent(t, a, b) BY <1>1, StartKeeps DEF SetParent
<1>2. CASE RemoveChild(t, a, b)
  <2>1. Null \in Objects \cup {Null} /\ Start(t, "take", a, Null) BY <1>2 DEF RemoveChild
  <2> QED BY <2>1, StartKeeps
<1>3. CASE Ask(t, a, b) BY <1>3, StartKeeps DEF Ask
<1> QED BY <1>1, <1>2, <1>3

(* A thread of a call in progress knows two objects; its own one is alive. *)
LEMMA Known ==
  ASSUME IInv, NEW t \in Threads, call[t].pc # "idle"
  PROVE  /\ call[t].me \in alive /\ call[t].me \in Objects /\ call[t].me # Null
         /\ call[t].other \in Objects \cup {Null}
         /\ call[t].other # Null => call[t].other \in alive
         /\ t # Null
  BY NullAssumption DEF IInv, TypeOK, CallInv

LEMMA TakeKeeps ==
  ASSUME IInv, NEW t \in Threads, Take(t)
  PROVE  IInv'
<1> USE DEF IInv
<1> DEFINE next == IF call[t].pc = "take" THEN "leave" ELSE "compare"
<1>1. call[t].pc \in {"take", "ask"} /\ call[t].pc # "idle" BY DEF Take
<1>2. call[t].me \in Objects /\ t # Null /\ lock[call[t].me] = Null BY <1>1, Known DEF Take
<1>3. call' = [call EXCEPT ![t].pc = next] /\ lock' = [lock EXCEPT ![call[t].me] = t]
  BY DEF Take, Goto
<1>4. UNCHANGED <<tree, calls, crossed>> BY DEF Take
<1>5. next \in {"leave", "compare"} OBVIOUS
<1> HIDE DEF next
<1>6. TypeOK'
  <2>1. call' \in [Threads -> CallType] BY <1>3, <1>5 DEF TypeOK, CallType
  <2>2. lock' \in [Objects -> Threads \cup {Null}] BY <1>2, <1>3 DEF TypeOK
  <2> QED BY <1>4, <2>1, <2>2 DEF TypeOK, CallType, tree
<1>7. /\ call'[t].pc = next /\ call'[t].me = call[t].me /\ call'[t].other = call[t].other
      /\ \A u \in Threads : u # t => call'[u] = call[u]
  BY <1>3 DEF TypeOK
<1>8. LockInv'
  <2>1. ASSUME NEW u \in Threads, call'[u].pc \in Holding PROVE lock'[call'[u].me] = u
    <3>1. CASE u = t BY <1>2, <1>3, <1>7, <3>1 DEF TypeOK
    <3>2. CASE u # t
      <4>1. call[u].pc \in Holding /\ call'[u].me = call[u].me BY <1>7, <2>1, <3>2
      <4>2. lock[call[u].me] = u BY <4>1 DEF LockInv
      <4>3. call[u].me # call[t].me BY <1>2, <3>2, <4>2, NullAssumption
      <4>4. call[u].me \in Objects BY <4>1, Known DEF Holding
      <4> QED BY <1>3, <4>1, <4>2, <4>3, <4>4 DEF TypeOK
    <3> QED BY <3>1, <3>2
  <2>2. ASSUME NEW o \in Objects, lock'[o] # Null
        PROVE  call'[lock'[o]].pc \in Holding /\ call'[lock'[o]].me = o
    <3>1. CASE o = call[t].me
      <4>1. lock'[o] = t BY <1>2, <1>3, <3>1 DEF TypeOK
      <4> QED BY <1>5, <1>7, <3>1, <4>1 DEF Holding
    <3>2. CASE o # call[t].me
      <4>1. lock'[o] = lock[o] /\ lock[o] \in Threads BY <1>2, <1>3, <2>2, <3>2 DEF TypeOK
      <4>2. call[lock[o]].pc \in Holding BY <2>2, <4>1 DEF LockInv
      <4>3. lock[o] # t BY <1>1, <4>2 DEF Holding
      <4> QED BY <1>7, <2>2, <4>1, <4>3 DEF LockInv
    <3> QED BY <3>1, <3>2
  <2> QED BY <2>1, <2>2 DEF LockInv
<1>9. CallInv'
  <2>1. next \notin {"idle", "ask", "join", "clear"} /\ (next = "compare" => call[t].pc = "ask")
    BY <1>1 DEF next
  <2> QED BY <1>1, <1>4, <1>7, <2>1 DEF CallInv, tree
<1>10. AliveInv' /\ LinkInv' /\ SlotInv' /\ NumberInv'
  BY <1>1, <1>4, <1>5, <1>7, TreeStays
<1> QED BY <1>6, <1>8, <1>9, <1>10

LEMMA CompareKeeps ==
  ASSUME IInv, NEW t \in Threads, Compare(t)
  PROVE  IInv'
<1> USE DEF IInv
<1>1. call[t].pc = "compare" /\ call[t].pc # "idle" BY DEF Compare
<1>2. call[t].me \in Objects /\ t # Null BY <1>1, Known
<1>3. call' = [call EXCEPT ![t] = Idle] /\ lock' = [lock EXCEPT ![call[t].me] = Null]
  BY DEF Compare
<1>4. UNCHANGED <<tree, calls, crossed>> BY DEF Compare
<1>5. TypeOK' BY <1>2, <1>3, <1>4 DEF TypeOK, tree, Idle
<1>6. call'[t] = Idle /\ \A u \in Threads : u # t => call'[u] = call[u]
  BY <1>3 DEF TypeOK
<1>7. LockInv' BY <1>1, <1>2, <1>3, <1>6 DEF LockInv, TypeOK, Idle, Holding
<1>8. CallInv' BY <1>4, <1>6 DEF CallInv, tree, Idle
<1>9. AliveInv' /\ LinkInv' /\ SlotInv' /\ NumberInv'
  BY <1>1, <1>4, <1>6, TreeStays DEF Idle
<1> QED BY <1>5, <1>7, <1>8, <1>9

-----------------------------------------------------------------------------
(* The steps of set_parent under the child's mutex.                        *)

(* Two threads do not hold one object's mutex.                             *)
LEMMA OneHolder ==
  ASSUME IInv, NEW t \in Threads, NEW u \in Threads,
         call[t].pc \in Holding, call[u].pc \in Holding, call[t].me = call[u].me
  PROVE  t = u
  BY DEF IInv, LockInv

LEMMA HoldsOn ==
  ASSUME IInv, NEW t \in Threads, call[t].pc \in Holding, NEW q \in Holding,
         lock' = lock, call' = [call EXCEPT ![t].pc = q]
  PROVE  /\ LockInv' /\ lock' \in [Objects -> Threads \cup {Null}]
         /\ call' \in [Threads -> CallType]
         /\ call'[t].pc = q /\ call'[t].me = call[t].me /\ call'[t].other = call[t].other
         /\ \A u \in Threads : u # t => call'[u] = call[u]
<1> USE DEF IInv, TypeOK
<1>1. q \in {"idle", "take", "leave", "clear", "join", "ask", "compare"} BY DEF Holding
<1>2. call' \in [Threads -> CallType] BY <1>1 DEF CallType
<1>3. /\ call'[t].pc = q /\ call'[t].me = call[t].me /\ call'[t].other = call[t].other
      /\ \A u \in Threads : u # t => call'[u] = call[u]
  OBVIOUS
<1>4. \A u \in Threads : call'[u].me = call[u].me /\ (call'[u].pc \in Holding <=> call[u].pc \in Holding)
  BY <1>3
<1>5. \A o \in Objects : lock[o] # Null => lock[o] \in Threads OBVIOUS
<1>6. LockInv' BY <1>4, <1>5 DEF LockInv
<1> QED BY <1>2, <1>3, <1>6

LEMMA LetsGo ==
  ASSUME IInv, NEW t \in Threads, call[t].pc \in Holding,
         lock' = [lock EXCEPT ![call[t].me] = Null], call' = [call EXCEPT ![t] = Idle]
  PROVE  /\ LockInv' /\ lock' \in [Objects -> Threads \cup {Null}]
         /\ call' \in [Threads -> CallType]
         /\ call'[t] = Idle
         /\ \A u \in Threads : u # t => call'[u] = call[u]
<1> USE DEF IInv, TypeOK
<1>1. Idle \in CallType BY DEF Idle, CallType
<1>2. call' \in [Threads -> CallType] BY <1>1 DEF CallType
<1>3. call'[t] = Idle /\ \A u \in Threads : u # t => call'[u] = call[u] OBVIOUS
<1>4. lock' \in [Objects -> Threads \cup {Null}] OBVIOUS
<1>5. Idle.pc \notin Holding BY DEF Idle, Holding
<1>6. call[t].me \in Objects BY Known DEF Holding
<1>7. ASSUME NEW u \in Threads, call'[u].pc \in Holding PROVE lock'[call'[u].me] = u
  <2>1. u # t BY <1>3, <1>5, <1>7
  <2>2. call'[u] = call[u] /\ call[u].pc \in Holding BY <1>3, <1>7, <2>1
  <2>3. call[u].me # call[t].me BY <2>1, <2>2, OneHolder
  <2>4. call[u].me \in Objects /\ lock[call[u].me] = u BY <2>2, Known DEF Holding, LockInv
  <2> QED BY <2>2, <2>3, <2>4
<1>8. ASSUME NEW o \in Objects, lock'[o] # Null
      PROVE  call'[lock'[o]].pc \in Holding /\ call'[lock'[o]].me = o
  <2>1. o # call[t].me BY <1>8
  <2>2. lock'[o] = lock[o] /\ lock[o] \in Threads BY <1>8, <2>1
  <2>3. call[lock[o]].me = o /\ call[lock[o]].pc \in Holding BY <1>8, <2>2 DEF LockInv
  <2>4. lock[o] # t BY <2>1, <2>3
  <2> QED BY <1>3, <2>2, <2>3, <2>4
<1>9. LockInv' BY <1>7, <1>8 DEF LockInv
<1> QED BY <1>2, <1>3, <1>4, <1>9

LEMMA LeaveKeeps ==
  ASSUME IInv, NEW t \in Threads, Leave(t)
  PROVE  IInv'
<1> DEFINE c == call[t].me
           p == parent[c]
           left == [slots[p] EXCEPT ![index[c]] = Null]
<1> USE DEF IInv
<1>1. call[t].pc = "leave" /\ call[t].pc \in Holding BY DEF Leave, Holding
<1>2. c \in alive /\ c \in Objects /\ c # Null BY <1>1, Known DEF Holding
<1>3. /\ call' = [call EXCEPT ![t].pc = "clear"]
      /\ UNCHANGED <<alive, parent, index, lock, calls, crossed>>
  BY DEF Leave, Goto
<1>4. /\ LockInv' /\ lock' \in [Objects -> Threads \cup {Null}]
      /\ call' \in [Threads -> CallType]
      /\ call'[t].pc = "clear" /\ call'[t].me = c
      /\ \A u \in Threads : u # t => call'[u] = call[u]
  BY <1>1, <1>3, HoldsOn DEF Holding
<1>5. \A d : Leaving(d)' <=> Leaving(d) \/ d = c
  <2> TAKE d
  <2>1. \A u \in Threads : (call'[u].pc = "clear" /\ call'[u].me = d) <=>
          (call[u].pc = "clear" /\ call[u].me = d) \/ (u = t /\ d = c)
    BY <1>1, <1>4
  <2> QED BY <2>1 DEF Leaving
<1>6. ~Leaving(c) BY <1>1, OneHolder DEF Leaving, Holding
<1>7. AliveInv' BY <1>3 DEF AliveInv
<1>8. p \in alive \cup {Null} /\ p \in Objects \cup {Null}
  BY <1>2 DEF AliveInv, TypeOK
<1>9. \A q \in alive : \A i \in DOMAIN slots[q] : slots[q][i] = c => q = p /\ i = index[c]
  BY <1>2 DEF SlotInv
<1>10. CASE p = Null
  <2>1. UNCHANGED <<slots, number>> BY <1>10 DEF Leave
  <2>2. TypeOK' BY <1>3, <1>4, <2>1 DEF TypeOK, CallType
  <2>3. \A q \in alive : q # Null BY NullAssumption DEF TypeOK
  <2>4. CallInv' BY <1>1, <1>3, <1>4, <1>9, <1>10, <2>1, <2>3 DEF CallInv
  <2>5. LinkInv' BY <1>3, <1>5, <2>1 DEF LinkInv
  <2>6. SlotInv' BY <1>3, <2>1 DEF SlotInv
  <2>7. \A q : Holes(q)' = Holes(q) BY <2>1 DEF Holes
  <2>8. NumberInv' BY <1>3, <2>1, <2>7 DEF NumberInv
  <2> QED BY <1>4, <1>7, <2>2, <2>4, <2>5, <2>6, <2>8
<1>11. CASE p # Null
  <2>1. p \in alive /\ p \in Objects BY <1>8, <1>11
  <2>2. index[c] \in DOMAIN slots[p] /\ slots[p][index[c]] = c
    BY <1>2, <1>6, <1>11 DEF LinkInv
  <2>3. slots' = [slots EXCEPT ![p] = left] /\ number' = [number EXCEPT ![p] = @ - 1]
    BY <1>11 DEF Leave
  <2>4. slots[p] \in Seq(Objects \cup {Null}) BY <2>1 DEF TypeOK
  <2>5. /\ left \in Seq(Objects \cup {Null}) /\ Len(left) = Len(slots[p])
        /\ DOMAIN left = DOMAIN slots[p]
        /\ Cardinality(HolesOf(left)) = Cardinality(HolesOf(slots[p])) + 1
        /\ Cardinality(HolesOf(slots[p])) < Len(slots[p])
    BY <1>2, <2>2, <2>4, HoleMore
  <2>6. left[index[c]] = Null /\ \A i \in DOMAIN slots[p] : i # index[c] => left[i] = slots[p][i]
    BY <2>2, <2>4
  <2>7. slots'[p] = left /\ \A q \in Objects : q # p => slots'[q] = slots[q]
    BY <2>1, <2>3 DEF TypeOK
  <2>8. number'[p] = number[p] - 1 /\ \A q \in Objects : q # p => number'[q] = number[q]
    BY <2>1, <2>3 DEF TypeOK
  <2>9. Len(slots[p]) \in Nat /\ Cardinality(HolesOf(slots[p])) \in Nat BY <2>4, HolesFinite
  <2>10. number[p] = Len(slots[p]) - Cardinality(HolesOf(slots[p]))
    BY <2>1, HolesAre DEF NumberInv
  <2>11. number[p] - 1 \in Nat BY <2>5, <2>9, <2>10
  <2> HIDE DEF left
  <2>12. TypeOK'
    <3>1. slots' \in [Objects -> Seq(Objects \cup {Null})] BY <2>3, <2>5 DEF TypeOK
    <3>2. number' \in [Objects -> Nat] BY <2>3, <2>11 DEF TypeOK
    <3> QED BY <1>3, <1>4, <3>1, <3>2 DEF TypeOK, CallType
  <2>13. \A q \in alive : q \in Objects BY DEF TypeOK
  <2>14. \A q \in alive : DOMAIN slots'[q] = DOMAIN slots[q] /\
           \A i \in DOMAIN slots[q] :
             slots'[q][i] = IF q = p /\ i = index[c] THEN Null ELSE slots[q][i]
    BY <2>5, <2>6, <2>7, <2>13
  <2>15. CallInv'
    <3> SUFFICES ASSUME NEW u \in Threads
                 PROVE  /\ call'[u].pc = "idle" => call'[u] = Idle
                        /\ call'[u].pc # "idle" => call'[u].me \in alive /\ call'[u].other \in alive \cup {Null}
                        /\ call'[u].pc \in {"ask", "compare", "join"} => call'[u].other # Null
                        /\ call'[u].pc = "join" => parent[call'[u].me] = Null
                        /\ call'[u].pc = "clear" =>
                             \A q \in alive : \A i \in DOMAIN slots'[q] : slots'[q][i] # call'[u].me
      BY <1>3 DEF CallInv
    <3>1. CASE u = t
      <4>1. call'[t].other \in alive \cup {Null} BY <1>1, <1>3, HoldsOn DEF Holding, CallInv
      <4>2. \A q \in alive : \A i \in DOMAIN slots'[q] : slots'[q][i] # c
        BY <1>2, <1>9, <2>14
      <4> QED BY <1>2, <1>4, <3>1, <4>1, <4>2
    <3>2. CASE u # t
      <4>1. call'[u] = call[u] BY <1>4, <3>2
      <4>2. call[u].pc = "clear" => call[u].me # Null BY Known
      <4> QED BY <2>14, <4>1, <4>2 DEF CallInv
    <3> QED BY <3>1, <3>2
  <2>16. LinkInv'
    <3> SUFFICES ASSUME NEW d \in alive, parent[d] # Null, ~Leaving(d), d # c
                 PROVE  index[d] \in DOMAIN slots'[parent[d]] /\ slots'[parent[d]][index[d]] = d
      BY <1>3, <1>5 DEF LinkInv
    <3>1. index[d] \in DOMAIN slots[parent[d]] /\ slots[parent[d]][index[d]] = d BY DEF LinkInv
    <3>2. parent[d] \in alive BY <2>13 DEF AliveInv
    <3> QED BY <2>2, <2>14, <3>1, <3>2
  <2>17. SlotInv' BY <1>3, <2>14 DEF SlotInv
  <2>18. NumberInv'
    <3> SUFFICES ASSUME NEW q \in alive
                 PROVE  number'[q] = Len(slots'[q]) - Cardinality(HolesOf(slots'[q]))
      BY <1>3 DEF NumberInv, Holes, HolesOf
    <3>1. CASE q = p BY <2>5, <2>7, <2>8, <2>9, <2>10, <3>1
    <3>2. CASE q # p BY <2>7, <2>8, <2>13, <3>2, HolesAre DEF NumberInv
    <3> QED BY <3>1, <3>2
  <2> QED BY <1>4, <1>7, <2>12, <2>15, <2>16, <2>17, <2>18
<1> QED BY <1>10, <1>11

LEMMA ClearKeeps ==
  ASSUME IInv, NEW t \in Threads, Clear(t)
  PROVE  IInv'
<1> DEFINE c == call[t].me
<1> USE DEF IInv
<1>1. call[t].pc = "clear" /\ call[t].pc \in Holding BY DEF Clear, Holding
<1>2. c \in alive /\ c \in Objects /\ c # Null BY <1>1, Known DEF Holding
<1>3. /\ parent' = [parent EXCEPT ![c] = Null]
      /\ UNCHANGED <<alive, index, slots, number, calls, crossed>>
  BY DEF Clear
<1>4. /\ LockInv' /\ lock' \in [Objects -> Threads \cup {Null}]
      /\ call' \in [Threads -> CallType]
      /\ \/ call'[t] = Idle
         \/ call'[t].pc = "join" /\ call'[t].me = c /\ call'[t].other = call[t].other
              /\ call[t].other # Null
      /\ \A u \in Threads : u # t => call'[u] = call[u]
  <2>1. CASE call[t].other = Null
    <3>1. /\ lock' = [lock EXCEPT ![call[t].me] = Null] /\ call' = [call EXCEPT ![t] = Idle]
      BY <2>1 DEF Clear
    <3> QED BY <1>1, <3>1, LetsGo
  <2>2. CASE call[t].other # Null
    <3>1. lock' = lock /\ call' = [call EXCEPT ![t].pc = "join"] BY <2>2 DEF Clear
    <3>2. "join" \in Holding BY DEF Holding
    <3> QED BY <1>1, <2>2, <3>1, <3>2, HoldsOn
  <2> QED BY <2>1, <2>2
<1>5. parent'[c] = Null /\ \A d \in Objects : d # c => parent'[d] = parent[d]
  BY <1>2, <1>3 DEF TypeOK
<1>6. TypeOK' BY <1>3, <1>4 DEF TypeOK, CallType
<1>7. AliveInv' BY <1>2, <1>3, <1>5 DEF AliveInv
<1>8. \A p \in alive : \A i \in DOMAIN slots[p] : slots[p][i] # c BY <1>1 DEF CallInv
<1>9. CallInv'
  <2>1. call'[t].pc # "idle" => call'[t].pc = "join" BY <1>4 DEF Idle
  <2>2. call[t].other \in alive \cup {Null} BY <1>1 DEF CallInv
  <2>3. \A u \in Threads : call[u].pc = "join" => parent'[call[u].me] = Null
    BY <1>2, <1>3, <1>5, Known DEF CallInv
  <2>4. SUFFICES ASSUME NEW u \in Threads
                 PROVE  /\ call'[u].pc = "idle" => call'[u] = Idle
                        /\ call'[u].pc # "idle" => call'[u].me \in alive /\ call'[u].other \in alive \cup {Null}
                        /\ call'[u].pc \in {"ask", "compare", "join"} => call'[u].other # Null
                        /\ call'[u].pc = "join" => parent'[call'[u].me] = Null
                        /\ call'[u].pc = "clear" =>
                             \A q \in alive : \A i \in DOMAIN slots[q] : slots[q][i] # call'[u].me
    BY <1>3 DEF CallInv
  <2>5. CASE u = t BY <1>2, <1>4, <1>5, <2>1, <2>2, <2>5 DEF Idle
  <2>6. CASE u # t BY <1>4, <2>3, <2>6 DEF CallInv
  <2> QED BY <2>5, <2>6
<1>10. \A d : d # c => (Leaving(d)' <=> Leaving(d))
  <2> TAKE d
  <2> HAVE d # c
  <2>1. \A u \in Threads : (call'[u].pc = "clear" /\ call'[u].me = d) <=>
                           (call[u].pc = "clear" /\ call[u].me = d)
    BY <1>4 DEF Idle
  <2> QED BY <2>1 DEF Leaving
<1>11. \A d \in alive : d \in Objects BY DEF TypeOK
<1>12. LinkInv' BY <1>3, <1>5, <1>10, <1>11 DEF LinkInv
<1>13. SlotInv' BY <1>3, <1>5, <1>8, <1>11 DEF SlotInv
<1>14. NumberInv' BY <1>3 DEF NumberInv, Holes
<1> QED BY <1>4, <1>6, <1>7, <1>9, <1>12, <1>13, <1>14

LEMMA JoinKeeps ==
  ASSUME IInv, NEW t \in Threads, Join(t)
  PROVE  IInv'
<1> DEFINE c == call[t].me
           p == call[t].other
           k == Slot(p)
           filled == Put(slots[p], k, c)
<1> USE DEF IInv
<1>1. call[t].pc = "join" /\ call[t].pc \in Holding BY DEF Join, JoinAs, Holding
<1>2. c \in alive /\ c \in Objects /\ c # Null BY <1>1, Known DEF Holding
<1>3. p \in alive /\ p \in Objects /\ p # Null BY <1>1, Known, NullAssumption DEF CallInv
<1>4. /\ slots' = [slots EXCEPT ![p] = filled]
      /\ index' = [index EXCEPT ![c] = k]
      /\ parent' = [parent EXCEPT ![c] = p]
      /\ number' = [number EXCEPT ![p] = @ + 1]
      /\ lock' = [lock EXCEPT ![c] = Null]
      /\ call' = [call EXCEPT ![t] = Idle]
      /\ UNCHANGED <<alive, calls, crossed>>
  BY DEF Join, JoinAs
<1>5. /\ LockInv' /\ lock' \in [Objects -> Threads \cup {Null}]
      /\ call' \in [Threads -> CallType]
      /\ call'[t] = Idle
      /\ \A u \in Threads : u # t => call'[u] = call[u]
  BY <1>1, <1>4, LetsGo
<1>6. slots[p] \in Seq(Objects \cup {Null}) BY <1>3 DEF TypeOK
<1>7. k \in Nat \ {0} /\ (k \in HolesOf(slots[p]) \/ k = Len(slots[p]) + 1)
  BY <1>3, SlotIsFree
<1>8. /\ filled \in Seq(Objects \cup {Null})
      /\ DOMAIN filled = DOMAIN slots[p] \cup {k}
      /\ filled[k] = c
      /\ \A j \in DOMAIN slots[p] : j # k => filled[j] = slots[p][j]
      /\ Len(filled) - Cardinality(HolesOf(filled))
           = Len(slots[p]) - Cardinality(HolesOf(slots[p])) + 1
  <2> HIDE DEF c, p, k
  <2> QED BY <1>2, <1>6, <1>7, PutFills
<1> HIDE DEF k, filled
<1>9. /\ slots'[p] = filled /\ \A q \in Objects : q # p => slots'[q] = slots[q]
      /\ index'[c] = k /\ \A d \in Objects : d # c => index'[d] = index[d]
      /\ parent'[c] = p /\ \A d \in Objects : d # c => parent'[d] = parent[d]
      /\ number'[p] = number[p] + 1 /\ \A q \in Objects : q # p => number'[q] = number[q]
  BY <1>2, <1>3, <1>4 DEF TypeOK
<1>10. TypeOK'
  <2>1. slots' \in [Objects -> Seq(Objects \cup {Null})] BY <1>4, <1>8 DEF TypeOK
  <2>2. index' \in [Objects -> Nat] BY <1>4, <1>7 DEF TypeOK
  <2>3. parent' \in [Objects -> Objects \cup {Null}] BY <1>3, <1>4 DEF TypeOK
  <2>4. number' \in [Objects -> Nat] BY <1>3, <1>4 DEF TypeOK
  <2> QED BY <1>4, <1>5, <2>1, <2>2, <2>3, <2>4 DEF TypeOK, CallType
<1>11. \A q \in alive : q \in Objects /\ q # Null BY NullAssumption DEF TypeOK
<1>12. parent[c] = Null BY <1>1 DEF CallInv
<1>13. \A q \in alive : \A i \in DOMAIN slots[q] : slots[q][i] # c
  BY <1>2, <1>11, <1>12 DEF SlotInv
<1>14. \A q \in alive : \A i \in DOMAIN slots'[q] :
         IF q = p /\ i = k THEN slots'[q][i] = c
         ELSE i \in DOMAIN slots[q] /\ slots'[q][i] = slots[q][i]
  BY <1>8, <1>9, <1>11
<1>15. \A q \in alive : \A i \in DOMAIN slots[q] :
         slots[q][i] # Null => i \in DOMAIN slots'[q] /\ slots'[q][i] = slots[q][i]
  <2> SUFFICES ASSUME NEW q \in alive, NEW i \in DOMAIN slots[q], slots[q][i] # Null
               PROVE  i \in DOMAIN slots'[q] /\ slots'[q][i] = slots[q][i]
    OBVIOUS
  <2>1. CASE q = p
    <3>1. k \notin DOMAIN slots[p] \/ slots[p][k] = Null BY <1>6, <1>7 DEF HolesOf
    <3>2. i # k BY <2>1, <3>1
    <3> QED BY <1>8, <1>9, <2>1, <3>2
  <2>2. CASE q # p BY <1>9, <1>11, <2>2
  <2> QED BY <2>1, <2>2
<1>16. AliveInv' BY <1>2, <1>3, <1>4, <1>9 DEF AliveInv
<1>17. CallInv'
  <2>1. \A u \in Threads : call[u].pc \in Holding /\ u # t => call[u].me # c
    BY <1>1, OneHolder
  <2> SUFFICES ASSUME NEW u \in Threads
               PROVE  /\ call'[u].pc = "idle" => call'[u] = Idle
                      /\ call'[u].pc # "idle" => call'[u].me \in alive /\ call'[u].other \in alive \cup {Null}
                      /\ call'[u].pc \in {"ask", "compare", "join"} => call'[u].other # Null
                      /\ call'[u].pc = "join" => parent'[call'[u].me] = Null
                      /\ call'[u].pc = "clear" =>
                           \A q \in alive : \A i \in DOMAIN slots'[q] : slots'[q][i] # call'[u].me
    BY <1>4 DEF CallInv
  <2>2. CASE u = t BY <1>5, <2>2 DEF Idle
  <2>3. CASE u # t
    <3>1. call'[u] = call[u] BY <1>5, <2>3
    <3>2. call[u].pc \in {"join", "clear"} => call[u].me # c /\ call[u].me \in Objects
      BY <2>1, <2>3, Known DEF Holding
    <3>3. call[u].pc = "join" => parent'[call[u].me] = Null BY <1>9, <3>2 DEF CallInv
    <3>4. call[u].pc = "clear" =>
            \A q \in alive : \A i \in DOMAIN slots'[q] : slots'[q][i] # call[u].me
      BY <1>14, <3>2 DEF CallInv
    <3> QED BY <3>1, <3>3, <3>4 DEF CallInv
  <2> QED BY <2>2, <2>3
<1>18. \A d : Leaving(d)' <=> Leaving(d)
  <2> TAKE d
  <2>1. \A u \in Threads : (call'[u].pc = "clear" /\ call'[u].me = d) <=>
                           (call[u].pc = "clear" /\ call[u].me = d)
    BY <1>1, <1>5 DEF Idle
  <2> QED BY <2>1 DEF Leaving
<1>19. LinkInv'
  <2> SUFFICES ASSUME NEW d \in alive, parent'[d] # Null, ~Leaving(d)
               PROVE  index'[d] \in DOMAIN slots'[parent'[d]] /\ slots'[parent'[d]][index'[d]] = d
    BY <1>4, <1>18 DEF LinkInv
  <2>1. CASE d = c BY <1>8, <1>9, <2>1
  <2>2. CASE d # c
    <3>1. parent'[d] = parent[d] /\ index'[d] = index[d] BY <1>9, <1>11, <2>2
    <3>2. index[d] \in DOMAIN slots[parent[d]] /\ slots[parent[d]][index[d]] = d
      BY <3>1 DEF LinkInv
    <3>3. parent[d] \in alive BY <1>11, <3>1 DEF AliveInv
    <3>4. d # Null BY <1>11
    <3> QED BY <1>15, <3>1, <3>2, <3>3, <3>4
  <2> QED BY <2>1, <2>2
<1>20. SlotInv'
  <2> SUFFICES ASSUME NEW q \in alive, NEW i \in DOMAIN slots'[q], slots'[q][i] # Null
               PROVE  slots'[q][i] \in alive /\ parent'[slots'[q][i]] = q /\ index'[slots'[q][i]] = i
    BY <1>4 DEF SlotInv
  <2>1. CASE q = p /\ i = k BY <1>2, <1>9, <1>14, <2>1
  <2>2. CASE ~(q = p /\ i = k)
    <3>1. i \in DOMAIN slots[q] /\ slots'[q][i] = slots[q][i] BY <1>14, <2>2
    <3>2. slots[q][i] \in alive /\ parent[slots[q][i]] = q /\ index[slots[q][i]] = i
      BY <3>1 DEF SlotInv
    <3>3. slots[q][i] # c BY <1>13, <3>1
    <3> QED BY <1>9, <1>11, <3>1, <3>2, <3>3
  <2> QED BY <2>1, <2>2
<1>21. NumberInv'
  <2> SUFFICES ASSUME NEW q \in alive
               PROVE  number'[q] = Len(slots'[q]) - Cardinality(HolesOf(slots'[q]))
    BY <1>4 DEF NumberInv, Holes, HolesOf
  <2>1. CASE q = p
    <3>1. number[p] = Len(slots[p]) - Cardinality(HolesOf(slots[p]))
      BY <1>3, HolesAre DEF NumberInv
    <3> QED BY <1>8, <1>9, <2>1, <3>1
  <2>2. CASE q # p BY <1>9, <1>11, <2>2, HolesAre DEF NumberInv
  <2> QED BY <2>1, <2>2
<1> QED BY <1>5, <1>10, <1>16, <1>17, <1>19, <1>20, <1>21

-----------------------------------------------------------------------------
(* Objects come and go.                                                    *)

LEMMA NewKeeps ==
  ASSUME IInv, NEW o \in Objects, New(o)
  PROVE  IInv'
<1> USE DEF IInv
<1>1. o \notin alive /\ alive' = alive \cup {o} BY DEF New
<1>2. /\ parent' = [parent EXCEPT ![o] = Null]
      /\ slots' = [slots EXCEPT ![o] = <<>>]
      /\ number' = [number EXCEPT ![o] = 0]
      /\ UNCHANGED <<index, lock, call, calls, crossed>>
  BY DEF New
<1>3. /\ parent'[o] = Null /\ slots'[o] = <<>> /\ number'[o] = 0
      /\ \A q \in Objects : q # o =>
           parent'[q] = parent[q] /\ slots'[q] = slots[q] /\ number'[q] = number[q]
  BY <1>2 DEF TypeOK
<1>4. TypeOK'
  <2>1. slots' \in [Objects -> Seq(Objects \cup {Null})] BY <1>2 DEF TypeOK
  <2>2. parent' \in [Objects -> Objects \cup {Null}] BY <1>2 DEF TypeOK
  <2>3. number' \in [Objects -> Nat] BY <1>2 DEF TypeOK
  <2> QED BY <1>1, <1>2, <2>1, <2>2, <2>3 DEF TypeOK
<1>5. LockInv' BY <1>2 DEF LockInv
<1>6. \A q \in alive : q \in Objects /\ q # o /\ q # Null BY <1>1, NullAssumption DEF TypeOK
<1>7. parent' = parent
  <2>1. parent[o] = Null BY <1>1 DEF AliveInv
  <2> QED BY <1>2, <2>1 DEF TypeOK
<1>8. CallInv'
  <2>1. \A q \in alive' : \A i \in DOMAIN slots'[q] : q \in alive /\ i \in DOMAIN slots[q] /\ slots'[q][i] = slots[q][i]
    BY <1>1, <1>3, <1>6
  <2> QED BY <1>1, <1>2, <1>7, <2>1 DEF CallInv
<1>9. AliveInv' BY <1>1, <1>7 DEF AliveInv
<1>10. LinkInv'
  <2> SUFFICES ASSUME NEW d \in alive', parent[d] # Null, ~Leaving(d)
               PROVE  index[d] \in DOMAIN slots'[parent[d]] /\ slots'[parent[d]][index[d]] = d
    BY <1>2, <1>7 DEF LinkInv, Leaving
  <2>1. d \in alive /\ parent[d] \in alive BY <1>1, <1>6 DEF AliveInv
  <2> QED BY <1>3, <1>6, <2>1 DEF LinkInv
<1>11. SlotInv'
  <2> SUFFICES ASSUME NEW q \in alive', NEW i \in DOMAIN slots'[q], slots'[q][i] # Null
               PROVE  slots'[q][i] \in alive' /\ parent[slots'[q][i]] = q /\ index[slots'[q][i]] = i
    BY <1>2, <1>7 DEF SlotInv
  <2>1. q \in alive /\ slots'[q] = slots[q] BY <1>1, <1>3, <1>6
  <2> QED BY <1>1, <2>1 DEF SlotInv
<1>12. NumberInv'
  <2> SUFFICES ASSUME NEW q \in alive'
               PROVE  number'[q] = Len(slots'[q]) - Cardinality(HolesOf(slots'[q]))
    BY DEF NumberInv, Holes, HolesOf
  <2>1. CASE q = o
    <3>1. HolesOf(<<>>) = {} BY DEF HolesOf
    <3>2. Cardinality(HolesOf(<<>>)) = 0 /\ Len(<<>>) = 0 BY <3>1, FS_EmptySet
    <3> QED BY <1>3, <2>1, <3>2
  <2>2. CASE q # o BY <1>1, <1>3, <1>6, <2>2, HolesAre DEF NumberInv
  <2> QED BY <2>1, <2>2
<1> QED BY <1>4, <1>5, <1>8, <1>9, <1>10, <1>11, <1>12

(* What is below o: o itself, the children of what is below it, and        *)
(* nothing else, so that what is left has its parents left too.            *)
LEMMA BelowIs ==
  ASSUME NEW o \in alive
  PROVE  /\ o \in Below(o) /\ Below(o) \subseteq alive
         /\ \A c \in alive : parent[c] \in Below(o) => c \in Below(o)
         /\ \A c \in Below(o) : c # o => parent[c] \in Below(o)
<1> DEFINE Closed(s) == o \in s /\ \A c \in alive : parent[c] \in s => c \in s
           B == Below(o)
<1>1. B = {c \in alive : \A s \in {s \in SUBSET alive : Closed(s)} : c \in s}
  BY DEF Below
<1>2. B \subseteq alive BY <1>1
<1>3. Closed(B)
  <2>1. o \in B BY <1>1
  <2>2. ASSUME NEW c \in alive, parent[c] \in B, NEW s \in SUBSET alive, Closed(s) PROVE c \in s
    BY <1>1, <2>2
  <2> QED BY <1>1, <2>1, <2>2
<1>4. ASSUME NEW c \in B, c # o, parent[c] \notin B PROVE FALSE
  <2> DEFINE S == B \ {c}
  <2>1. S \in SUBSET alive BY <1>2
  <2>2. Closed(S) BY <1>3, <1>4
  <2>3. c \in S BY <1>1, <2>1, <2>2
  <2> QED BY <2>3
<1> QED BY <1>2, <1>3, <1>4

LEMMA DestroyKeeps ==
  ASSUME IInv, NEW o \in Objects, Destroy(o)
  PROVE  IInv'
<1> DEFINE B == Below(o)
           p == parent[o]
           left == [slots[p] EXCEPT ![index[o]] = Null]
<1> USE DEF IInv
<1>1. o \in alive /\ AllIdle /\ (p # Null => p \notin B) BY DEF Destroy, Acyclic
<1>2. /\ alive' = alive \ B
      /\ parent' = [c \in Objects |-> IF c \in B THEN Null ELSE parent[c]]
      /\ slots' = [q \in Objects |-> IF q \in B THEN <<>> ELSE IF q = p THEN left ELSE slots[q]]
      /\ number' = [q \in Objects |->
                      IF q \in B THEN 0 ELSE IF q = p THEN number[p] - 1 ELSE number[q]]
      /\ UNCHANGED <<index, lock, call, crossed>>
      /\ Counted
  BY DEF Destroy
<1>3. /\ o \in B /\ B \subseteq alive
      /\ \A c \in alive : parent[c] \in B => c \in B
      /\ \A c \in B : c # o => parent[c] \in B
  BY <1>1, BelowIs
<1> HIDE DEF B
<1>4. \A q \in alive : q \in Objects /\ q # Null BY NullAssumption DEF TypeOK
<1>5. \A t \in Threads : call[t] = Idle /\ call[t].pc = "idle" BY <1>1 DEF AllIdle, Idle
<1>6. \A d : ~Leaving(d) /\ ~Leaving(d)' BY <1>2, <1>5 DEF Leaving
<1>7. p # Null => /\ p \in alive \ B
                  /\ index[o] \in DOMAIN slots[p] /\ slots[p][index[o]] = o
  BY <1>1, <1>4, <1>6 DEF AliveInv, LinkInv
<1>8. p # Null =>
        /\ left \in Seq(Objects \cup {Null}) /\ Len(left) = Len(slots[p])
        /\ DOMAIN left = DOMAIN slots[p]
        /\ Cardinality(HolesOf(left)) = Cardinality(HolesOf(slots[p])) + 1
        /\ left[index[o]] = Null
        /\ \A i \in DOMAIN slots[p] : i # index[o] => left[i] = slots[p][i]
        /\ number[p] = Len(slots[p]) - Cardinality(HolesOf(slots[p]))
        /\ number[p] - 1 = Len(left) - Cardinality(HolesOf(left))
        /\ number[p] - 1 \in Nat
  <2> SUFFICES ASSUME p # Null
               PROVE  /\ left \in Seq(Objects \cup {Null}) /\ Len(left) = Len(slots[p])
                      /\ DOMAIN left = DOMAIN slots[p]
                      /\ Cardinality(HolesOf(left)) = Cardinality(HolesOf(slots[p])) + 1
                      /\ left[index[o]] = Null
                      /\ \A i \in DOMAIN slots[p] : i # index[o] => left[i] = slots[p][i]
                      /\ number[p] = Len(slots[p]) - Cardinality(HolesOf(slots[p]))
                      /\ number[p] - 1 = Len(left) - Cardinality(HolesOf(left))
                      /\ number[p] - 1 \in Nat
    OBVIOUS
  <2>1. p \in alive /\ p \in Objects BY <1>4, <1>7
  <2>2. slots[p] \in Seq(Objects \cup {Null}) BY <2>1 DEF TypeOK
  <2>3. slots[p][index[o]] # Null BY <1>1, <1>4, <1>7
  <2>4. /\ left \in Seq(Objects \cup {Null}) /\ Len(left) = Len(slots[p])
        /\ DOMAIN left = DOMAIN slots[p]
        /\ Cardinality(HolesOf(left)) = Cardinality(HolesOf(slots[p])) + 1
        /\ Cardinality(HolesOf(slots[p])) < Len(slots[p])
    BY <1>7, <2>2, <2>3, HoleMore
  <2>5. left[index[o]] = Null /\ \A i \in DOMAIN slots[p] : i # index[o] => left[i] = slots[p][i]
    BY <1>7, <2>2
  <2>6. Len(slots[p]) \in Nat /\ Cardinality(HolesOf(slots[p])) \in Nat BY <2>2, HolesFinite
  <2>7. number[p] = Len(slots[p]) - Cardinality(HolesOf(slots[p]))
    BY <2>1, HolesAre DEF NumberInv
  <2>8. number[p] - 1 \in Nat BY <2>4, <2>6, <2>7
  <2> HIDE DEF left
  <2>9. number[p] - 1 = Len(left) - Cardinality(HolesOf(left)) BY <2>4, <2>6, <2>7
  <2> QED BY <2>4, <2>5, <2>7, <2>8, <2>9
<1> HIDE DEF left
<1>9. \A q \in alive \ B :
        /\ q \in alive /\ q \in Objects /\ parent'[q] = parent[q]
        /\ slots'[q] = (IF q = p THEN left ELSE slots[q])
        /\ number'[q] = (IF q = p THEN number[p] - 1 ELSE number[q])
  BY <1>2, <1>4
<1>10. TypeOK'
  <2>1. alive' \subseteq Objects BY <1>2 DEF TypeOK
  <2>2. parent' \in [Objects -> Objects \cup {Null}] BY <1>2 DEF TypeOK
  <2>3. \A q \in Objects : q = p => q # Null BY NullAssumption
  <2>4. slots' \in [Objects -> Seq(Objects \cup {Null})] BY <1>2, <1>8, <2>3 DEF TypeOK
  <2>5. number' \in [Objects -> Nat] BY <1>2, <1>8, <2>3 DEF TypeOK
  <2>6. calls' \in 0 .. MaxCalls BY <1>2, CallsAssumption DEF TypeOK, Counted
  <2> QED BY <1>2, <2>1, <2>2, <2>4, <2>5, <2>6 DEF TypeOK
<1>11. LockInv' BY <1>2 DEF LockInv
<1>12. CallInv' BY <1>2, <1>5 DEF CallInv
<1>13. \A d \in alive \ B : parent[d] \in (alive \ B) \cup {Null}
  BY <1>3, <1>4 DEF AliveInv
<1>14. AliveInv' BY <1>2, <1>13 DEF AliveInv
<1>15. \A q \in alive \ B :
         /\ DOMAIN slots'[q] = DOMAIN slots[q]
         /\ \A i \in DOMAIN slots[q] :
              slots'[q][i] = IF q = p /\ i = index[o] THEN Null ELSE slots[q][i]
  <2> TAKE q \in alive \ B
  <2>1. CASE q = p BY <1>4, <1>8, <1>9, <2>1
  <2>2. CASE q # p BY <1>9, <2>2
  <2> QED BY <2>1, <2>2
<1>16. LinkInv'
  <2>1. alive' = alive \ B /\ index' = index BY <1>2
  <2> SUFFICES ASSUME NEW d \in alive \ B, parent'[d] # Null
               PROVE  index[d] \in DOMAIN slots'[parent'[d]] /\ slots'[parent'[d]][index[d]] = d
    BY <2>1 DEF LinkInv
  <2>2. parent'[d] = parent[d] BY <1>9
  <2>3. index[d] \in DOMAIN slots[parent[d]] /\ slots[parent[d]][index[d]] = d
    BY <1>6, <2>2 DEF LinkInv
  <2>4. parent[d] \in alive \ B BY <1>13, <2>2
  <2>5. ~(parent[d] = p /\ index[d] = index[o]) BY <1>3, <1>7, <2>3, <2>2
  <2> QED BY <1>15, <2>3, <2>4, <2>5, <2>2
<1>17. SlotInv'
  <2>1. alive' = alive \ B /\ index' = index BY <1>2
  <2> SUFFICES ASSUME NEW q \in alive \ B, NEW i \in DOMAIN slots'[q], slots'[q][i] # Null
               PROVE  /\ slots'[q][i] \in alive \ B
                      /\ parent'[slots'[q][i]] = q /\ index[slots'[q][i]] = i
    BY <2>1 DEF SlotInv
  <2>2. i \in DOMAIN slots[q] /\ slots'[q][i] = slots[q][i] /\ ~(q = p /\ i = index[o])
    BY <1>15
  <2>3. slots[q][i] \in alive /\ parent[slots[q][i]] = q /\ index[slots[q][i]] = i
    BY <2>2 DEF SlotInv
  <2>4. slots[q][i] \notin B BY <1>3, <2>2, <2>3
  <2> QED BY <1>9, <2>2, <2>3, <2>4
<1>18. NumberInv'
  <2>1. alive' = alive \ B BY <1>2
  <2> SUFFICES ASSUME NEW q \in alive \ B
               PROVE  number'[q] = Len(slots'[q]) - Cardinality(HolesOf(slots'[q]))
    BY <2>1 DEF NumberInv, Holes, HolesOf
  <2>2. CASE q = p
    <3>1. p # Null BY <1>4, <2>2
    <3>2. slots'[q] = left /\ number'[q] = number[p] - 1 BY <1>9, <2>2
    <3> QED BY <1>8, <3>1, <3>2
  <2>3. CASE q # p BY <1>9, <2>3, HolesAre DEF NumberInv
  <2> QED BY <2>2, <2>3
<1> QED BY <1>10, <1>11, <1>12, <1>14, <1>16, <1>17, <1>18

-----------------------------------------------------------------------------
(* The theorems.                                                           *)

LEMMA NextKeeps ==
  ASSUME IInv, [Next]_vars
  PROVE  IInv'
<1>1. ASSUME NEW o \in Objects, New(o) PROVE IInv' BY <1>1, NewKeeps
<1>2. ASSUME NEW o \in Objects, Destroy(o) PROVE IInv' BY <1>2, DestroyKeeps
<1>3. ASSUME NEW t \in Threads, Begin(t) PROVE IInv' BY <1>3, BeginKeeps
<1>4. ASSUME NEW t \in Threads, Step(t) PROVE IInv'
  BY <1>4, TakeKeeps, LeaveKeeps, ClearKeeps, JoinKeeps, CompareKeeps DEF Step
<1>5. CASE UNCHANGED vars
  <2>1. UNCHANGED <<alive, parent, index, slots, number, lock, call, calls, crossed>>
    BY <1>5 DEF vars
  <2>2. UNCHANGED tree BY <2>1 DEF tree
  <2>3. TypeOK' BY <2>1 DEF IInv, TypeOK
  <2>4. LockInv' BY <2>1 DEF IInv, LockInv
  <2>5. CallInv' BY <2>1 DEF IInv, CallInv
  <2>6. AliveInv' /\ LinkInv' /\ SlotInv' /\ NumberInv' BY <2>1, <2>2, TreeStays
  <2> QED BY <2>3, <2>4, <2>5, <2>6 DEF IInv
<1> QED BY <1>1, <1>2, <1>3, <1>4, <1>5 DEF Next

(* The inductive invariant holds for any objects, threads and number of    *)
(* calls (object.cpp:148-228).                                             *)
THEOREM InvariantHolds == Spec => []IInv
  BY InitInv, NextKeeps, PTL DEF Spec

(* Every variable keeps its type; the number of children never falls below *)
(* zero.                                                                   *)
THEOREM TypeCorrect == Spec => []TypeOK
<1>1. IInv => TypeOK BY DEF IInv
<1> QED BY <1>1, InvariantHolds, PTL

(* Whatever threads move, ask and destroy objects at once, links, indices, *)
(* slots and counts agree (object.cpp:148-228).                            *)
THEOREM TreeIsConsistent == Spec => []SlotsAndLinksAgree
<1>1. IInv => SlotsAndLinksAgree BY Agreement DEF IInv
<1> QED BY <1>1, InvariantHolds, PTL
=============================================================================

------------------------- MODULE GuiDispatcherProofs -------------------------
(***************************************************************************)
(* Proofs about the GUI's dispatcher, for any windows, sizes and number of *)
(* events, and for both threading models.                                  *)
(*                                                                         *)
(* The argument, in the order of the parts of the inductive invariant:     *)
(* the display's lock is the dispatcher's exactly while a callback runs    *)
(* and the program's exactly while it destroys a window (LockInv), so the  *)
(* window of a callback stays.  A destroyed window leaves a trace in the   *)
(* numbers of the drawables (GenInv), which tells a stale pointer          *)
(* (FoundInv) and a batch longer than the list (BatchInv) from a sound     *)
(* one.  Resizes are handled in the order they were pushed in (IdInv), and *)
(* the counter is exact until a window is destroyed, so the one that is    *)
(* not ignored is the last (LastInv).  With one thread the newest resize   *)
(* of a window carries what _properties hold (PropsInv), so handling it    *)
(* changes nothing, and _properties follow the server's last               *)
(* ConfigureNotify (ServerInv).                                            *)
(***************************************************************************)
EXTENDS GuiDispatcher, FiniteSetTheorems, TLAPS

(* The display's lock is held where the program counters say.              *)
LockInv ==
  /\ dpyLock = "dispatcher" <=> dpc = "handle"
  /\ dpyLock = "app" <=> apc = "destroy"

(* The poller's thread starts the dispatcher's, and ends only when the     *)
(* program closes the display.                                             *)
ThreadsInv ==
  /\ ppc = "start" => dpc = "done" /\ ~running
  /\ mode = "threads" /\ ~running => ppc = "start" \/ apc \in {"closing", "closed"}
  /\ ppc \in {"stop", "join", "done"} => mode = "threads" /\ ~running

(* With one thread the three roles take turns.                             *)
TurnsInv ==
  mode = "single" =>
    /\ ppc \in {"idle", "lookup", "translate"}
    /\ dpc \in {"size", "cap", "front", "lock", "handle"}
    /\ ppc # "idle" => apc = "run" /\ dpc = "size"
    /\ dpc # "size" => apc = "run" /\ ppc = "idle"
    /\ ppc = "idle" => vec = <<>> /\ xevs = <<>>

Control == LockInv /\ CallbackOnLiveWindow /\ ThreadsInv /\ TurnsInv

(* The windows and their drawables: every window on the list has one, no X *)
(* event is of a drawable to come, and a window is being destroyed only    *)
(* after it left the list.                                                 *)
GenInv ==
  /\ \A w \in widgets : gen[w] >= 1
  /\ apc = "destroy" => Removed
  /\ \A x \in Range(xevs) \cup Range(xqueue) : x.gen <= gen[x.win]

(* What get_window returned, until it is used.                             *)
FoundInv ==
  ppc = "translate" =>
    /\ xevs # <<>>
    /\ found = NoWindow => Removed
    /\ found # NoWindow => gen[found] >= 1
    /\ mode = "single" =>
         found = IF Head(xevs).win \in widgets /\ Head(xevs).gen = gen[Head(xevs).win]
                 THEN Head(xevs).win ELSE NoWindow

(* A batch is no longer than the list, but for a window destroyed beside   *)
(* the dispatcher.                                                         *)
BatchInv ==
  (mode = "single" \/ ~Removed) /\ dpc \in {"front", "lock", "handle"} => nr <= Len(list)

Resize(e) == e.type = "resize"

OrderedIds(s) ==
  \A i, j \in DOMAIN s : i < j /\ Resize(s[i]) /\ Resize(s[j]) => s[i].id < s[j].id

(* The resizes of one set of events are older than those of another.       *)
Older(A, B) == \A e \in A, f \in B : Resize(e) /\ Resize(f) => e.id < f.id

(* Sequences whose resizes are in the order of their numbers.              *)

Hand == IF dpc \in {"lock", "handle"} THEN {ev} ELSE {}
Queued == Range(list) \cup Range(vec)
Flight == Hand \cup Queued

(* An event is for a window that was made, and with one thread for the one *)
(* that is there, or is being destroyed.                                   *)
FlightInv ==
  /\ \A e \in Flight : Resize(e) => e.win # NoWindow /\ gen[e.win] >= 1
  /\ mode = "single" =>
       \A e \in Flight : e.win # NoWindow =>
         e.gen = gen[e.win] /\ (e.win \in widgets \/ (apc = "destroy" /\ e.win = victim))

(* Resizes are handled in the order they were pushed in.                   *)
IdInv ==
  /\ OrderedIds(list) /\ OrderedIds(vec)
  /\ Older(Range(list), Range(vec)) /\ Older(Hand, Queued)
  /\ \A e \in Flight : Resize(e) => resized < e.id /\ e.id <= resizes
  /\ resized <= resizes

(* The last resize pushed has been handled or is on its way.               *)
LastInv ==
  ~Removed /\ apc = "run" =>
    resized = resizes \/ \E e \in Flight : Resize(e) /\ e.id = resizes

(* With one thread the newest resize of a window on its way has the size   *)
(* in the window's _properties.                                            *)
Newest(e) == \A f \in Flight : Resize(f) /\ f.win = e.win => f.id <= e.id
PropsInv ==
  mode = "single" =>
    \A e \in Flight : Resize(e) /\ Newest(e) => e.size = props[e.win]

Moving == FlightInv /\ IdInv /\ LastInv /\ PropsInv /\ PendingCoversList

IInv == TypeOK /\ Control /\ GenInv /\ FoundInv /\ BatchInv /\ FaultsHaveACause /\ Moving

(* The server's queue behind the X events the poller has read.             *)
Xs == xevs \o xqueue
Current(x, w) == x.kind = "configure" /\ x.win = w /\ x.gen = gen[w]

(* With one thread, a window's last ConfigureNotify on its way has its     *)
(* size, and a window without one knows its size already.                  *)
ServerInv ==
  mode = "single" =>
    \A w \in widgets :
      /\ \A i \in DOMAIN Xs :
           Current(Xs[i], w) /\ (\A j \in DOMAIN Xs : j > i => ~Current(Xs[j], w))
             => Xs[i].size = xsize[w]
      /\ (\A i \in DOMAIN Xs : ~Current(Xs[i], w)) => props[w] = xsize[w]

(***************************************************************************)
(* Counting and filtering events.                                          *)
(***************************************************************************)

(* Induction on the natural numbers, for a set instead of a predicate.     *)
LEMMA NatSetInduction ==
  ASSUME NEW S, 0 \in S, \A n \in Nat : n \in S => n + 1 \in S
  PROVE  Nat \subseteq S
<1> DEFINE R == OpToRel(<, Nat)
           T == Nat \ S
<1>1. IsWellFoundedOn(R, Nat)
  BY NatLessThanWellFounded
<1>2. SUFFICES ASSUME T # {} PROVE FALSE
  OBVIOUS
<1>3. PICK x \in T : \A y \in T : <<y, x>> \notin R
  <2>1. T \subseteq Nat
    OBVIOUS
  <2> HIDE DEF R, T
  <2> QED
    BY <1>1, <1>2, <2>1, WFMin
<1>4. x # 0 /\ x - 1 \in Nat
  OBVIOUS
<1>5. x - 1 \in T
  BY <1>4
<1>6. <<x - 1, x>> \in R
  BY <1>4 DEF OpToRel
<1> QED
  BY <1>3, <1>5, <1>6

(* Sets of indices are finite.                                             *)
LEMMA IndicesAreFinite ==
  ASSUME NEW n \in Nat, NEW K \in SUBSET (1..n)
  PROVE  IsFiniteSet(K) /\ Cardinality(K) \in Nat /\ Cardinality(K) <= n
<1>1. IsFiniteSet(1..n) /\ Cardinality(1..n) = n
  BY FS_Interval
<1> QED
  BY <1>1, FS_Subset, FS_CardinalityType

UpTo(K, i) == {k \in K : k <= i}

(* The rank of an index grows with the index.                              *)
LEMMA RankGrows ==
  ASSUME NEW n \in Nat, NEW K \in SUBSET (1..n), NEW i \in K, NEW k \in K, i < k
  PROVE  Cardinality(UpTo(K, i)) < Cardinality(UpTo(K, k))
<1>0. \A m \in K : m \in 1..n /\ m \in Int
  OBVIOUS
<1>1. /\ UpTo(K, i) \in SUBSET UpTo(K, k)
      /\ k \in UpTo(K, k) /\ k \notin UpTo(K, i)
      /\ UpTo(K, i) \in SUBSET (1..n) /\ UpTo(K, k) \in SUBSET (1..n)
  <2>1. ASSUME NEW m \in UpTo(K, i) PROVE m \in UpTo(K, k)
    BY <1>0, <2>1 DEF UpTo
  <2>2. k \in UpTo(K, k) /\ k \notin UpTo(K, i)
    BY <1>0 DEF UpTo
  <2>3. UpTo(K, i) \subseteq K /\ UpTo(K, k) \subseteq K
    BY DEF UpTo
  <2> QED
    BY <1>0, <2>1, <2>2, <2>3
<1>2. /\ IsFiniteSet(UpTo(K, k))
      /\ Cardinality(UpTo(K, i)) \in Nat /\ Cardinality(UpTo(K, k)) \in Nat
  BY <1>1, IndicesAreFinite
<1>3. /\ Cardinality(UpTo(K, i)) <= Cardinality(UpTo(K, k))
      /\ Cardinality(UpTo(K, i)) # Cardinality(UpTo(K, k))
  BY <1>1, <1>2, FS_Subset
<1> QED
  BY <1>2, <1>3

(* Every rank is that of an index.                                         *)
LEMMA NthExists ==
  ASSUME NEW n \in Nat, NEW K \in SUBSET (1..n), NEW j \in 1..Cardinality(K)
  PROVE  \E i \in K : Cardinality(UpTo(K, i)) = j
<1> DEFINE Has(m) == \A L \in SUBSET (1..m) : \A r \in 1..Cardinality(L) :
                       \E i \in L : Cardinality(UpTo(L, i)) = r
           S == {m \in Nat : Has(m)}
<1>1. 0 \in S
  <2>1. ASSUME NEW L \in SUBSET (1..0) PROVE 1..Cardinality(L) = {}
    <3>1. L = {}
      OBVIOUS
    <3>2. Cardinality(L) = 0
      BY <3>1, FS_EmptySet
    <3> QED
      BY <3>2
  <2> QED
    BY <2>1
<1>2. ASSUME NEW m \in Nat, m \in S PROVE m + 1 \in S
  <2>1. Has(m)
    BY <1>2
  <2>2. ASSUME NEW L \in SUBSET (1..(m + 1)), NEW r \in 1..Cardinality(L)
        PROVE  \E i \in L : Cardinality(UpTo(L, i)) = r
    <3>1. CASE m + 1 \notin L
      <4>1. L \in SUBSET (1..m)
        BY <3>1
      <4> QED
        BY <2>1, <4>1
    <3>2. CASE m + 1 \in L
      <4> DEFINE M == L \ {m + 1}
      <4>1. M \in SUBSET (1..m)
        OBVIOUS
      <4>2. IsFiniteSet(M) /\ Cardinality(M) \in Nat
        BY <4>1, IndicesAreFinite
      <4>3. L = M \cup {m + 1}
        BY <3>2
      <4>4. Cardinality(L) = Cardinality(M) + 1
        BY <4>2, <4>3, FS_AddElement
      <4>5. CASE r = Cardinality(L)
        <5>1. UpTo(L, m + 1) = L
          <6>1. \A k \in L : k \in 1..(m + 1)
            OBVIOUS
          <6>2. \A k \in L : k <= m + 1
            BY <6>1
          <6> QED
            BY <6>2 DEF UpTo
        <5> QED
          BY <3>2, <4>5, <5>1
      <4>6. CASE r \in 1..Cardinality(M)
        <5>1. PICK i \in M : Cardinality(UpTo(M, i)) = r
          BY <2>1, <4>1, <4>6
        <5>2. UpTo(L, i) = UpTo(M, i)
          BY <4>1, <4>3 DEF UpTo
        <5> QED
          BY <5>1, <5>2
      <4>7. r = Cardinality(L) \/ r \in 1..Cardinality(M)
        BY <4>2, <4>4
      <4> QED
        BY <4>5, <4>6, <4>7
    <3> QED
      BY <3>1, <3>2
  <2> QED
    BY <2>2
<1>3. Nat \subseteq S
  <2> HIDE DEF S
  <2> QED
    BY <1>1, <1>2, NatSetInduction
<1> QED
  BY <1>3

LEMMA NthIsNth ==
  ASSUME NEW n \in Nat, NEW K \in SUBSET (1..n)
  PROVE  /\ \A j \in 1..Cardinality(K) : Nth(K, j) \in K /\ Cardinality(UpTo(K, Nth(K, j))) = j
         /\ \A j, l \in 1..Cardinality(K) : j < l => Nth(K, j) < Nth(K, l)
         /\ \A i \in K : \E j \in 1..Cardinality(K) : Nth(K, j) = i
<1> DEFINE c == Cardinality(K)
<1>0. /\ IsFiniteSet(K) /\ c \in Nat
      /\ \A k \in K : k \in 1..n /\ k \in Nat
  <2>1. \A k \in K : k \in 1..n
    OBVIOUS
  <2> QED
    BY <2>1, IndicesAreFinite
<1>1. ASSUME NEW j \in 1..c
      PROVE  Nth(K, j) \in K /\ Cardinality(UpTo(K, Nth(K, j))) = j
  <2>1. \E i \in K : Cardinality(UpTo(K, i)) = j
    BY NthExists
  <2> QED
    BY <2>1 DEF Nth, UpTo
<1>2. ASSUME NEW j \in 1..c, NEW l \in 1..c, j < l
      PROVE  Nth(K, j) < Nth(K, l)
  <2>1. CASE Nth(K, j) = Nth(K, l)
    BY <1>1, <1>2, <2>1
  <2>2. CASE Nth(K, l) < Nth(K, j)
    <3>1. l < j
      BY <1>1, <2>2, RankGrows
    <3> QED
      BY <1>0, <1>2, <3>1
  <2>3. Nth(K, j) \in Nat /\ Nth(K, l) \in Nat
    BY <1>0, <1>1
  <2> QED
    BY <2>1, <2>2, <2>3
<1>3. ASSUME NEW i \in K
      PROVE  \E j \in 1..c : Nth(K, j) = i
  <2> DEFINE j == Cardinality(UpTo(K, i))
  <2>1. UpTo(K, i) \in SUBSET K /\ UpTo(K, i) \in SUBSET (1..n) /\ i \in UpTo(K, i)
    <3>1. UpTo(K, i) \subseteq K
      BY DEF UpTo
    <3>2. i \in UpTo(K, i)
      BY <1>0 DEF UpTo
    <3> QED
      BY <1>0, <3>1, <3>2
  <2>2. IsFiniteSet(UpTo(K, i)) /\ j \in Nat
    BY <2>1, IndicesAreFinite
  <2>3. j # 0
    BY <2>1, <2>2, FS_EmptySet
  <2>4. j <= c
    BY <1>0, <2>1, FS_Subset
  <2>5. j \in 1..c
    BY <1>0, <2>2, <2>3, <2>4
  <2>6. Nth(K, j) \in K /\ Cardinality(UpTo(K, Nth(K, j))) = j
    BY <1>1, <2>5
  <2>7. Nth(K, j) = i
    <3>1. CASE Nth(K, j) < i
      <4>1. Cardinality(UpTo(K, Nth(K, j))) < j
        BY <2>6, <3>1, RankGrows
      <4> QED
        BY <2>2, <2>6, <4>1
    <3>2. CASE i < Nth(K, j)
      <4>1. j < Cardinality(UpTo(K, Nth(K, j)))
        BY <2>6, <3>2, RankGrows
      <4> QED
        BY <2>2, <2>6, <4>1
    <3>3. Nth(K, j) \in Nat /\ i \in Nat
      BY <1>0, <2>6
    <3> QED
      BY <3>1, <3>2, <3>3
  <2> QED
    BY <2>5, <2>7
<1> QED
  BY <1>1, <1>2, <1>3

LEMMA RangeFacts ==
  ASSUME NEW S, NEW s \in Seq(S), NEW t \in Seq(S)
  PROVE  /\ Range(s) \subseteq S
         /\ Range(s \o t) = Range(s) \cup Range(t)
         /\ s # <<>> => /\ Head(s) \in S /\ Tail(s) \in Seq(S) /\ Len(s) > 0
                        /\ Len(Tail(s)) = Len(s) - 1
                        /\ Range(s) = {Head(s)} \cup Range(Tail(s))
<1>1. Range(s) \subseteq S
  BY DEF Range
<1>2. Range(s \o t) = Range(s) \cup Range(t)
  <2>1. ASSUME NEW e \in Range(s \o t) PROVE e \in Range(s) \cup Range(t)
    <3>1. PICK i \in DOMAIN (s \o t) : e = (s \o t)[i]
      BY DEF Range
    <3>2. i \in 1..(Len(s) + Len(t))
      BY <3>1
    <3>3. CASE i <= Len(s)
      <4>1. i \in DOMAIN s /\ e = s[i]
        BY <3>1, <3>2, <3>3
      <4> QED
        BY <4>1 DEF Range
    <3>4. CASE i > Len(s)
      <4>1. i - Len(s) \in DOMAIN t /\ e = t[i - Len(s)]
        BY <3>1, <3>2, <3>4
      <4> QED
        BY <4>1 DEF Range
    <3> QED
      BY <3>2, <3>3, <3>4
  <2>2. ASSUME NEW e \in Range(s) PROVE e \in Range(s \o t)
    <3>1. PICK i \in DOMAIN s : e = s[i]
      BY DEF Range
    <3>2. i \in DOMAIN (s \o t) /\ (s \o t)[i] = e
      BY <3>1
    <3> QED
      BY <3>2 DEF Range
  <2>3. ASSUME NEW e \in Range(t) PROVE e \in Range(s \o t)
    <3>1. PICK i \in DOMAIN t : e = t[i]
      BY DEF Range
    <3>2. i + Len(s) \in DOMAIN (s \o t) /\ (s \o t)[i + Len(s)] = e
      BY <3>1
    <3> QED
      BY <3>2 DEF Range
  <2> QED
    BY <2>1, <2>2, <2>3
<1>3. ASSUME s # <<>>
      PROVE  /\ Head(s) \in S /\ Tail(s) \in Seq(S) /\ Len(s) > 0
             /\ Len(Tail(s)) = Len(s) - 1
             /\ Range(s) = {Head(s)} \cup Range(Tail(s))
  <2>1. Head(s) \in S /\ Tail(s) \in Seq(S) /\ Len(s) > 0 /\ Len(Tail(s)) = Len(s) - 1
    BY <1>3
  <2>2. ASSUME NEW e \in Range(s) PROVE e \in {Head(s)} \cup Range(Tail(s))
    <3>1. PICK i \in DOMAIN s : e = s[i]
      BY DEF Range
    <3>2. CASE i = 1
      BY <3>1, <3>2
    <3>3. CASE i # 1
      <4>1. i - 1 \in DOMAIN Tail(s) /\ e = Tail(s)[i - 1]
        BY <2>1, <3>1, <3>3
      <4> QED
        BY <4>1 DEF Range
    <3> QED
      BY <3>2, <3>3
  <2>3. Head(s) \in Range(s)
    <3>1. 1 \in DOMAIN s /\ Head(s) = s[1]
      BY <2>1
    <3> QED
      BY <3>1 DEF Range
  <2>4. ASSUME NEW e \in Range(Tail(s)) PROVE e \in Range(s)
    <3>1. PICK i \in DOMAIN Tail(s) : e = Tail(s)[i]
      BY DEF Range
    <3>2. i + 1 \in DOMAIN s /\ s[i + 1] = e
      BY <2>1, <3>1
    <3> QED
      BY <3>2 DEF Range
  <2> QED
    BY <2>1, <2>2, <2>3, <2>4
<1> QED
  BY <1>1, <1>2, <1>3

LEMMA RangeAppend ==
  ASSUME NEW S, NEW s \in Seq(S), NEW e \in S
  PROVE  Range(Append(s, e)) = Range(s) \cup {e}
<1>1. ASSUME NEW x \in Range(Append(s, e)) PROVE x \in Range(s) \cup {e}
  <2>1. PICK i \in 1..(Len(s) + 1) : x = Append(s, e)[i]
    BY DEF Range
  <2>2. i \in DOMAIN s \/ i = Len(s) + 1
    BY <2>1
  <2> QED
    BY <2>1, <2>2 DEF Range
<1>2. ASSUME NEW x \in Range(s) PROVE x \in Range(Append(s, e))
  <2>1. PICK i \in DOMAIN s : x = s[i]
    BY DEF Range
  <2>2. i \in DOMAIN Append(s, e) /\ x = Append(s, e)[i]
    BY <2>1
  <2> QED
    BY <2>2 DEF Range
<1>3. e \in Range(Append(s, e))
  <2>1. Len(s) + 1 \in DOMAIN Append(s, e) /\ e = Append(s, e)[Len(s) + 1]
    OBVIOUS
  <2> QED
    BY <2>1 DEF Range
<1> QED
  BY <1>1, <1>2, <1>3

OfType(t, s) == {i \in DOMAIN s : s[i].type = t}

LEMMA CountIsNatural ==
  ASSUME NEW S, NEW s \in Seq(S), NEW t
  PROVE  /\ IsFiniteSet(OfType(t, s)) /\ OfType(t, s) \in SUBSET (1..Len(s))
         /\ CountOf(t, s) = Cardinality(OfType(t, s)) /\ CountOf(t, s) \in Nat
         /\ CountOf(t, s) = 0 <=> \A e \in Range(s) : e.type # t
<1>1. OfType(t, s) \in SUBSET (1..Len(s)) /\ Len(s) \in Nat
  BY DEF OfType
<1>2. IsFiniteSet(OfType(t, s)) /\ Cardinality(OfType(t, s)) \in Nat
  BY <1>1, IndicesAreFinite
<1>3. CountOf(t, s) = Cardinality(OfType(t, s))
  BY DEF CountOf, OfType
<1>4. CountOf(t, s) = 0 <=> OfType(t, s) = {}
  BY <1>2, <1>3, FS_EmptySet
<1>5. OfType(t, s) = {} <=> \A e \in Range(s) : e.type # t
  BY DEF OfType, Range
<1> QED
  BY <1>1, <1>2, <1>3, <1>4, <1>5

LEMMA CountConcat ==
  ASSUME NEW S, NEW s \in Seq(S), NEW u \in Seq(S), NEW t
  PROVE  CountOf(t, s \o u) = CountOf(t, s) + CountOf(t, u)
<1> DEFINE A == OfType(t, s)
           B == OfType(t, u)
           C == {i + Len(s) : i \in B}
           f == [i \in B |-> i + Len(s)]
<1>0. s \o u \in Seq(S) /\ Len(s) \in Nat
  OBVIOUS
<1>1. /\ IsFiniteSet(A) /\ Cardinality(A) = CountOf(t, s) /\ \A i \in A : i \in 1..Len(s)
      /\ IsFiniteSet(B) /\ Cardinality(B) = CountOf(t, u) /\ \A i \in B : i \in 1..Len(u)
      /\ Cardinality(OfType(t, s \o u)) = CountOf(t, s \o u)
  BY <1>0, CountIsNatural
<1>2. f \in Bijection(B, C)
  <2>1. \A i, j \in B : i + Len(s) = j + Len(s) => i = j
    BY <1>0, <1>1
  <2> HIDE DEF B
  <2> QED
    BY <2>1 DEF Bijection, Injection, Surjection, IsInjective
<1>3. IsFiniteSet(C) /\ Cardinality(C) = Cardinality(B)
  BY <1>1, <1>2, FS_Bijection DEF ExistsBijection
<1>4. OfType(t, s \o u) = A \cup C
  <2>1. ASSUME NEW i \in OfType(t, s \o u) PROVE i \in A \cup C
    <3>1. i \in 1..(Len(s) + Len(u)) /\ (s \o u)[i].type = t
      BY DEF OfType
    <3>2. CASE i <= Len(s)
      <4>1. i \in DOMAIN s /\ s[i].type = t
        BY <3>1, <3>2
      <4> QED
        BY <4>1 DEF OfType
    <3>3. CASE i > Len(s)
      <4>1. i - Len(s) \in DOMAIN u /\ u[i - Len(s)].type = t
        BY <3>1, <3>3
      <4>2. i - Len(s) \in B /\ i = (i - Len(s)) + Len(s)
        BY <1>0, <3>1, <4>1 DEF OfType
      <4> QED
        BY <4>2
    <3> QED
      BY <3>1, <3>2, <3>3
  <2>2. ASSUME NEW i \in A PROVE i \in OfType(t, s \o u)
    <3>1. i \in DOMAIN s /\ s[i].type = t
      BY DEF OfType
    <3>2. i \in DOMAIN (s \o u) /\ (s \o u)[i] = s[i]
      BY <3>1
    <3> QED
      BY <3>1, <3>2 DEF OfType
  <2>3. ASSUME NEW i \in B PROVE i + Len(s) \in OfType(t, s \o u)
    <3>1. i \in DOMAIN u /\ u[i].type = t
      BY DEF OfType
    <3>2. i + Len(s) \in DOMAIN (s \o u) /\ (s \o u)[i + Len(s)] = u[i]
      BY <3>1
    <3> QED
      BY <3>1, <3>2 DEF OfType
  <2> HIDE DEF A, B
  <2> QED
    BY <2>1, <2>2, <2>3
<1>5. A \cap C = {}
  <2>1. \A i \in A, j \in B : i # j + Len(s)
    BY <1>0, <1>1
  <2> QED
    BY <2>1
<1>6. Cardinality(A \cap C) = 0
  BY <1>5, FS_EmptySet
<1>7. Cardinality(A \cup C) = Cardinality(A) + Cardinality(C) - Cardinality(A \cap C)
  BY <1>1, <1>3, FS_Union
<1> HIDE DEF A, B, C
<1>8. CountOf(t, s) \in Nat /\ CountOf(t, u) \in Nat
  BY CountIsNatural
<1> QED
  BY <1>1, <1>3, <1>4, <1>6, <1>7, <1>8

LEMMA CountOne ==
  ASSUME NEW e, NEW t
  PROVE  CountOf(t, <<e>>) = IF e.type = t THEN 1 ELSE 0
<1>1. OfType(t, <<e>>) = IF e.type = t THEN {1} ELSE {}
  BY DEF OfType
<1> QED
  BY <1>1, FS_EmptySet, FS_Singleton DEF CountOf, OfType

LEMMA CountNone ==
  ASSUME NEW t
  PROVE  CountOf(t, <<>>) = 0
<1>1. {i \in DOMAIN <<>> : (<<>>)[i].type = t} = {}
  OBVIOUS
<1> QED
  BY <1>1, FS_EmptySet DEF CountOf

LEMMA CountTail ==
  ASSUME NEW S, NEW s \in Seq(S), s # <<>>, NEW t
  PROVE  CountOf(t, s) = CountOf(t, Tail(s)) + (IF Head(s).type = t THEN 1 ELSE 0)
<1>1. s = <<Head(s)>> \o Tail(s) /\ <<Head(s)>> \in Seq(S) /\ Tail(s) \in Seq(S)
  OBVIOUS
<1>2. CountOf(t, s) = CountOf(t, <<Head(s)>>) + CountOf(t, Tail(s))
  BY <1>1, CountConcat
<1>3. CountOf(t, Tail(s)) \in Nat
  BY <1>1, CountIsNatural
<1>4. CountOf(t, <<Head(s)>>) = IF Head(s).type = t THEN 1 ELSE 0
  BY CountOne
<1> QED
  BY <1>2, <1>3, <1>4

(* Filtering keeps the order and the events of the other windows.          *)
LEMMA WithoutFacts ==
  ASSUME NEW S, NEW s \in Seq(S), NEW w
  PROVE  /\ Without(s, w) \in Seq(S)
         /\ Range(Without(s, w)) = {e \in Range(s) : e.win # w}
         /\ \E h \in [DOMAIN Without(s, w) -> DOMAIN s] :
              /\ \A j \in DOMAIN Without(s, w) : Without(s, w)[j] = s[h[j]]
              /\ \A j, l \in DOMAIN Without(s, w) : j < l => h[j] < h[l]
         /\ \A t : CountOf(t, Without(s, w)) <= CountOf(t, s)
<1> DEFINE K == {i \in DOMAIN s : s[i].win # w}
           r == Without(s, w)
           h == [j \in 1..Cardinality(K) |-> Nth(K, j)]
<1>0. K \in SUBSET (1..Len(s)) /\ Len(s) \in Nat
  OBVIOUS
<1>1. Cardinality(K) \in Nat
  BY <1>0, IndicesAreFinite
<1>2. r = [j \in 1..Cardinality(K) |-> s[Nth(K, j)]]
  BY DEF Without
<1>3. /\ \A j \in 1..Cardinality(K) : Nth(K, j) \in K
      /\ \A j, l \in 1..Cardinality(K) : j < l => Nth(K, j) < Nth(K, l)
      /\ \A i \in K : \E j \in 1..Cardinality(K) : Nth(K, j) = i
  <2> HIDE DEF K
  <2> QED
    BY <1>0, NthIsNth
<1>4. DOMAIN r = 1..Cardinality(K) /\ \A j \in DOMAIN r : r[j] = s[h[j]] /\ h[j] = Nth(K, j)
  <2> HIDE DEF K
  <2> QED
    BY <1>2
<1>5. \A i \in K : i \in DOMAIN s /\ s[i].win # w /\ s[i] \in S
  OBVIOUS
<1>6. \A i \in DOMAIN s : s[i].win # w => i \in K
  OBVIOUS
<1> HIDE DEF K
<1>7. r \in Seq(S)
  BY <1>1, <1>2, <1>3, <1>5
<1>8. Range(r) = {e \in Range(s) : e.win # w}
  <2> HIDE DEF r, h
  <2>1. ASSUME NEW e \in Range(r) PROVE e \in Range(s) /\ e.win # w
    <3>1. PICK j \in DOMAIN r : e = r[j]
      BY DEF Range
    <3>2. Nth(K, j) \in K /\ e = s[Nth(K, j)]
      BY <1>3, <1>4, <3>1
    <3> QED
      BY <1>5, <3>2 DEF Range
  <2>2. ASSUME NEW e \in Range(s), e.win # w PROVE e \in Range(r)
    <3>1. PICK i \in DOMAIN s : e = s[i]
      BY DEF Range
    <3>2. PICK j \in 1..Cardinality(K) : Nth(K, j) = i
      BY <1>3, <1>6, <2>2, <3>1
    <3>3. j \in DOMAIN r /\ r[j] = e
      BY <1>4, <3>1, <3>2
    <3> QED
      BY <3>3 DEF Range
  <2> QED
    BY <2>1, <2>2
<1>9. /\ h \in [DOMAIN r -> DOMAIN s]
      /\ \A j \in DOMAIN r : r[j] = s[h[j]]
      /\ \A j, l \in DOMAIN r : j < l => h[j] < h[l]
  BY <1>3, <1>4, <1>5
<1>10. ASSUME NEW t PROVE CountOf(t, r) <= CountOf(t, s)
  <2> HIDE DEF r, h
  <2> DEFINE A == OfType(t, r)
             B == OfType(t, s)
             g == [j \in A |-> h[j]]
  <2>1. \A j \in A : h[j] \in B /\ j \in DOMAIN r /\ j \in Nat
    BY <1>4, <1>9 DEF OfType
  <2>2. \A j, l \in A : h[j] = h[l] => j = l
    <3>1. ASSUME NEW j \in A, NEW l \in A, h[j] = h[l], j # l PROVE FALSE
      <4>1. j < l \/ l < j
        BY <2>1, <3>1
      <4>2. h[j] \in Nat /\ h[l] \in Nat
        BY <1>9, <2>1
      <4> QED
        BY <1>9, <2>1, <3>1, <4>1, <4>2
    <3> QED
      BY <3>1
  <2> HIDE DEF A, B
  <2>3. g \in Injection(A, B)
    BY <2>1, <2>2 DEF Injection, IsInjective
  <2>4. IsFiniteSet(B) /\ CountOf(t, s) = Cardinality(B)
    BY CountIsNatural DEF B
  <2>5. CountOf(t, r) = Cardinality(A)
    BY <1>7, CountIsNatural DEF A
  <2> HIDE DEF g
  <2> QED
    BY <2>3, <2>4, <2>5, FS_Injection
<1> HIDE DEF h
<1> QED
  BY <1>7, <1>8, <1>9, <1>10

(***************************************************************************)
(* Types.                                                                  *)
(***************************************************************************)

LEMMA EventTypesOK ==
  /\ NoEvent \in Event
  /\ \A e \in Event : /\ e.type \in EventTypes /\ e.win \in Windows \cup {NoWindow}
                      /\ e.gen \in Nat /\ e.size \in Sizes /\ e.id \in Nat
  /\ \A t \in EventTypes, w \in Windows \cup {NoWindow}, g \in Nat, s \in Sizes, i \in Nat :
       [type |-> t, win |-> w, gen |-> g, size |-> s, id |-> i] \in Event
  /\ \A x \in XEvent : /\ x.kind \in AllXKinds /\ x.win \in Windows
                       /\ x.gen \in Nat /\ x.gen > 0 /\ x.size \in Sizes
  /\ \A k \in XKinds, w \in Windows, g \in Nat, s \in Sizes :
       g > 0 => [kind |-> k, win |-> w, gen |-> g, size |-> s] \in XEvent
  BY WindowsAssumption, KindsAssumption
     DEF NoEvent, Event, EventTypes, XEvent

(* What a translation appends: nothing, or one event for the window found. *)
LEMMA TranslatedFacts ==
  ASSUME TypeOK, NEW x \in XEvent, NEW w \in Windows \cup {NoWindow}
  PROVE  \/ Translated(x, w) = <<>> /\ TranslatedProps(x, w) = props
         \/ /\ TranslatedProps(x, w) = props
            /\ \E t \in EventTypes \ {"resize"} :
                 Translated(x, w) = <<[type |-> t, win |-> w, gen |-> x.gen,
                                       size |-> InitSize, id |-> 0]>>
         \/ \E s \in Sizes :
              /\ Translated(x, w) = <<[type |-> "resize", win |-> w, gen |-> x.gen,
                                       size |-> s, id |-> resizes + 1]>>
              /\ w # NoWindow
              /\ s = TranslatedProps(x, w)[w]
              /\ \A v \in Windows : v # w => TranslatedProps(x, w)[v] = props[v]
<1>1. x.kind \in {"configure", "reparent", "map", "button", "input"} /\ x.size \in Sizes
  BY EventTypesOK DEF AllXKinds
<1>2. w # NoWindow => props[w] \in Sizes /\ w \in DOMAIN props
  BY DEF TypeOK
<1>3. CASE x.kind = "map" \/ w = NoWindow
  BY <1>3 DEF Translated, TranslatedProps, EventTypes
<1>4. CASE x.kind \in {"button", "input"} /\ w # NoWindow
  BY <1>4 DEF Translated, TranslatedProps, EventTypes
<1>5. CASE x.kind = "configure" /\ w # NoWindow
  <2>1. CASE x.size = props[w]
    <3>1. Translated(x, w) = <<>>
      BY <1>5, <2>1 DEF Translated
    <3>2. TranslatedProps(x, w) = props
      BY <1>2, <1>5, <2>1 DEF TranslatedProps, TypeOK
    <3> QED
      BY <3>1, <3>2
  <2>2. CASE x.size # props[w]
    BY <1>1, <1>2, <1>5, <2>2 DEF Translated, TranslatedProps, TypeOK
  <2> QED
    BY <2>1, <2>2
<1>6. CASE x.kind = "reparent" /\ w # NoWindow
  BY <1>1, <1>2, <1>6 DEF Translated, TranslatedProps
<1> QED
  BY <1>1, <1>3, <1>4, <1>5, <1>6

LEMMA TranslatedIsTyped ==
  ASSUME TypeOK, NEW x \in XEvent, NEW w \in Windows \cup {NoWindow}
  PROVE  /\ Translated(x, w) \in Seq(Event)
         /\ TranslatedProps(x, w) \in [Windows -> Sizes]
<1>1. resizes \in Nat /\ props \in [Windows -> Sizes] /\ InitSize \in Sizes
  BY WindowsAssumption DEF TypeOK
<1>2. x.gen \in Nat /\ x.size \in Sizes
  BY EventTypesOK
<1>3. TranslatedProps(x, w) \in [Windows -> Sizes]
  BY <1>1, <1>2 DEF TranslatedProps
<1>4. Translated(x, w) \in Seq(Event)
  <2>1. CASE Translated(x, w) = <<>>
    BY <2>1
  <2>2. CASE \E t \in EventTypes \ {"resize"} :
               Translated(x, w) = <<[type |-> t, win |-> w, gen |-> x.gen,
                                     size |-> InitSize, id |-> 0]>>
    BY <1>1, <1>2, <2>2, EventTypesOK
  <2>3. CASE \E s \in Sizes :
               Translated(x, w) = <<[type |-> "resize", win |-> w, gen |-> x.gen,
                                     size |-> s, id |-> resizes + 1]>>
    <3>1. resizes + 1 \in Nat /\ "resize" \in EventTypes
      BY <1>1 DEF EventTypes
    <3> QED
      BY <1>2, <2>3, <3>1, EventTypesOK
  <2> QED
    BY <2>1, <2>2, <2>3, TranslatedFacts
<1> QED
  BY <1>3, <1>4

LEMMA PushIsTyped ==
  ASSUME TypeOK, NEW es \in Seq(Event), Push(es)
  PROVE  /\ list' \in Seq(Event) /\ pending' \in [EventTypes -> Int]
         /\ \A t \in EventTypes : pending'[t] = pending[t] + CountOf(t, es)
<1>1. \A t \in EventTypes : CountOf(t, es) \in Nat
  BY CountIsNatural
<1> QED
  BY <1>1 DEF TypeOK, Push

LEMMA InitTypes == Init => TypeOK /\ Control
<1> SUFFICES ASSUME Init PROVE TypeOK /\ Control
  OBVIOUS
<1> USE WindowsAssumption, KindsAssumption, BoundsAssumption DEF Init
<1>1. TypeOK
  <2>1. mode \in Modes /\ running \in BOOLEAN /\ stopLost \in BOOLEAN
    OBVIOUS
  <2>2. /\ gen \in [Windows -> Nat] /\ props \in [Windows -> Sizes]
        /\ xsize \in [Windows -> Sizes] /\ pending \in [EventTypes -> Int]
    OBVIOUS
  <2>3. /\ xqueue \in Seq(XEvent) /\ xevs \in Seq(XEvent)
        /\ list \in Seq(Event) /\ vec \in Seq(Event) /\ ev \in Event
    BY EventTypesOK
  <2>4. /\ dpyLock \in {"none", "app", "dispatcher"} /\ fault \in Faults
        /\ ppc \in {"start", "idle", "lookup", "translate", "stop", "join", "done"}
        /\ dpc \in {"top", "enter", "sleep", "size", "cap", "front", "lock",
                    "handle", "done"}
        /\ apc \in {"run", "destroy", "closing", "closed"}
    BY DEF Faults
  <2>5. /\ widgets \subseteq Windows /\ found \in Windows \cup {NoWindow}
        /\ victim \in Windows \cup {NoWindow}
        /\ nr \in Nat /\ resizes \in Nat /\ resized \in Nat /\ xleft \in Nat /\ draws \in Nat
    OBVIOUS
  <2> QED
    BY <2>1, <2>2, <2>3, <2>4, <2>5 DEF TypeOK
<1>2. Control
  BY DEF Control, LockInv, CallbackOnLiveWindow, ThreadsInv, TurnsInv
<1> QED
  BY <1>1, <1>2

LEMMA ServerTypes ==
  ASSUME TypeOK, \A w \in widgets : gen[w] >= 1, XServer
  PROVE  TypeOK'
<1>1. PICK w \in Windows, k \in XKinds, s \in Sizes : XSend(w, k, s)
  BY DEF XServer
<1>2. [kind |-> k, win |-> w, gen |-> gen[w], size |-> s] \in XEvent
  BY <1>1, EventTypesOK DEF TypeOK, XSend
<1> QED
  BY <1>1, <1>2 DEF XSend, TypeOK, progVars, pollVars, dispVars, histVars

LEMMA PollerTypes ==
  ASSUME TypeOK, Poller, ppc = "translate" => xevs # <<>>
  PROVE  TypeOK'
<1> USE DEF progVars, dispVars, histVars
<1>1. CASE PollStart
  BY <1>1 DEF PollStart, TypeOK
<1>2. CASE PollFetch
  BY <1>2 DEF PollFetch, TypeOK
<1>3. CASE PollReturn
  BY <1>3 DEF PollReturn, TypeOK, pollVars
<1>4. CASE PollLookup
  <2>1. Head(xevs) \in XEvent
    BY <1>4 DEF PollLookup, TypeOK
  <2>2. found' \in Windows \cup {NoWindow}
    BY <1>4, <2>1, EventTypesOK DEF PollLookup
  <2> QED
    BY <1>4, <2>2 DEF PollLookup, TypeOK
<1>5. CASE PollTranslate
  <2>0. ppc = "translate" /\ xevs # <<>>
    BY <1>5 DEF PollTranslate
  <2>1. /\ Head(xevs) \in XEvent /\ Tail(xevs) \in Seq(XEvent)
        /\ found \in Windows \cup {NoWindow} /\ vec \in Seq(Event)
        /\ resizes \in Nat /\ props \in [Windows -> Sizes] /\ fault \in Faults
    BY <2>0 DEF TypeOK
  <2>2. /\ Translated(Head(xevs), found) \in Seq(Event)
        /\ TranslatedProps(Head(xevs), found) \in [Windows -> Sizes]
        /\ CountOf("resize", Translated(Head(xevs), found)) \in Nat
    BY <2>1, TranslatedIsTyped, CountIsNatural
  <2>3. vec \o Translated(Head(xevs), found) \in Seq(Event)
    BY <2>1, <2>2
  <2>4. /\ vec' \in Seq(Event) /\ resizes' \in Nat /\ props' \in [Windows -> Sizes]
        /\ fault' \in Faults
    <3>1. CASE UNCHANGED <<vec, props, resizes>> /\ fault' \in {fault, "stale_window"}
      BY <2>1, <3>1 DEF Faults
    <3>2. CASE /\ fault' \in {"null_window", "none"}
               /\ vec' = vec \o Translated(Head(xevs), found)
               /\ resizes' = resizes + CountOf("resize", Translated(Head(xevs), found))
               /\ props' = TranslatedProps(Head(xevs), found)
      BY <2>1, <2>2, <2>3, <3>2 DEF Faults
    <3> QED
      BY <1>5, <3>1, <3>2, Zenon DEF PollTranslate
  <2> QED
    BY <1>5, <2>1, <2>4 DEF PollTranslate, TypeOK
<1>6. CASE PollPush
  <2>1. list' \in Seq(Event) /\ pending' \in [EventTypes -> Int]
    BY <1>6, PushIsTyped DEF PollPush, TypeOK
  <2> QED
    BY <1>6, <2>1 DEF PollPush, TypeOK, Wake
<1>7. CASE PollStop
  BY <1>7 DEF PollStop, TypeOK, Wake
<1>8. CASE PollJoin
  BY <1>8 DEF PollJoin, TypeOK
<1> QED
  BY <1>1, <1>2, <1>3, <1>4, <1>5, <1>6, <1>7, <1>8 DEF Poller

LEMMA DispatcherTypes ==
  ASSUME TypeOK, CallbackOnLiveWindow, Dispatcher \/ DispSpurious
  PROVE  TypeOK'
<1> USE DEF progVars, pollVars, histVars
<1>1. CASE DispTop
  BY <1>1 DEF DispTop, TypeOK
<1>2. CASE DispWait
  BY <1>2 DEF DispWait, TypeOK
<1>3. CASE DispSpurious
  BY <1>3 DEF DispSpurious, TypeOK
<1>4. CASE DispSize
  BY <1>4 DEF DispSize, TypeOK, Rest
<1>5. CASE DispCap
  BY <1>5 DEF DispCap, TypeOK
<1>6. CASE DispBatchEnd
  BY <1>6 DEF DispBatchEnd, TypeOK, Rest
<1>7. CASE DispFront
  <2>1. list # <<>> => /\ Head(list) \in Event /\ Tail(list) \in Seq(Event)
                       /\ Head(list).type \in EventTypes
    BY EventTypesOK DEF TypeOK
  <2>2. pending' \in [EventTypes -> Int] /\ nr' \in Nat
    BY <1>7, <2>1 DEF DispFront, TypeOK
  <2>3. list' \in Seq(Event) /\ ev' \in Event /\ fault' \in Faults /\ dpc' \in {dpc, "lock"}
    BY <1>7, <2>1 DEF DispFront, TypeOK, Faults
  <2> QED
    BY <1>7, <2>2, <2>3 DEF DispFront, TypeOK
<1>8. CASE DispLock
  BY <1>8, EventTypesOK DEF DispLock, TypeOK
<1>9. CASE DispHandle
  <2>1. ev.win \in Windows /\ gen[ev.win] \in Nat
    BY <1>9 DEF DispHandle, CallbackOnLiveWindow, TypeOK
  <2>2. [NoEvent EXCEPT !.type = "draw", !.win = ev.win, !.gen = gen[ev.win]] \in Event
    BY <2>1, WindowsAssumption DEF NoEvent, Event, EventTypes
  <2>3. /\ list' \in Seq(Event) /\ pending' \in [EventTypes -> Int] /\ draws' \in Nat
    <3>1. CASE UNCHANGED <<list, pending, draws>>
      BY <3>1 DEF TypeOK
    <3>2. CASE ~UNCHANGED <<list, pending, draws>>
      <4>1. /\ Push(<<[NoEvent EXCEPT !.type = "draw", !.win = ev.win, !.gen = gen[ev.win]]>>)
            /\ draws' = draws + 1
        BY <1>9, <3>2 DEF DispHandle
      <4>2. <<[NoEvent EXCEPT !.type = "draw", !.win = ev.win, !.gen = gen[ev.win]]>> \in Seq(Event)
        BY <2>2
      <4>3. list' \in Seq(Event) /\ pending' \in [EventTypes -> Int]
        BY <4>1, <4>2, PushIsTyped
      <4> QED
        BY <4>1, <4>3 DEF TypeOK
    <3> QED
      BY <3>1, <3>2
  <2>4. props' \in [Windows -> Sizes] /\ resized' \in Nat
    BY <1>9, <2>1, EventTypesOK DEF DispHandle, TypeOK
  <2> QED
    BY <1>9, <2>3, <2>4, EventTypesOK DEF DispHandle, TypeOK
<1> QED
  BY <1>1, <1>2, <1>3, <1>4, <1>5, <1>6, <1>7, <1>8, <1>9 DEF Dispatcher

LEMMA ProgramTypes ==
  ASSUME TypeOK, Program
  PROVE  TypeOK'
<1> USE DEF pollVars, dispVars, histVars
<1>1. ASSUME NEW w \in Windows, AppCreate(w) PROVE TypeOK'
  <2>1. CreateEvent(w) \in Seq(Event)
    <3>1. gen[w] + 1 \in Nat
      BY DEF TypeOK
    <3>2. [NoEvent EXCEPT !.type = "create", !.win = w, !.gen = gen[w] + 1] \in Event
      BY <3>1, WindowsAssumption DEF NoEvent, Event, EventTypes
    <3> QED
      BY <3>2 DEF CreateEvent
  <2>2. list' \in Seq(Event) /\ pending' \in [EventTypes -> Int]
    BY <1>1, <2>1, PushIsTyped DEF AppCreate, TypeOK
  <2>3. widgets' \subseteq Windows /\ gen' \in [Windows -> Nat]
    BY <1>1 DEF AppCreate, TypeOK
  <2>4. props' \in [Windows -> Sizes] /\ xsize' \in [Windows -> Sizes]
    BY <1>1, WindowsAssumption DEF AppCreate, TypeOK
  <2> QED
    BY <1>1, <2>2, <2>3, <2>4 DEF AppCreate, TypeOK, Faults, Wake
<1>2. ASSUME NEW w \in Windows, AppDestroy(w) PROVE TypeOK'
  BY <1>2 DEF AppDestroy, TypeOK
<1>3. CASE AppRemoveEvents
  <2>1. list' \in Seq(Event)
    BY <1>3, WithoutFacts DEF AppRemoveEvents, RemoveWidgetEvents, TypeOK
  <2> QED
    BY <1>3, <2>1 DEF AppRemoveEvents, TypeOK
<1>4. CASE AppClose
  <2>1. list' \in Seq(Event) /\ apc' \in {"closed", "closing"}
    <3>1. list' = <<>> \/ list' = list
      BY <1>4 DEF AppClose
    <3>2. apc' \in {"closed", "closing"}
      BY <1>4, Zenon DEF AppClose
    <3>3. list \in Seq(Event) /\ <<>> \in Seq(Event)
      BY DEF TypeOK
    <3>4. list' \in Seq(Event)
      BY <3>1, <3>3, Zenon
    <3> QED
      BY <3>2, <3>4
  <2>2. running' \in BOOLEAN
    BY <1>4 DEF AppClose, TypeOK
  <2> QED
    BY <1>4, <2>1, <2>2 DEF AppClose, TypeOK
<1>5. CASE AppJoin
  BY <1>5 DEF AppJoin, TypeOK
<1> QED
  BY <1>1, <1>2, <1>3, <1>4, <1>5 DEF Program

(***************************************************************************)
(* Locks, threads and turns.                                               *)
(***************************************************************************)

LEMMA ServerAndPollerControl ==
  ASSUME TypeOK, Control, XServer \/ Poller
  PROVE  Control'
<1> USE DEF Control, LockInv, CallbackOnLiveWindow, ThreadsInv, TurnsInv,
            progVars, dispVars
<1>1. CASE XServer
  BY <1>1 DEF XServer, XSend, pollVars
<1>2. CASE PollStart
  BY <1>2 DEF PollStart
<1>3. CASE PollFetch
  BY <1>3 DEF PollFetch, PollerTurn, DispatcherRests
<1>4. CASE PollReturn
  BY <1>4 DEF PollReturn, pollVars
<1>5. CASE PollLookup
  BY <1>5 DEF PollLookup
<1>6. CASE PollTranslate
  BY <1>6 DEF PollTranslate
<1>7. CASE PollPush
  BY <1>7 DEF PollPush, Wake
<1>8. CASE PollStop
  BY <1>8 DEF PollStop, Wake
<1>9. CASE PollJoin
  BY <1>9 DEF PollJoin
<1> QED
  BY <1>1, <1>2, <1>3, <1>4, <1>5, <1>6, <1>7, <1>8, <1>9 DEF Poller

LEMMA DispatcherControl ==
  ASSUME TypeOK, Control, Dispatcher \/ DispSpurious
  PROVE  Control'
<1> USE DEF Control, LockInv, CallbackOnLiveWindow, ThreadsInv, TurnsInv,
            progVars, pollVars
<1>1. CASE DispTop
  BY <1>1 DEF DispTop
<1>2. CASE DispWait
  BY <1>2 DEF DispWait
<1>3. CASE DispSpurious
  BY <1>3 DEF DispSpurious
<1>4. CASE DispSize
  BY <1>4 DEF DispSize, Rest, DispatcherTurn, PollerRests
<1>5. CASE DispCap
  BY <1>5 DEF DispCap
<1>6. CASE DispBatchEnd
  BY <1>6, KindsAssumption DEF DispBatchEnd, Rest, TypeOK
<1>7. CASE DispFront
  BY <1>7 DEF DispFront
<1>8. CASE DispLock
  <2>1. ev.win \in widgets => dpyLock = "none"
    BY <1>8, WindowsAssumption DEF DispLock, TypeOK
  <2> QED
    BY <1>8, <2>1 DEF DispLock
<1>9. CASE DispHandle
  BY <1>9 DEF DispHandle
<1> QED
  BY <1>1, <1>2, <1>3, <1>4, <1>5, <1>6, <1>7, <1>8, <1>9 DEF Dispatcher

LEMMA ProgramControl ==
  ASSUME TypeOK, Control, Program
  PROVE  Control'
<1> USE DEF Control, LockInv, CallbackOnLiveWindow, ThreadsInv, TurnsInv,
            pollVars, dispVars, ProgramTurn, DispatcherRests, PollerRests
<1>1. CASE \E w \in Windows : AppCreate(w)
  BY <1>1 DEF AppCreate, Wake
<1>2. CASE \E w \in Windows : AppDestroy(w)
  BY <1>2 DEF AppDestroy
<1>3. CASE AppRemoveEvents
  BY <1>3 DEF AppRemoveEvents
<1>4. CASE AppClose
  BY <1>4 DEF AppClose
<1>5. CASE AppJoin
  BY <1>5 DEF AppJoin
<1> QED
  BY <1>1, <1>2, <1>3, <1>4, <1>5 DEF Program

(***************************************************************************)
(* Windows, found pointers, batches and faults.                            *)
(***************************************************************************)

(* Which steps change the list of windows and their drawables, or the X    *)
(* events.                                                                 *)
LEMMA WindowsChange ==
  ASSUME [Next]_vars
  PROVE  \/ UNCHANGED <<widgets, gen>>
         \/ \E w \in Windows : AppCreate(w) \/ AppDestroy(w)
<1> USE DEF progVars
<1>1. CASE UNCHANGED vars
  BY <1>1 DEF vars
<1>2. CASE XServer
  BY <1>2 DEF XServer, XSend
<1>3. CASE Poller
  BY <1>3 DEF Poller, PollStart, PollFetch, PollReturn, PollLookup, PollTranslate,
              PollPush, PollStop, PollJoin
<1>4. CASE Dispatcher \/ DispSpurious
  BY <1>4 DEF Dispatcher, DispTop, DispWait, DispSpurious, DispSize, DispCap,
              DispBatchEnd, DispFront, DispLock, DispHandle
<1>5. CASE Program
  BY <1>5 DEF Program, AppRemoveEvents, AppClose, AppJoin
<1> QED
  BY <1>1, <1>2, <1>3, <1>4, <1>5 DEF Next

(* A window destroyed stays destroyed: its drawable's number is never      *)
(* given again.                                                            *)
LEMMA RemovedStays ==
  ASSUME TypeOK, GenInv, [Next]_vars
  PROVE  /\ Removed => Removed'
         /\ \A w \in Windows : gen[w] \in Nat /\ gen'[w] \in Nat /\ gen[w] <= gen'[w]
         /\ \A w \in widgets' : gen'[w] >= 1
<1>0. \A w \in Windows : gen[w] \in Nat
  BY DEF TypeOK
<1>1. CASE UNCHANGED <<widgets, gen>>
  BY <1>0, <1>1 DEF Removed, GenInv
<1>2. ASSUME NEW v \in Windows, AppCreate(v)
      PROVE  /\ Removed => Removed'
             /\ \A w \in Windows : gen'[w] \in Nat /\ gen[w] <= gen'[w]
             /\ \A w \in widgets' : gen'[w] >= 1
  <2>1. /\ widgets' = widgets \cup {v} /\ v \notin widgets
        /\ \A w \in Windows : gen'[w] = IF w = v THEN gen[v] + 1 ELSE gen[w]
    BY <1>2 DEF AppCreate, TypeOK
  <2>2. widgets \subseteq Windows
    BY DEF TypeOK
  <2> QED
    BY <1>0, <2>1, <2>2 DEF Removed, GenInv
<1>3. ASSUME NEW v \in Windows, AppDestroy(v)
      PROVE  /\ Removed'
             /\ \A w \in Windows : gen'[w] \in Nat /\ gen[w] <= gen'[w]
             /\ \A w \in widgets' : gen'[w] >= 1
  <2>1. /\ widgets' = widgets \ {v} /\ v \in widgets /\ gen' = gen
    BY <1>3 DEF AppDestroy
  <2>2. gen[v] >= 1
    BY <2>1 DEF GenInv
  <2> QED
    BY <1>0, <2>1, <2>2 DEF Removed, GenInv
<1> QED
  BY <1>0, <1>1, <1>2, <1>3, WindowsChange

LEMMA XEventsStep ==
  ASSUME TypeOK, FoundInv, [Next]_vars
  PROVE  \/ Range(xevs') \cup Range(xqueue') \subseteq Range(xevs) \cup Range(xqueue)
         \/ XServer
<1> USE DEF progVars
<1>0. xevs \in Seq(XEvent) /\ xqueue \in Seq(XEvent)
  BY DEF TypeOK
<1>1. CASE UNCHANGED <<xevs, xqueue>>
  BY <1>1
<1>2. CASE PollFetch
  <2>1. xevs' = xqueue /\ xqueue' = <<>>
    BY <1>2 DEF PollFetch
  <2>2. Range(<<>>) = {}
    BY DEF Range
  <2> QED
    BY <2>1, <2>2
<1>3. CASE PollTranslate
  <2>1. xevs # <<>> /\ xevs' = Tail(xevs) /\ xqueue' = xqueue
    BY <1>3 DEF PollTranslate, FoundInv
  <2>2. Range(xevs) = {Head(xevs)} \cup Range(Tail(xevs))
    BY <1>0, <2>1, RangeFacts
  <2> QED
    BY <2>1, <2>2
<1>4. CASE UNCHANGED vars
  BY <1>1, <1>4 DEF vars, pollVars
<1>5. CASE Poller /\ ~PollFetch /\ ~PollTranslate
  BY <1>1, <1>5 DEF Poller, PollStart, PollReturn, PollLookup, PollPush, PollStop,
              PollJoin, pollVars
<1>6. CASE Dispatcher \/ DispSpurious
  BY <1>1, <1>6 DEF Dispatcher, DispTop, DispWait, DispSpurious, DispSize, DispCap,
              DispBatchEnd, DispFront, DispLock, DispHandle, pollVars
<1>7. CASE Program
  BY <1>1, <1>7 DEF Program, AppCreate, AppDestroy, AppRemoveEvents, AppClose, AppJoin,
              pollVars
<1> QED
  BY <1>2, <1>3, <1>4, <1>5, <1>6, <1>7 DEF Next

(* A window is being destroyed only after AppDestroy.                      *)
LEMMA DestroyStep ==
  ASSUME [Next]_vars, apc' = "destroy"
  PROVE  apc = "destroy" \/ \E w \in Windows : AppDestroy(w)
<1> USE DEF progVars
<1>1. CASE UNCHANGED vars
  BY <1>1 DEF vars
<1>2. CASE XServer
  BY <1>2 DEF XServer, XSend
<1>3. CASE Poller
  BY <1>3 DEF Poller, PollStart, PollFetch, PollReturn, PollLookup, PollTranslate,
              PollPush, PollStop, PollJoin
<1>4. CASE Dispatcher \/ DispSpurious
  BY <1>4 DEF Dispatcher, DispTop, DispWait, DispSpurious, DispSize, DispCap,
              DispBatchEnd, DispFront, DispLock, DispHandle
<1>5. CASE Program
  BY <1>5 DEF Program, AppCreate, AppRemoveEvents, AppClose, AppJoin
<1> QED
  BY <1>1, <1>2, <1>3, <1>4, <1>5 DEF Next

LEMMA GenStep ==
  ASSUME TypeOK, GenInv, FoundInv, [Next]_vars
  PROVE  GenInv'
<1>1. \A w \in widgets' : gen'[w] >= 1
  BY RemovedStays
<1>2. apc' = "destroy" => Removed'
  <2>1. ASSUME NEW v \in Windows, AppDestroy(v) PROVE Removed'
    <3>1. v \in widgets /\ widgets' = widgets \ {v} /\ gen' = gen /\ gen[v] >= 1
      BY <2>1 DEF AppDestroy, GenInv
    <3>2. gen[v] \in Nat
      BY DEF TypeOK
    <3> QED
      BY <3>1, <3>2 DEF Removed
  <2> QED
    BY <2>1, DestroyStep, RemovedStays DEF GenInv
<1>3. ASSUME NEW x \in Range(xevs') \cup Range(xqueue')
      PROVE  x.gen <= gen'[x.win]
  <2>1. CASE x \in Range(xevs) \cup Range(xqueue)
    <3>1. x \in XEvent
      BY <2>1, RangeFacts DEF TypeOK
    <3>2. x.gen \in Nat /\ x.win \in Windows
      BY <3>1, EventTypesOK
    <3>3. x.gen <= gen[x.win]
      BY <2>1 DEF GenInv
    <3> QED
      BY <3>2, <3>3, RemovedStays
  <2>2. CASE XServer
    <3>1. PICK w \in Windows, k \in XKinds, s \in Sizes : XSend(w, k, s)
      BY <2>2 DEF XServer
    <3> DEFINE y == [kind |-> k, win |-> w, gen |-> gen[w], size |-> s]
    <3>2. gen[w] \in Nat /\ gen[w] > 0
      BY <3>1 DEF XSend, GenInv, TypeOK
    <3>3. y \in XEvent
      BY <3>2, EventTypesOK
    <3>4. xevs' = xevs /\ xqueue' = Append(xqueue, y) /\ gen' = gen
      BY <3>1 DEF XSend, pollVars, progVars
    <3> HIDE DEF y
    <3>5. Range(Append(xqueue, y)) = Range(xqueue) \cup {y}
      <4>1. xqueue \in Seq(XEvent)
        BY DEF TypeOK
      <4>2. \A e \in XEvent : Range(Append(xqueue, e)) = Range(xqueue) \cup {e}
        BY <4>1, RangeAppend
      <4> QED
        BY <3>3, <4>2
    <3>6. CASE x = y
      BY <3>2, <3>4, <3>6 DEF y
    <3> QED
      BY <2>1, <3>4, <3>5, <3>6
  <2> QED
    BY <2>1, <2>2, XEventsStep
<1> QED
  BY <1>1, <1>2, <1>3 DEF GenInv

LEMMA FoundStep ==
  ASSUME TypeOK, Control, GenInv, FoundInv, [Next]_vars
  PROVE  FoundInv'
<1>0. /\ Removed => Removed'
      /\ \A w \in Windows : gen[w] \in Nat /\ gen'[w] \in Nat /\ gen[w] <= gen'[w]
      /\ found \in Windows \cup {NoWindow}
  BY RemovedStays DEF TypeOK
<1>1. CASE ppc' # "translate"
  BY <1>1 DEF FoundInv
<1>2. CASE PollLookup
  <2> DEFINE x == Head(xevs)
  <2>1. /\ xevs # <<>> /\ UNCHANGED <<mode, xevs, widgets, gen>>
        /\ found' = IF x.win \in widgets /\ x.gen = gen[x.win] THEN x.win ELSE NoWindow
    BY <1>2 DEF PollLookup, progVars
  <2>2. x \in XEvent /\ x \in Range(xevs)
    BY <2>1, RangeFacts DEF TypeOK
  <2>3. x.win \in Windows /\ x.gen \in Nat /\ x.gen > 0 /\ x.gen <= gen[x.win]
    BY <2>2, EventTypesOK DEF GenInv
  <2>4. x.win \notin widgets \/ x.gen # gen[x.win] => Removed
    BY <1>0, <2>3 DEF Removed
  <2>5. found' = NoWindow => Removed'
    BY <1>0, <2>1, <2>3, <2>4, WindowsAssumption
  <2>6. found' # NoWindow => gen'[found'] >= 1
    BY <2>1, <2>3
  <2> HIDE DEF x
  <2> QED
    BY <2>1, <2>5, <2>6 DEF FoundInv, x
<1>3. CASE UNCHANGED <<ppc, xevs, found>> /\ ppc = "translate"
  <2>1. mode' = mode /\ (mode = "single" => UNCHANGED <<widgets, gen>>)
    <3>1. mode' = mode
      <4>1. CASE UNCHANGED vars
        BY <4>1 DEF vars
      <4>2. CASE Dispatcher \/ DispSpurious
        BY <4>2 DEF Dispatcher, DispTop, DispWait, DispSpurious, DispSize, DispCap,
              DispBatchEnd, DispFront, DispLock, DispHandle
      <4>3. CASE Program
        BY <4>3 DEF Program, AppCreate, AppDestroy, AppRemoveEvents, AppClose, AppJoin
      <4>4. CASE XServer
        BY <4>4 DEF XServer, XSend
      <4>5. CASE Poller
        BY <4>5 DEF Poller, PollStart, PollFetch, PollReturn, PollLookup, PollTranslate,
              PollPush, PollStop, PollJoin
      <4> QED
        BY <4>1, <4>2, <4>3, <4>4, <4>5 DEF Next
    <3>2. mode = "single" /\ ppc = "translate" => ~\E w \in Windows : AppCreate(w) \/ AppDestroy(w)
      BY DEF AppCreate, AppDestroy, ProgramTurn, PollerRests
    <3> QED
      BY <1>3, <3>1, <3>2, WindowsChange
  <2>2. found # NoWindow => gen'[found] >= 1
    BY <1>0, <1>3 DEF FoundInv
  <2> QED
    BY <1>0, <1>3, <2>1, <2>2 DEF FoundInv
<1>4. CASE UNCHANGED vars
  BY <1>1, <1>3, <1>4 DEF vars, pollVars
<1>5. CASE XServer
  BY <1>1, <1>3, <1>5 DEF XServer, XSend, pollVars
<1>6. CASE Poller /\ ~PollLookup
  BY <1>1, <1>6 DEF Poller, PollStart, PollFetch, PollReturn, PollTranslate, PollPush,
              PollStop, PollJoin
<1>7. CASE Dispatcher \/ DispSpurious
  BY <1>1, <1>3, <1>7 DEF Dispatcher, DispTop, DispWait, DispSpurious, DispSize, DispCap,
              DispBatchEnd, DispFront, DispLock, DispHandle, pollVars
<1>8. CASE Program
  BY <1>1, <1>3, <1>8 DEF Program, AppCreate, AppDestroy, AppRemoveEvents, AppClose,
              AppJoin, pollVars
<1> QED
  BY <1>2, <1>4, <1>5, <1>6, <1>7, <1>8 DEF Next

LEMMA BatchStep ==
  ASSUME TypeOK, Control, GenInv, BatchInv, [Next]_vars
  PROVE  BatchInv'
<1>1. Removed => Removed'
  BY RemovedStays
<1>2. list \in Seq(Event) /\ vec \in Seq(Event) /\ nr \in Nat /\ Len(list) \in Nat
  BY DEF TypeOK
<1>3. CASE UNCHANGED <<mode, nr>> /\ dpc' \in {dpc, "top", "size", "cap", "sleep", "enter", "done"}
           /\ (list' = list \/ \E es \in Seq(Event) : Push(es))
  <2>1. Len(list') \in Nat /\ Len(list) <= Len(list')
    <3>1. ASSUME NEW es \in Seq(Event), list' = list \o es PROVE Len(list') \in Nat /\ Len(list) <= Len(list')
      BY <1>2, <3>1
    <3> QED
      BY <1>2, <1>3, <3>1 DEF Push
  <2> QED
    BY <1>1, <1>2, <1>3, <2>1 DEF BatchInv
<1>4. CASE UNCHANGED vars
  BY <1>3, <1>4 DEF vars, dispVars
<1>5. CASE XServer
  BY <1>3, <1>5 DEF XServer, XSend, dispVars
<1>6. CASE Poller /\ ~PollJoin
  BY <1>2, <1>3, <1>6 DEF Poller, PollStart, PollFetch, PollReturn, PollLookup, PollTranslate,
              PollPush, PollStop, dispVars, Wake
<1>7. CASE PollJoin
  BY <1>7 DEF PollJoin, dispVars, BatchInv
<1>8. CASE DispTop \/ DispWait \/ DispSpurious \/ DispBatchEnd
  BY <1>3, <1>8 DEF DispTop, DispWait, DispSpurious, DispBatchEnd, Rest
<1>9. CASE DispSize
  BY <1>9 DEF DispSize, Rest, BatchInv
<1>10. CASE DispCap
  <2>1. nr' <= Len(list') /\ list' = list
    BY <1>2, <1>10 DEF DispCap
  <2> QED
    BY <2>1 DEF BatchInv
<1>11. CASE DispFront
  <2>1. mode' = mode
    BY <1>11 DEF DispFront
  <2>2. CASE list = <<>>
    BY <1>1, <1>11, <2>1, <2>2 DEF DispFront, BatchInv
  <2>3. CASE list # <<>>
    <3>1. nr' = nr - 1 /\ Len(list') = Len(list) - 1 /\ dpc = "front"
      BY <1>2, <1>11, <2>3 DEF DispFront
    <3> QED
      BY <1>1, <1>2, <2>1, <3>1 DEF BatchInv
  <2> QED
    BY <2>2, <2>3
<1>12. CASE DispLock
  <2>1. UNCHANGED <<mode, nr, list>> /\ dpc = "lock"
    BY <1>12 DEF DispLock
  <2> QED
    BY <1>1, <2>1 DEF BatchInv
<1>13. CASE DispHandle
  <2>1. UNCHANGED <<mode, nr>> /\ dpc = "handle"
    BY <1>13 DEF DispHandle
  <2>2. Len(list') \in Nat /\ Len(list) <= Len(list')
    <3>1. list' = list \/ \E e : list' = Append(list, e)
      BY <1>13 DEF DispHandle, Push
    <3> QED
      BY <1>2, <3>1
  <2> QED
    BY <1>1, <1>2, <2>1, <2>2 DEF BatchInv
<1>14. CASE \E w \in Windows : AppCreate(w)
  <2>1. UNCHANGED <<mode, nr>> /\ dpc' \in {dpc, "size"}
    BY <1>14 DEF AppCreate, Wake
  <2>2. Len(list') \in Nat /\ Len(list) <= Len(list')
    <3>1. list' = list \/ \E e : list' = Append(list, e)
      BY <1>14 DEF AppCreate, Push, CreateEvent
    <3> QED
      BY <1>2, <3>1
  <2> QED
    BY <1>1, <1>2, <2>1, <2>2 DEF BatchInv
<1>15. CASE AppRemoveEvents
  <2>1. Removed' /\ mode' = mode /\ UNCHANGED dpc
    BY <1>1, <1>15 DEF AppRemoveEvents, GenInv, dispVars
  <2>2. mode = "single" => dpc = "size"
    BY <1>15 DEF AppRemoveEvents, Control, TurnsInv
  <2> QED
    BY <2>1, <2>2 DEF BatchInv
<1>16. CASE AppClose
  <2>1. CASE mode = "single"
    BY <1>16, <2>1 DEF AppClose, ProgramTurn, DispatcherRests, dispVars, BatchInv
  <2>2. CASE mode # "single"
    BY <1>3, <1>16, <2>2 DEF AppClose, dispVars
  <2> QED
    BY <2>1, <2>2
<1>17. CASE AppJoin \/ (\E w \in Windows : AppDestroy(w))
  BY <1>3, <1>17 DEF AppJoin, AppDestroy, dispVars
<1> QED
  BY <1>4, <1>5, <1>6, <1>7, <1>8, <1>9, <1>10, <1>11, <1>12, <1>13, <1>14, <1>15,
     <1>16, <1>17 DEF Next, Dispatcher, Program

(* Which steps meet undefined behaviour.                                   *)
LEMMA FaultStep ==
  ASSUME TypeOK, Control, GenInv, FoundInv, BatchInv, FaultsHaveACause, [Next]_vars
  PROVE  FaultsHaveACause'
<1>1. Removed => Removed'
  BY RemovedStays
<1>2. CASE fault' = "none"
  BY <1>2 DEF FaultsHaveACause
<1>3. CASE UNCHANGED vars
  BY <1>1, <1>3 DEF vars, FaultsHaveACause
<1>4. CASE XServer
  BY <1>2, <1>4 DEF XServer, XSend, Sound
<1>5. CASE Poller /\ ~PollTranslate
  BY <1>2, <1>5 DEF Poller, PollStart, PollFetch, PollReturn, PollLookup,
              PollPush, PollStop, PollJoin, Sound
<1>6. CASE PollTranslate
  <2>0. UNCHANGED <<mode, running>> /\ fault = "none" /\ ppc = "translate"
    BY <1>6 DEF PollTranslate, Sound
  <2>1. /\ fault' \in {"none", "stale_window", "null_window"}
        /\ fault' = "stale_window" => found # NoWindow /\ found \notin widgets
        /\ fault' = "null_window" => found = NoWindow
    BY <1>6, <2>0 DEF PollTranslate
  <2>2. found \in Windows \cup {NoWindow} /\ mode \in {"single", "threads"}
    BY KindsAssumption DEF TypeOK
  <2>3. ASSUME found # NoWindow, found \notin widgets
        PROVE  mode = "threads" /\ Removed
    <3>1. mode # "single"
      BY <2>0, <2>3 DEF FoundInv
    <3>2. found \in Windows /\ gen[found] >= 1 /\ gen[found] \in Nat
      BY <2>0, <2>2, <2>3 DEF FoundInv, TypeOK
    <3>3. Removed
      BY <2>3, <3>2 DEF Removed
    <3> QED
      BY <2>2, <3>1, <3>3
  <2>4. found = NoWindow => Removed
    BY <2>0 DEF FoundInv
  <2> QED
    BY <1>1, <2>0, <2>1, <2>3, <2>4 DEF FaultsHaveACause
<1>7. CASE (Dispatcher \/ DispSpurious) /\ ~DispFront
  BY <1>2, <1>7 DEF Dispatcher, DispTop, DispWait, DispSpurious, DispSize, DispCap,
              DispBatchEnd, DispLock, DispHandle, Sound
<1>8. CASE DispFront
  <2>1. UNCHANGED <<mode, running>> /\ fault = "none" /\ dpc = "front" /\ nr > 0
    BY <1>8 DEF DispFront, Sound
  <2>2. fault' \in {"none", "empty_front"} /\ (fault' = "empty_front" => list = <<>>)
    BY <1>8, <2>1 DEF DispFront
  <2>3. ASSUME list = <<>> PROVE mode = "threads" /\ Removed
    <3>1. ~(nr <= Len(list))
      BY <2>1, <2>3 DEF TypeOK
    <3>2. mode # "single" /\ Removed
      BY <2>1, <3>1 DEF BatchInv
    <3> QED
      BY <3>2, KindsAssumption DEF TypeOK
  <2> QED
    BY <1>1, <2>1, <2>2, <2>3 DEF FaultsHaveACause
<1>9. CASE \E w \in Windows : AppCreate(w)
  <2>1. /\ UNCHANGED <<mode, running>> /\ fault' \in {"none", "no_dispatcher"}
        /\ fault' = "no_dispatcher" => mode = "threads" /\ ppc = "start"
    BY <1>9 DEF AppCreate, NoDispatcher, Sound
  <2> QED
    BY <2>1 DEF FaultsHaveACause, Control, ThreadsInv
<1>10. CASE Program /\ ~(\E w \in Windows : AppCreate(w))
  BY <1>2, <1>10 DEF Program, AppDestroy, AppRemoveEvents, AppClose, AppJoin, Sound
<1> QED
  BY <1>3, <1>4, <1>5, <1>6, <1>7, <1>8, <1>9, <1>10 DEF Next

(***************************************************************************)
(* Events on their way.                                                    *)
(***************************************************************************)

LEMMA OrderedShort ==
  OrderedIds(<<>>) /\ \A e : OrderedIds(<<e>>)
  BY DEF OrderedIds

LEMMA OrderedConcat ==
  ASSUME NEW S, NEW s \in Seq(S), NEW t \in Seq(S),
         OrderedIds(s), OrderedIds(t), Older(Range(s), Range(t))
  PROVE  OrderedIds(s \o t)
<1>0. DOMAIN (s \o t) = 1..(Len(s) + Len(t))
  OBVIOUS
<1>1. SUFFICES ASSUME NEW i \in 1..(Len(s) + Len(t)), NEW j \in 1..(Len(s) + Len(t)), i < j,
                      Resize((s \o t)[i]), Resize((s \o t)[j])
               PROVE  (s \o t)[i].id < (s \o t)[j].id
  BY <1>0 DEF OrderedIds
<1>2. CASE j <= Len(s)
  <2>1. i \in DOMAIN s /\ j \in DOMAIN s /\ (s \o t)[i] = s[i] /\ (s \o t)[j] = s[j]
    BY <1>1, <1>2
  <2> QED
    BY <1>1, <2>1 DEF OrderedIds
<1>3. CASE i > Len(s)
  <2> DEFINE a == i - Len(s)
             b == j - Len(s)
  <2>1. a \in DOMAIN t /\ b \in DOMAIN t /\ a < b /\ (s \o t)[i] = t[a] /\ (s \o t)[j] = t[b]
    BY <1>1, <1>3
  <2> HIDE DEF a, b
  <2> QED
    BY <1>1, <2>1 DEF OrderedIds
<1>4. CASE i <= Len(s) /\ j > Len(s)
  <2> DEFINE b == j - Len(s)
  <2>1. i \in DOMAIN s /\ b \in DOMAIN t /\ (s \o t)[i] = s[i] /\ (s \o t)[j] = t[b]
    BY <1>1, <1>4
  <2> HIDE DEF b
  <2>2. s[i] \in Range(s) /\ t[b] \in Range(t)
    BY <2>1 DEF Range
  <2> QED
    BY <1>1, <2>1, <2>2 DEF Older
<1> QED
  BY <1>2, <1>3, <1>4

LEMMA OrderedTail ==
  ASSUME NEW S, NEW s \in Seq(S), s # <<>>, OrderedIds(s)
  PROVE  OrderedIds(Tail(s)) /\ Older({Head(s)}, Range(Tail(s)))
<1>1. /\ Len(Tail(s)) = Len(s) - 1 /\ Len(s) \in Nat /\ DOMAIN Tail(s) = 1..(Len(s) - 1)
      /\ \A i \in DOMAIN Tail(s) : i + 1 \in DOMAIN s /\ Tail(s)[i] = s[i + 1] /\ i \in Nat /\ i > 0
      /\ 1 \in DOMAIN s /\ Head(s) = s[1]
  OBVIOUS
<1>2. OrderedIds(Tail(s))
  <2>1. ASSUME NEW i \in DOMAIN Tail(s), NEW j \in DOMAIN Tail(s), i < j
        PROVE  Resize(Tail(s)[i]) /\ Resize(Tail(s)[j]) => Tail(s)[i].id < Tail(s)[j].id
    <3>1. i + 1 < j + 1
      BY <1>1, <2>1
    <3> QED
      BY <1>1, <3>1 DEF OrderedIds
  <2> QED
    BY <2>1 DEF OrderedIds
<1>3. Older({Head(s)}, Range(Tail(s)))
  <2>1. ASSUME NEW i \in DOMAIN Tail(s), Resize(Head(s)), Resize(Tail(s)[i])
        PROVE  Head(s).id < Tail(s)[i].id
    <3>1. 1 < i + 1
      BY <1>1
    <3> QED
      BY <1>1, <2>1, <3>1 DEF OrderedIds
  <2> QED
    BY <2>1 DEF Older, Range
<1> QED
  BY <1>2, <1>3

LEMMA OrderedWithout ==
  ASSUME NEW S, NEW s \in Seq(S), NEW w, OrderedIds(s)
  PROVE  OrderedIds(Without(s, w))
<1> DEFINE r == Without(s, w)
<1>1. PICK h \in [DOMAIN r -> DOMAIN s] :
        /\ \A j \in DOMAIN r : r[j] = s[h[j]]
        /\ \A j, l \in DOMAIN r : j < l => h[j] < h[l]
  BY WithoutFacts
<1> HIDE DEF r
<1>2. OrderedIds(r)
  BY <1>1 DEF OrderedIds
<1> QED
  BY <1>2 DEF r

LEMMA FlightTyped ==
  ASSUME TypeOK
  PROVE  /\ Flight \subseteq Event /\ list \in Seq(Event) /\ vec \in Seq(Event)
         /\ \A e \in Flight : e \in Event /\ e.id \in Nat /\ e.win \in Windows \cup {NoWindow}
         /\ resized \in Nat /\ resizes \in Nat
<1>1. list \in Seq(Event) /\ vec \in Seq(Event) /\ ev \in Event
      /\ resized \in Nat /\ resizes \in Nat
  BY DEF TypeOK
<1>2. Range(list) \subseteq Event /\ Range(vec) \subseteq Event
  BY <1>1, RangeFacts
<1>3. Flight \subseteq Event
  BY <1>1, <1>2 DEF Flight, Queued, Hand
<1> QED
  BY <1>1, <1>3, EventTypesOK

(* A program that runs was running, unless a window was destroyed.         *)
LEMMA RunningStep ==
  ASSUME TypeOK, GenInv, [Next]_vars, ~Removed', apc' = "run"
  PROVE  ~Removed /\ apc = "run"
<1>1. ~Removed /\ apc # "destroy"
  BY RemovedStays DEF GenInv
<1> USE DEF progVars
<1>2. CASE UNCHANGED vars
  BY <1>1, <1>2 DEF vars
<1>3. CASE XServer
  BY <1>1, <1>3 DEF XServer, XSend
<1>4. CASE Poller
  BY <1>1, <1>4 DEF Poller, PollStart, PollFetch, PollReturn, PollLookup, PollTranslate,
              PollPush, PollStop, PollJoin
<1>5. CASE Dispatcher \/ DispSpurious
  BY <1>1, <1>5 DEF Dispatcher, DispTop, DispWait, DispSpurious, DispSize, DispCap,
              DispBatchEnd, DispFront, DispLock, DispHandle
<1>6. CASE Program
  BY <1>1, <1>6 DEF Program, AppCreate, AppDestroy, AppRemoveEvents, AppClose, AppJoin
<1> QED
  BY <1>2, <1>3, <1>4, <1>5, <1>6 DEF Next

(* A step that moves no event.                                             *)
Still == UNCHANGED <<mode, Hand, list, vec, pending, resized, resizes, props>>

LEMMA StillStep ==
  ASSUME TypeOK, GenInv, Moving, [Next]_vars, Still,
         UNCHANGED <<widgets, gen, victim>>, apc' = apc \/ apc # "destroy"
  PROVE  Moving'
<1>1. UNCHANGED <<mode, Hand, list, vec, pending, resized, resizes, props>>
  BY DEF Still
<1>2. Flight' = Flight /\ Queued' = Queued
  BY <1>1 DEF Flight, Queued
<1>3. FlightInv'
  BY <1>1, <1>2 DEF Moving, FlightInv
<1>4. IdInv'
  BY <1>1, <1>2 DEF Moving, IdInv
<1>5. LastInv'
  BY <1>1, <1>2, RunningStep DEF Moving, LastInv
<1>6. PropsInv'
  BY <1>1, <1>2 DEF Moving, PropsInv, Newest
<1>7. PendingCoversList'
  BY <1>1, RunningStep DEF Moving, PendingCoversList
<1> QED
  BY <1>3, <1>4, <1>5, <1>6, <1>7 DEF Moving

(* A translation appends at most one event, the newest.                    *)
LEMMA TranslateMoves ==
  ASSUME IInv, PollTranslate, [Next]_vars
  PROVE  Moving'
<1> DEFINE x == Head(xevs)
           T == Translated(x, found)
<1>1. /\ UNCHANGED <<mode, list, pending, gen, widgets, apc, victim, resized, dpc, ev>>
      /\ ppc = "translate" /\ xevs # <<>>
  BY DEF PollTranslate, progVars, dispVars, IInv, FoundInv
<1>2. /\ x \in XEvent /\ found \in Windows \cup {NoWindow} /\ vec \in Seq(Event)
      /\ resizes \in Nat /\ TypeOK /\ GenInv /\ Moving
  BY <1>1 DEF TypeOK, IInv
<1>3. Hand' = Hand
  BY <1>1 DEF Hand
<1>4. CASE UNCHANGED <<vec, resizes, props>>
  <2>1. Still
    BY <1>1, <1>3, <1>4 DEF Still
  <2> QED
    BY <1>1, <1>2, <2>1, StillStep
<1>5. CASE /\ found = NoWindow \/ found \in widgets
           /\ vec' = vec \o T /\ resizes' = resizes + CountOf("resize", T)
           /\ props' = TranslatedProps(x, found)
  <2>1. CASE T = <<>> /\ TranslatedProps(x, found) = props
    <3>1. vec' = vec /\ resizes' = resizes /\ props' = props
      BY <1>2, <1>5, <2>1, CountNone
    <3> QED
      BY <1>4, <3>1
  <2>2. ASSUME NEW e \in Event, T = <<e>>, e.win = found, e.gen = x.gen,
               \/ ~Resize(e) /\ TranslatedProps(x, found) = props
               \/ /\ Resize(e) /\ e.id = resizes + 1 /\ found # NoWindow
                  /\ e.size = TranslatedProps(x, found)[found]
                  /\ \A v \in Windows : v # found => TranslatedProps(x, found)[v] = props[v]
        PROVE  Moving'
    <3>1. vec' = vec \o <<e>> /\ <<e>> \in Seq(Event)
      BY <1>5, <2>2
    <3>2. Range(vec') = Range(vec) \cup {e}
      <4>1. vec' = Append(vec, e)
        BY <1>2, <3>1
      <4>2. Range(Append(vec, e)) = Range(vec) \cup {e}
        BY <1>2, RangeAppend
      <4> QED
        BY <4>1, <4>2
    <3>3. Queued' = Queued \cup {e} /\ Flight' = Flight \cup {e}
      BY <1>1, <1>3, <3>2 DEF Queued, Flight
    <3>4. resizes' = resizes + (IF Resize(e) THEN 1 ELSE 0)
      <4>1. CountOf("resize", <<e>>) = IF e.type = "resize" THEN 1 ELSE 0
        BY CountOne
      <4> QED
        BY <1>5, <2>2, <4>1 DEF Resize
    <3>5. found # NoWindow => found \in widgets /\ gen[found] >= 1
      BY <1>1, <1>5 DEF IInv, FoundInv
    <3>6. mode = "single" /\ found # NoWindow => x.gen = gen[found]
      BY <1>1 DEF IInv, FoundInv
    <3>7. \A f \in Flight : f.id \in Nat /\ f.win \in Windows \cup {NoWindow}
      BY <1>2, FlightTyped
    <3>8. \A f \in Flight : Resize(f) => f.win # NoWindow /\ f.id <= resizes /\ resized < f.id
      BY <1>2 DEF Moving, FlightInv, IdInv
    <3>9. resized \in Nat /\ resized <= resizes
      BY <1>2 DEF Moving, IdInv, TypeOK
    <3>10. FlightInv'
      BY <1>1, <1>2, <2>2, <3>3, <3>5, <3>6 DEF Moving, FlightInv
    <3>11. IdInv'
      <4>1. Older(Range(vec), {e}) /\ Older(Range(list), {e}) /\ Older(Hand, {e})
        BY <1>2, <2>2, <3>7, <3>8 DEF Older, Flight, Queued
      <4>2. OrderedIds(vec')
        <5>1. OrderedIds(vec) /\ OrderedIds(<<e>>) /\ Range(<<e>>) = {e}
          BY <1>2, OrderedShort DEF Moving, IdInv, Range
        <5> DEFINE u == <<e>>
        <5>2. u \in Seq(Event) /\ OrderedIds(u) /\ Older(Range(vec), Range(u)) /\ vec' = vec \o u
          BY <3>1, <4>1, <5>1
        <5> HIDE DEF u
        <5> QED
          BY <1>2, <5>1, <5>2, OrderedConcat
      <4>3. OrderedIds(list') /\ Older(Range(list'), Range(vec')) /\ Older(Hand', Queued')
        BY <1>1, <1>2, <1>3, <3>2, <3>3, <4>1 DEF Moving, IdInv, Older
      <4>4. \A f \in Flight' : Resize(f) => resized' < f.id /\ f.id <= resizes'
        BY <1>1, <1>2, <2>2, <3>3, <3>4, <3>7, <3>8, <3>9
      <4>5. resized' <= resizes'
        BY <1>1, <1>2, <3>4, <3>9
      <4> QED
        BY <4>2, <4>3, <4>4, <4>5 DEF IdInv
    <3>12. LastInv'
      <4>1. CASE Resize(e)
        BY <1>2, <2>2, <3>3, <3>4, <4>1 DEF LastInv
      <4>2. CASE ~Resize(e)
        BY <1>1, <1>2, <3>3, <3>4, <4>2, RunningStep DEF Moving, LastInv
      <4> QED
        BY <4>1, <4>2
    <3>13. PropsInv'
      <4>1. SUFFICES ASSUME mode = "single", NEW f \in Flight', Resize(f), Newest(f)'
                     PROVE  f.size = props'[f.win]
        BY <1>1 DEF PropsInv
      <4>2. \A g \in Flight : Resize(g) /\ g.win = f.win => g.id <= f.id
        BY <3>3, <4>1 DEF Newest
      <4>3. CASE ~Resize(e)
        <5>1. f \in Flight /\ props' = props
          BY <1>5, <2>2, <3>3, <4>1, <4>3
        <5> QED
          BY <1>2, <4>1, <4>2, <5>1 DEF Moving, PropsInv, Newest
      <4>4. CASE Resize(e) /\ f = e
        BY <1>5, <2>2, <4>4
      <4>5. CASE Resize(e) /\ f # e
        <5>1. f \in Flight
          BY <3>3, <4>5
        <5>2. f.id <= resizes /\ f.id \in Nat
          BY <3>7, <3>8, <4>1, <5>1
        <5>3. f.win # found
          <6>1. f.win = e.win => e.id <= f.id
            BY <3>3, <4>1, <4>5 DEF Newest
          <6> QED
            BY <1>2, <2>2, <4>5, <5>2, <6>1
        <5>4. props'[f.win] = props[f.win]
          BY <1>5, <2>2, <3>7, <3>8, <4>1, <4>5, <5>1, <5>3
        <5> QED
          BY <1>2, <4>1, <4>2, <5>1, <5>4 DEF Moving, PropsInv, Newest
      <4> QED
        BY <4>3, <4>4, <4>5
    <3>14. PendingCoversList'
      BY <1>1, <1>2, RunningStep DEF Moving, PendingCoversList
    <3> QED
      BY <3>10, <3>11, <3>12, <3>13, <3>14 DEF Moving
  <2>3. /\ x.gen \in Nat /\ x.gen > 0 /\ InitSize \in Sizes /\ 0 \in Nat /\ resizes + 1 \in Nat
        /\ "resize" \in EventTypes
    BY <1>2, EventTypesOK, WindowsAssumption DEF EventTypes
  <2>4. ASSUME NEW t \in EventTypes \ {"resize"}, TranslatedProps(x, found) = props,
               T = <<[type |-> t, win |-> found, gen |-> x.gen, size |-> InitSize, id |-> 0]>>
        PROVE  Moving'
    <3> DEFINE e == [type |-> t, win |-> found, gen |-> x.gen, size |-> InitSize, id |-> 0]
    <3>1. e \in Event
      BY <1>2, <2>3, EventTypesOK
    <3>2. e.win = found /\ e.gen = x.gen /\ ~Resize(e) /\ T = <<e>>
      BY <2>4 DEF Resize
    <3> HIDE DEF e, T, x
    <3> QED
      BY <2>2, <2>4, <3>1, <3>2
  <2>5. ASSUME NEW s \in Sizes, found # NoWindow, s = TranslatedProps(x, found)[found],
               T = <<[type |-> "resize", win |-> found, gen |-> x.gen, size |-> s,
                      id |-> resizes + 1]>>,
               \A v \in Windows : v # found => TranslatedProps(x, found)[v] = props[v]
        PROVE  Moving'
    <3> DEFINE e == [type |-> "resize", win |-> found, gen |-> x.gen, size |-> s, id |-> resizes + 1]
    <3>1. e \in Event
      BY <1>2, <2>3, EventTypesOK
    <3>2. /\ e.win = found /\ e.gen = x.gen /\ Resize(e) /\ T = <<e>>
          /\ e.id = resizes + 1 /\ e.size = s
      BY <2>5 DEF Resize
    <3> HIDE DEF e, T, x
    <3> QED
      BY <2>2, <2>5, <3>1, <3>2
  <2> QED
    BY <1>2, <2>1, <2>4, <2>5, TranslatedFacts
<1>6. \/ UNCHANGED <<vec, resizes, props>>
      \/ /\ found = NoWindow \/ found \in widgets
         /\ vec' = vec \o T /\ resizes' = resizes + CountOf("resize", T)
         /\ props' = TranslatedProps(x, found)
  BY DEF PollTranslate
<1> QED
  BY <1>4, <1>5, <1>6

(* What is known of the events before a step.                              *)
LEMMA Known ==
  ASSUME IInv
  PROVE  /\ TypeOK /\ Control /\ GenInv /\ FoundInv /\ BatchInv /\ Moving
         /\ list \in Seq(Event) /\ vec \in Seq(Event) /\ ev \in Event
         /\ Range(list) \subseteq Event /\ Range(vec) \subseteq Event
         /\ \A e \in Event : /\ e.id \in Nat /\ e.type \in EventTypes
                             /\ e.win \in Windows \cup {NoWindow}
         /\ \A f \in Flight : f \in Event /\ f.id \in Nat /\ f.win \in Windows \cup {NoWindow}
         /\ resized \in Nat /\ resizes \in Nat /\ pending \in [EventTypes -> Int]
         /\ mode \in {"single", "threads"} /\ gen \in [Windows -> Nat]
<1>1. TypeOK
  BY DEF IInv
<1> QED
  BY <1>1, FlightTyped, RangeFacts, EventTypesOK, KindsAssumption DEF IInv, TypeOK

(* The poller's events go behind those of the list.                        *)
LEMMA PushMoves ==
  ASSUME IInv, PollPush, [Next]_vars
  PROVE  Moving'
<1>1. /\ UNCHANGED <<mode, gen, widgets, apc, victim, resizes, resized, props, ev>>
      /\ list' = list \o vec /\ vec' = <<>> /\ Push(vec)
      /\ dpc' \in {dpc, Wake}
  BY DEF PollPush, Push, progVars, histVars
<1>2. Hand' = Hand
  BY <1>1 DEF Hand, Wake
<1>3. Range(list') = Range(list) \cup Range(vec) /\ Range(vec') = {}
  <2>1. Range(<<>>) = {}
    BY DEF Range
  <2>2. Range(list \o vec) = Range(list) \cup Range(vec)
    BY Known, RangeFacts
  <2> QED
    BY <1>1, <2>1, <2>2
<1>4. Queued' = Queued /\ Flight' = Flight
  BY <1>2, <1>3 DEF Queued, Flight
<1>5. FlightInv'
  BY <1>1, <1>4, Known DEF Moving, FlightInv
<1>6. IdInv'
  <2>1. OrderedIds(list')
    BY <1>1, Known, OrderedConcat DEF Moving, IdInv
  <2>2. OrderedIds(vec') /\ Older(Range(list'), Range(vec'))
    BY <1>1, <1>3, OrderedShort DEF Older
  <2> QED
    BY <1>1, <1>2, <1>4, <2>1, <2>2, Known DEF Moving, IdInv
<1>7. LastInv'
  BY <1>1, <1>4, Known, RunningStep DEF Moving, LastInv
<1>8. PropsInv'
  BY <1>1, <1>4, Known DEF Moving, PropsInv, Newest
<1>9. PendingCoversList'
  <2>1. \A t \in EventTypes : /\ CountOf(t, list') = CountOf(t, list) + CountOf(t, vec)
                              /\ CountOf(t, list) \in Nat /\ CountOf(t, vec) \in Nat
    BY <1>1, Known, CountConcat, CountIsNatural
  <2>2. \A t \in EventTypes : pending'[t] = pending[t] + CountOf(t, vec) /\ pending[t] \in Int
    BY <1>1, Known DEF Push
  <2> QED
    BY <1>1, <2>1, <2>2, Known, RunningStep DEF Moving, PendingCoversList
<1> QED
  BY <1>5, <1>6, <1>7, <1>8, <1>9 DEF Moving

(* Closing ends everything: the list is destroyed with its dispatcher.     *)
LEMMA EndMoves ==
  ASSUME IInv, PollJoin \/ AppClose, [Next]_vars
  PROVE  Moving'
<1>1. /\ UNCHANGED <<mode, gen, widgets, victim, resizes, resized, props, vec, pending, Hand>>
      /\ list' = list \/ list' = <<>>
  BY DEF PollJoin, AppClose, progVars, histVars, pollVars, dispVars, Hand
<1>2. apc' # "run" /\ apc # "destroy"
  BY DEF PollJoin, AppClose, progVars, IInv, Control, ThreadsInv
<1>3. Range(list') \subseteq Range(list) /\ OrderedIds(list')
  <2>1. OrderedIds(list) /\ Range(<<>>) = {}
    BY Known DEF Moving, IdInv, Range
  <2> QED
    BY <1>1, <2>1, OrderedShort
<1>4. Queued' \subseteq Queued /\ Flight' \subseteq Flight
  BY <1>1, <1>3 DEF Queued, Flight
<1>5. FlightInv'
  BY <1>1, <1>2, <1>4, Known DEF Moving, FlightInv
<1>6. IdInv'
  BY <1>1, <1>3, <1>4, Known DEF Moving, IdInv, Older
<1>7. LastInv'
  BY <1>2 DEF LastInv
<1>8. PropsInv'
  <2>1. CASE list' = list
    <3>1. Queued' = Queued /\ Flight' = Flight
      BY <1>1, <2>1 DEF Queued, Flight
    <3> QED
      BY <1>1, <3>1, Known DEF Moving, PropsInv, Newest
  <2>2. CASE list' = <<>>
    <3>1. mode = "single" => Hand = {} /\ vec = <<>>
      BY DEF PollJoin, AppClose, ProgramTurn, DispatcherRests, PollerRests, IInv,
             Control, ThreadsInv, TurnsInv, Hand
    <3>2. mode = "single" => Flight' = {}
      BY <1>1, <2>2, <3>1 DEF Flight, Queued, Range
    <3> QED
      BY <1>1, <3>2 DEF PropsInv
  <2> QED
    BY <1>1, <2>1, <2>2
<1>9. PendingCoversList'
  <2>1. \A t \in EventTypes : CountOf(t, list') <= pending[t]
    <3>1. \A t \in EventTypes : /\ CountOf(t, list) <= pending[t] /\ CountOf(t, list) \in Nat
                                /\ CountOf(t, <<>>) = 0 /\ pending[t] \in Int
      BY Known, CountIsNatural, CountNone DEF Moving, PendingCoversList
    <3> QED
      BY <1>1, <3>1
  <2> QED
    BY <1>1, <1>2, <2>1 DEF PendingCoversList
<1> QED
  BY <1>5, <1>6, <1>7, <1>8, <1>9 DEF Moving

(* The front of the list comes into the dispatcher's hand.                 *)
LEMMA FrontMoves ==
  ASSUME IInv, DispFront, [Next]_vars
  PROVE  Moving'
<1>1. /\ UNCHANGED <<mode, gen, widgets, apc, victim, resizes, resized, props, vec>>
      /\ dpc = "front"
  BY DEF DispFront, progVars, histVars, pollVars
<1>2. CASE list = <<>>
  <2>1. UNCHANGED <<list, pending, ev, dpc>>
    BY <1>2 DEF DispFront
  <2>2. Still
    BY <1>1, <2>1 DEF Still, Hand
  <2> QED
    BY <1>1, <2>2, Known, StillStep
<1>3. CASE list # <<>>
  <2> DEFINE e == Head(list)
  <2>1. /\ list' = Tail(list) /\ ev' = e /\ dpc' = "lock"
        /\ pending' = [pending EXCEPT ![e.type] = @ - 1]
    BY <1>3 DEF DispFront
  <2>2. e \in Event /\ Range(list) = {e} \cup Range(list')
    BY <1>3, <2>1, Known, RangeFacts
  <2>3. Hand = {} /\ Hand' = {e}
    BY <1>1, <2>1 DEF Hand
  <2>4. Flight' = Flight /\ Queued' \subseteq Queued
    BY <1>1, <2>2, <2>3 DEF Flight, Queued
  <2>5. FlightInv'
    BY <1>1, <2>4, Known DEF Moving, FlightInv
  <2>6. IdInv'
    <3>1. OrderedIds(list') /\ Older({e}, Range(list'))
      BY <1>3, <2>1, Known, OrderedTail DEF Moving, IdInv
    <3>2. Older(Range(list), Range(vec)) /\ OrderedIds(vec)
      BY Known DEF Moving, IdInv
    <3>3. Older(Hand', Queued')
      BY <1>1, <2>2, <2>3, <3>1, <3>2 DEF Older, Queued
    <3>4. Older(Range(list'), Range(vec'))
      BY <1>1, <2>2, <3>2 DEF Older
    <3> QED
      BY <1>1, <2>4, <3>1, <3>2, <3>3, <3>4, Known DEF Moving, IdInv
  <2>7. LastInv'
    BY <1>1, <2>4, Known, RunningStep DEF Moving, LastInv
  <2>8. PropsInv'
    BY <1>1, <2>4, Known DEF Moving, PropsInv, Newest
  <2>9. PendingCoversList'
    <3>1. \A t \in EventTypes :
            /\ CountOf(t, list) = CountOf(t, list') + (IF e.type = t THEN 1 ELSE 0)
            /\ CountOf(t, list') \in Nat /\ CountOf(t, list) \in Nat
      <4>1. list' \in Seq(Event)
        BY <1>3, <2>1, Known
      <4> QED
        BY <1>3, <2>1, <4>1, Known, CountTail, CountIsNatural
    <3>2. e.type \in EventTypes
      BY <2>2, Known
    <3> HIDE DEF e
    <3>3. \A t \in EventTypes :
            pending'[t] = pending[t] - (IF e.type = t THEN 1 ELSE 0) /\ pending[t] \in Int
      BY <2>1, <3>2, Known
    <3>4. \A t \in EventTypes :
            /\ pending[t] >= CountOf(t, list)
            /\ ~Removed /\ apc = "run" => pending[t] = CountOf(t, list)
      BY Known DEF Moving, PendingCoversList
    <3>5. ~Removed' /\ apc' = "run" => ~Removed /\ apc = "run"
      BY Known, RunningStep
    <3>6. ASSUME NEW t \in EventTypes
          PROVE  /\ pending'[t] >= CountOf(t, list')
                 /\ pending[t] = CountOf(t, list) => pending'[t] = CountOf(t, list')
      BY <3>1, <3>3, <3>4
    <3> QED
      BY <3>4, <3>5, <3>6 DEF PendingCoversList
  <2> QED
    BY <2>5, <2>6, <2>7, <2>8, <2>9 DEF Moving
<1> QED
  BY <1>2, <1>3

(* An event whose window left the list is dropped.                         *)
LEMMA LockMoves ==
  ASSUME IInv, DispLock, [Next]_vars
  PROVE  Moving'
<1>1. /\ UNCHANGED <<mode, gen, widgets, apc, victim, resizes, resized, props, vec, list, pending>>
      /\ dpc = "lock"
  BY DEF DispLock, progVars, histVars, pollVars
<1>2. CASE ev.win \in widgets
  <2>1. UNCHANGED ev /\ dpc' = "handle"
    BY <1>2 DEF DispLock
  <2>2. Still
    BY <1>1, <2>1 DEF Still, Hand
  <2> QED
    BY <1>1, <2>2, Known, StillStep
<1>3. CASE ev.win \notin widgets
  <2>1. dpc' = "front"
    BY <1>3 DEF DispLock
  <2>2. Hand = {ev} /\ Hand' = {} /\ Queued' = Queued /\ Flight' = Queued /\ Flight = {ev} \cup Queued
    BY <1>1, <2>1 DEF Hand, Flight, Queued
  <2>3. FlightInv'
    BY <1>1, <2>2, Known DEF Moving, FlightInv
  <2>4. IdInv'
    BY <1>1, <2>2, Known DEF Moving, IdInv, Older
  <2>5. LastInv'
    <3>1. Resize(ev) => Removed
      <4>1. Resize(ev) => ev.win \in Windows /\ gen[ev.win] >= 1 /\ gen[ev.win] \in Nat
        BY <2>2, Known DEF Moving, FlightInv
      <4> QED
        BY <1>3, <4>1 DEF Removed
    <3> QED
      BY <1>1, <2>2, <3>1, Known, RunningStep DEF Moving, LastInv
  <2>6. PropsInv'
    <3>1. SUFFICES ASSUME mode = "single", NEW f \in Queued, Resize(f), Newest(f)'
                   PROVE  f.size = props[f.win]
      BY <1>1, <2>2 DEF PropsInv
    <3>2. Resize(ev) => ev.id < f.id
      BY <2>2, <3>1, Known DEF Moving, IdInv, Older
    <3>3. Newest(f)
      BY <2>2, <3>1, <3>2, Known DEF Newest
    <3> QED
      BY <2>2, <3>1, <3>3, Known DEF Moving, PropsInv
  <2>7. PendingCoversList'
    BY <1>1, Known, RunningStep DEF Moving, PendingCoversList
  <2> QED
    BY <2>3, <2>4, <2>5, <2>6, <2>7 DEF Moving
<1> QED
  BY <1>2, <1>3

(* Pushing one event that is not a resize.                                 *)
LEMMA PushOne ==
  ASSUME IInv, NEW e \in Event, ~Resize(e), Push(<<e>>)
  PROVE  /\ Range(list') = Range(list) \cup {e} /\ OrderedIds(list')
         /\ \A t \in EventTypes :
              /\ pending'[t] >= CountOf(t, list')
              /\ pending[t] = CountOf(t, list) => pending'[t] = CountOf(t, list')
         /\ pending'["resize"] = pending["resize"]
<1> DEFINE u == <<e>>
<1>1. u \in Seq(Event) /\ Range(u) = {e} /\ OrderedIds(u) /\ Older(Range(list), Range(u))
  BY OrderedShort DEF Range, Older
<1>2. \A t \in EventTypes : CountOf(t, u) = IF e.type = t THEN 1 ELSE 0
  BY CountOne
<1>3. /\ list' = list \o u
      /\ \A t \in EventTypes : pending'[t] = pending[t] + CountOf(t, u)
  BY DEF Push
<1> HIDE DEF u
<1>4. Range(list') = Range(list) \cup {e}
  BY <1>1, <1>3, Known, RangeFacts
<1>5. OrderedIds(list')
  BY <1>1, <1>3, Known, OrderedConcat DEF Moving, IdInv
<1>6. \A t \in EventTypes : pending[t] >= CountOf(t, list) /\ pending[t] \in Int
  BY Known DEF Moving, PendingCoversList
<1>7. \A t \in EventTypes : /\ CountOf(t, list') = CountOf(t, list) + CountOf(t, u)
                            /\ CountOf(t, list) \in Nat /\ CountOf(t, u) \in Nat
  BY <1>1, <1>3, Known, CountConcat, CountIsNatural
<1>8. "resize" \in EventTypes /\ e.type # "resize"
  BY DEF EventTypes, Resize
<1>9. ASSUME NEW t \in EventTypes
      PROVE  /\ pending'[t] >= CountOf(t, list')
             /\ pending[t] = CountOf(t, list) => pending'[t] = CountOf(t, list')
  BY <1>3, <1>6, <1>7
<1>10. pending'["resize"] = pending["resize"]
  BY <1>2, <1>3, <1>6, <1>8
<1> QED
  BY <1>4, <1>5, <1>9, <1>10

(* The callback: a resize that is not the last one waiting is ignored.     *)
LEMMA HandleMoves ==
  ASSUME IInv, DispHandle, [Next]_vars
  PROVE  Moving'
<1> DEFINE d == [NoEvent EXCEPT !.type = "draw", !.win = ev.win, !.gen = gen[ev.win]]
<1>1. /\ UNCHANGED <<mode, gen, widgets, apc, victim, resizes, vec>>
      /\ dpc = "handle" /\ dpc' = "front"
  BY DEF DispHandle, progVars, pollVars
<1>2. Hand = {ev} /\ Hand' = {} /\ Flight = {ev} \cup Queued
  BY <1>1 DEF Hand, Flight
<1>3. ev.win \in widgets /\ ev.win \in Windows /\ ev \in Event
  BY <1>1, Known DEF Control, CallbackOnLiveWindow, TypeOK
<1>4. d \in Event /\ ~Resize(d) /\ d.win = ev.win /\ d.gen = gen[ev.win]
  BY <1>3, Known, WindowsAssumption DEF NoEvent, Event, EventTypes, Resize
<1>5. UNCHANGED <<list, pending>> \/ Push(<<d>>)
  BY DEF DispHandle
<1> HIDE DEF d
<1>6. /\ Range(list) \subseteq Range(list') /\ Range(list') \subseteq Range(list) \cup {d}
      /\ OrderedIds(list')
      /\ \A t \in EventTypes :
           /\ pending'[t] >= CountOf(t, list')
           /\ pending[t] = CountOf(t, list) => pending'[t] = CountOf(t, list')
  <2>1. CASE UNCHANGED <<list, pending>>
    <3>1. OrderedIds(list) /\ \A t \in EventTypes : pending[t] >= CountOf(t, list)
      BY Known DEF Moving, IdInv, PendingCoversList
    <3> QED
      BY <2>1, <3>1
  <2>2. CASE Push(<<d>>)
    <3>1. Range(list') = Range(list) \cup {d}
      BY <1>4, <2>2, PushOne
    <3> QED
      BY <1>4, <2>2, <3>1, PushOne
  <2> QED
    BY <1>5, <2>1, <2>2
<1>7. Flight' = Queued' /\ Queued \subseteq Queued' /\ Queued' \subseteq Queued \cup {d}
  BY <1>1, <1>2, <1>6 DEF Flight, Queued
<1>8. \/ ~Resize(ev) /\ UNCHANGED <<props, resized>>
      \/ Resize(ev) /\ pending["resize"] # 0 /\ UNCHANGED <<props, resized>>
      \/ /\ Resize(ev) /\ pending["resize"] = 0 /\ resized' = ev.id
         /\ props' = [props EXCEPT ![ev.win] = ev.size]
  BY DEF DispHandle, Ignored, Resize
<1>9. /\ \A f \in Queued : Resize(f) /\ Resize(ev) => ev.id < f.id
      /\ \A f \in Flight : Resize(f) => resized < f.id /\ f.id <= resizes
      /\ resized <= resizes /\ ev.id \in Nat
      /\ \A f \in Queued : f.id \in Nat /\ f \in Flight
  BY <1>2, <1>3, Known DEF Moving, IdInv, Older
<1>10. Resize(ev) => resized < ev.id /\ ev.id <= resizes
  BY <1>2, <1>9
<1>11. pending["resize"] = 0 => \A f \in Range(list) : ~Resize(f)
  <2>1. CountOf("resize", list) \in Nat /\ CountOf("resize", list) <= pending["resize"]
        /\ pending["resize"] \in Int
    BY Known, CountIsNatural DEF Moving, PendingCoversList, EventTypes
  <2>2. CountOf("resize", list) = 0 => \A f \in Range(list) : ~Resize(f)
    BY Known, CountIsNatural DEF Resize
  <2> QED
    BY <2>1, <2>2
<1>12. FlightInv'
  <2>1. \A e \in Flight' : Resize(e) => e \in Flight
    BY <1>2, <1>4, <1>7
  <2>2. \A e \in Flight' : e \in Flight \/ (e.win = ev.win /\ e.gen = gen[ev.win])
    BY <1>2, <1>4, <1>7
  <2> QED
    BY <1>1, <1>3, <2>1, <2>2, Known DEF Moving, FlightInv
<1>13. IdInv'
  <2>1. Older(Range(list'), Range(vec')) /\ Older(Hand', Queued') /\ OrderedIds(vec')
    BY <1>1, <1>2, <1>4, <1>6, Known DEF Moving, IdInv, Older
  <2>2. \A f \in Flight' : Resize(f) => resized' < f.id /\ f.id <= resizes'
    BY <1>1, <1>4, <1>7, <1>8, <1>9
  <2>3. resized' <= resizes'
    BY <1>1, <1>8, <1>9, <1>10, Known
  <2> QED
    BY <1>6, <2>1, <2>2, <2>3 DEF IdInv
<1>14. LastInv'
  <2>1. SUFFICES ASSUME ~Removed, apc = "run"
                 PROVE  resized' = resizes \/ \E e \in Queued : Resize(e) /\ e.id = resizes
    <3>1. \A e \in Queued : e \in Flight'
      BY <1>7
    <3> QED
      BY <1>1, <2>1, <3>1, Known, RunningStep DEF LastInv
  <2>2. resized = resizes \/ (Resize(ev) /\ ev.id = resizes)
        \/ \E e \in Queued : Resize(e) /\ e.id = resizes
    BY <1>2, <2>1, Known DEF Moving, LastInv
  <2>3. CASE UNCHANGED resized /\ ~Resize(ev)
    BY <2>2, <2>3
  <2>4. CASE Resize(ev) /\ pending["resize"] = 0 /\ resized' = ev.id
    <3>1. resized < ev.id /\ ev.id <= resizes
      BY <1>10, <2>4
    <3> QED
      BY <2>2, <2>4, <3>1, Known
  <2>5. CASE Resize(ev) /\ pending["resize"] # 0
    <3>1. CountOf("resize", list) # 0
      BY <2>1, <2>5, Known DEF Moving, PendingCoversList, EventTypes
    <3>2. PICK f \in Range(list) : Resize(f)
      BY <3>1, Known, CountIsNatural DEF Resize
    <3>3. f \in Queued
      BY <3>2 DEF Queued
    <3>4. ev.id < f.id /\ f.id <= resizes /\ f.id \in Nat /\ resized < ev.id
      BY <1>9, <1>10, <2>5, <3>2, <3>3
    <3> QED
      BY <1>9, <2>2, <3>4, Known
  <2> QED
    BY <1>8, <2>3, <2>4, <2>5
<1>15. PropsInv'
  <2>1. SUFFICES ASSUME mode = "single", NEW f \in Queued, Resize(f), Newest(f)'
                 PROVE  f.size = props'[f.win]
    BY <1>1, <1>4, <1>7 DEF PropsInv
  <2>2. f \in Range(list)
    <3>1. vec = <<>>
      BY <1>1, <2>1, Known DEF Control, TurnsInv
    <3> QED
      BY <2>1, <3>1 DEF Queued, Range
  <2>3. props' = props
    BY <1>8, <1>11, <2>1, <2>2
  <2>4. Newest(f)
    BY <1>2, <1>7, <1>9, <2>1 DEF Newest
  <2> QED
    BY <1>9, <2>1, <2>3, <2>4, Known DEF Moving, PropsInv
<1>16. PendingCoversList'
  BY <1>1, <1>6, Known, RunningStep DEF Moving, PendingCoversList
<1> QED
  BY <1>12, <1>13, <1>14, <1>15, <1>16 DEF Moving

(* A new window: with one thread nothing is on its way to its address.     *)
LEMMA CreateMoves ==
  ASSUME IInv, NEW w \in Windows, AppCreate(w), [Next]_vars
  PROVE  Moving'
<1> DEFINE c == [NoEvent EXCEPT !.type = "create", !.win = w, !.gen = gen[w] + 1]
<1>1. /\ UNCHANGED <<mode, apc, victim, resizes, resized, vec, ev>>
      /\ apc = "run" /\ w \notin widgets /\ widgets' = widgets \cup {w}
      /\ dpc' = dpc \/ dpc' = Wake
  BY DEF AppCreate, pollVars, histVars
<1>2. /\ \A v \in Windows : v # w => gen'[v] = gen[v] /\ props'[v] = props[v]
      /\ gen'[w] = gen[w] + 1 /\ gen[w] \in Nat
  BY Known DEF AppCreate, TypeOK
<1>3. Hand' = Hand
  BY <1>1 DEF Hand, Wake
<1>4. c \in Event /\ ~Resize(c) /\ c.win = w /\ c.gen = gen[w] + 1
  <2>1. gen[w] + 1 \in Nat
    BY <1>2
  <2>2. c \in Event
    BY <2>1, WindowsAssumption DEF NoEvent, Event, EventTypes
  <2>3. c.type = "create" /\ c.win = w /\ c.gen = gen[w] + 1
    BY DEF NoEvent
  <2> QED
    BY <2>2, <2>3 DEF Resize
<1>5. UNCHANGED <<list, pending>> \/ Push(<<c>>)
  BY DEF AppCreate, CreateEvent
<1> HIDE DEF c
<1>6. /\ Range(list) \subseteq Range(list') /\ Range(list') \subseteq Range(list) \cup {c}
      /\ OrderedIds(list')
      /\ \A t \in EventTypes :
           /\ pending'[t] >= CountOf(t, list')
           /\ pending[t] = CountOf(t, list) => pending'[t] = CountOf(t, list')
  <2>1. CASE UNCHANGED <<list, pending>>
    <3>1. OrderedIds(list) /\ \A t \in EventTypes : pending[t] >= CountOf(t, list)
      BY Known DEF Moving, IdInv, PendingCoversList
    <3> QED
      BY <2>1, <3>1
  <2>2. CASE Push(<<c>>)
    <3>1. Range(list') = Range(list) \cup {c}
      BY <1>4, <2>2, PushOne
    <3> QED
      BY <1>4, <2>2, <3>1, PushOne
  <2> QED
    BY <1>5, <2>1, <2>2
<1>7. Flight \subseteq Flight' /\ Flight' \subseteq Flight \cup {c} /\ Queued' \subseteq Queued \cup {c}
  BY <1>1, <1>3, <1>6 DEF Flight, Queued
<1>8. mode = "single" => \A e \in Flight : e.win # NoWindow =>
        e.win \in widgets /\ e.win # w /\ e.gen = gen[e.win] /\ gen'[e.win] = gen[e.win]
  BY <1>1, <1>2, Known DEF Moving, FlightInv
<1>9. FlightInv'
  <2>1. \A e \in Flight' : Resize(e) => e.win # NoWindow /\ gen'[e.win] >= 1
    <3>1. \A v \in Windows : gen[v] \in Nat /\ gen'[v] \in Nat /\ gen[v] <= gen'[v]
      BY Known, RemovedStays
    <3>2. ASSUME NEW e \in Flight', Resize(e) PROVE e.win # NoWindow /\ gen'[e.win] >= 1
      <4>1. e \in Flight
        BY <1>4, <1>7, <3>2
      <4>2. e.win # NoWindow /\ gen[e.win] >= 1 /\ e.win \in Windows
        BY <3>2, <4>1, Known DEF Moving, FlightInv
      <4> QED
        BY <3>1, <4>2
    <3> QED
      BY <3>2
  <2> QED
    BY <1>1, <1>2, <1>4, <1>7, <1>8, <2>1 DEF FlightInv
<1>10. IdInv'
  <2>1. Older(Range(list'), Range(vec')) /\ Older(Hand', Queued') /\ OrderedIds(vec')
    BY <1>1, <1>3, <1>4, <1>6, <1>7, Known DEF Moving, IdInv, Older
  <2>2. \A f \in Flight' : Resize(f) => resized' < f.id /\ f.id <= resizes'
    BY <1>1, <1>4, <1>7, Known DEF Moving, IdInv
  <2> QED
    BY <1>1, <1>6, <2>1, <2>2, Known DEF Moving, IdInv
<1>11. LastInv'
  BY <1>1, <1>7, Known, RunningStep DEF Moving, LastInv
<1>12. PropsInv'
  <2>1. SUFFICES ASSUME mode = "single", NEW f \in Flight', Resize(f), Newest(f)'
                 PROVE  f.size = props'[f.win]
    BY <1>1 DEF PropsInv
  <2>2. f \in Flight
    BY <1>4, <1>7, <2>1
  <2>3. f.win \in Windows /\ f.win # w
    BY <1>8, <2>1, <2>2, Known DEF Moving, FlightInv
  <2>4. Newest(f)
    BY <1>7, <2>1 DEF Newest
  <2> QED
    BY <1>2, <2>1, <2>2, <2>3, <2>4, Known DEF Moving, PropsInv
<1>13. PendingCoversList'
  BY <1>1, <1>6, Known, RunningStep DEF Moving, PendingCoversList
<1> QED
  BY <1>9, <1>10, <1>11, <1>12, <1>13 DEF Moving

(* A window leaves the list; its events are still on their way.            *)
LEMMA DestroyMoves ==
  ASSUME IInv, NEW w \in Windows, AppDestroy(w), [Next]_vars
  PROVE  Moving'
<1>1. /\ UNCHANGED <<mode, gen, resizes, resized, props, vec, list, pending, Hand>>
      /\ apc = "run" /\ apc' = "destroy" /\ widgets' = widgets \ {w} /\ victim' = w
  BY DEF AppDestroy, pollVars, dispVars, histVars, Hand
<1>2. Queued' = Queued /\ Flight' = Flight
  BY <1>1 DEF Queued, Flight
<1>3. FlightInv'
  BY <1>1, <1>2, Known DEF Moving, FlightInv
<1>4. IdInv'
  BY <1>1, <1>2, Known DEF Moving, IdInv
<1>5. LastInv' /\ PropsInv'
  BY <1>1, <1>2, Known DEF Moving, LastInv, PropsInv, Newest
<1>6. PendingCoversList'
  BY <1>1, Known DEF Moving, PendingCoversList
<1> QED
  BY <1>3, <1>4, <1>5, <1>6 DEF Moving

(* Its events are removed, and only its events; the counters stay.         *)
LEMMA RemoveMoves ==
  ASSUME IInv, AppRemoveEvents, [Next]_vars
  PROVE  Moving'
<1>1. /\ UNCHANGED <<mode, gen, widgets, resizes, resized, props, vec, pending, Hand>>
      /\ apc = "destroy" /\ apc' = "run" /\ list' = Without(list, victim)
  BY DEF AppRemoveEvents, RemoveWidgetEvents, pollVars, dispVars, histVars, Hand
<1>2. /\ Range(list') = {e \in Range(list) : e.win # victim}
      /\ \A t : CountOf(t, list') <= CountOf(t, list)
      /\ list' \in Seq(Event)
  BY <1>1, Known, WithoutFacts
<1>3. Queued' \subseteq Queued /\ Flight' \subseteq Flight
  BY <1>1, <1>2 DEF Queued, Flight
<1>4. Removed /\ Removed'
  BY <1>1, Known, RemovedStays DEF GenInv
<1>5. mode = "single" => Hand = {} /\ vec = <<>>
  BY <1>1, Known DEF Control, TurnsInv, Hand
<1>6. mode = "single" => Flight = Range(list) /\ Flight' = {e \in Flight : e.win # victim}
  BY <1>1, <1>2, <1>5 DEF Flight, Queued, Range
<1>7. FlightInv'
  BY <1>1, <1>3, <1>6, Known DEF Moving, FlightInv
<1>8. IdInv'
  <2>1. OrderedIds(list')
    BY <1>1, Known, OrderedWithout DEF Moving, IdInv
  <2>2. Range(list') \subseteq Range(list)
    BY <1>2
  <2> QED
    BY <1>1, <1>3, <2>1, <2>2, Known DEF Moving, IdInv, Older
<1>9. LastInv'
  BY <1>4 DEF LastInv
<1>10. PropsInv'
  <2>1. SUFFICES ASSUME mode = "single", NEW f \in Flight', Resize(f), Newest(f)'
                 PROVE  f.size = props[f.win]
    BY <1>1 DEF PropsInv
  <2>2. f \in Flight /\ f.win # victim
    BY <1>6, <2>1
  <2>3. Newest(f)
    BY <1>6, <2>1, <2>2 DEF Newest
  <2> QED
    BY <2>1, <2>2, <2>3, Known DEF Moving, PropsInv
<1>11. PendingCoversList'
  <2>1. \A t \in EventTypes : /\ CountOf(t, list') \in Nat /\ CountOf(t, list) \in Nat
                              /\ pending[t] \in Int /\ pending[t] >= CountOf(t, list)
    BY <1>2, Known, CountIsNatural DEF Moving, PendingCoversList
  <2>2. \A t \in EventTypes : pending'[t] >= CountOf(t, list')
    BY <1>1, <1>2, <2>1
  <2> QED
    BY <1>4, <2>2 DEF PendingCoversList
<1> QED
  BY <1>7, <1>8, <1>9, <1>10, <1>11 DEF Moving

(***************************************************************************)
(* The X server's queue.                                                   *)
(***************************************************************************)

LEMMA XsTyped ==
  ASSUME TypeOK
  PROVE  Xs \in Seq(XEvent) /\ xevs \in Seq(XEvent) /\ xqueue \in Seq(XEvent)
         /\ \A i \in DOMAIN Xs : Xs[i] \in XEvent
  BY DEF TypeOK, Xs

(* A step that moves no X event and changes no size.                       *)
LEMMA ServerFrame ==
  ASSUME ServerInv, UNCHANGED <<mode, Xs, gen, xsize, props>>, widgets' \subseteq widgets
  PROVE  ServerInv'
  BY DEF ServerInv, Current

LEMMA SendKeeps ==
  ASSUME IInv, ServerInv, XServer
  PROVE  ServerInv'
<1>1. PICK w \in Windows, k \in XKinds, s \in Sizes : XSend(w, k, s)
  BY DEF XServer
<1> DEFINE y == [kind |-> k, win |-> w, gen |-> gen[w], size |-> s]
<1>2. /\ UNCHANGED <<mode, gen, widgets, props, xevs>> /\ w \in widgets
      /\ xqueue' = Append(xqueue, y) /\ xsize' = [xsize EXCEPT ![w] = s]
      /\ k = "configure" \/ s = xsize[w]
  BY <1>1 DEF XSend, progVars, pollVars
<1>3. gen[w] \in Nat /\ gen[w] > 0 /\ widgets \subseteq Windows /\ xsize \in [Windows -> Sizes]
  BY <1>2, Known DEF GenInv, TypeOK
<1>4. /\ y \in XEvent /\ y.win = w /\ y.gen = gen[w] /\ y.size = s
      /\ y.kind = "configure" \/ s = xsize[w]
  BY <1>2, <1>3, EventTypesOK
<1> HIDE DEF y
<1>5. /\ DOMAIN Xs' = 1..(Len(Xs) + 1) /\ DOMAIN Xs = 1..Len(Xs) /\ Len(Xs) \in Nat
      /\ \A i \in DOMAIN Xs : Xs'[i] = Xs[i]
      /\ Xs'[Len(Xs) + 1] = y
  <2>1. Xs' = Append(Xs, y)
    BY <1>2, <1>4, Known, XsTyped DEF Xs
  <2> QED
    BY <1>4, <2>1, Known, XsTyped
<1>6. SUFFICES ASSUME mode = "single", NEW v \in widgets
      PROVE /\ \A i \in DOMAIN Xs' :
                 Current(Xs'[i], v) /\ (\A j \in DOMAIN Xs' : j > i => ~Current(Xs'[j], v))
                   => Xs'[i].size = xsize'[v]
            /\ (\A i \in DOMAIN Xs' : ~Current(Xs'[i], v)) => props[v] = xsize'[v]
  BY <1>2 DEF ServerInv, Current
<1>7. /\ xsize'[w] = s /\ (v # w => xsize'[v] = xsize[v])
      /\ v # w => ~Current(y, v)
      /\ ~Current(y, w) => s = xsize[w]
  BY <1>2, <1>3, <1>4 DEF Current
<1>8. ASSUME NEW i \in DOMAIN Xs', Current(Xs'[i], v),
             \A j \in DOMAIN Xs' : j > i => ~Current(Xs'[j], v)
      PROVE  Xs'[i].size = xsize'[v]
  <2>1. CASE i = Len(Xs) + 1
    BY <1>4, <1>5, <1>7, <1>8, <2>1
  <2>2. CASE i \in DOMAIN Xs
    <3>1. ~Current(y, v)
      <4>1. Len(Xs) + 1 \in DOMAIN Xs' /\ Len(Xs) + 1 > i
        BY <1>5, <2>2
      <4> QED
        BY <1>5, <1>8, <4>1
    <3>2. \A j \in DOMAIN Xs : j > i => ~Current(Xs[j], v)
      BY <1>5, <1>8
    <3>3. Xs[i].size = xsize[v]
      BY <1>5, <1>6, <1>8, <2>2, <3>2 DEF ServerInv
    <3> QED
      BY <1>5, <1>7, <2>2, <3>1, <3>3
  <2> QED
    BY <1>5, <2>1, <2>2
<1>9. ASSUME \A i \in DOMAIN Xs' : ~Current(Xs'[i], v)
      PROVE  props[v] = xsize'[v]
  <2>1. ~Current(y, v)
    BY <1>5, <1>9
  <2>2. \A i \in DOMAIN Xs : ~Current(Xs[i], v)
    BY <1>5, <1>9
  <2>3. props[v] = xsize[v]
    BY <1>6, <2>2 DEF ServerInv
  <2> QED
    BY <1>7, <2>1, <2>3
<1> QED
  BY <1>8, <1>9

(* ConfigureNotify's size goes into _properties as it leaves the queue.    *)
LEMMA TranslateKeeps ==
  ASSUME IInv, ServerInv, PollTranslate
  PROVE  ServerInv'
<1> DEFINE x == Head(xevs)
<1>1. /\ UNCHANGED <<mode, gen, widgets, xsize, xqueue>> /\ xevs' = Tail(xevs)
      /\ ppc = "translate" /\ xevs # <<>>
  BY Known DEF PollTranslate, progVars, FoundInv
<1>2. SUFFICES ASSUME mode = "single", NEW v \in widgets
      PROVE /\ \A i \in DOMAIN Xs' :
                 Current(Xs'[i], v) /\ (\A j \in DOMAIN Xs' : j > i => ~Current(Xs'[j], v))
                   => Xs'[i].size = xsize[v]
            /\ (\A i \in DOMAIN Xs' : ~Current(Xs'[i], v)) => props'[v] = xsize[v]
  BY <1>1 DEF ServerInv, Current
<1>3. /\ x \in XEvent /\ widgets \subseteq Windows /\ props \in [Windows -> Sizes]
      /\ x.win \in Windows /\ NoWindow \notin Windows
  BY <1>1, Known, EventTypesOK, WindowsAssumption DEF TypeOK
<1>4. found = IF x.win \in widgets /\ x.gen = gen[x.win] THEN x.win ELSE NoWindow
  BY <1>1, <1>2, Known DEF FoundInv
<1>5. props' = TranslatedProps(x, found)
  BY <1>3, <1>4 DEF PollTranslate
<1>6. /\ Current(x, v) => props'[v] = x.size
      /\ ~Current(x, v) => props'[v] = props[v]
  BY <1>3, <1>4, <1>5 DEF TranslatedProps, Current
<1>7. /\ DOMAIN Xs = 1..(Len(Xs') + 1) /\ DOMAIN Xs' = 1..Len(Xs') /\ Len(Xs') \in Nat
      /\ \A i \in DOMAIN Xs' : Xs'[i] = Xs[i + 1]
      /\ Xs[1] = x
  <2>1. Xs \in Seq(XEvent) /\ xevs \in Seq(XEvent) /\ xqueue \in Seq(XEvent)
    BY Known, XsTyped
  <2>2. Xs # <<>> /\ Head(Xs) = x /\ Xs' = Tail(Xs)
    BY <1>1, <2>1 DEF Xs
  <2> HIDE DEF x
  <2> QED
    BY <2>1, <2>2
<1> HIDE DEF x
<1>8. ASSUME NEW i \in DOMAIN Xs', Current(Xs'[i], v),
             \A j \in DOMAIN Xs' : j > i => ~Current(Xs'[j], v)
      PROVE  Xs'[i].size = xsize[v]
  <2>1. i + 1 \in DOMAIN Xs /\ Xs[i + 1] = Xs'[i]
    BY <1>7
  <2>2. ASSUME NEW j \in DOMAIN Xs, j > i + 1 PROVE ~Current(Xs[j], v)
    <3>1. j - 1 \in DOMAIN Xs' /\ j - 1 > i /\ Xs'[j - 1] = Xs[j]
      BY <1>7, <2>2
    <3> QED
      BY <1>8, <3>1
  <2> QED
    BY <1>2, <1>8, <2>1, <2>2 DEF ServerInv
<1>9. ASSUME \A i \in DOMAIN Xs' : ~Current(Xs'[i], v)
      PROVE  props'[v] = xsize[v]
  <2>1. ASSUME NEW j \in DOMAIN Xs, j > 1 PROVE ~Current(Xs[j], v)
    <3>1. j - 1 \in DOMAIN Xs' /\ Xs'[j - 1] = Xs[j]
      BY <1>7, <2>1
    <3> QED
      BY <1>9, <3>1
  <2>2. 1 \in DOMAIN Xs
    BY <1>7
  <2>3. CASE Current(x, v)
    BY <1>2, <1>6, <1>7, <2>1, <2>2, <2>3 DEF ServerInv
  <2>4. CASE ~Current(x, v)
    <3>1. ASSUME NEW j \in DOMAIN Xs PROVE ~Current(Xs[j], v)
      BY <1>7, <2>1, <2>4
    <3> QED
      BY <1>2, <1>6, <2>4, <3>1 DEF ServerInv
  <2> QED
    BY <2>3, <2>4
<1> QED
  BY <1>8, <1>9

(* A callback writes into _properties what is there already.               *)
LEMMA HandleKeeps ==
  ASSUME IInv, ServerInv, DispHandle
  PROVE  ServerInv'
<1>1. UNCHANGED <<mode, gen, widgets, xsize, Xs>> /\ dpc = "handle"
  BY DEF DispHandle, progVars, pollVars, Xs
<1>2. CASE mode # "single"
  BY <1>1, <1>2 DEF ServerInv
<1>3. CASE mode = "single" /\ UNCHANGED props
  BY <1>1, <1>3, ServerFrame
<1>4. CASE /\ mode = "single" /\ ev.type = "resize" /\ pending["resize"] = 0
           /\ props' = [props EXCEPT ![ev.win] = ev.size]
  <2>1. vec = <<>>
    BY <1>1, <1>4, Known DEF Control, TurnsInv
  <2>2. \A f \in Range(list) : ~Resize(f)
    <3>1. CountOf("resize", list) \in Nat /\ CountOf("resize", list) <= pending["resize"]
      BY Known, CountIsNatural DEF Moving, PendingCoversList, EventTypes
    <3>2. CountOf("resize", list) = 0
      BY <1>4, <3>1
    <3> QED
      BY <3>2, Known, CountIsNatural DEF Resize
  <2>3. Range(vec) = {} /\ Hand = {ev} /\ Resize(ev)
    BY <1>1, <1>4, <2>1 DEF Range, Hand, Resize
  <2>4. ev \in Flight /\ \A f \in Flight : Resize(f) => f = ev
    BY <2>2, <2>3 DEF Flight, Queued
  <2>5. Newest(ev)
    BY <2>4, Known DEF Newest
  <2>6. ev.size = props[ev.win]
    BY <1>4, <2>3, <2>4, <2>5, Known DEF Moving, PropsInv
  <2>7. props' = props
    BY <1>4, <2>6, Known DEF TypeOK
  <2> QED
    BY <1>1, <2>7, ServerFrame
<1> QED
  BY <1>2, <1>3, <1>4 DEF DispHandle, Ignored

(* No X event is of the drawable of a window that is made now.             *)
LEMMA CreateKeeps ==
  ASSUME IInv, ServerInv, NEW w \in Windows, AppCreate(w)
  PROVE  ServerInv'
<1>1. /\ UNCHANGED <<mode, Xs, xevs, xqueue>> /\ widgets' = widgets \cup {w} /\ w \notin widgets
      /\ gen' = [gen EXCEPT ![w] = @ + 1]
      /\ props' = [props EXCEPT ![w] = InitSize] /\ xsize' = [xsize EXCEPT ![w] = InitSize]
  BY DEF AppCreate, pollVars, Xs
<1>2. /\ gen \in [Windows -> Nat] /\ props \in [Windows -> Sizes] /\ xsize \in [Windows -> Sizes]
      /\ widgets \subseteq Windows
  BY Known DEF TypeOK
<1>3. \A i \in DOMAIN Xs : Xs[i] \in Range(xevs) \cup Range(xqueue)
  <2>1. Range(Xs) = Range(xevs) \cup Range(xqueue)
    BY Known, XsTyped, RangeFacts DEF Xs
  <2> QED
    BY <2>1 DEF Range
<1>4. \A i \in DOMAIN Xs : Xs[i].win = w => Xs[i].gen # gen'[w]
  <2>1. ASSUME NEW i \in DOMAIN Xs, Xs[i].win = w PROVE Xs[i].gen # gen'[w]
    <3>1. Xs[i] \in XEvent /\ Xs[i].gen <= gen[w]
      BY <1>3, <2>1, Known, XsTyped DEF GenInv
    <3>2. Xs[i].gen \in Nat /\ gen[w] \in Nat /\ gen'[w] = gen[w] + 1
      BY <1>1, <1>2, <3>1, EventTypesOK
    <3> QED
      BY <3>1, <3>2
  <2> QED
    BY <2>1
<1>5. props'[w] = InitSize /\ xsize'[w] = InitSize
  BY <1>1, <1>2
<1>6. \A v \in widgets : v # w /\ gen'[v] = gen[v] /\ props'[v] = props[v] /\ xsize'[v] = xsize[v]
  BY <1>1, <1>2
<1> QED
  BY <1>1, <1>4, <1>5, <1>6 DEF ServerInv, Current

(***************************************************************************)
(* The specification.                                                      *)
(***************************************************************************)

LEMMA MovingStep ==
  ASSUME IInv, [Next]_vars
  PROVE  Moving'
<1> USE DEF progVars, pollVars, dispVars, histVars
<1>1. CASE Still /\ UNCHANGED <<widgets, gen, victim>> /\ (apc' = apc \/ apc # "destroy")
  BY <1>1, Known, StillStep
<1>2. CASE UNCHANGED vars
  BY <1>1, <1>2 DEF vars, Still, Hand
<1>3. CASE XServer
  BY <1>1, <1>3 DEF XServer, XSend, Still, Hand
<1>4. CASE PollStart
  <2>1. dpc = "done"
    BY <1>4, Known DEF PollStart, Control, ThreadsInv
  <2> QED
    BY <1>1, <1>4, <2>1 DEF PollStart, Still, Hand
<1>5. CASE PollFetch \/ PollReturn \/ PollLookup
  BY <1>1, <1>5 DEF PollFetch, PollReturn, PollLookup, Still, Hand
<1>6. CASE PollStop
  BY <1>1, <1>6 DEF PollStop, Still, Hand, Wake
<1>7. CASE DispTop \/ DispWait \/ DispSpurious \/ DispCap
  BY <1>1, <1>7 DEF DispTop, DispWait, DispSpurious, DispCap, Still, Hand
<1>8. CASE DispSize \/ DispBatchEnd
  BY <1>1, <1>8 DEF DispSize, DispBatchEnd, Still, Hand, Rest
<1>9. CASE AppJoin
  BY <1>1, <1>9 DEF AppJoin, Still, Hand
<1> QED
  BY <1>2, <1>3, <1>4, <1>5, <1>6, <1>7, <1>8, <1>9, TranslateMoves, PushMoves, EndMoves,
     FrontMoves, LockMoves, HandleMoves, CreateMoves, DestroyMoves, RemoveMoves
     DEF Next, Poller, Dispatcher, Program

LEMMA ServerStep ==
  ASSUME IInv, ServerInv, [Next]_vars
  PROVE  ServerInv'
<1> USE DEF progVars, pollVars, dispVars
<1>1. CASE UNCHANGED <<mode, Xs, gen, xsize, props>> /\ widgets' \subseteq widgets
  BY <1>1, ServerFrame
<1>2. CASE UNCHANGED vars
  BY <1>1, <1>2 DEF vars, Xs
<1>3. CASE PollFetch
  <2>1. CASE mode = "single"
    <3>1. xevs = <<>> /\ xevs' = xqueue /\ xqueue' = <<>>
      BY <1>3, <2>1, Known DEF PollFetch, Control, TurnsInv
    <3>2. Xs' = Xs
      BY <3>1, Known, XsTyped DEF Xs
    <3> QED
      BY <1>1, <1>3, <3>2 DEF PollFetch
  <2>2. CASE mode # "single"
    BY <1>3, <2>2 DEF PollFetch, ServerInv
  <2> QED
    BY <2>1, <2>2
<1>4. CASE Poller /\ ~PollFetch /\ ~PollTranslate
  BY <1>1, <1>4 DEF Poller, PollStart, PollReturn, PollLookup, PollPush, PollStop,
              PollJoin, Xs
<1>5. CASE (Dispatcher \/ DispSpurious) /\ ~DispHandle
  BY <1>1, <1>5 DEF Dispatcher, DispTop, DispWait, DispSpurious, DispSize, DispCap,
              DispBatchEnd, DispFront, DispLock, Xs
<1>6. CASE AppRemoveEvents \/ AppClose \/ AppJoin \/ (\E w \in Windows : AppDestroy(w))
  BY <1>1, <1>6 DEF AppRemoveEvents, AppClose, AppJoin, AppDestroy, Xs
<1> QED
  BY <1>2, <1>3, <1>4, <1>5, <1>6, SendKeeps, TranslateKeeps, HandleKeeps, CreateKeeps
     DEF Next, Program

LEMMA InitHolds == Init => IInv /\ ServerInv
<1> SUFFICES ASSUME Init PROVE IInv /\ ServerInv
  OBVIOUS
<1>1. /\ widgets = {} /\ list = <<>> /\ vec = <<>> /\ xevs = <<>> /\ xqueue = <<>>
      /\ resizes = 0 /\ resized = 0 /\ fault = "none" /\ apc = "run"
      /\ pending = [t \in EventTypes |-> 0] /\ gen = [w \in Windows |-> 0]
      /\ ppc \in {"start", "idle"} /\ dpc \in {"done", "size"}
  BY DEF Init
<1>2. TypeOK /\ Control
  BY InitTypes
<1>3. Range(<<>>) = {}
  BY DEF Range
<1>4. Hand = {} /\ Queued = {} /\ Flight = {} /\ ~Removed
  BY <1>1, <1>3 DEF Hand, Queued, Flight, Removed
<1>5. GenInv /\ FoundInv /\ BatchInv /\ FaultsHaveACause
  BY <1>1, <1>3 DEF GenInv, FoundInv, BatchInv, FaultsHaveACause
<1>6. FlightInv /\ LastInv /\ PropsInv
  BY <1>1, <1>4 DEF FlightInv, LastInv, PropsInv
<1>7. IdInv
  BY <1>1, <1>3, <1>4, OrderedShort DEF IdInv, Older
<1>8. PendingCoversList
  BY <1>1, CountNone DEF PendingCoversList
<1>9. ServerInv
  BY <1>1 DEF ServerInv
<1> QED
  BY <1>2, <1>5, <1>6, <1>7, <1>8, <1>9 DEF IInv, Moving

LEMMA NextHolds == IInv /\ ServerInv /\ [Next]_vars => IInv' /\ ServerInv'
<1> SUFFICES ASSUME IInv, ServerInv, [Next]_vars
             PROVE  IInv' /\ ServerInv'
  OBVIOUS
<1>1. /\ TypeOK /\ Control /\ GenInv /\ FoundInv /\ BatchInv /\ FaultsHaveACause
      /\ \A w \in widgets : gen[w] >= 1
      /\ ppc = "translate" => xevs # <<>>
      /\ CallbackOnLiveWindow
  BY DEF IInv, GenInv, FoundInv, Control
<1>2. CASE UNCHANGED vars
  <2>1. TypeOK'
    BY <1>1, <1>2 DEF TypeOK, vars, progVars, pollVars, dispVars, histVars
  <2>2. Control'
    BY <1>1, <1>2 DEF Control, LockInv, CallbackOnLiveWindow, ThreadsInv, TurnsInv, vars,
                      progVars, pollVars, dispVars
  <2> QED
    BY <1>1, <2>1, <2>2, GenStep, FoundStep, BatchStep, FaultStep, MovingStep, ServerStep
       DEF IInv
<1>3. CASE Next
  <2>1. TypeOK'
    BY <1>1, <1>3, ServerTypes, PollerTypes, DispatcherTypes, ProgramTypes DEF Next
  <2>2. Control'
    BY <1>1, <1>3, ServerAndPollerControl, DispatcherControl, ProgramControl DEF Next
  <2> QED
    BY <1>1, <2>1, <2>2, GenStep, FoundStep, BatchStep, FaultStep, MovingStep, ServerStep
       DEF IInv
<1> QED
  BY <1>2, <1>3

(* The inductive invariant holds in every state of every behaviour.        *)
THEOREM InvariantHolds == Spec => [](IInv /\ ServerInv)
  BY InitHolds, NextHolds, PTL DEF Spec

(* Every variable keeps its type: the counters are integers, the queues    *)
(* hold events, and what get_window returns is a window or nothing.        *)
THEOREM TypeCorrect == Spec => []TypeOK
<1>1. IInv => TypeOK
  BY DEF IInv
<1> QED
  BY <1>1, InvariantHolds, PTL

(* A callback runs only on a window that is neither destroyed nor being    *)
(* destroyed, with any number of windows made and destroyed beside it, in  *)
(* either threading model.                                                 *)
THEOREM CallbacksOnLiveWindows == Spec => []CallbackOnLiveWindow
<1>1. IInv => CallbackOnLiveWindow
  BY DEF IInv, Control
<1> QED
  BY <1>1, InvariantHolds, PTL

(* The counters never fall below what the list holds, and are exact until  *)
(* a window is destroyed.                                                  *)
THEOREM CountersCoverTheList == Spec => []PendingCoversList
<1>1. IInv => PendingCoversList
  BY DEF IInv, Moving
<1> QED
  BY <1>1, InvariantHolds, PTL

(* With one thread a callback gets no event of an earlier window at the    *)
(* same address.                                                           *)
THEOREM CallbacksForTheirOwnWindow == Spec => []CallbackForItsOwnWindow
<1>1. IInv => CallbackForItsOwnWindow
  <2> SUFFICES ASSUME IInv, dpc = "handle", mode = "single"
               PROVE  ev.gen = gen[ev.win]
    BY DEF CallbackForItsOwnWindow
  <2>1. ev \in Flight /\ ev.win # NoWindow
    BY Known, WindowsAssumption DEF Flight, Hand, Control, CallbackOnLiveWindow, TypeOK
  <2> QED
    BY <2>1, Known DEF Moving, FlightInv
<1> QED
  BY <1>1, InvariantHolds, PTL

(* Until a window is destroyed the last resize pushed is the last one      *)
(* handled, whichever were ignored on the way.                             *)
THEOREM LastResizeReachesItsCallback == Spec => []LastResizeHandled
<1>1. IInv => LastResizeHandled
  <2> SUFFICES ASSUME IInv, ~Removed, apc = "run", CountOf("resize", list) = 0,
                      CountOf("resize", vec) = 0,
                      ~(dpc \in {"lock", "handle"} /\ ev.type = "resize")
               PROVE  resized = resizes
    BY DEF LastResizeHandled
  <2>1. \A e \in Queued : ~Resize(e)
    BY Known, CountIsNatural DEF Queued, Resize
  <2>2. \A e \in Hand : ~Resize(e)
    BY DEF Hand, Resize
  <2> QED
    BY <2>1, <2>2, Known DEF Moving, LastInv, Flight
<1> QED
  BY <1>1, InvariantHolds, PTL

(* With one thread, once nothing is on its way, every window knows its     *)
(* size in the server.                                                     *)
THEOREM WindowsKnowTheirSize == Spec => []WindowKnowsItsSize
<1>1. IInv /\ ServerInv => WindowKnowsItsSize
  <2> SUFFICES ASSUME IInv, ServerInv, mode = "single", PollerRests, xqueue = <<>>,
                      NEW w \in widgets
               PROVE  props[w] = xsize[w]
    BY DEF WindowKnowsItsSize
  <2>1. xevs = <<>>
    BY Known DEF PollerRests, Control, TurnsInv
  <2>2. Xs = <<>>
    BY <2>1 DEF Xs
  <2> QED
    BY <2>2 DEF ServerInv
<1> QED
  BY <1>1, InvariantHolds, PTL

(* Undefined behaviour has only the causes FaultsHaveACause names.         *)
THEOREM FaultsAreExplained == Spec => []FaultsHaveACause
<1>1. IInv => FaultsHaveACause
  BY DEF IInv
<1> QED
  BY <1>1, InvariantHolds, PTL

=============================================================================

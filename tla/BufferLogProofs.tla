--------------------------- MODULE BufferLogProofs ---------------------------
(***************************************************************************)
(* Proofs about the modification log, for any alphabet and any bounds.     *)
(***************************************************************************)
EXTENDS BufferLog, TLAPS

-----------------------------------------------------------------------------
(* Texts.                                                                  *)

LEMMA TextLemma ==
  /\ \A t \in Text : t \in Seq(Char) /\ Len(t) <= MaxText
  /\ \A t \in Seq(Char) : Len(t) <= MaxText => t \in Text
<1>1. ASSUME NEW t \in Text PROVE t \in Seq(Char) /\ Len(t) <= MaxText
  <2>1. PICK n \in 0..MaxText : t \in [1..n -> Char]
    BY DEF Text
  <2> QED
    BY <2>1, BoundsAssumption
<1>2. ASSUME NEW t \in Seq(Char), Len(t) <= MaxText PROVE t \in Text
  <2>1. t \in [1..Len(t) -> Char] /\ Len(t) \in 0..MaxText
    BY <1>2, BoundsAssumption
  <2> QED
    BY <2>1 DEF Text
<1> QED
  BY <1>1, <1>2

(* A part of a text, and two or three texts in a row, place by place.     *)
LEMMA SubSeqFacts ==
  ASSUME NEW t \in Seq(Char), NEW m \in Nat, NEW n \in Nat,
         1 <= m, m <= n + 1, n <= Len(t)
  PROVE  /\ SubSeq(t, m, n) \in Seq(Char)
         /\ Len(SubSeq(t, m, n)) = n - m + 1
         /\ \A i \in 1..(n - m + 1) : SubSeq(t, m, n)[i] = t[m + i - 1]
OBVIOUS

LEMMA JoinFacts ==
  ASSUME NEW l \in Seq(Char), NEW r \in Seq(Char)
  PROVE  /\ l \o r \in Seq(Char)
         /\ Len(l \o r) = Len(l) + Len(r)
         /\ \A i \in 1..(Len(l) + Len(r)) :
              (l \o r)[i] = IF i <= Len(l) THEN l[i] ELSE r[i - Len(l)]
OBVIOUS

LEMMA Join3 ==
  ASSUME NEW l \in Seq(Char), NEW d \in Seq(Char), NEW r \in Seq(Char)
  PROVE  /\ (l \o d) \o r \in Seq(Char)
         /\ Len((l \o d) \o r) = Len(l) + Len(d) + Len(r)
         /\ \A i \in 1..(Len(l) + Len(d) + Len(r)) :
              ((l \o d) \o r)[i] = IF i <= Len(l) THEN l[i]
                                   ELSE IF i <= Len(l) + Len(d) THEN d[i - Len(l)]
                                   ELSE r[i - (Len(l) + Len(d))]
<1>1. /\ l \o d \in Seq(Char) /\ Len(l \o d) = Len(l) + Len(d)
      /\ \A i \in 1..(Len(l) + Len(d)) :
              (l \o d)[i] = IF i <= Len(l) THEN l[i] ELSE d[i - Len(l)]
  BY JoinFacts
<1> QED
  BY <1>1, JoinFacts

(* What Splice makes of a text, place by place.                            *)
LEMMA SpliceLemma ==
  ASSUME NEW t \in Seq(Char), NEW d \in Seq(Char), NEW o \in 0..Len(t)
  PROVE  /\ Splice(t, o, d) \in Seq(Char)
         /\ Len(Splice(t, o, d)) = Len(t) + Len(d)
         /\ \A i \in 1..(Len(t) + Len(d)) :
              Splice(t, o, d)[i] = IF i <= o THEN t[i]
                                   ELSE IF i <= o + Len(d) THEN d[i - o]
                                   ELSE t[i - Len(d)]
<1>0. Len(t) \in Nat /\ Len(d) \in Nat /\ o \in Nat /\ o <= Len(t)
  OBVIOUS
<1>1. PICK l \in Seq(Char) :
        /\ l = SubSeq(t, 1, o) /\ Len(l) = o
        /\ \A i \in 1..o : l[i] = t[i]
  <2>1. /\ SubSeq(t, 1, o) \in Seq(Char) /\ Len(SubSeq(t, 1, o)) = o
        /\ \A i \in 1..o : SubSeq(t, 1, o)[i] = t[i]
    BY <1>0, SubSeqFacts
  <2> WITNESS SubSeq(t, 1, o) \in Seq(Char)
  <2> QED BY <2>1
<1>2. PICK r \in Seq(Char) :
        /\ r = SubSeq(t, o + 1, Len(t)) /\ Len(r) = Len(t) - o
        /\ \A i \in 1..(Len(t) - o) : r[i] = t[o + i]
  <2>1. /\ SubSeq(t, o + 1, Len(t)) \in Seq(Char)
        /\ Len(SubSeq(t, o + 1, Len(t))) = Len(t) - o
        /\ \A i \in 1..(Len(t) - o) : SubSeq(t, o + 1, Len(t))[i] = t[o + i]
    BY <1>0, SubSeqFacts
  <2> WITNESS SubSeq(t, o + 1, Len(t)) \in Seq(Char)
  <2> QED BY <2>1
<1>3. /\ Splice(t, o, d) = (l \o d) \o r
      /\ Splice(t, o, d) \in Seq(Char)
      /\ Len(Splice(t, o, d)) = o + Len(d) + (Len(t) - o)
      /\ \A i \in 1..(o + Len(d) + (Len(t) - o)) :
           Splice(t, o, d)[i] = IF i <= o THEN l[i]
                                ELSE IF i <= o + Len(d) THEN d[i - o]
                                ELSE r[i - (o + Len(d))]
  <2>1. Splice(t, o, d) = (l \o d) \o r
    BY <1>1, <1>2 DEF Splice
  <2>2. /\ (l \o d) \o r \in Seq(Char)
        /\ Len((l \o d) \o r) = Len(l) + Len(d) + Len(r)
        /\ \A i \in 1..(Len(l) + Len(d) + Len(r)) :
             ((l \o d) \o r)[i] = IF i <= Len(l) THEN l[i]
                                  ELSE IF i <= Len(l) + Len(d) THEN d[i - Len(l)]
                                  ELSE r[i - (Len(l) + Len(d))]
    BY Join3
  <2> QED
    BY <2>1, <2>2, <1>1, <1>2, Zenon
<1>4. o + Len(d) + (Len(t) - o) = Len(t) + Len(d)
  BY <1>0
<1>5. ASSUME NEW i \in 1..(Len(t) + Len(d))
      PROVE  Splice(t, o, d)[i] = IF i <= o THEN t[i]
                                  ELSE IF i <= o + Len(d) THEN d[i - o]
                                  ELSE t[i - Len(d)]
  <2>0. i \in Nat /\ i >= 1 /\ i <= Len(t) + Len(d)
    BY <1>0
  <2>1. CASE i <= o
    BY <2>0, <2>1, <1>0, <1>1, <1>3, <1>4
  <2>2. CASE i > o /\ i <= o + Len(d)
    <3>1. ~(i <= o)
      BY <2>0, <2>2, <1>0
    <3> QED BY <2>2, <3>1, <1>3, <1>4
  <2>3. CASE i > o + Len(d)
    <3>1. i - (o + Len(d)) \in 1..(Len(t) - o) /\ o + (i - (o + Len(d))) = i - Len(d)
      BY <2>0, <2>3, <1>0
    <3>2. ~(i <= o) /\ ~(i <= o + Len(d))
      BY <2>0, <2>3, <1>0
    <3> QED BY <3>1, <3>2, <1>2, <1>3, <1>4
  <2> QED BY <2>0, <2>1, <2>2, <2>3, <1>0
<1> QED
  BY <1>3, <1>4, <1>5

(* What Cut makes of a text, place by place.                               *)
LEMMA CutLemma ==
  ASSUME NEW t \in Seq(Char), NEW o \in Nat, NEW s \in Nat, o + s <= Len(t)
  PROVE  /\ Cut(t, o, s) \in Seq(Char)
         /\ Len(Cut(t, o, s)) = Len(t) - s
         /\ \A i \in 1..(Len(t) - s) :
              Cut(t, o, s)[i] = IF i <= o THEN t[i] ELSE t[i + s]
<1>0. Len(t) \in Nat /\ o <= Len(t)
  OBVIOUS
<1>1. PICK l \in Seq(Char) :
        /\ l = SubSeq(t, 1, o) /\ Len(l) = o
        /\ \A i \in 1..o : l[i] = t[i]
  <2>1. /\ SubSeq(t, 1, o) \in Seq(Char) /\ Len(SubSeq(t, 1, o)) = o
        /\ \A i \in 1..o : SubSeq(t, 1, o)[i] = t[i]
    BY <1>0, SubSeqFacts
  <2> WITNESS SubSeq(t, 1, o) \in Seq(Char)
  <2> QED BY <2>1
<1>2. PICK r \in Seq(Char) :
        /\ r = SubSeq(t, o + s + 1, Len(t)) /\ Len(r) = Len(t) - (o + s)
        /\ \A i \in 1..(Len(t) - (o + s)) : r[i] = t[o + s + i]
  <2>1. /\ SubSeq(t, o + s + 1, Len(t)) \in Seq(Char)
        /\ Len(SubSeq(t, o + s + 1, Len(t))) = Len(t) - (o + s)
        /\ \A i \in 1..(Len(t) - (o + s)) :
             SubSeq(t, o + s + 1, Len(t))[i] = t[o + s + i]
    BY <1>0, SubSeqFacts
  <2> WITNESS SubSeq(t, o + s + 1, Len(t)) \in Seq(Char)
  <2> QED BY <2>1
<1>3. Cut(t, o, s) = l \o r
  BY <1>1, <1>2 DEF Cut
<1>4. /\ l \o r \in Seq(Char) /\ Len(l \o r) = Len(l) + Len(r)
      /\ \A i \in 1..(Len(l) + Len(r)) :
           (l \o r)[i] = IF i <= Len(l) THEN l[i] ELSE r[i - Len(l)]
  BY JoinFacts
<1>5. Len(l) + Len(r) = Len(t) - s
  <2>1. Len(l) = o /\ Len(r) = Len(t) - (o + s)
    BY <1>1, <1>2, Zenon
  <2>2. o + (Len(t) - (o + s)) = Len(t) - s
    BY <1>0
  <2> QED BY <2>1, <2>2
<1>6. ASSUME NEW i \in 1..(Len(t) - s)
      PROVE  (l \o r)[i] = IF i <= o THEN t[i] ELSE t[i + s]
  <2>0. i \in Nat /\ i >= 1 /\ i <= Len(t) - s
    BY <1>0
  <2>1. CASE i <= o
    BY <2>0, <2>1, <1>0, <1>1, <1>4, <1>5
  <2>2. CASE i > o
    <3>1. i - o \in 1..(Len(t) - (o + s)) /\ o + s + (i - o) = i + s /\ ~(i <= o)
      BY <2>0, <2>2, <1>0
    <3>2. r[i - o] = t[i + s]
      BY <3>1, <1>2
    <3>3. (l \o r)[i] = r[i - o]
      BY <3>1, <1>1, <1>4, <1>5
    <3> QED BY <3>1, <3>2, <3>3
  <2>3. i <= o \/ i > o
    BY <2>0
  <2> QED BY <2>1, <2>2, <2>3, Zenon
<1> QED
  BY <1>3, <1>4, <1>5, <1>6, Zenon

LEMMA CutData ==
  ASSUME NEW t \in Seq(Char), NEW d \in Seq(Char), NEW o \in Nat,
         o + Len(d) <= Len(t)
  PROVE  /\ Cut(t, o, Len(d)) \in Seq(Char)
         /\ Len(Cut(t, o, Len(d))) = Len(t) - Len(d)
         /\ \A i \in 1..(Len(t) - Len(d)) :
              Cut(t, o, Len(d))[i] = IF i <= o THEN t[i] ELSE t[i + Len(d)]
<1>1. Len(d) \in Nat
  OBVIOUS
<1> QED
  BY <1>1, CutLemma, Zenon

LEMMA SameText ==
  ASSUME NEW t \in Seq(Char), NEW u \in Seq(Char), Len(t) = Len(u),
         \A i \in 1..Len(t) : t[i] = u[i]
  PROVE  t = u
OBVIOUS

(* An insertion leaves the data where it was put, and removing it gives    *)
(* the old text back.                                                      *)
LEMMA CutSplice ==
  ASSUME NEW t \in Seq(Char), NEW d \in Seq(Char), NEW o \in 0..Len(t)
  PROVE  /\ SubSeq(Splice(t, o, d), o + 1, o + Len(d)) = d
         /\ Cut(Splice(t, o, d), o, Len(d)) = t
<1>0. Len(t) \in Nat /\ Len(d) \in Nat /\ o \in Nat /\ o <= Len(t)
  OBVIOUS
<1>u. PICK u : u = Splice(t, o, d)
  OBVIOUS
<1>1. /\ u \in Seq(Char) /\ Len(u) = Len(t) + Len(d)
      /\ \A i \in 1..(Len(t) + Len(d)) :
           u[i] = IF i <= o THEN t[i]
                  ELSE IF i <= o + Len(d) THEN d[i - o] ELSE t[i - Len(d)]
  BY <1>u, SpliceLemma, Zenon
<1>2. SubSeq(u, o + 1, o + Len(d)) = d
  <2>1. /\ SubSeq(u, o + 1, o + Len(d)) \in Seq(Char)
        /\ Len(SubSeq(u, o + 1, o + Len(d))) = Len(d)
        /\ \A i \in 1..Len(d) : SubSeq(u, o + 1, o + Len(d))[i] = u[o + i]
    <3>1. /\ o + 1 \in Nat /\ o + Len(d) \in Nat /\ 1 <= o + 1
          /\ o + 1 <= o + Len(d) + 1 /\ o + Len(d) <= Len(u)
      BY <1>0, <1>1
    <3>2. /\ SubSeq(u, o + 1, o + Len(d)) \in Seq(Char)
          /\ Len(SubSeq(u, o + 1, o + Len(d))) = o + Len(d) - (o + 1) + 1
          /\ \A i \in 1..(o + Len(d) - (o + 1) + 1) :
               SubSeq(u, o + 1, o + Len(d))[i] = u[o + 1 + i - 1]
      BY <3>1, <1>1, SubSeqFacts
    <3>3. o + Len(d) - (o + 1) + 1 = Len(d)
      BY <1>0
    <3>4. \A i \in 1..Len(d) : o + 1 + i - 1 = o + i
      BY <1>0
    <3> QED BY <3>2, <3>3, <3>4
  <2>2. ASSUME NEW i \in 1..Len(d) PROVE u[o + i] = d[i]
    <3>1. /\ o + i \in 1..(Len(t) + Len(d)) /\ o + i - o = i
          /\ ~(o + i <= o) /\ o + i <= o + Len(d)
      BY <1>0
    <3> QED BY <3>1, <1>1
  <2> QED
    BY <2>1, <2>2, SameText
<1>3. Cut(u, o, Len(d)) = t
  <2>0. o + Len(d) <= Len(u) /\ Len(u) - Len(d) = Len(t)
    BY <1>0, <1>1
  <2>1. /\ Cut(u, o, Len(d)) \in Seq(Char)
        /\ Len(Cut(u, o, Len(d))) = Len(t)
        /\ \A i \in 1..Len(t) :
             Cut(u, o, Len(d))[i] = IF i <= o THEN u[i] ELSE u[i + Len(d)]
    <3>1. /\ Cut(u, o, Len(d)) \in Seq(Char)
          /\ Len(Cut(u, o, Len(d))) = Len(u) - Len(d)
          /\ \A i \in 1..(Len(u) - Len(d)) :
               Cut(u, o, Len(d))[i] = IF i <= o THEN u[i] ELSE u[i + Len(d)]
      BY <1>0, <1>1, <2>0, CutData, Zenon
    <3> QED BY <3>1, <2>0, Zenon
  <2>2. ASSUME NEW i \in 1..Len(t) PROVE Cut(u, o, Len(d))[i] = t[i]
    <3>0. i \in Nat /\ i >= 1 /\ i <= Len(t)
      BY <1>0
    <3>1. CASE i <= o
      BY <3>0, <3>1, <1>0, <1>1, <2>1
    <3>2. CASE i > o
      <4>1. /\ i + Len(d) \in 1..(Len(t) + Len(d)) /\ i + Len(d) - Len(d) = i
            /\ ~(i <= o) /\ ~(i + Len(d) <= o) /\ ~(i + Len(d) <= o + Len(d))
        BY <3>0, <3>2, <1>0
      <4>2. Cut(u, o, Len(d))[i] = u[i + Len(d)]
        BY <4>1, <2>1
      <4>3. \A k \in 1..(Len(t) + Len(d)) :
              ~(k <= o) /\ ~(k <= o + Len(d)) => u[k] = t[k - Len(d)]
        BY <1>1
      <4> QED BY <4>1, <4>2, <4>3
    <3> QED BY <3>0, <3>1, <3>2, <1>0
  <2> QED
    BY <2>1, <2>2, SameText
<1> QED
  BY <1>u, <1>2, <1>3

(* A removal can be taken back by inserting what was removed.              *)
LEMMA SpliceCut ==
  ASSUME NEW t \in Seq(Char), NEW d \in Seq(Char), NEW o \in Nat,
         o + Len(d) <= Len(t), SubSeq(t, o + 1, o + Len(d)) = d
  PROVE  Splice(Cut(t, o, Len(d)), o, d) = t
<1>0. Len(t) \in Nat /\ Len(d) \in Nat
  OBVIOUS
<1>u. PICK u : u = Cut(t, o, Len(d))
  OBVIOUS
<1>1. /\ u \in Seq(Char) /\ Len(u) = Len(t) - Len(d)
      /\ \A i \in 1..(Len(t) - Len(d)) :
           u[i] = IF i <= o THEN t[i] ELSE t[i + Len(d)]
  <2>1. /\ Cut(t, o, Len(d)) \in Seq(Char)
        /\ Len(Cut(t, o, Len(d))) = Len(t) - Len(d)
        /\ \A i \in 1..(Len(t) - Len(d)) :
             Cut(t, o, Len(d))[i] = IF i <= o THEN t[i] ELSE t[i + Len(d)]
    BY CutData, Zenon
  <2> QED BY <1>u, <2>1, Zenon
<1>2. \A i \in 1..Len(d) : d[i] = t[o + i]
  <2>1. \A i \in 1..Len(d) : SubSeq(t, o + 1, o + Len(d))[i] = t[o + i]
    BY <1>0, SubSeqFacts
  <2> QED
    BY <2>1
<1>3. /\ Splice(u, o, d) \in Seq(Char) /\ Len(Splice(u, o, d)) = Len(t)
      /\ \A i \in 1..Len(t) :
           Splice(u, o, d)[i] = IF i <= o THEN u[i]
                                ELSE IF i <= o + Len(d) THEN d[i - o]
                                ELSE u[i - Len(d)]
  <2>1. o \in 0..Len(u) /\ Len(u) + Len(d) = Len(t)
    BY <1>0, <1>1
  <2>2. /\ Splice(u, o, d) \in Seq(Char) /\ Len(Splice(u, o, d)) = Len(u) + Len(d)
        /\ \A i \in 1..(Len(u) + Len(d)) :
             Splice(u, o, d)[i] = IF i <= o THEN u[i]
                                  ELSE IF i <= o + Len(d) THEN d[i - o]
                                  ELSE u[i - Len(d)]
    BY <2>1, <1>1, SpliceLemma, Zenon
  <2> QED
    BY <2>1, <2>2, Zenon
<1>4. ASSUME NEW i \in 1..Len(t) PROVE Splice(u, o, d)[i] = t[i]
  <2>0. i \in Nat /\ i >= 1 /\ i <= Len(t)
    BY <1>0
  <2>1. CASE i <= o
    <3>1. i \in 1..(Len(t) - Len(d))
      BY <2>0, <2>1, <1>0
    <3> QED BY <2>1, <3>1, <1>1, <1>3
  <2>2. CASE i > o /\ i <= o + Len(d)
    <3>1. i - o \in 1..Len(d) /\ o + (i - o) = i /\ ~(i <= o)
      BY <2>0, <2>2, <1>0
    <3> QED BY <2>2, <3>1, <1>2, <1>3
  <2>3. CASE i > o + Len(d)
    <3>1. /\ i - Len(d) \in 1..(Len(t) - Len(d)) /\ i - Len(d) + Len(d) = i
          /\ ~(i <= o) /\ ~(i <= o + Len(d)) /\ ~(i - Len(d) <= o)
      BY <2>0, <2>3, <1>0
    <3> QED BY <3>1, <1>1, <1>3
  <2> QED BY <2>0, <2>1, <2>2, <2>3, <1>0
<1>5. Splice(u, o, d) = t
  BY <1>3, <1>4, SameText
<1> QED
  BY <1>u, <1>5

-----------------------------------------------------------------------------
(* Entries.                                                                *)

(* An entry that fits can be done, and then its inverse fits and takes it  *)
(* back: what the revert commits and the undo command rely on.             *)
LEMMA InverseLemma ==
  ASSUME NEW e, NEW t \in Seq(Char),
         e.offset \in Nat, e.data \in Seq(Char), Fits(e, t)
  PROVE  /\ e.op \in {"insert", "remove"}
         /\ Do(e, t) \in Seq(Char)
         /\ Fits(Inverse(e), Do(e, t))
         /\ Do(Inverse(e), Do(e, t)) = t
<1>0. /\ Inverse(e).offset = e.offset /\ Inverse(e).data = e.data
      /\ Inverse(e).op = IF e.op = "insert" THEN "remove" ELSE "insert"
  BY DEF Inverse, Entry
<1>1. CASE e.op = "insert"
  <2>1. e.offset \in 0..Len(t)
    BY <1>1 DEF Fits
  <2>2. Do(e, t) = Splice(t, e.offset, e.data)
    BY <1>1 DEF Do
  <2>3. /\ Splice(t, e.offset, e.data) \in Seq(Char)
        /\ Len(Splice(t, e.offset, e.data)) = Len(t) + Len(e.data)
    BY <2>1, SpliceLemma
  <2>4. /\ SubSeq(Splice(t, e.offset, e.data),
                  e.offset + 1, e.offset + Len(e.data)) = e.data
        /\ Cut(Splice(t, e.offset, e.data), e.offset, Len(e.data)) = t
    BY <2>1, CutSplice
  <2>5. e.offset + Len(e.data) <= Len(t) + Len(e.data)
    BY <2>1
  <2>6. Inverse(e).op = "remove"
    BY <1>0, <1>1
  <2>7. Fits(Inverse(e), Do(e, t))
    BY <1>0, <2>2, <2>3, <2>4, <2>5, <2>6 DEF Fits
  <2>8. Do(Inverse(e), Do(e, t)) = t
    BY <1>0, <2>2, <2>4, <2>6 DEF Do
  <2> QED BY <1>1, <2>2, <2>3, <2>7, <2>8
<1>2. CASE e.op = "remove"
  <2>1. /\ e.offset + Len(e.data) <= Len(t)
        /\ SubSeq(t, e.offset + 1, e.offset + Len(e.data)) = e.data
    BY <1>2 DEF Fits
  <2>2. Do(e, t) = Cut(t, e.offset, Len(e.data))
    BY <1>2 DEF Do
  <2>3. /\ Cut(t, e.offset, Len(e.data)) \in Seq(Char)
        /\ Len(Cut(t, e.offset, Len(e.data))) = Len(t) - Len(e.data)
    BY <2>1, CutData
  <2>4. Splice(Cut(t, e.offset, Len(e.data)), e.offset, e.data) = t
    BY <2>1, SpliceCut
  <2>5. e.offset \in 0..(Len(t) - Len(e.data))
    BY <2>1
  <2>6. Inverse(e).op = "insert"
    BY <1>0, <1>2
  <2>7. Fits(Inverse(e), Do(e, t))
    BY <1>0, <2>2, <2>3, <2>5, <2>6 DEF Fits
  <2>8. Do(Inverse(e), Do(e, t)) = t
    BY <1>0, <2>2, <2>4, <2>6 DEF Do
  <2> QED BY <1>2, <2>2, <2>3, <2>7, <2>8
<1>3. e.op = "insert" \/ e.op = "remove"
  BY DEF Fits
<1> QED
  BY <1>1, <1>2, <1>3

-----------------------------------------------------------------------------
(* The inductive invariant.                                                *)

TextInv == versions \in Seq(Text)

(* The commits of the log, and the texts they lead from and to.            *)
LogInv ==
  /\ OneLine
  /\ Replayable
  /\ log[1].op = "nop"
  /\ \A i \in 2..Len(log) : versions[i] = Do(log[i], versions[i - 1])

(* What holds while the undone commits are logged again: the texts since   *)
(* the edit began mirror the ones before, around the end of the log then.  *)
EditInv ==
  /\ Idle => walk = 0 /\ stop = 0
  /\ ~Idle =>
       /\ 1 <= stop /\ stop <= walk
       /\ cur = Len(log)
       /\ Fits(edit, text) /\ Do(edit, text) \in Text
       /\ Len(log) + walk = 2 * Base
       /\ \A k \in 0..(Base - walk) : versions[Base + k] = versions[Base - k]

IInv == TypeOK /\ TextInv /\ LogInv /\ EditInv

(* The client's text is one of the versions.                               *)
LEMMA HereLemma ==
  ASSUME IInv
  PROVE  /\ text = versions[IF Idle THEN cur ELSE stop]
         /\ text \in Text /\ text \in Seq(Char)
<1>1. text = versions[IF Idle THEN cur ELSE stop]
  BY DEF text
<1>2. (IF Idle THEN cur ELSE stop) \in 1..Len(versions) /\ versions \in Seq(Text)
  BY DEF IInv, TypeOK, TextInv, EditInv
<1>3. text \in Text
  BY <1>1, <1>2
<1> QED
  BY <1>1, <1>3, TextLemma

LEMMA CommitLemma ==
  ASSUME NEW e \in EntryOf({"nop", "insert", "remove"}),
         NEW rev \in Nat, NEW parent \in Nat, NEW prev \in Nat
  PROVE  /\ Commit(e, rev, parent, prev) \in CommitRecord
         /\ Commit(e, rev, parent, prev).op = e.op
         /\ Commit(e, rev, parent, prev).offset = e.offset
         /\ Commit(e, rev, parent, prev).data = e.data
         /\ Commit(e, rev, parent, prev).rev = rev
         /\ Commit(e, rev, parent, prev).parent = parent
         /\ Commit(e, rev, parent, prev).prev = prev
         /\ Commit(e, rev, parent, prev).next = 0
BY DEF Commit, CommitRecord, EntryOf

LEMMA LinkLemma ==
  ASSUME NEW c \in CommitRecord, NEW m \in Nat
  PROVE  [c EXCEPT !.next = m] \in CommitRecord
BY DEF CommitRecord

LEMMA NoEditLemma == NoEdit \in EntryOf({"nop", "insert", "remove"}) /\ NoEdit.op = "nop"
BY DEF NoEdit, Entry, EntryOf

LEMMA InitInv == Init => IInv
<1> SUFFICES ASSUME Init PROVE IInv
  OBVIOUS
<1> DEFINE c == Commit(NoEdit, 0, 0, 0)
<1>1. /\ c \in CommitRecord /\ c.op = "nop" /\ c.rev = 0
      /\ c.parent = 0 /\ c.prev = 0 /\ c.next = 0
  BY NoEditLemma, CommitLemma
<1> HIDE DEF c
<1>2. PICK t \in Text : versions = <<t>>
  BY DEF Init
<1>3. /\ log = <<c>>
      /\ cur = 1 /\ last = 1 /\ edit = NoEdit /\ walk = 0 /\ stop = 0
  BY DEF Init, c
<1>4. Len(log) = 1 /\ log[1] = c /\ Len(versions) = 1
  BY <1>2, <1>3
<1>5. TypeOK
  BY <1>1, <1>2, <1>3, <1>4, TextLemma DEF TypeOK
<1>6. TextInv
  BY <1>2 DEF TextInv
<1>7. LogInv
  BY <1>1, <1>3, <1>4 DEF LogInv, OneLine, Replayable
<1>8. EditInv
  BY <1>3 DEF EditInv, Idle
<1> QED
  BY <1>5, <1>6, <1>7, <1>8 DEF IInv

(* ll_insert_commit at the end of the log extends it by one commit and one *)
(* text, and disturbs nothing else.                                        *)
LEMMA LlInsertLemma ==
  ASSUME IInv, cur = last,
         NEW e \in EntryOf({"insert", "remove"}),
         Fits(e, versions[Len(log)]), Do(e, versions[Len(log)]) \in Text,
         LlInsert(e)
  PROVE  /\ log' \in Seq(CommitRecord) /\ Len(log') = Len(log) + 1
         /\ cur' = Len(log') /\ last' = Len(log')
         /\ versions' \in Seq(Text) /\ Len(versions') = Len(log')
         /\ versions'[Len(log')] = Do(e, versions[Len(log)])
         /\ \A i \in 1..Len(log) : versions'[i] = versions[i]
         /\ LogInv'
<1> DEFINE n == Len(log)
           c == Commit(e, log[last].rev + 1, cur, last)
           x == Do(e, versions[n])
<1>0. /\ log \in Seq(CommitRecord) /\ n \in Nat /\ n >= 1
      /\ last = n /\ cur = n /\ Len(versions) = n
      /\ versions \in Seq(Text)
  BY DEF IInv, TypeOK, TextInv, LogInv, OneLine
<1>1. \A i \in 1..n : log[i] \in CommitRecord
  BY <1>0
<1>2. /\ c \in CommitRecord
      /\ c.op = e.op /\ c.offset = e.offset /\ c.data = e.data
      /\ c.rev = n /\ c.parent = n /\ c.prev = n /\ c.next = 0
  <2>1. log[last].rev = n - 1
    BY <1>0 DEF IInv, LogInv, OneLine
  <2>2. log[last].rev + 1 = n /\ e \in EntryOf({"nop", "insert", "remove"})
    BY <1>0, <2>1 DEF EntryOf
  <2> QED BY <1>0, <2>2, CommitLemma
<1>3. /\ log' = Append([log EXCEPT ![n].next = n + 1], c)
      /\ cur' = n + 1 /\ last' = n + 1
      /\ versions' = Append(versions, x)
  BY <1>0 DEF LlInsert
<1> HIDE DEF c, x
<1>4. [log EXCEPT ![n].next = n + 1] \in Seq(CommitRecord)
      /\ Len([log EXCEPT ![n].next = n + 1]) = n
  <2>1. [log[n] EXCEPT !.next = n + 1] \in CommitRecord
    <3>1. log[n] \in CommitRecord /\ n + 1 \in Nat
      BY <1>0, <1>1
    <3> QED BY <3>1, LinkLemma, Zenon
  <2> QED BY <1>0, <2>1
<1>5. /\ log' \in Seq(CommitRecord) /\ Len(log') = n + 1 /\ log'[n + 1] = c
      /\ \A i \in 1..n : log'[i] = [log EXCEPT ![n].next = n + 1][i]
  BY <1>0, <1>2, <1>3, <1>4
<1>6. /\ \A i \in 1..(n - 1) : log'[i] = log[i]
      /\ log'[n] = [log[n] EXCEPT !.next = n + 1]
  BY <1>0, <1>5
<1>7. /\ log'[n].op = log[n].op /\ log'[n].offset = log[n].offset
      /\ log'[n].data = log[n].data /\ log'[n].rev = log[n].rev
      /\ log'[n].parent = log[n].parent /\ log'[n].prev = log[n].prev
      /\ log'[n].next = n + 1
  <2>1. log[n] \in CommitRecord
    BY <1>0, <1>1
  <2> QED BY <1>6, <2>1 DEF CommitRecord
<1>8. x \in Text
  BY DEF x
<1>9. /\ versions' \in Seq(Text) /\ Len(versions') = n + 1
      /\ versions'[n + 1] = x
      /\ \A i \in 1..n : versions'[i] = versions[i]
  BY <1>0, <1>3, <1>8
<1>10. OneLine'
  <2>1. ASSUME NEW i \in 1..(n + 1)
        PROVE  /\ log'[i].rev = i - 1 /\ log'[i].parent = i - 1
               /\ log'[i].prev = i - 1
               /\ log'[i].next = IF i = n + 1 THEN 0 ELSE i + 1
    <3>1. CASE i \in 1..(n - 1)
      BY <3>1, <1>0, <1>6 DEF IInv, LogInv, OneLine
    <3>2. CASE i = n
      BY <3>2, <1>0, <1>7 DEF IInv, LogInv, OneLine
    <3>3. CASE i = n + 1
      BY <3>3, <1>0, <1>2, <1>5
    <3> QED BY <3>1, <3>2, <3>3, <1>0
  <2> QED BY <2>1, <1>3, <1>5 DEF OneLine
<1>11. \A i \in 1..n : /\ log'[i].op = log[i].op /\ log'[i].offset = log[i].offset
                       /\ log'[i].data = log[i].data
  <2>1. ASSUME NEW i \in 1..n
        PROVE  i \in 1..(n - 1) \/ i = n
    BY <1>0
  <2> QED BY <2>1, <1>6, <1>7
<1>12. ASSUME NEW i \in 2..(n + 1)
       PROVE  Fits(log'[i], versions'[i - 1]) /\ versions'[i] = Do(log'[i], versions'[i - 1])
  <2>1. CASE i \in 2..n
    <3>1. Fits(log[i], versions[i - 1]) /\ versions[i] = Do(log[i], versions[i - 1])
      BY <2>1 DEF IInv, LogInv, Replayable
    <3>2. i - 1 \in 1..n /\ i \in 1..n
      BY <2>1, <1>0
    <3>3. versions'[i - 1] = versions[i - 1] /\ versions'[i] = versions[i]
      BY <3>2, <1>9
    <3>4. /\ log'[i].op = log[i].op /\ log'[i].offset = log[i].offset
          /\ log'[i].data = log[i].data
      BY <3>2, <1>11
    <3> QED BY <3>1, <3>3, <3>4 DEF Fits, Do
  <2>2. CASE i = n + 1
    <3>1. log'[i] = c /\ i - 1 = n /\ versions'[i - 1] = versions[n] /\ versions'[i] = x
      BY <2>2, <1>0, <1>5, <1>9
    <3>2. Fits(c, versions[n]) /\ x = Do(c, versions[n])
      BY <1>2 DEF Fits, Do, x
    <3> QED BY <3>1, <3>2
  <2> QED BY <2>1, <2>2, <1>0
<1>13. log'[1].op = "nop"
  BY <1>0, <1>11 DEF IInv, LogInv
<1>14. LogInv'
  BY <1>5, <1>10, <1>12, <1>13 DEF LogInv, Replayable
<1> QED
  BY <1>3, <1>5, <1>9, <1>14 DEF x

-----------------------------------------------------------------------------
(* The steps.                                                              *)

(* An edit is made on the text cur stands for; it is one the text allows.  *)
Allowed(e) ==
  e \in EntryOf({"insert", "remove"}) /\ Fits(e, text) /\ Do(e, text) \in Text

LEMMA InsertAllowed ==
  ASSUME IInv, NEW offset \in Nat, NEW data \in Text, Insert(offset, data)
  PROVE  Idle /\ Allowed(Entry("insert", offset, data)) /\ Begin(Entry("insert", offset, data))
<1> DEFINE e == Entry("insert", offset, data)
<1>1. /\ text \in Seq(Char) /\ data \in Seq(Char)
      /\ offset \in 0..Len(text) /\ Len(text) + Len(data) <= MaxText
  BY TextLemma, HereLemma DEF IInv, Insert
<1>2. e \in EntryOf({"insert", "remove"})
      /\ e.op = "insert" /\ e.offset = offset /\ e.data = data
  BY <1>1 DEF EntryOf, Entry
<1>3. Fits(e, text) /\ Do(e, text) = Splice(text, offset, data)
  BY <1>1, <1>2 DEF Fits, Do
<1>4. Do(e, text) \in Text
  <2>1. /\ Splice(text, offset, data) \in Seq(Char)
        /\ Len(Splice(text, offset, data)) = Len(text) + Len(data)
    BY <1>1, SpliceLemma
  <2> QED BY <1>1, <1>3, <2>1, TextLemma
<1> QED
  BY <1>2, <1>3, <1>4 DEF Allowed, Insert

LEMMA RemoveAllowed ==
  ASSUME IInv, NEW offset \in Nat, NEW size \in Nat, Remove(offset, size)
  PROVE  LET e == Entry("remove", offset, SubSeq(text, offset + 1, offset + size))
         IN  Idle /\ Allowed(e) /\ Begin(e)
<1> DEFINE d == SubSeq(text, offset + 1, offset + size)
           e == Entry("remove", offset, d)
<1>1. text \in Seq(Char) /\ offset + size <= Len(text) /\ size > 0
  BY HereLemma DEF Remove
<1>2. d \in Seq(Char) /\ Len(d) = size
  BY <1>1, SubSeqFacts
<1>3. /\ e \in EntryOf({"insert", "remove"})
      /\ e.op = "remove" /\ e.offset = offset /\ e.data = d
  BY <1>2 DEF EntryOf, Entry
<1>4. Fits(e, text) /\ Do(e, text) = Cut(text, offset, size)
  BY <1>1, <1>2, <1>3 DEF Fits, Do
<1>5. Do(e, text) \in Text
  <2>1. /\ Cut(text, offset, size) \in Seq(Char)
        /\ Len(Cut(text, offset, size)) = Len(text) - size
    BY <1>1, CutLemma
  <2>2. text \in Text /\ Len(text) <= MaxText
    BY TextLemma, HereLemma
  <2>3. Len(text) - size <= MaxText
    BY <1>1, <2>2, BoundsAssumption
  <2> QED BY <1>4, <2>1, <2>3, TextLemma
<1> QED
  BY <1>3, <1>4, <1>5 DEF Allowed, Remove

LEMMA BeginInv ==
  ASSUME IInv, Idle, NEW e, Allowed(e), Begin(e)
  PROVE  IInv'
<1>0. /\ e \in EntryOf({"insert", "remove"}) /\ Fits(e, text) /\ Do(e, text) \in Text
      /\ text = versions[cur] /\ walk = 0 /\ stop = 0 /\ last = Len(log)
      /\ cur \in 1..Len(log) /\ Len(log) \in Nat /\ log \in Seq(CommitRecord)
  <2>1. text = versions[cur]
    BY HereLemma
  <2> QED BY <2>1 DEF Allowed, IInv, TypeOK, EditInv, LogInv, OneLine
<1>1. CASE cur = last /\ LlInsert(e) /\ UNCHANGED <<edit, walk, stop>>
  <2>1. Fits(e, versions[Len(log)]) /\ Do(e, versions[Len(log)]) = Do(e, text)
    BY <1>0, <1>1
  <2>2. /\ log' \in Seq(CommitRecord) /\ Len(log') = Len(log) + 1
        /\ cur' = Len(log') /\ last' = Len(log')
        /\ versions' \in Seq(Text) /\ Len(versions') = Len(log')
        /\ versions'[Len(log')] = Do(e, versions[Len(log)])
        /\ LogInv'
    BY <1>0, <1>1, <2>1, LlInsertLemma
  <2>3. Idle' /\ walk' = 0 /\ stop' = 0
    BY <1>0, <1>1 DEF Idle
  <2>4. TypeOK'
    <3>1. versions' \in Seq(Seq(Char))
      BY <2>2, TextLemma
    <3>2. edit' \in EntryOf({"insert", "remove"}) \cup {NoEdit}
      BY <2>3 DEF Idle
    <3> QED BY <1>0, <2>2, <2>3, <3>1, <3>2 DEF TypeOK
  <2>5. TextInv' /\ EditInv'
    BY <2>2, <2>3 DEF TextInv, EditInv
  <2> QED BY <2>2, <2>4, <2>5 DEF IInv
<1>2. CASE /\ cur # last /\ edit' = e /\ walk' = last /\ stop' = cur /\ cur' = last
           /\ UNCHANGED <<log, last, versions>>
  <2>1. ~Idle'
    BY <1>0, <1>2, NoEditLemma DEF Idle, EntryOf
  <2>2. TypeOK'
    BY <1>0, <1>2 DEF IInv, TypeOK
  <2>3. TextInv' /\ LogInv'
    BY <1>2 DEF IInv, TextInv, LogInv, OneLine, Replayable
  <2>4. EditInv'
    <3>1. Base' = Len(log)
      BY <1>0, <1>2 DEF Base
    <3>2. Len(log') + walk' = 2 * Base' /\ stop' <= walk' /\ 1 <= stop' /\ cur' = Len(log')
      BY <1>0, <1>2, <3>1
    <3>3. Fits(edit', text') /\ Do(edit', text') \in Text
      <4>1. text' = text
        BY <1>0, <1>2, <2>1 DEF text
      <4> QED BY <1>0, <1>2, <4>1
    <3>4. \A j \in 0..(Base' - walk') : versions'[Base' + j] = versions'[Base' - j]
      BY <1>0, <1>2, <3>1
    <3> QED BY <2>1, <3>2, <3>3, <3>4 DEF EditInv, Idle, Fits, Do
  <2> QED BY <2>2, <2>3, <2>4 DEF IInv
<1> QED
  BY <1>1, <1>2 DEF Begin

(* One revert commit: the text after it is the one the mirror asks for.    *)
LEMMA RevertInv ==
  ASSUME IInv, Revert
  PROVE  IInv' /\ Base' = Base /\ ~Idle'
         /\ \A i \in 1..Len(log) : versions'[i] = versions[i]
<1> DEFINE n == Len(log)
           e == Inverse(log[walk])
<1>0. /\ ~Idle /\ walk # stop /\ cur = n /\ last = n /\ cur = last
      /\ 1 <= stop /\ stop <= walk /\ walk \in 0..n /\ n \in Nat /\ stop \in Nat
      /\ log \in Seq(CommitRecord) /\ versions \in Seq(Text) /\ Len(versions) = n
      /\ walk \in 2..n
      /\ Fits(edit, text) /\ Do(edit, text) \in Text
  BY DEF Revert, IInv, TypeOK, TextInv, LogInv, OneLine, EditInv
<1>1. /\ n + walk = 2 * Base /\ Base \in Int
      /\ \A k \in 0..(Base - walk) : versions[Base + k] = versions[Base - k]
  BY <1>0 DEF EditInv, IInv, Base
<1>2. versions[n] = versions[walk]
  <2>1. Base - walk \in 0..(Base - walk) /\ Base + (Base - walk) = n
        /\ Base - (Base - walk) = walk
    BY <1>0, <1>1
  <2> QED BY <2>1, <1>1
<1>3. /\ log[walk] \in CommitRecord
      /\ log[walk].offset \in Nat /\ log[walk].data \in Seq(Char)
      /\ log[walk].parent = walk - 1
      /\ Fits(log[walk], versions[walk - 1])
      /\ versions[walk] = Do(log[walk], versions[walk - 1])
      /\ versions[walk - 1] \in Text /\ versions[walk - 1] \in Seq(Char)
  <2>1. log[walk] \in CommitRecord /\ walk - 1 \in 1..n /\ walk \in 1..n
    BY <1>0
  <2>2. versions[walk - 1] \in Text
    BY <1>0, <2>1
  <2>3. /\ Fits(log[walk], versions[walk - 1]) /\ log[walk].parent = walk - 1
        /\ versions[walk] = Do(log[walk], versions[walk - 1])
    BY <1>0, <2>1 DEF IInv, LogInv, OneLine, Replayable
  <2> QED BY <2>1, <2>2, <2>3, TextLemma DEF CommitRecord
<1>4. /\ Fits(e, versions[n]) /\ Do(e, versions[n]) = versions[walk - 1]
      /\ e \in EntryOf({"insert", "remove"})
  <2>1. Fits(e, versions[walk]) /\ Do(e, versions[walk]) = versions[walk - 1]
    BY <1>3, InverseLemma
  <2>2. e \in EntryOf({"insert", "remove"})
    BY <1>3 DEF Inverse, Entry, EntryOf
  <2> QED BY <2>1, <2>2, <1>2
<1> HIDE DEF e
<1>5. LlInsert(e) /\ walk' = walk - 1 /\ UNCHANGED <<edit, stop>>
  BY <1>3 DEF Revert, e
<1>6. /\ log' \in Seq(CommitRecord) /\ Len(log') = n + 1
      /\ cur' = Len(log') /\ last' = Len(log')
      /\ versions' \in Seq(Text) /\ Len(versions') = Len(log')
      /\ versions'[Len(log')] = versions[walk - 1]
      /\ \A i \in 1..n : versions'[i] = versions[i]
      /\ LogInv'
  <2>1. Do(e, versions[n]) \in Text
    BY <1>3, <1>4
  <2> QED BY <2>1, <1>0, <1>4, <1>5, LlInsertLemma
<1>7. ~Idle' /\ Base' = Base
  <2>1. ~Idle'
    BY <1>0, <1>5 DEF Idle
  <2>2. Len(log') + walk' = Len(log) + walk
    BY <1>0, <1>5, <1>6
  <2> QED BY <2>1, <2>2 DEF Base
<1>8. TypeOK'
  <2>1. versions' \in Seq(Seq(Char))
    BY <1>6, TextLemma
  <2>2. walk' \in 0..Len(log') /\ stop' \in 0..Len(log') /\ log' # <<>>
        /\ cur' \in 1..Len(log') /\ last' \in 1..Len(log')
    BY <1>0, <1>5, <1>6
  <2> QED BY <1>5, <1>6, <2>1, <2>2 DEF IInv, TypeOK
<1>9. TextInv'
  BY <1>0, <1>5, <1>6 DEF TextInv
<1>10. text' = text
  <2>1. text = versions[stop] /\ stop \in 1..n
    BY <1>0, HereLemma
  <2>2. text' = versions'[stop']
    BY <1>7 DEF text
  <2> QED BY <2>1, <2>2, <1>5, <1>6
<1>11. EditInv'
  <2>1. Len(log') + walk' = 2 * Base' /\ 1 <= stop' /\ stop' <= walk' /\ cur' = Len(log')
    <3>1. Len(log') = n + 1 /\ walk' = walk - 1 /\ stop' = stop /\ Base' = Base
      BY <1>5, <1>6, <1>7
    <3>2. (n + 1) + (walk - 1) = 2 * Base
      BY <1>0, <1>1
    <3>3. stop <= walk - 1
      BY <1>0
    <3> HIDE DEF n
    <3> QED BY <3>1, <3>2, <3>3, <1>0, <1>6
  <2>2. (Fits(edit, text) /\ Do(edit, text) \in Text)'
    BY <1>0, <1>5, <1>10 DEF Fits, Do
  <2>3. ASSUME NEW k \in 0..(Base - walk')
        PROVE  versions'[Base + k] = versions'[Base - k]
    <3>1. CASE k \in 0..(Base - walk)
      <4>1. Base + k \in 1..n /\ Base - k \in 1..n
        BY <3>1, <1>0, <1>1
      <4> QED BY <3>1, <4>1, <1>1, <1>6
    <3>2. CASE k = Base - walk + 1
      <4>1. Base + k = n + 1 /\ Base - k = walk - 1 /\ walk - 1 \in 1..n
        BY <3>2, <1>0, <1>1
      <4> QED BY <4>1, <1>6
    <3>3. k \in 0..(Base - walk) \/ k = Base - walk + 1
      BY <1>0, <1>1, <1>5
    <3> QED BY <3>1, <3>2, <3>3
  <2>4. \A k \in 0..(Base' - walk') : versions'[Base' + k] = versions'[Base' - k]
    BY <2>3, <1>7
  <2> QED BY <2>1, <2>2, <2>4, <1>7 DEF EditInv
<1> QED
  BY <1>6, <1>7, <1>8, <1>9, <1>11 DEF IInv

(* The end of the reverts: the log ends with the text the edit was made on *)
LEMMA FinishFacts ==
  ASSUME IInv, FinishEdit
  PROVE  /\ ~Idle /\ edit \in EntryOf({"insert", "remove"})
         /\ cur = last /\ Len(log) \in Nat /\ stop \in 1..Len(log)
         /\ versions[Len(log)] = text /\ versions[stop] = text
         /\ Fits(edit, text) /\ Do(edit, text) \in Text
         /\ Len(log) + stop = 2 * Base /\ Base \in stop..Len(log)
         /\ \A k \in 0..(Base - stop) : versions[Base + k] = versions[Base - k]
<1>0. /\ ~Idle /\ walk = stop /\ cur = Len(log) /\ last = Len(log)
      /\ 1 <= stop /\ walk \in 0..Len(log) /\ Len(log) \in Nat
      /\ Fits(edit, text) /\ Do(edit, text) \in Text
      /\ edit \in EntryOf({"insert", "remove"})
      /\ text = versions[stop]
      /\ Len(log) + walk = 2 * Base
      /\ \A k \in 0..(Base - walk) : versions[Base + k] = versions[Base - k]
  <2>1. ~Idle /\ walk = stop /\ edit # NoEdit
    BY DEF FinishEdit, Idle
  <2>2. text = versions[stop]
    BY <2>1, HereLemma
  <2> QED BY <2>1, <2>2 DEF IInv, TypeOK, LogInv, OneLine, EditInv
<1>1. Base \in Int
  BY <1>0 DEF Base
<1>2. versions[Len(log)] = versions[stop]
  <2>1. /\ Base - walk \in 0..(Base - walk) /\ Base + (Base - walk) = Len(log)
        /\ Base - (Base - walk) = stop
    BY <1>0, <1>1
  <2> QED BY <2>1, <1>0
<1>3. Base \in stop..Len(log) /\ stop \in 1..Len(log)
  BY <1>0, <1>1
<1> QED
  BY <1>0, <1>2, <1>3

LEMMA FinishInv ==
  ASSUME IInv, FinishEdit
  PROVE  IInv' /\ Idle' /\ Len(versions') = Len(log) + 1 /\ cur' = Len(log) + 1
         /\ versions' \in Seq(Text)
         /\ versions'[Len(log) + 1] = Do(edit, text)
         /\ \A i \in 1..Len(log) : versions'[i] = versions[i]
<1>0. /\ cur = last /\ Len(log) \in Nat /\ edit \in EntryOf({"insert", "remove"})
      /\ versions[Len(log)] = text /\ Fits(edit, text) /\ Do(edit, text) \in Text
  BY FinishFacts
<1>1. /\ LlInsert(edit)
      /\ edit' = NoEdit /\ walk' = 0 /\ stop' = 0
  BY DEF FinishEdit
<1>2. /\ log' \in Seq(CommitRecord) /\ Len(log') = Len(log) + 1
      /\ cur' = Len(log') /\ last' = Len(log')
      /\ versions' \in Seq(Text) /\ Len(versions') = Len(log')
      /\ versions'[Len(log')] = Do(edit, text)
      /\ \A i \in 1..Len(log) : versions'[i] = versions[i]
      /\ LogInv'
  BY <1>0, <1>1, LlInsertLemma
<1>3. TypeOK'
  <2>1. versions' \in Seq(Seq(Char))
    BY <1>2, TextLemma
  <2>2. /\ walk' \in 0..Len(log') /\ stop' \in 0..Len(log') /\ log' # <<>>
        /\ cur' \in 1..Len(log') /\ last' \in 1..Len(log')
    BY <1>0, <1>1, <1>2
  <2> QED BY <1>1, <1>2, <2>1, <2>2 DEF TypeOK
<1>4. Idle' /\ TextInv' /\ EditInv'
  BY <1>1, <1>2 DEF Idle, TextInv, EditInv
<1> QED
  BY <1>2, <1>3, <1>4 DEF IInv

(* Undo and redo move cur to a commit of the log.                          *)
LEMMA MoveInv ==
  ASSUME IInv, Idle, cur' \in 1..Len(log),
         UNCHANGED <<log, last, edit, walk, stop, versions>>
  PROVE  IInv'
<1>1. Idle'
  BY DEF Idle
<1>2. TypeOK'
  BY DEF IInv, TypeOK
<1>3. TextInv' /\ EditInv'
  BY <1>1 DEF IInv, TextInv, EditInv
<1>4. LogInv'
  BY DEF IInv, LogInv, OneLine, Replayable
<1> QED
  BY <1>2, <1>3, <1>4 DEF IInv

LEMMA UndoInv ==
  ASSUME IInv, Undo
  PROVE  IInv' /\ Idle /\ Idle' /\ UNCHANGED versions
         /\ cur' = IF cur > 1 THEN cur - 1 ELSE cur
<1>1. /\ Idle /\ cur \in 1..Len(log) /\ Len(log) \in Nat
      /\ log[cur].parent = cur - 1
      /\ cur' = IF log[cur].parent # 0 THEN log[cur].parent ELSE cur
      /\ UNCHANGED <<log, last, edit, walk, stop, versions>>
  BY DEF Undo, IInv, TypeOK, LogInv, OneLine
<1>2. cur' = (IF cur > 1 THEN cur - 1 ELSE cur) /\ cur' \in 1..Len(log)
  BY <1>1
<1>3. IInv'
  BY <1>1, <1>2, MoveInv
<1> QED
  BY <1>1, <1>2, <1>3 DEF Idle

LEMMA RedoInv ==
  ASSUME IInv, Redo
  PROVE  IInv' /\ Idle /\ Idle' /\ UNCHANGED versions
         /\ cur' = IF cur < Len(log) THEN cur + 1 ELSE cur
<1>1. /\ Idle /\ cur \in 1..Len(log) /\ Len(log) \in Nat
      /\ log[cur].next = IF cur = Len(log) THEN 0 ELSE cur + 1
      /\ cur' = IF log[cur].next # 0 THEN log[cur].next ELSE cur
      /\ UNCHANGED <<log, last, edit, walk, stop, versions>>
  BY DEF Redo, IInv, TypeOK, LogInv, OneLine
<1>2. cur' = (IF cur < Len(log) THEN cur + 1 ELSE cur) /\ cur' \in 1..Len(log)
  BY <1>1
<1>3. IInv'
  BY <1>1, <1>2, MoveInv
<1> QED
  BY <1>1, <1>2, <1>3 DEF Idle

LEMMA StutterInv == IInv /\ UNCHANGED vars => IInv'
BY DEF IInv, vars, TypeOK, TextInv, LogInv, OneLine, Replayable, EditInv,
       Idle, Base, text

LEMMA NextInv ==
  ASSUME IInv, [Next]_vars
  PROVE  IInv'
<1>1. ASSUME NEW offset \in 0..MaxText, NEW data \in Text, Insert(offset, data)
      PROVE  IInv'
  <2>1. offset \in Nat
    BY BoundsAssumption
  <2> QED BY <1>1, <2>1, InsertAllowed, BeginInv
<1>2. ASSUME NEW offset \in 0..MaxText, NEW size \in 1..MaxText, Remove(offset, size)
      PROVE  IInv'
  <2>1. offset \in Nat /\ size \in Nat
    BY BoundsAssumption
  <2> QED BY <1>2, <2>1, RemoveAllowed, BeginInv
<1>3. CASE Revert     BY <1>3, RevertInv
<1>4. CASE FinishEdit BY <1>4, FinishInv
<1>5. CASE Undo       BY <1>5, UndoInv
<1>6. CASE Redo       BY <1>6, RedoInv
<1>7. CASE UNCHANGED vars BY <1>7, StutterInv
<1> QED
  BY <1>1, <1>2, <1>3, <1>4, <1>5, <1>6, <1>7 DEF Next

-----------------------------------------------------------------------------
(* The theorems.                                                           *)

(* What the other theorems rest on: the log is a line of commits that      *)
(* replays to the texts, and an edit that waits for its reverts mirrors    *)
(* the texts between the end of the log and the commit it was made on.     *)
THEOREM InvariantHolds == Spec => []IInv
<1> QED
  BY InitInv, NextInv, PTL DEF Spec

(* Every step leaves a log of commits, heads within it and a text.         *)
THEOREM TypeCorrect == Spec => []TypeOK
<1>1. IInv => TypeOK
  BY DEF IInv
<1> QED
  BY <1>1, InvariantHolds, PTL

(* The tree that buffer_log_undo follows and the list that buffer_log_redo *)
(* follows are one line, whatever was undone before an edit.               *)
THEOREM HistoryIsOneLine == Spec => []OneLine
<1>1. IInv => OneLine
  BY DEF IInv, LogInv
<1> QED
  BY <1>1, InvariantHolds, PTL

(* Every commit, and every inverted commit of insert_revert_commits, finds *)
(* in the text the log has built before it what it inserts at or removes.  *)
THEOREM LogIsReplayable == Spec => []Replayable
<1>1. IInv => Replayable
  BY DEF IInv, LogInv
<1> QED
  BY <1>1, InvariantHolds, PTL

-----------------------------------------------------------------------------
(* The log implements the undo history.                                    *)

(* Two trails in a row, and two trails that are the same, place by place.  *)
LEMMA JoinTrails ==
  ASSUME NEW S, NEW l \in Seq(S), NEW r \in Seq(S)
  PROVE  /\ l \o r \in Seq(S)
         /\ Len(l \o r) = Len(l) + Len(r)
         /\ \A i \in 1..(Len(l) + Len(r)) :
              (l \o r)[i] = IF i <= Len(l) THEN l[i] ELSE r[i - Len(l)]
OBVIOUS

LEMMA SameTrail ==
  ASSUME NEW S, NEW v \in Seq(S), NEW w \in Seq(S), Len(v) = Len(w),
         \A i \in 1..Len(v) : v[i] = w[i]
  PROVE  v = w
OBVIOUS

(* A trail w that goes on, after v, by the way back to a and one text t.   *)
GoesOn(v, w, a, t) ==
  /\ Len(w) = Len(v) + (Len(v) - a) + 1
  /\ \A i \in 1..Len(v) : w[i] = v[i]
  /\ \A k \in 1..(Len(v) - a) : w[Len(v) + k] = v[Len(v) - k]
  /\ w[Len(w)] = t

LEMMA TrailLemma ==
  ASSUME NEW S, NEW v \in Seq(S), NEW w \in Seq(S), NEW a \in 1..Len(v), NEW t \in S,
         GoesOn(v, w, a, t)
  PROVE  w = v \o [i \in 1..(Len(v) - a) |-> v[Len(v) - i]] \o <<t>>
<1> USE DEF GoesOn
<1>1. PICK n \in Nat, m \in Nat :
        n = Len(v) /\ m = Len(v) - a /\ n - m = a /\ Len(w) = n + m + 1
  <2>1. Len(v) \in Nat /\ Len(v) - a \in Nat /\ Len(v) - (Len(v) - a) = a
    OBVIOUS
  <2> QED BY <2>1
<1>2. PICK b \in Seq(S) :
        /\ b = [i \in 1..(Len(v) - a) |-> v[Len(v) - i]]
        /\ Len(b) = m /\ \A i \in 1..m : b[i] = v[n - i]
  <2>1. \A i \in 1..m : n - i \in 1..n /\ v[n - i] \in S
    BY <1>1
  <2>2. [i \in 1..m |-> v[n - i]] \in [1..m -> S]
    BY <2>1
  <2>3. [i \in 1..m |-> v[n - i]] \in Seq(S)
    BY <2>2, <1>1
  <2>4. Len([i \in 1..m |-> v[n - i]]) = m
    BY <1>1
  <2> QED BY <1>1, <2>3, <2>4
<1>3. PICK c \in Seq(S) : c = v \o b
  BY JoinTrails
<1>4. /\ Len(c) = n + m
      /\ \A i \in 1..(n + m) : c[i] = IF i <= n THEN v[i] ELSE b[i - n]
  BY <1>1, <1>2, <1>3, JoinTrails
<1>5. PICK r \in Seq(S) : r = <<t>> /\ Len(r) = 1 /\ r[1] = t
  <2>1. <<t>> \in Seq(S) /\ Len(<<t>>) = 1 /\ <<t>>[1] = t
    OBVIOUS
  <2> QED BY <2>1, Zenon
<1>6. PICK d \in Seq(S) : d = c \o r
  BY JoinTrails
<1>7. /\ Len(d) = n + m + 1
      /\ \A i \in 1..(n + m + 1) : d[i] = IF i <= n + m THEN c[i] ELSE r[i - (n + m)]
  <2>1. /\ Len(d) = Len(c) + Len(r)
        /\ \A i \in 1..(Len(c) + Len(r)) :
             d[i] = IF i <= Len(c) THEN c[i] ELSE r[i - Len(c)]
    BY <1>6, JoinTrails
  <2>2. Len(c) = n + m /\ Len(r) = 1
    BY <1>4, <1>5
  <2> QED BY <2>1, <2>2, Zenon
<1>8. ASSUME NEW i \in 1..(n + m + 1) PROVE w[i] = d[i]
  <2>0. i \in 1..n \/ i \in (n + 1)..(n + m) \/ i = n + m + 1
    OBVIOUS
  <2>1. CASE i \in 1..n
    <3>1. i \in 1..(n + m) /\ i <= n /\ i <= n + m
      BY <2>1
    <3> QED BY <2>1, <3>1, <1>1, <1>4, <1>7
  <2>2. CASE i \in (n + 1)..(n + m)
    <3>1. i \in 1..(n + m) /\ ~(i <= n) /\ i <= n + m /\ i - n \in 1..m /\ n + (i - n) = i
      BY <2>2
    <3>2. w[i] = v[n - (i - n)]
      BY <3>1, <1>1
    <3>3. d[i] = b[i - n]
      BY <3>1, <1>4, <1>7
    <3> QED BY <3>1, <3>2, <3>3, <1>2
  <2>3. CASE i = n + m + 1
    <3>1. ~(i <= n + m) /\ i - (n + m) = 1
      BY <2>3
    <3> QED BY <2>3, <3>1, <1>1, <1>5, <1>7
  <2> QED BY <2>0, <2>1, <2>2, <2>3
<1>9. w = d
  BY <1>1, <1>7, <1>8, SameTrail
<1> QED
  BY <1>2, <1>3, <1>5, <1>6, <1>9, Zenon

LEMMA InitMap == Init => History!Init
<1> SUFFICES ASSUME Init PROVE History!Init
  OBVIOUS
<1> QED
  BY DEF Init, Idle, History!Init

LEMMA BeginMap ==
  ASSUME IInv, Idle, NEW e, Allowed(e), Begin(e)
  PROVE  [\E t \in Text : History!Edit(t)]_(History!vars)
<1>0. /\ versions \in Seq(Text) /\ Len(versions) = Len(log) /\ Len(log) \in Nat
      /\ last = Len(log) /\ cur \in 1..Len(log)
      /\ e \in EntryOf({"insert", "remove"}) /\ Fits(e, text) /\ Do(e, text) \in Text
      /\ log \in Seq(CommitRecord) /\ text = versions[cur]
  <2>1. text = versions[cur]
    BY HereLemma
  <2> QED BY <2>1 DEF Allowed, IInv, TypeOK, TextInv, LogInv, OneLine
<1>1. CASE cur = last /\ LlInsert(e) /\ UNCHANGED <<edit, walk, stop>>
  <2>1. /\ versions' \in Seq(Text) /\ Len(versions') = Len(log) + 1
        /\ versions'[Len(log) + 1] = Do(e, text)
        /\ \A i \in 1..Len(log) : versions'[i] = versions[i]
        /\ cur' = Len(log) + 1
    BY <1>0, <1>1, LlInsertLemma
  <2>2. Idle'
    BY <1>1 DEF Idle
  <2>3. versions' = versions \o [i \in 1..(Len(versions) - cur) |-> versions[Len(versions) - i]]
                             \o <<Do(e, text)>>
    <3>1. /\ Len(versions') = Len(versions) + (Len(versions) - cur) + 1
          /\ cur \in 1..Len(versions) /\ versions'[Len(versions')] = Do(e, text)
          /\ \A i \in 1..Len(versions) : versions'[i] = versions[i]
      BY <1>0, <1>1, <2>1
    <3>2. \A k \in 1..(Len(versions) - cur) :
            versions'[Len(versions) + k] = versions[Len(versions) - k]
      BY <1>0, <1>1
    <3>3. GoesOn(versions, versions', cur, Do(e, text))
      BY <3>1, <3>2 DEF GoesOn
    <3>4. /\ versions \in Seq(Text) /\ versions' \in Seq(Text)
          /\ cur \in 1..Len(versions) /\ Do(e, text) \in Text
      BY <1>0, <2>1, <3>1
    <3> QED BY <3>3, <3>4, TrailLemma, Zenon
  <2>4. History!Edit(Do(e, text))
    BY <2>1, <2>2, <2>3, <1>0 DEF History!Edit, History!WayBack
  <2> QED BY <2>4, <1>0
<1>2. CASE /\ cur # last /\ edit' = e /\ walk' = last /\ stop' = cur /\ cur' = last
           /\ UNCHANGED <<log, last, versions>>
  <2>1. ~Idle'
    BY <1>0, <1>2, NoEditLemma DEF Idle, EntryOf
  <2>2. Base' = Len(log)
    BY <1>0, <1>2 DEF Base
  <2>3. SubSeq(versions, 1, Len(log)) = versions
    BY <1>0
  <2> QED BY <1>2, <2>1, <2>2, <2>3 DEF History!vars
<1> QED
  BY <1>1, <1>2 DEF Begin

LEMMA RevertMap ==
  ASSUME IInv, Revert
  PROVE  UNCHANGED History!vars
<1>1. /\ IInv' /\ Base' = Base /\ ~Idle' /\ ~Idle /\ stop' = stop
      /\ \A i \in 1..Len(log) : versions'[i] = versions[i]
  BY RevertInv DEF Revert
<1>2. /\ versions \in Seq(Text) /\ Len(versions) = Len(log)
      /\ versions' \in Seq(Text) /\ Len(versions') = Len(log')
      /\ Len(log) \in Nat /\ Len(log') = Len(log) + 1
  BY <1>1 DEF IInv, TypeOK, TextInv, Revert, LlInsert
<1>3. Base \in 1..Len(log)
  <2>1. Len(log) + walk = 2 * Base /\ 1 <= walk /\ walk \in 0..Len(log)
    BY <1>1 DEF IInv, EditInv, TypeOK
  <2>2. Base \in Int
    BY <1>2, <2>1 DEF Base
  <2> QED BY <2>1, <2>2, <1>2
<1>4. SubSeq(versions', 1, Base) = SubSeq(versions, 1, Base)
  BY <1>1, <1>2, <1>3
<1> QED
  BY <1>1, <1>4 DEF History!vars

LEMMA FinishMap ==
  ASSUME IInv, FinishEdit
  PROVE  \E t \in Text : History!Edit(t)
<1>0. /\ ~Idle /\ Len(log) \in Nat /\ stop \in 1..Len(log) /\ Do(edit, text) \in Text
      /\ Len(log) + stop = 2 * Base /\ Base \in stop..Len(log)
      /\ \A k \in 0..(Base - stop) : versions[Base + k] = versions[Base - k]
  BY FinishFacts
<1>1. /\ Idle' /\ Len(versions') = Len(log) + 1 /\ cur' = Len(log) + 1
      /\ versions' \in Seq(Text)
      /\ versions'[Len(log) + 1] = Do(edit, text)
      /\ \A i \in 1..Len(log) : versions'[i] = versions[i]
  BY FinishInv
<1>2. versions \in Seq(Text) /\ Len(versions) = Len(log)
  BY DEF IInv, TypeOK, TextInv
<1>3. PICK v \in Seq(Text) :
        /\ v = SubSeq(versions, 1, Base) /\ Len(v) = Base
        /\ \A i \in 1..Base : v[i] = versions[i]
  <2>1. SubSeq(versions, 1, Base) \in Seq(Text) /\ Len(SubSeq(versions, 1, Base)) = Base
        /\ \A i \in 1..Base : SubSeq(versions, 1, Base)[i] = versions[i]
    BY <1>0, <1>2
  <2> QED BY <2>1, Zenon
<1>4. \A i \in 1..Len(v) : versions'[i] = v[i]
  <2>1. ASSUME NEW i \in 1..Base PROVE versions'[i] = v[i]
    <3>1. i \in 1..Len(log)
      BY <1>0
    <3> QED BY <3>1, <1>1, <1>3
  <2> QED BY <2>1, <1>3
<1>5. \A k \in 1..(Len(v) - stop) : versions'[Len(v) + k] = v[Len(v) - k]
  <2>1. ASSUME NEW k \in 1..(Base - stop) PROVE versions'[Base + k] = v[Base - k]
    <3>1. k \in 0..(Base - stop) /\ Base + k \in 1..Len(log) /\ Base - k \in 1..Base
      BY <1>0
    <3> QED BY <3>1, <1>0, <1>1, <1>3
  <2> QED BY <2>1, <1>3
<1>6. Len(versions') = Len(v) + (Len(v) - stop) + 1 /\ stop \in 1..Len(v)
  BY <1>0, <1>1, <1>3
<1>7. versions' = v \o [i \in 1..(Len(v) - stop) |-> v[Len(v) - i]] \o <<Do(edit, text)>>
  <2>1. versions'[Len(versions')] = Do(edit, text)
    BY <1>1
  <2>2. GoesOn(v, versions', stop, Do(edit, text))
    BY <2>1, <1>4, <1>5, <1>6 DEF GoesOn
  <2> QED BY <2>2, <1>0, <1>1, <1>6, TrailLemma, Zenon
<1>8. History!Edit(Do(edit, text))
  BY <1>0, <1>1, <1>3, <1>7 DEF History!Edit, History!WayBack
<1> QED
  BY <1>0, <1>8

LEMMA StepMap ==
  ASSUME IInv, [Next]_vars
  PROVE  [History!Next]_(History!vars)
<1>1. ASSUME NEW offset \in 0..MaxText, NEW data \in Text, Insert(offset, data)
      PROVE  [History!Next]_(History!vars)
  <2>1. offset \in Nat
    BY BoundsAssumption
  <2> QED BY <1>1, <2>1, InsertAllowed, BeginMap DEF History!Next
<1>2. ASSUME NEW offset \in 0..MaxText, NEW size \in 1..MaxText, Remove(offset, size)
      PROVE  [History!Next]_(History!vars)
  <2>1. offset \in Nat /\ size \in Nat
    BY BoundsAssumption
  <2> QED BY <1>2, <2>1, RemoveAllowed, BeginMap DEF History!Next
<1>3. CASE Revert
  BY <1>3, RevertMap
<1>4. CASE FinishEdit
  BY <1>4, FinishMap DEF History!Next
<1>5. cur \in 1..Len(log) /\ Len(log) \in Nat /\ Len(versions) = Len(log)
  BY DEF IInv, TypeOK
<1>6. CASE Undo
  <2>1. /\ Idle /\ Idle' /\ UNCHANGED versions
        /\ cur' = IF cur > 1 THEN cur - 1 ELSE cur
    BY <1>6, UndoInv
  <2> QED BY <2>1, <1>5 DEF History!Next, History!Undo, History!vars
<1>7. CASE Redo
  <2>1. /\ Idle /\ Idle' /\ UNCHANGED versions
        /\ cur' = IF cur < Len(log) THEN cur + 1 ELSE cur
    BY <1>7, RedoInv
  <2> QED BY <2>1, <1>5 DEF History!Next, History!Redo, History!vars
<1>8. CASE UNCHANGED vars
  BY <1>8 DEF vars, Idle, Base, History!vars
<1> QED
  BY <1>1, <1>2, <1>3, <1>4, <1>6, <1>7, <1>8 DEF Next

(* No text is ever lost: edits, undos and redos of the log are those of    *)
(* the abstract history, an edit with its reverts being one edit there.    *)
THEOREM ImplementsUndoHistory == Spec => ImplementsHistory
<1> QED
  BY InvariantHolds, InitMap, StepMap, PTL DEF Spec, ImplementsHistory, History!Spec

=============================================================================

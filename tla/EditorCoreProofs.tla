--------------------------- MODULE EditorCoreProofs ---------------------------
(***************************************************************************)
(* Theorems about the program from the keyboard to the file, for tables of *)
(* any size, any command line and input map, and any use the modules make  *)
(* of the buffers.                                                         *)
(*                                                                         *)
(* The argument about the tables: nothing closes an editor buffer, so that *)
(* table is filled from 1 upwards without gaps, and so is the table of     *)
(* byte buffers until one is closed (InOrder).  A table without gaps       *)
(* either gives the next index or is full and refuses; it does not run     *)
(* past its end.  As long as a module closes only what it holds, the       *)
(* editor buffers and the held buffers are different ones and open         *)
(* (HeldAreOpen, BuffersFindTheirFile), so a full table of editor buffers  *)
(* means a full table of byte buffers, which refuses first.                *)
(*                                                                         *)
(* Every step of the program is a step of its buffers or leaves them       *)
(* alone, so what holds of the tables is kept (BInv).  For the files a     *)
(* command reaches, the invariant adds that the program runs before a      *)
(* command does and that the buffer shown is an entry nothing rewrites or  *)
(* removes; until a module is given a byte buffer the two tables are       *)
(* filled in step, so that the file shown has one number in both (Inv).    *)
(***************************************************************************)
EXTENDS EditorCore, SequenceTheorems, FiniteSetTheorems, TLAPS

-----------------------------------------------------------------------------
(* Induction and extremes.                                                 *)

(* Induction on the natural numbers, for a set instead of a predicate.     *)
LEMMA NatSetInduction ==
  ASSUME NEW S, 0 \in S, \A n \in Nat : n \in S => n + 1 \in S
  PROVE  Nat \subseteq S
<1> DEFINE R == OpToRel(<, Nat)
           T == Nat \ S
<1>1. IsWellFoundedOn(R, Nat)
  BY NatLessThanWellFounded
<1>2. SUFFICES ASSUME T # {} PROVE FALSE
  OBVIOUS
<1>3. PICK x \in T : \A y \in T : <<y, x>> \notin R
  <2>1. T \subseteq Nat
    OBVIOUS
  <2> HIDE DEF R, T
  <2> QED
    BY <1>1, <1>2, <2>1, WFMin
<1>4. x # 0 /\ x - 1 \in Nat
  OBVIOUS
<1>5. x - 1 \in T
  BY <1>4
<1>6. <<x - 1, x>> \in R
  BY <1>4 DEF OpToRel
<1> QED
  BY <1>3, <1>5, <1>6

(* The same up to a bound.                                                 *)
LEMMA UpToInduction ==
  ASSUME NEW n \in Nat, NEW S, 0 \in S, \A k \in 0 .. n - 1 : k \in S => k + 1 \in S
  PROVE  \A k \in 0 .. n : k \in S
<1> DEFINE T == {k \in Nat : k <= n => k \in S}
<1>1. 0 \in T
  OBVIOUS
<1>2. \A k \in Nat : k \in T => k + 1 \in T
  OBVIOUS
<1>3. Nat \subseteq T
  <2> HIDE DEF T
  <2> QED BY <1>1, <1>2, NatSetInduction
<1> QED
  BY <1>3

(* A set of numbers has a least one.                                        *)
LEMMA MinIsThere ==
  ASSUME NEW S \in SUBSET Nat, S # {}
  PROVE  Min(S) \in S /\ \A y \in S : Min(S) <= y
<1> DEFINE R == OpToRel(<, Nat)
<1>1. IsWellFoundedOn(R, Nat)
  BY NatLessThanWellFounded
<1>2. PICK x \in S : \A y \in S : <<y, x>> \notin R
  <2>1. S \subseteq Nat
    OBVIOUS
  <2> HIDE DEF R
  <2> QED BY <1>1, <2>1, WFMin
<1>3. ASSUME NEW y \in S PROVE x <= y
  <2>1. x \in Nat /\ y \in Nat
    OBVIOUS
  <2>2. y < x => <<y, x>> \in R
    BY <2>1 DEF OpToRel
  <2> HIDE DEF R
  <2> QED BY <1>2, <2>1, <2>2
<1>4. \E z \in S : \A y \in S : z <= y
  BY <1>3
<1>5. Min(S) = CHOOSE z \in S : \A y \in S : z <= y
  BY DEF Min
<1> QED
  BY <1>4, <1>5

(* A set of numbers up to a bound has a greatest one.                       *)
LEMMA MaxIsThere ==
  ASSUME NEW n \in Nat, NEW S \in SUBSET (0 .. n), S # {}
  PROVE  Max(S) \in S /\ \A y \in S : Max(S) >= y
<1> DEFINE T == {n - x : x \in S}
<1>0. \A x \in S : x \in Nat /\ n - x \in Nat
  OBVIOUS
<1>1. T \in SUBSET Nat /\ T # {}
  BY <1>0
<1>2. Min(T) \in T /\ \A y \in T : Min(T) <= y
  <2> HIDE DEF T
  <2> QED BY <1>1, MinIsThere
<1>3. PICK x \in S : Min(T) = n - x
  BY <1>2
<1>4. \A y \in S : n - y \in T
  OBVIOUS
<1>5. \A y \in S : x >= y
  BY <1>2, <1>3, <1>4
<1> QED
  BY <1>5 DEF Max

-----------------------------------------------------------------------------
(* Input events.                                                           *)

LEMMA SameIsEquivalence ==
  /\ \A a : Same(a, a)
  /\ \A a, b : Same(a, b) => Same(b, a)
  /\ \A a, b, c : Same(a, b) /\ Same(b, c) => Same(a, c)
BY DEF Same

(* Two nodes with the same event take the same keys.                       *)
LEMMA SameTakesTheSame ==
  ASSUME NEW a, NEW b, NEW ev, Same(a, b)
  PROVE  Contains(a, ev) <=> Contains(b, ev)
BY DEF Same, Contains

\* The modifiers of a key with these tokens.
ModsIn(part) == {m \in {"ctrl", "altL"} : \E t \in part : t.tok = (IF m = "ctrl" THEN "ctrl" ELSE "alt")}

(* The fields of the events the configuration describes.                    *)
LEMMA MouseEntryIs ==
  ASSUME NEW type, NEW button, NEW e, e = MouseEntry(type, button)
  PROVE  e = [type |-> type, key |-> "NUL", mods |-> {}, range |-> FALSE,
              start |-> 0, end |-> 0, button |-> button]
<1>1. PICK r : r = NoEvent
  OBVIOUS
<1>2. r = [type |-> "keypress", key |-> "NUL", mods |-> {}, range |-> FALSE,
           start |-> 0, end |-> 0, button |-> 0]
  BY <1>1 DEF NoEvent
<1>3. e = [r EXCEPT !.type = type, !.button = button]
  BY <1>1, Zenon DEF MouseEntry
<1> QED
  BY <1>2, <1>3

LEMMA KeyEntryIs ==
  ASSUME NEW mods, NEW key, NEW range, NEW start, NEW end, NEW e,
         e = KeyEntry(mods, key, range, start, end)
  PROVE  e = [type |-> "keypress", key |-> key, mods |-> mods, range |-> range,
              start |-> start, end |-> end, button |-> 0]
<1>1. PICK r : r = NoEvent
  OBVIOUS
<1>2. r = [type |-> "keypress", key |-> "NUL", mods |-> {}, range |-> FALSE,
           start |-> 0, end |-> 0, button |-> 0]
  BY <1>1 DEF NoEvent
<1>3. e = [r EXCEPT !.mods = mods, !.key = key, !.range = range, !.start = start, !.end = end]
  BY <1>1, Zenon DEF KeyEntry
<1> QED
  BY <1>2, <1>3

\* The event of a code point, key or button t with these modifiers.
EventOf(t, mods) ==
  IF t.tok = "mouse"
  THEN MouseEntry(IF t.press THEN "button_press" ELSE "button_release", t.button)
  ELSE IF t.tok = "unicode" THEN KeyEntry(mods, "UNICODE", t.range, t.start, t.end)
  ELSE KeyEntry(mods, t.key, FALSE, 0, 0)

(* A key described by one code and its modifiers is the event of that code. *)
LEMMA DescribedIsEventOf ==
  ASSUME NEW part, NEW t \in part, t.tok \in Codes,
         \A u \in part : u.tok \in Codes => u = t
  PROVE  Described(part) = EventOf(t, ModsIn(part))
<1> DEFINE Has(tok) == \E u \in part : u.tok = tok
           The(tok) == CHOOSE u \in part : u.tok = tok
           mods     == {m \in {"ctrl", "altL"} : Has(IF m = "ctrl" THEN "ctrl" ELSE "alt")}
<1>1. \A tok \in Codes : Has(tok) <=> tok = t.tok
  OBVIOUS
<1>2. The(t.tok) = t
  OBVIOUS
<1>3. ModsIn(part) = mods
  BY DEF ModsIn
<1>4. "mouse" \in Codes /\ "unicode" \in Codes /\ "key" \in Codes
  BY DEF Codes
<1>5. Described(part) =
        IF Has("mouse")
        THEN MouseEntry(IF The("mouse").press THEN "button_press" ELSE "button_release",
                        The("mouse").button)
        ELSE IF Has("unicode")
        THEN KeyEntry(mods, "UNICODE", The("unicode").range, The("unicode").start, The("unicode").end)
        ELSE KeyEntry(mods, The("key").key, FALSE, 0, 0)
  BY DEF Described
<1> HIDE DEF Has, The, mods
<1>6. CASE t.tok = "mouse"
  BY <1>6, <1>1, <1>2, <1>4, <1>5 DEF EventOf
<1>7. CASE t.tok = "unicode"
  BY <1>7, <1>1, <1>2, <1>3, <1>4, <1>5 DEF EventOf
<1>8. CASE t.tok = "key"
  BY <1>8, <1>1, <1>2, <1>3, <1>4, <1>5 DEF EventOf
<1> QED
  BY <1>6, <1>7, <1>8 DEF Codes

\* The event of a button, and of a key: fields they do not use are blank.
IsMouse(e) == /\ e.type # "keypress"
              /\ e = [type |-> e.type, key |-> "NUL", mods |-> {}, range |-> FALSE,
                      start |-> 0, end |-> 0, button |-> e.button]

IsKey(e) == e = [type |-> "keypress", key |-> e.key, mods |-> e.mods, range |-> e.range,
                 start |-> e.start, end |-> e.end, button |-> 0]

LEMMA EventOfIs ==
  ASSUME NEW v, NEW l, NEW e, e = EventOf(v, l), v.tok \in Codes
  PROVE  IsMouse(e) \/ IsKey(e)
<1> DEFINE p == IF v.press THEN "button_press" ELSE "button_release"
<1>0. p # "keypress"
  OBVIOUS
<1> HIDE DEF p
<1>1. CASE v.tok = "mouse"
  <2>1. e = MouseEntry(p, v.button)
    BY <1>1 DEF EventOf, p
  <2>2. e = [type |-> p, key |-> "NUL", mods |-> {}, range |-> FALSE,
             start |-> 0, end |-> 0, button |-> v.button]
    BY <2>1, MouseEntryIs
  <2> QED
    BY <2>2, <1>0 DEF IsMouse
<1>2. CASE v.tok # "mouse"
  <2>1. PICK k, r, s, d : e = KeyEntry(l, k, r, s, d)
    BY <1>2, Zenon DEF EventOf
  <2>2. e = [type |-> "keypress", key |-> k, mods |-> l, range |-> r,
             start |-> s, end |-> d, button |-> 0]
    BY <2>1, KeyEntryIs
  <2> QED
    BY <2>2 DEF IsKey
<1> QED
  BY <1>1, <1>2

Plain(e) == IsMouse(e) \/ IsKey(e)

(* Of events without what they do not use, equal ones are the same.        *)
LEMMA SamePlainEvents ==
  ASSUME NEW a, NEW b, Plain(a), Plain(b), Same(a, b)
  PROVE  a = b
<1>1. CASE IsMouse(a) /\ IsMouse(b)
  BY <1>1 DEF Same, IsMouse
<1>2. CASE IsKey(a) /\ IsKey(b)
  <2>1. a.type = "keypress"
    BY <1>2 DEF IsKey
  <2>2. <<a.key, a.mods, a.range, a.start, a.end>> = <<b.key, b.mods, b.range, b.start, b.end>>
    BY <2>1 DEF Same
  <2> QED
    BY <1>2, <2>2 DEF IsKey
<1>3. CASE IsMouse(a) /\ IsKey(b)
  BY <1>3 DEF Same, IsMouse, IsKey
<1>4. CASE IsKey(a) /\ IsMouse(b)
  BY <1>4 DEF Same, IsMouse, IsKey
<1> QED
  BY <1>1, <1>2, <1>3, <1>4 DEF Plain

-----------------------------------------------------------------------------
(* The parser: a key.                                                       *)

\* A record with the fields of an event, and of the parser.
IsEntry(e) == e = [type |-> e.type, key |-> e.key, mods |-> e.mods, range |-> e.range,
                   start |-> e.start, end |-> e.end, button |-> e.button]

IsParser(c) == c = [entry |-> c.entry, seq |-> c.seq] /\ IsEntry(c.entry)

TypeOfPress(t) == IF t.press THEN "button_press" ELSE "button_release"

\* What the token of a code leaves in the entry.
Says(e, u) ==
  /\ u.tok = "mouse" => e.type = TypeOfPress(u) /\ e.button = u.button
  /\ u.tok = "unicode" =>
       /\ e.type = "keypress" /\ e.key = "UNICODE"
       /\ e.range = u.range /\ e.start = u.start /\ e.end = u.end
  /\ u.tok = "key" =>
       /\ e.type = "keypress" /\ e.key = u.key
       /\ e.range = FALSE /\ e.start = 0 /\ e.end = 0

\* Nothing said of the key yet.
Blank(e) == /\ e.type = "keypress" /\ e.key = "NUL" /\ e.range = FALSE
            /\ e.start = 0 /\ e.end = 0 /\ e.button = 0

\* The entry the parser has after the tokens in part.
EntryInv(e, part) ==
  /\ e.mods = ModsIn(part)
  /\ (\A u \in part : u.tok \notin Codes) => Blank(e)
  /\ \A u \in part : Says(e, u)

(* What each kind of token makes of the entry.                              *)
LEMMA ModifierTaken ==
  ASSUME NEW c, NEW mod, NEW d, IsParser(c), d = ParseModifier(c, mod)
  PROVE  /\ IsParser(d) /\ d.seq = c.seq
         /\ d.entry.type = c.entry.type
         /\ d.entry.key = c.entry.key
         /\ d.entry.mods = c.entry.mods \cup {mod}
         /\ d.entry.range = c.entry.range
         /\ d.entry.start = c.entry.start
         /\ d.entry.end = c.entry.end
         /\ d.entry.button = c.entry.button
<1>1. d = [entry |-> [type |-> c.entry.type, key |-> c.entry.key, mods |-> c.entry.mods \cup {mod},
                       range |-> c.entry.range, start |-> c.entry.start, end |-> c.entry.end,
                       button |-> c.entry.button],
           seq |-> c.seq]
  BY DEF ParseModifier, IsParser, IsEntry

<1>2. d.seq = c.seq
  BY <1>1
<1>3. d.entry = [type |-> c.entry.type, key |-> c.entry.key, mods |-> c.entry.mods \cup {mod},
                       range |-> c.entry.range, start |-> c.entry.start, end |-> c.entry.end,
                       button |-> c.entry.button]
  BY <1>1
<1>4. IsEntry(d.entry)
  BY <1>3 DEF IsEntry
<1>5. IsParser(d)
  BY <1>1, <1>4 DEF IsParser
<1> QED
  BY <1>2, <1>3, <1>5

LEMMA UnicodeTaken ==
  ASSUME NEW c, NEW t, NEW d, IsParser(c), d = ParseUnicode(c, t)
  PROVE  /\ IsParser(d) /\ d.seq = c.seq
         /\ d.entry.type = c.entry.type
         /\ d.entry.key = "UNICODE"
         /\ d.entry.mods = c.entry.mods
         /\ d.entry.range = (c.entry.range \/ t.range)
         /\ d.entry.start = t.start
         /\ d.entry.end = (IF t.range THEN t.end ELSE c.entry.end)
         /\ d.entry.button = c.entry.button
<1>1. d = [entry |-> [type |-> c.entry.type, key |-> "UNICODE", mods |-> c.entry.mods,
                       range |-> (c.entry.range \/ t.range), start |-> t.start,
                       end |-> IF t.range THEN t.end ELSE c.entry.end,
                       button |-> c.entry.button],
           seq |-> c.seq]
  BY DEF ParseUnicode, IsParser, IsEntry

<1>2. d.seq = c.seq
  BY <1>1
<1>3. d.entry = [type |-> c.entry.type, key |-> "UNICODE", mods |-> c.entry.mods,
                       range |-> (c.entry.range \/ t.range), start |-> t.start,
                       end |-> IF t.range THEN t.end ELSE c.entry.end,
                       button |-> c.entry.button]
  BY <1>1
<1>4. IsEntry(d.entry)
  BY <1>3 DEF IsEntry
<1>5. IsParser(d)
  BY <1>1, <1>4 DEF IsParser
<1> QED
  BY <1>2, <1>3, <1>5

LEMMA KeyTaken ==
  ASSUME NEW c, NEW t, NEW d, IsParser(c), d = ParseKey(c, t), t.key \in KeyNames
  PROVE  /\ IsParser(d) /\ d.seq = c.seq
         /\ d.entry.type = c.entry.type
         /\ d.entry.key = t.key
         /\ d.entry.mods = c.entry.mods
         /\ d.entry.range = c.entry.range
         /\ d.entry.start = c.entry.start
         /\ d.entry.end = c.entry.end
         /\ d.entry.button = c.entry.button
<1>1. d = [entry |-> [type |-> c.entry.type, key |-> t.key, mods |-> c.entry.mods,
                       range |-> c.entry.range, start |-> c.entry.start, end |-> c.entry.end,
                       button |-> c.entry.button],
           seq |-> c.seq]
  BY DEF ParseKey, IsParser, IsEntry

<1>2. d.seq = c.seq
  BY <1>1
<1>3. d.entry = [type |-> c.entry.type, key |-> t.key, mods |-> c.entry.mods,
                       range |-> c.entry.range, start |-> c.entry.start, end |-> c.entry.end,
                       button |-> c.entry.button]
  BY <1>1
<1>4. IsEntry(d.entry)
  BY <1>3 DEF IsEntry
<1>5. IsParser(d)
  BY <1>1, <1>4 DEF IsParser
<1> QED
  BY <1>2, <1>3, <1>5

LEMMA MouseTaken ==
  ASSUME NEW c, NEW t, NEW d, IsParser(c), d = ParseMouse(c, t)
  PROVE  /\ IsParser(d) /\ d.seq = c.seq
         /\ d.entry.type = TypeOfPress(t)
         /\ d.entry.key = c.entry.key
         /\ d.entry.mods = c.entry.mods
         /\ d.entry.range = c.entry.range
         /\ d.entry.start = c.entry.start
         /\ d.entry.end = c.entry.end
         /\ d.entry.button = t.button
<1>1. d = [entry |-> [type |-> TypeOfPress(t), key |-> c.entry.key, mods |-> c.entry.mods,
                       range |-> c.entry.range, start |-> c.entry.start, end |-> c.entry.end,
                       button |-> t.button],
           seq |-> c.seq]
  BY DEF ParseMouse, IsParser, IsEntry, TypeOfPress

<1>2. d.seq = c.seq
  BY <1>1
<1>3. d.entry = [type |-> TypeOfPress(t), key |-> c.entry.key, mods |-> c.entry.mods,
                       range |-> c.entry.range, start |-> c.entry.start, end |-> c.entry.end,
                       button |-> t.button]
  BY <1>1
<1>4. IsEntry(d.entry)
  BY <1>3 DEF IsEntry
<1>5. IsParser(d)
  BY <1>1, <1>4 DEF IsParser
<1> QED
  BY <1>2, <1>3, <1>5

(* What a separator makes of the parser.                                    *)
LEMMA PushedFields ==
  ASSUME NEW c, NEW s, NEW e, c = [entry |-> c.entry, seq |-> c.seq],
         NEW d, d = [c EXCEPT !.seq = s, !.entry = e]
  PROVE  d = [entry |-> e, seq |-> s]
OBVIOUS

LEMMA EntryPushed ==
  ASSUME NEW c, NEW d, IsParser(c), d = PushEntry(c)
  PROVE  /\ IsParser(d) /\ d.seq = Append(c.seq, c.entry) /\ EntryInv(d.entry, {})
<1>1. /\ NoEvent = [type |-> "keypress", key |-> "NUL", mods |-> {}, range |-> FALSE,
                    start |-> 0, end |-> 0, button |-> 0]
      /\ IsEntry(NoEvent)
  BY DEF NoEvent, IsEntry
<1>2. d = [entry |-> NoEvent, seq |-> Append(c.seq, c.entry)]
  <2>1. d = [c EXCEPT !.seq = Append(c.seq, c.entry), !.entry = NoEvent]
    BY Zenon DEF PushEntry
  <2>2. c = [entry |-> c.entry, seq |-> c.seq]
    BY DEF IsParser
  <2> QED
    BY <2>1, <2>2
<1>3. ModsIn({}) = {}
  BY DEF ModsIn
<1>4. d.entry = NoEvent /\ d.seq = Append(c.seq, c.entry)
  BY <1>2
<1>5. IsParser(d)
  BY <1>1, <1>2, <1>4 DEF IsParser
<1>6. Blank(NoEvent) /\ NoEvent.mods = {}
  BY <1>1 DEF Blank
<1>7. EntryInv(NoEvent, {})
  BY <1>3, <1>6 DEF EntryInv
<1> QED
  BY <1>4, <1>5, <1>7

\* A token that says something about a key, as WellFormed has it.
GoodToken(t) ==
  /\ t.tok \in Modifiers \cup Codes
  /\ t.tok = "key" => t.key \in KeyNames
  /\ t.tok = "unicode" => t.range \in BOOLEAN /\ (~t.range => t.end = 0)

LEMMA ModsGrow ==
  ASSUME NEW part, NEW t
  PROVE  /\ t.tok = "ctrl" => ModsIn(part \cup {t}) = ModsIn(part) \cup {"ctrl"}
         /\ t.tok = "alt" => ModsIn(part \cup {t}) = ModsIn(part) \cup {"altL"}
         /\ t.tok \in Codes => ModsIn(part \cup {t}) = ModsIn(part)
BY DEF ModsIn, Codes

(* Every token of a key, in any order, keeps the entry in step.              *)
LEMMA ModifierKeeps ==
  ASSUME NEW c, NEW t, NEW part, NEW d, NEW mod, IsParser(c), EntryInv(c.entry, part),
         d = ParseModifier(c, mod), ModsIn(part \cup {t}) = ModsIn(part) \cup {mod},
         t.tok \notin Codes
  PROVE  IsParser(d) /\ d.seq = c.seq /\ EntryInv(d.entry, part \cup {t})
<1> DEFINE e == c.entry
           f == d.entry
<1>1. /\ IsParser(d) /\ d.seq = c.seq
      /\ f.type = e.type /\ f.key = e.key /\ f.mods = e.mods \cup {mod} /\ f.range = e.range
      /\ f.start = e.start /\ f.end = e.end /\ f.button = e.button
  BY ModifierTaken
<1>2. /\ e.mods = ModsIn(part)
      /\ (\A u \in part : u.tok \notin Codes) => Blank(e)
      /\ \A u \in part : Says(e, u)
  BY DEF EntryInv
<1> HIDE DEF e, f
<1>3. \A u : Says(e, u) => Says(f, u)
  BY <1>1 DEF Says
<1>4. Blank(e) => Blank(f)
  BY <1>1 DEF Blank
<1>5. Says(f, t)
  BY DEF Says, Codes
<1>6. EntryInv(f, part \cup {t})
  BY <1>1, <1>2, <1>3, <1>4, <1>5 DEF EntryInv
<1> QED
  BY <1>1, <1>6 DEF f

LEMMA TokenTaken ==
  ASSUME NEW c, NEW t, NEW part, NEW d, IsParser(c), GoodToken(t), EntryInv(c.entry, part),
         t.tok \in Codes => \A u \in part : u.tok \notin Codes,
         d = TakeToken(c, t)
  PROVE  IsParser(d) /\ d.seq = c.seq /\ EntryInv(d.entry, part \cup {t})
<1> DEFINE e == c.entry
           f == d.entry
<1>1. CASE t.tok = "ctrl"
  <2>1. d = ParseModifier(c, "ctrl")
    BY <1>1, Zenon DEF TakeToken
  <2>2. t.tok \notin Codes
    BY <1>1 DEF Codes
  <2>3. ModsIn(part \cup {t}) = ModsIn(part) \cup {"ctrl"}
    BY <1>1, ModsGrow
  <2> QED
    BY <2>1, <2>2, <2>3, ModifierKeeps
<1>2. CASE t.tok = "alt"
  <2>1. d = ParseModifier(c, "altL")
    BY <1>2, Zenon DEF TakeToken
  <2>2. t.tok \notin Codes
    BY <1>2 DEF Codes
  <2>3. ModsIn(part \cup {t}) = ModsIn(part) \cup {"altL"}
    BY <1>2, ModsGrow
  <2> QED
    BY <2>1, <2>2, <2>3, ModifierKeeps
<1>3. CASE t.tok \in Codes
  <2>1. /\ e.type = "keypress" /\ e.key = "NUL" /\ e.range = FALSE
        /\ e.start = 0 /\ e.end = 0 /\ e.button = 0 /\ e.mods = ModsIn(part)
        /\ \A u \in part : u.tok \notin Codes
    BY <1>3 DEF EntryInv, Blank
  <2>2. ModsIn(part \cup {t}) = ModsIn(part)
    BY <1>3, ModsGrow
  <2>3. \A u \in part : Says(f, u)
    BY <2>1 DEF Says, Codes
  <2>4. IsParser(d) /\ d.seq = c.seq /\ f.mods = e.mods /\ Says(f, t)
    <3>1. CASE t.tok = "unicode"
      <4>1. d = ParseUnicode(c, t)
        BY <3>1, Zenon DEF TakeToken
      <4>2. /\ IsParser(d) /\ d.seq = c.seq
            /\ f.type = e.type /\ f.key = "UNICODE" /\ f.mods = e.mods
            /\ f.range = (e.range \/ t.range) /\ f.start = t.start
            /\ f.end = IF t.range THEN t.end ELSE e.end
        BY <4>1, UnicodeTaken
      <4>3. (e.range \/ t.range) = t.range /\ (IF t.range THEN t.end ELSE e.end) = t.end
        BY <3>1, <2>1 DEF GoodToken
      <4> HIDE DEF e, f
      <4> QED
        BY <3>1, <2>1, <4>2, <4>3 DEF Says
    <3>2. CASE t.tok = "key"
      <4>1. d = ParseKey(c, t) /\ t.key \in KeyNames
        BY <3>2, Zenon DEF TakeToken, GoodToken
      <4>2. /\ IsParser(d) /\ d.seq = c.seq
            /\ f.type = e.type /\ f.key = t.key /\ f.mods = e.mods
            /\ f.range = e.range /\ f.start = e.start /\ f.end = e.end
        BY <4>1, KeyTaken
      <4> HIDE DEF e, f
      <4> QED
        BY <3>2, <2>1, <4>2 DEF Says
    <3>3. CASE t.tok = "mouse"
      <4>1. d = ParseMouse(c, t)
        BY <3>3, Zenon DEF TakeToken
      <4>2. /\ IsParser(d) /\ d.seq = c.seq
            /\ f.type = TypeOfPress(t) /\ f.mods = e.mods /\ f.button = t.button
        BY <4>1, MouseTaken
      <4> HIDE DEF e, f
      <4> QED
        BY <3>3, <2>1, <4>2 DEF Says
    <3> QED
      BY <1>3, <3>1, <3>2, <3>3 DEF Codes
  <2> HIDE DEF e, f
  <2>5. EntryInv(f, part \cup {t})
    BY <1>3, <2>1, <2>2, <2>3, <2>4 DEF EntryInv
  <2> QED
    BY <2>4, <2>5 DEF f
<1> QED
  BY <1>1, <1>2, <1>3 DEF GoodToken, Modifiers

(* A key read is the event its tokens describe.                            *)
LEMMA EntryIsDescribed ==
  ASSUME NEW e, NEW part, NEW t \in part, t.tok \in Codes,
         \A u \in part : u.tok \in Codes => u = t, EntryInv(e, part)
  PROVE  Same(e, Described(part)) /\ Plain(Described(part))
<1> DEFINE v == EventOf(t, ModsIn(part))
<1>1. Described(part) = v
  BY DescribedIsEventOf
<1>2. Plain(v)
  BY EventOfIs DEF Plain
<1>3. CASE t.tok = "mouse"
  <2>1. v = MouseEntry(TypeOfPress(t), t.button)
    BY <1>3, Zenon DEF EventOf, TypeOfPress
  <2> HIDE DEF v
  <2>2. v = [type |-> TypeOfPress(t), key |-> "NUL", mods |-> {}, range |-> FALSE,
             start |-> 0, end |-> 0, button |-> t.button]
    BY <2>1, MouseEntryIs
  <2>3. e.type = TypeOfPress(t) /\ e.button = t.button /\ TypeOfPress(t) # "keypress"
    BY <1>3 DEF EntryInv, Says, TypeOfPress
  <2>4. Same(e, v)
    BY <2>2, <2>3 DEF Same
  <2> QED BY <2>4, <1>1, <1>2, Zenon
<1>4. CASE t.tok = "unicode"
  <2>1. v = KeyEntry(ModsIn(part), "UNICODE", t.range, t.start, t.end)
    BY <1>4, Zenon DEF EventOf
  <2> HIDE DEF v
  <2>2. v = [type |-> "keypress", key |-> "UNICODE", mods |-> ModsIn(part), range |-> t.range,
              start |-> t.start, end |-> t.end, button |-> 0]
    BY <2>1, KeyEntryIs
  <2>3. Same(e, v)
    BY <1>4, <2>2 DEF Same, EntryInv, Says
  <2> QED BY <2>3, <1>1, <1>2, Zenon
<1>5. CASE t.tok = "key"
  <2>1. v = KeyEntry(ModsIn(part), t.key, FALSE, 0, 0)
    BY <1>5, Zenon DEF EventOf
  <2> HIDE DEF v
  <2>2. v = [type |-> "keypress", key |-> t.key, mods |-> ModsIn(part), range |-> FALSE,
              start |-> 0, end |-> 0, button |-> 0]
    BY <2>1, KeyEntryIs
  <2>3. Same(e, v)
    BY <1>5, <2>2 DEF Same, EntryInv, Says
  <2> QED BY <2>3, <1>1, <1>2, Zenon
<1> QED
  BY <1>3, <1>4, <1>5 DEF Codes

-----------------------------------------------------------------------------
(* The parser: a line.                                                      *)

(* A separator, and nothing else, begins the next key.                       *)
LEMMA KeyOfGrows ==
  ASSUME NEW line, NEW p \in Nat \ {0}
  PROVE  /\ KeyOf(line, p) \in Nat \ {0}
         /\ KeyOf(line, 1) = 1
         /\ KeyOf(line, p + 1) = KeyOf(line, p) + (IF line[p].tok = "comma" THEN 1 ELSE 0)
<1> DEFINE C(q) == {x \in 1 .. q - 1 : line[x].tok = "comma"}
<1>1. IsFiniteSet(C(p))
  <2>1. IsFiniteSet(1 .. p - 1)
    BY FS_Interval
  <2> QED
    BY <2>1, FS_Subset
<1>2. Cardinality(C(p)) \in Nat
  BY <1>1, FS_CardinalityType
<1>3. C(1) = {}
  OBVIOUS
<1>4. C(p + 1) = IF line[p].tok = "comma" THEN C(p) \cup {p} ELSE C(p)
  OBVIOUS
<1>5. p \notin C(p)
  OBVIOUS
<1>6. Cardinality(C(p + 1)) = Cardinality(C(p)) + (IF line[p].tok = "comma" THEN 1 ELSE 0)
  <2> HIDE DEF C
  <2>1. Cardinality(C(p) \cup {p}) = Cardinality(C(p)) + 1
    BY <1>1, <1>5, FS_AddElement
  <2> QED
    BY <1>2, <1>4, <2>1
<1>7. Cardinality(C(1)) = 0
  BY <1>3, FS_EmptySet
<1>8. \A q : KeyOf(line, q) = 1 + Cardinality(C(q))
  BY DEF KeyOf
<1> HIDE DEF C
<1> QED
  BY <1>2, <1>6, <1>7, <1>8

LEMMA KeyOfMonotone ==
  ASSUME NEW line, NEW p \in Nat \ {0}, NEW q \in p .. p + 1
  PROVE  KeyOf(line, p) <= KeyOf(line, q)
BY KeyOfGrows

(* The keys of the tokens grow along the line.                             *)
LEMMA KeyOfOrder ==
  ASSUME NEW line, NEW p \in Nat \ {0}, NEW q \in Nat, p <= q
  PROVE  KeyOf(line, p) <= KeyOf(line, q)
<1> DEFINE S == {d \in Nat : KeyOf(line, p) <= KeyOf(line, p + d)}
<1>1. 0 \in S
  BY KeyOfGrows
<1>2. ASSUME NEW d \in Nat, d \in S PROVE d + 1 \in S
  <2>1. KeyOf(line, p + d + 1) >= KeyOf(line, p + d) /\ KeyOf(line, p + d + 1) \in Nat
    BY KeyOfGrows
  <2>2. KeyOf(line, p) <= KeyOf(line, p + d) /\ KeyOf(line, p + d) \in Nat /\ KeyOf(line, p) \in Nat
    BY <1>2, KeyOfGrows
  <2>3. p + d + 1 = p + (d + 1)
    OBVIOUS
  <2> QED
    BY <2>1, <2>2, <2>3
<1>3. Nat \subseteq S
  <2> HIDE DEF S
  <2> QED BY <1>1, <1>2, NatSetInduction
<1>4. q - p \in S
  BY <1>3
<1>5. p + (q - p) = q
  OBVIOUS
<1> QED
  BY <1>4, <1>5

Beginning == [entry |-> NoEvent, seq |-> <<>>]

\* f is what the parser has after each token.
ParsesTo(line, f) ==
  f = [k \in 0 .. Len(line) |->
         IF k = 0 THEN Beginning ELSE TakeToken(f[k - 1], line[k])]

ParsesUpTo(line, n, f) ==
  f = [k \in 0 .. n |-> IF k = 0 THEN Beginning ELSE TakeToken(f[k - 1], line[k])]

(* The states of the parser exist, and there is one such function.          *)
LEMMA OneTokenMore ==
  ASSUME NEW line, NEW n \in Nat, NEW f, ParsesUpTo(line, n, f), NEW g,
         g = [k \in 0 .. n + 1 |-> IF k <= n THEN f[k] ELSE TakeToken(f[n], line[n + 1])]
  PROVE  ParsesUpTo(line, n + 1, g)
<1> DEFINE R(k) == IF k = 0 THEN Beginning ELSE TakeToken(g[k - 1], line[k])
<1>0. \A k \in 0 .. n : f[k] = IF k = 0 THEN Beginning ELSE TakeToken(f[k - 1], line[k])
  BY DEF ParsesUpTo
<1>1. \A k \in 0 .. n + 1 : g[k] = R(k)
  <2> TAKE k \in 0 .. n + 1
  <2>1. CASE k = 0
    BY <2>1, <1>0
  <2>2. CASE k \in 1 .. n
    <3>1. g[k] = f[k] /\ g[k - 1] = f[k - 1]
      BY <2>2
    <3> QED BY <2>2, <3>1, <1>0
  <2>3. CASE k = n + 1
    <3>1. g[k] = TakeToken(f[n], line[n + 1]) /\ g[k - 1] = f[n]
      BY <2>3
    <3> QED BY <2>3, <3>1
  <2> QED BY <2>1, <2>2, <2>3
<1>2. g = [k \in 0 .. n + 1 |-> g[k]]
  OBVIOUS
<1>3. g = [k \in 0 .. n + 1 |-> R(k)]
  <2> HIDE DEF R
  <2> QED BY <1>1, <1>2
<1> QED
  BY <1>3, Zenon DEF ParsesUpTo

LEMMA ParsesExist ==
  ASSUME NEW line, Len(line) \in Nat
  PROVE  \E f : ParsesTo(line, f)
<1> DEFINE S == {n \in Nat : \E f : ParsesUpTo(line, n, f)}
<1>1. 0 \in S
  <2> DEFINE f == [k \in 0 .. 0 |-> Beginning]
  <2>1. ParsesUpTo(line, 0, f)
    BY DEF ParsesUpTo
  <2> QED
    BY <2>1
<1>2. ASSUME NEW n \in Nat, n \in S PROVE n + 1 \in S
  <2>1. PICK f : ParsesUpTo(line, n, f)
    BY <1>2
  <2>2. ParsesUpTo(line, n + 1,
                   [k \in 0 .. n + 1 |-> IF k <= n THEN f[k] ELSE TakeToken(f[n], line[n + 1])])
    BY <2>1, OneTokenMore
  <2> QED
    BY <2>2
<1>3. Nat \subseteq S
  <2> HIDE DEF S
  <2> QED BY <1>1, <1>2, NatSetInduction
<1>4. PICK f : ParsesUpTo(line, Len(line), f)
  BY <1>3
<1> QED
  BY <1>4 DEF ParsesTo, ParsesUpTo

(* The sequence parsed is that of the last state.                            *)
LEMMA ParsedLineIs ==
  ASSUME NEW line, Len(line) \in Nat
  PROVE  \E f : ParsesTo(line, f) /\ ParsedLine(line) = f[Len(line)].seq
<1> DEFINE f == CHOOSE f : ParsesTo(line, f)
<1>1. ParsesTo(line, f)
  BY ParsesExist
<1>2. ParsedLine(line) = f[Len(line)].seq
  BY DEF ParsedLine, ParsesTo, Beginning
<1> QED
  BY <1>1, <1>2

\* Sequences, of whatever.
IsSeq(s) == \E S : s \in Seq(S)

LEMMA OneMore ==
  ASSUME NEW s, IsSeq(s), NEW e
  PROVE  /\ IsSeq(Append(s, e)) /\ Len(s) \in Nat /\ Len(Append(s, e)) = Len(s) + 1
         /\ Append(s, e)[Len(s) + 1] = e
         /\ \A k \in 1 .. Len(s) : Append(s, e)[k] = s[k]
<1>1. PICK S : s \in Seq(S)
  BY DEF IsSeq
<1>2. s \in [1 .. Len(s) -> S] /\ Len(s) \in Nat
  BY <1>1
<1>3. s \in Seq(S \cup {e})
  BY <1>2, SeqDef
<1>4. Append(s, e) \in Seq(S \cup {e})
  BY <1>3
<1> QED
  BY <1>3, <1>4, AppendProperties DEF IsSeq

\* The tokens of key k, and those of the key being read after p tokens.
PartOf(line, k) == {line[p] : p \in {q \in DOMAIN line : KeyOf(line, q) = k}}

PartSoFar(line, p) == {line[q] : q \in {r \in 1 .. p : KeyOf(line, r) = KeyOf(line, p + 1)}}

\* The sequence holds the first n keys the line describes.
Read(line, s, n) ==
  /\ IsSeq(s) /\ Len(s) = n
  /\ \A k \in 1 .. n : Same(s[k], Described(PartOf(line, k))) /\ Plain(Described(PartOf(line, k)))

\* What the parser has after p tokens.
LineInv(line, c, p) ==
  /\ IsParser(c)
  /\ Read(line, c.seq, KeyOf(line, p + 1) - 1)
  /\ EntryInv(c.entry, PartSoFar(line, p))

(* Every key of a line has its one code.                                     *)
LEMMA OneCode ==
  ASSUME NEW line, WellFormed(line), NEW k \in 1 .. KeyOf(line, Len(line))
  PROVE  \E p \in DOMAIN line :
           \A q \in DOMAIN line : KeyOf(line, q) = k /\ line[q].tok \in Codes <=> q = p
BY DEF WellFormed

(* The separator ends the key before it.                                   *)
LEMMA SeparatorTaken ==
  ASSUME NEW line, WellFormed(line), NEW p \in 0 .. Len(line) - 1, NEW c, LineInv(line, c, p),
         line[p + 1].tok \in {"comma", "eq"}, NEW d, d = PushEntry(c)
  PROVE  /\ IsParser(d) /\ EntryInv(d.entry, {})
         /\ Read(line, d.seq, KeyOf(line, p + 1))
<1> DEFINE k == KeyOf(line, p + 1)
           e == c.entry
           t == line[p + 1]
<1>1. Len(line) \in Nat \ {0} /\ DOMAIN line = 1 .. Len(line) /\ p + 1 \in DOMAIN line
  BY DEF WellFormed
<1>2. k \in 1 .. KeyOf(line, Len(line))
  BY <1>1, KeyOfGrows, KeyOfOrder
<1>3. PartOf(line, k) = PartSoFar(line, p) \cup {t}
  <2>1. ASSUME NEW q \in DOMAIN line PROVE KeyOf(line, q) = k <=> (q \in 1 .. p /\ KeyOf(line, q) = k) \/ q = p + 1
    <3>1. CASE q <= p + 1
      BY <3>1, <1>1
    <3>2. CASE q > p + 1
      <4>1. line[p + 1].tok = "comma"
        BY <3>2, <1>1 DEF WellFormed
      <4>2. KeyOf(line, p + 1 + 1) = k + 1
        BY <4>1, <1>1, KeyOfGrows
      <4>3. KeyOf(line, p + 1 + 1) <= KeyOf(line, q)
        BY <3>2, <1>1, KeyOfOrder
      <4>4. KeyOf(line, q) \in Nat /\ k \in Nat
        <5>1. q \in Nat \ {0} /\ p + 1 \in Nat \ {0}
          BY <1>1
        <5> QED BY <5>1, KeyOfGrows
      <4>5. q # p + 1 /\ q \notin 1 .. p
        BY <3>2, <1>1
      <4> HIDE DEF k
      <4> QED
        BY <4>2, <4>3, <4>4, <4>5
    <3> QED
      BY <3>1, <3>2, <1>1
  <2>2. {q \in DOMAIN line : KeyOf(line, q) = k} = {q \in 1 .. p : KeyOf(line, q) = k} \cup {p + 1}
    <3>1. p + 1 \in DOMAIN line /\ 1 .. p \subseteq DOMAIN line
      BY <1>1
    <3> HIDE DEF k
    <3> QED BY <2>1, <3>1
  <2> HIDE DEF k
  <2>3. PartOf(line, k) = {line[q] : q \in {q \in 1 .. p : KeyOf(line, q) = k} \cup {p + 1}}
    BY <2>2 DEF PartOf
  <2>4. PartSoFar(line, p) = {line[q] : q \in {q \in 1 .. p : KeyOf(line, q) = k}}
    BY DEF PartSoFar, k
  <2> QED
    BY <2>3, <2>4
<1>4. EntryInv(e, PartOf(line, k))
  <2>1. t.tok \notin Codes /\ t.tok # "ctrl" /\ t.tok # "alt"
    BY DEF Codes
  <2>2. ModsIn(PartSoFar(line, p) \cup {t}) = ModsIn(PartSoFar(line, p))
    BY <2>1 DEF ModsIn
  <2>3. EntryInv(e, PartSoFar(line, p))
    BY DEF LineInv
  <2>4. Says(e, t)
    BY <2>1 DEF Says, Codes
  <2> DEFINE before == PartSoFar(line, p)
             part   == PartOf(line, k)
  <2>5. part = before \cup {t}
    BY <1>3
  <2> HIDE DEF t, e, k, before, part
  <2>6. /\ e.mods = ModsIn(before)
        /\ (\A u \in before : u.tok \notin Codes) => Blank(e)
        /\ \A u \in before : Says(e, u)
    BY <2>3 DEF EntryInv, before
  <2>7. e.mods = ModsIn(part)
    BY <2>2, <2>5, <2>6 DEF before
  <2>8. (\A u \in part : u.tok \notin Codes) => Blank(e)
    BY <2>5, <2>6
  <2>9. \A u \in part : Says(e, u)
    BY <2>4, <2>5, <2>6
  <2> QED
    BY <2>7, <2>8, <2>9 DEF EntryInv, part
<1>5. Same(e, Described(PartOf(line, k))) /\ Plain(Described(PartOf(line, k)))
  <2> HIDE DEF k
  <2>1. PICK q \in DOMAIN line :
          \A r \in DOMAIN line : KeyOf(line, r) = k /\ line[r].tok \in Codes <=> r = q
    BY <1>2, OneCode
  <2>2. line[q] \in PartOf(line, k) /\ line[q].tok \in Codes
    BY <2>1 DEF PartOf
  <2>3. \A u \in PartOf(line, k) : u.tok \in Codes => u = line[q]
    BY <2>1 DEF PartOf
  <2> HIDE DEF e
  <2> QED
    BY <1>4, <2>2, <2>3, EntryIsDescribed
<1>6. IsParser(d) /\ EntryInv(d.entry, {}) /\ d.seq = Append(c.seq, e)
  BY EntryPushed DEF LineInv
<1>7. Read(line, c.seq, k - 1)
  BY DEF LineInv
<1>8. k \in Nat \ {0}
  BY KeyOfGrows
<1>9. Read(line, d.seq, k)
  <2> HIDE DEF e, k
  <2>1. /\ IsSeq(d.seq) /\ Len(c.seq) = k - 1 /\ Len(d.seq) = k /\ d.seq[k] = e
        /\ \A j \in 1 .. k - 1 : d.seq[j] = c.seq[j]
    BY <1>6, <1>7, <1>8, OneMore DEF Read
  <2>2. \A j \in 1 .. k : j = k \/ j \in 1 .. k - 1
    BY <1>8
  <2>3. \A j \in 1 .. k - 1 : Same(c.seq[j], Described(PartOf(line, j))) /\ Plain(Described(PartOf(line, j)))
    BY <1>7 DEF Read
  <2> QED
    BY <1>5, <2>1, <2>2, <2>3 DEF Read
<1> QED
  BY <1>6, <1>9

LEMMA BeforeTheLast ==
  ASSUME NEW n \in Nat, NEW p \in 0 .. n - 2
  PROVE  p + 1 \in 1 .. n /\ p + 1 # n /\ p + 1 \in Nat \ {0} /\ p + 1 <= n
         /\ p \in 0 .. n - 1 /\ 1 .. p \subseteq 1 .. n /\ p + 1 \notin 1 .. p
OBVIOUS

(* A token that is no separator belongs to the key being read.               *)
LEMMA TokenAdded ==
  ASSUME NEW line, WellFormed(line), NEW p \in 0 .. Len(line) - 2, NEW c, LineInv(line, c, p),
         NEW d, d = TakeToken(c, line[p + 1])
  PROVE  LineInv(line, d, p + 1)
<1> DEFINE k == KeyOf(line, p + 1)
           t == line[p + 1]
<1>1. /\ Len(line) \in Nat \ {0} /\ DOMAIN line = 1 .. Len(line) /\ p + 1 \in DOMAIN line
      /\ p + 1 # Len(line) /\ p + 1 \in Nat \ {0} /\ p + 1 <= Len(line)
      /\ p \in 0 .. Len(line) - 1 /\ 1 .. p \subseteq DOMAIN line /\ p + 1 \notin 1 .. p
  <2>1. Len(line) \in Nat \ {0} /\ DOMAIN line = 1 .. Len(line)
    BY DEF WellFormed
  <2>2. Len(line) \in Nat
    BY <2>1
  <2> QED
    BY <2>1, <2>2, BeforeTheLast
<1>2. /\ t.tok \in Modifiers \cup Codes \cup {"comma"}
      /\ t.tok = "key" => t.key \in KeyNames
      /\ t.tok = "unicode" => t.range \in BOOLEAN /\ (~t.range => t.end = 0)
  BY <1>1 DEF WellFormed
<1>3. CASE t.tok = "comma"
  <2>1. d = PushEntry(c)
    BY <1>3, Zenon DEF TakeToken
  <2>2. IsParser(d) /\ EntryInv(d.entry, {}) /\ Read(line, d.seq, k)
    BY <2>1, <1>3, SeparatorTaken
  <2>3. KeyOf(line, p + 1 + 1) = k + 1 /\ k \in Nat
    BY <1>3, KeyOfGrows
  <2>4. PartSoFar(line, p + 1) = {}
    <3>1. \A r \in 1 .. p + 1 : KeyOf(line, r) <= k
      BY KeyOfOrder
    <3>2. \A r \in 1 .. p + 1 : KeyOf(line, r) # k + 1
      BY <3>1, <2>3, KeyOfGrows
    <3> HIDE DEF k
    <3> QED
      BY <3>2, <2>3 DEF PartSoFar
  <2>5. KeyOf(line, p + 1 + 1) - 1 = k
    BY <2>3
  <2> HIDE DEF k
  <2> QED
    BY <2>2, <2>4, <2>5 DEF LineInv
<1>4. CASE t.tok # "comma"
  <2>1. GoodToken(t)
    BY <1>2, <1>4 DEF GoodToken
  <2>2. KeyOf(line, p + 1 + 1) = k /\ k \in Nat
    <3>1. KeyOf(line, p + 1) \in Nat /\ KeyOf(line, p + 1 + 1) = KeyOf(line, p + 1) + 0
      BY <1>1, <1>4, KeyOfGrows
    <3> QED BY <3>1
  <2>3. PartSoFar(line, p + 1) = PartSoFar(line, p) \cup {t}
    <3>1. {r \in 1 .. p + 1 : KeyOf(line, r) = k} = {r \in 1 .. p : KeyOf(line, r) = k} \cup {p + 1}
      <4>1. \A r : r \in 1 .. p + 1 <=> r \in 1 .. p \/ r = p + 1
        OBVIOUS
      <4> QED BY <4>1
    <3> HIDE DEF k
    <3>2. PartSoFar(line, p + 1) = {line[q] : q \in {r \in 1 .. p : KeyOf(line, r) = k} \cup {p + 1}}
      BY <2>2, <3>1 DEF PartSoFar
    <3>3. PartSoFar(line, p) = {line[q] : q \in {r \in 1 .. p : KeyOf(line, r) = k}}
      BY DEF PartSoFar, k
    <3> QED
      BY <3>2, <3>3
  <2>4. t.tok \in Codes => \A u \in PartSoFar(line, p) : u.tok \notin Codes
    <3>1. k \in 1 .. KeyOf(line, Len(line))
      <4>1. p + 1 <= Len(line) /\ Len(line) \in Nat \ {0}
        BY <1>1
      <4>2. KeyOf(line, p + 1) <= KeyOf(line, Len(line))
        BY <1>1, <4>1, KeyOfOrder
      <4>3. KeyOf(line, p + 1) \in Nat \ {0} /\ KeyOf(line, Len(line)) \in Nat
        BY <1>1, <4>1, KeyOfGrows
      <4> QED BY <4>2, <4>3
    <3> HIDE DEF k
    <3>2. PICK q \in DOMAIN line :
            \A r \in DOMAIN line : KeyOf(line, r) = k /\ line[r].tok \in Codes <=> r = q
      BY <3>1, OneCode
    <3>3. ASSUME t.tok \in Codes, NEW r \in 1 .. p, KeyOf(line, r) = k
          PROVE  line[r].tok \notin Codes
      <4>1. q = p + 1
        BY <3>2, <3>3, <1>1 DEF k
      <4>2. r \in DOMAIN line /\ r # q
        BY <4>1, <1>1, Zenon
      <4> QED
        BY <3>2, <3>3, <4>2
    <3>4. ASSUME t.tok \in Codes, NEW u \in PartSoFar(line, p) PROVE u.tok \notin Codes
      <4>1. PICK r \in 1 .. p : u = line[r] /\ KeyOf(line, r) = k
        BY DEF PartSoFar, k
      <4> QED
        BY <3>3, <3>4, <4>1
    <3> QED
      BY <3>4
  <2>5. IsParser(d) /\ d.seq = c.seq /\ EntryInv(d.entry, PartSoFar(line, p) \cup {t})
    <3>1. IsParser(c) /\ EntryInv(c.entry, PartSoFar(line, p))
      BY DEF LineInv
    <3>2. d = TakeToken(c, t)
      OBVIOUS
    <3> HIDE DEF k, t
    <3> QED
      BY <2>1, <2>4, <3>1, <3>2, TokenTaken, Zenon
  <2> HIDE DEF k, t
  <2>6. Read(line, d.seq, KeyOf(line, p + 1 + 1) - 1)
    BY <2>2, <2>5 DEF LineInv, k
  <2> QED
    BY <2>3, <2>5, <2>6 DEF LineInv
<1> QED
  BY <1>3, <1>4

(* The sequence of a line is the sequence of the keys of its binding.      *)
LEMMA LineParsed ==
  ASSUME NEW line, WellFormed(line)
  PROVE  /\ IsSeq(ParsedLine(line)) /\ Len(ParsedLine(line)) = KeyOf(line, Len(line))
         /\ KeyOf(line, Len(line)) \in Nat \ {0}
         /\ \A k \in 1 .. KeyOf(line, Len(line)) :
              Same(ParsedLine(line)[k], Binding(line).keys[k]) /\ Plain(Binding(line).keys[k])
<1>1. Len(line) \in Nat \ {0} /\ DOMAIN line = 1 .. Len(line)
  BY DEF WellFormed
<1>2. PICK f : ParsesTo(line, f) /\ ParsedLine(line) = f[Len(line)].seq
  BY <1>1, ParsedLineIs
<1>3. /\ f[0] = Beginning
      /\ \A p \in 0 .. Len(line) - 1 : f[p + 1] = TakeToken(f[p], line[p + 1])
  BY <1>1, <1>2 DEF ParsesTo
<1> DEFINE S == {p \in 0 .. Len(line) - 1 : LineInv(line, f[p], p)}
<1>4. 0 \in S
  <2>1. IsParser(Beginning) /\ Beginning.seq = <<>> /\ Beginning.entry = NoEvent
    BY DEF IsParser, IsEntry, Beginning, NoEvent
  <2>2. PartSoFar(line, 0) = {} /\ ModsIn({}) = {}
    BY DEF PartSoFar, ModsIn
  <2>3. EntryInv(NoEvent, {})
    BY <2>2 DEF EntryInv, Blank, NoEvent
  <2>4. IsSeq(<<>>) /\ Len(<<>>) = 0
    <3>1. <<>> \in Seq({})
      OBVIOUS
    <3> QED BY <3>1 DEF IsSeq
  <2>5. KeyOf(line, 0 + 1) - 1 = 0
    BY KeyOfGrows
  <2>6. Read(line, <<>>, 0)
    BY <2>4 DEF Read
  <2>7. LineInv(line, Beginning, 0)
    BY <2>1, <2>2, <2>3, <2>5, <2>6 DEF LineInv
  <2> QED
    BY <1>1, <1>3, <2>7
<1>5. \A p \in 0 .. (Len(line) - 1) - 1 : p \in S => p + 1 \in S
  <2> TAKE p \in 0 .. (Len(line) - 1) - 1
  <2> HAVE p \in S
  <2>1. p \in 0 .. Len(line) - 2 /\ f[p + 1] = TakeToken(f[p], line[p + 1]) /\ LineInv(line, f[p], p)
    BY <1>1, <1>3
  <2>2. LineInv(line, f[p + 1], p + 1)
    BY <2>1, TokenAdded
  <2> QED
    BY <1>1, <2>2
<1>6. Len(line) - 1 \in S
  <2>1. Len(line) - 1 \in Nat
    BY <1>1
  <2> HIDE DEF S
  <2>2. \A p \in 0 .. Len(line) - 1 : p \in S
    BY <1>4, <1>5, <2>1, UpToInduction
  <2> QED BY <2>1, <2>2
<1> DEFINE l == Len(line) - 1
<1>7. l \in 0 .. Len(line) - 1 /\ l + 1 = Len(line) /\ LineInv(line, f[l], l)
  BY <1>1, <1>6
<1>8. line[l + 1].tok = "eq" /\ f[l + 1] = PushEntry(f[l])
  <2>1. line[l + 1].tok = "eq"
    BY <1>1, <1>7 DEF WellFormed
  <2>2. f[l + 1] = TakeToken(f[l], line[l + 1])
    BY <1>3, <1>7
  <2> QED
    BY <2>1, <2>2, Zenon DEF TakeToken
<1> HIDE DEF l
<1>9. Read(line, f[l + 1].seq, KeyOf(line, l + 1))
  BY <1>7, <1>8, SeparatorTaken
<1>10. Read(line, ParsedLine(line), KeyOf(line, Len(line)))
  BY <1>2, <1>7, <1>9
<1>11. KeyOf(line, Len(line)) \in Nat \ {0}
  BY <1>1, KeyOfGrows
<1>12. \A k \in 1 .. KeyOf(line, Len(line)) : Binding(line).keys[k] = Described(PartOf(line, k))
  BY DEF Binding, PartOf
<1> QED
  BY <1>10, <1>11, <1>12 DEF Read

-----------------------------------------------------------------------------
(* The tree of the lines read.                                              *)

\* Bindings as the configuration gives them, L of them.
GoodBindings(B, L) ==
  /\ L \in Nat /\ DOMAIN B = 1 .. L
  /\ \A i \in 1 .. L :
       /\ Len(B[i].keys) \in Nat \ {0}
       /\ \A k \in 1 .. Len(B[i].keys) : Plain(B[i].keys[k])
       /\ B[i].action # NoAction

\* The lines up to n that have exactly the first k keys of line j.
Exactly(B, n, j, k) == {i \in 1 .. n : Len(B[i].keys) = k /\ SameStart(B[j], B[i], k)}

\* N[j][k] is the node that line j reaches with its first k keys.
Paths(B, n, nds, N) ==
  \A j \in 1 .. n :
    /\ N[j][0] = Root
    /\ \A k \in 1 .. Len(B[j].keys) :
         /\ N[j][k] \in 1 .. Len(nds)
         /\ nds[N[j][k]].parent = N[j][k - 1]
         /\ Same(nds[N[j][k]].ev, B[j].keys[k])

\* Two lines share the nodes of the keys they begin with, and no other.
Sharing(B, n, N) ==
  \A i, j \in 1 .. n : \A k \in 0 .. Len(B[i].keys), m \in 0 .. Len(B[j].keys) :
    N[i][k] = N[j][m] <=> k = m /\ SameStart(B[i], B[j], k)

\* There are no other nodes.
Reached(B, n, nds, N) ==
  \A x \in 1 .. Len(nds) : \E j \in 1 .. n : \E k \in 1 .. Len(B[j].keys) : x = N[j][k]

\* A start that was begun later has a later node.
LaterIsHigher(B, n, N) ==
  \A i, j \in 1 .. n : \A k \in 1 .. Len(B[i].keys) :
    Len(B[j].keys) >= k /\ Begun(B, i, k) < Begun(B, j, k) => N[i][k] < N[j][k]

\* A node has the action of the last line that ends there.
Actions(B, n, nds, N) ==
  \A j \in 1 .. n : \A k \in 1 .. Len(B[j].keys) :
    nds[N[j][k]].action =
      IF Exactly(B, n, j, k) = {} THEN NoAction ELSE B[Max(Exactly(B, n, j, k))].action

\* The tree is what the first n lines describe.
Index(B, n, nds, N) ==
  /\ IsSeq(nds)
  /\ \A x \in 1 .. Len(nds) : nds[x] = [parent |-> nds[x].parent, ev |-> nds[x].ev, action |-> nds[x].action]
  /\ Paths(B, n, nds, N)
  /\ Sharing(B, n, N)
  /\ Reached(B, n, nds, N)
  /\ LaterIsHigher(B, n, N)
  /\ Actions(B, n, nds, N)

LEMMA SameStartIs ==
  /\ \A b, k : k <= Len(b.keys) => SameStart(b, b, k)
  /\ \A b, c, k : k <= Len(b.keys) /\ SameStart(b, c, k) => SameStart(c, b, k)
  /\ \A b, c, d, k : SameStart(b, c, k) /\ SameStart(c, d, k) => SameStart(b, d, k)
  /\ \A b, c : \A k \in Nat : \A m \in 0 .. k :
       Len(c.keys) \in Nat /\ SameStart(b, c, k) => SameStart(b, c, m)
BY DEF SameStart

(* Where a start was begun.                                                  *)
LEMMA BegunIs ==
  ASSUME NEW B, NEW L, GoodBindings(B, L), NEW i \in 1 .. L, NEW k \in 0 .. Len(B[i].keys)
  PROVE  /\ Begun(B, i, k) \in 1 .. i
         /\ SameStart(B[i], B[Begun(B, i, k)], k)
         /\ \A j \in 1 .. L : SameStart(B[i], B[j], k) => Begun(B, i, k) <= j
<1> DEFINE S == {j \in 1 .. L : SameStart(B[i], B[j], k)}
<1>1. DOMAIN B = 1 .. L /\ Len(B[i].keys) \in Nat /\ L \in Nat
  BY DEF GoodBindings
<1>2. i \in S
  <2>1. k <= Len(B[i].keys)
    BY <1>1
  <2> QED
    BY <2>1, SameStartIs
<1>3. S \in SUBSET Nat
  OBVIOUS
<1>4. Begun(B, i, k) = Min(S)
  BY <1>1 DEF Begun
<1>5. Min(S) \in S /\ \A y \in S : Min(S) <= y
  <2> HIDE DEF S
  <2> QED
    BY <1>2, <1>3, MinIsThere
<1> QED
  BY <1>2, <1>4, <1>5

(* Two lines have the same start exactly if it was begun by the same line. *)
LEMMA BegunTogether ==
  ASSUME NEW B, NEW L, GoodBindings(B, L), NEW i \in 1 .. L, NEW j \in 1 .. L,
         NEW k \in 0 .. Len(B[i].keys), k <= Len(B[j].keys)
  PROVE  SameStart(B[i], B[j], k) <=> Begun(B, i, k) = Begun(B, j, k)
<1>1. Len(B[i].keys) \in Nat /\ Len(B[j].keys) \in Nat /\ DOMAIN B = 1 .. L
  BY DEF GoodBindings
<1>2. k \in 0 .. Len(B[j].keys) /\ k <= Len(B[i].keys) /\ k \in Nat
  BY <1>1
<1>3. ASSUME SameStart(B[i], B[j], k) PROVE Begun(B, i, k) = Begun(B, j, k)
  <2>1. SameStart(B[j], B[i], k)
    BY <1>2, <1>3, SameStartIs
  <2>2. \A l \in 1 .. L : SameStart(B[i], B[l], k) <=> SameStart(B[j], B[l], k)
    BY <1>3, <2>1, SameStartIs
  <2> QED
    BY <1>1, <2>2 DEF Begun
<1>4. ASSUME Begun(B, i, k) = Begun(B, j, k) PROVE SameStart(B[i], B[j], k)
  <2> DEFINE m == Begun(B, i, k)
  <2>1. SameStart(B[i], B[m], k) /\ SameStart(B[j], B[m], k)
    BY <1>2, <1>4, BegunIs
  <2>2. SameStart(B[m], B[j], k)
    BY <1>2, <2>1, SameStartIs
  <2> QED
    BY <2>1, <2>2, SameStartIs
<1> QED
  BY <1>3, <1>4

(* The last of one node, and of none.                                        *)
LEMMA LastOfOne ==
  /\ LastOf({}) = Nowhere
  /\ \A x \in Nat : LastOf({x}) = x
<1>1. ASSUME NEW x \in Nat PROVE Max({x}) = x
  <2>1. {x} \in SUBSET (0 .. x) /\ {x} # {}
    OBVIOUS
  <2> QED
    BY <2>1, MaxIsThere
<1> QED
  BY <1>1 DEF LastOf

\* The next node of find_seq_nodes.
NodeAfter(nds, parent, e) ==
  IF parent = Nowhere THEN Nowhere
  ELSE LastOf({i \in Children(nds, parent) : Same(e, nds[i].ev)})

ReachesUpTo(nds, seq, n, f) ==
  f = [k \in 0 .. n |-> IF k = 0 THEN Root ELSE NodeAfter(nds, f[k - 1], seq[k])]

(* The nodes of find_seq_nodes exist, and there is one such function.       *)
LEMMA OneNodeMore ==
  ASSUME NEW nds, NEW seq, NEW n \in Nat, NEW f, ReachesUpTo(nds, seq, n, f), NEW g,
         g = [k \in 0 .. n + 1 |-> IF k <= n THEN f[k] ELSE NodeAfter(nds, f[n], seq[n + 1])]
  PROVE  ReachesUpTo(nds, seq, n + 1, g)
<1> DEFINE R(k) == IF k = 0 THEN Root ELSE NodeAfter(nds, g[k - 1], seq[k])
<1>0. \A k \in 0 .. n : f[k] = IF k = 0 THEN Root ELSE NodeAfter(nds, f[k - 1], seq[k])
  BY DEF ReachesUpTo
<1>1. \A k \in 0 .. n + 1 : g[k] = R(k)
  <2> TAKE k \in 0 .. n + 1
  <2>1. CASE k = 0
    BY <2>1, <1>0
  <2>2. CASE k \in 1 .. n
    <3>1. g[k] = f[k] /\ g[k - 1] = f[k - 1]
      BY <2>2
    <3> QED BY <2>2, <3>1, <1>0
  <2>3. CASE k = n + 1
    <3>1. g[k] = NodeAfter(nds, f[n], seq[n + 1]) /\ g[k - 1] = f[n]
      BY <2>3
    <3> QED BY <2>3, <3>1
  <2> QED BY <2>1, <2>2, <2>3
<1>2. g = [k \in 0 .. n + 1 |-> g[k]]
  OBVIOUS
<1>3. g = [k \in 0 .. n + 1 |-> R(k)]
  <2> HIDE DEF R
  <2> QED BY <1>1, <1>2
<1> QED
  BY <1>3, Zenon DEF ReachesUpTo

LEMMA SequenceNodesIs ==
  ASSUME NEW nds, NEW seq, Len(seq) \in Nat
  PROVE  ReachesUpTo(nds, seq, Len(seq), SequenceNodes(nds, seq))
<1> DEFINE S == {n \in Nat : \E f : ReachesUpTo(nds, seq, n, f)}
<1>1. 0 \in S
  <2> DEFINE f == [k \in 0 .. 0 |-> Root]
  <2>1. ReachesUpTo(nds, seq, 0, f)
    BY DEF ReachesUpTo
  <2> QED
    BY <2>1
<1>2. ASSUME NEW n \in Nat, n \in S PROVE n + 1 \in S
  <2>1. PICK f : ReachesUpTo(nds, seq, n, f)
    BY <1>2
  <2>2. ReachesUpTo(nds, seq, n + 1,
                   [k \in 0 .. n + 1 |-> IF k <= n THEN f[k] ELSE NodeAfter(nds, f[n], seq[n + 1])])
    BY <2>1, OneNodeMore
  <2> QED
    BY <2>2
<1>3. Nat \subseteq S
  <2> HIDE DEF S
  <2> QED BY <1>1, <1>2, NatSetInduction
<1>4. \E f : ReachesUpTo(nds, seq, Len(seq), f)
  BY <1>3
<1> DEFINE f == CHOOSE f : ReachesUpTo(nds, seq, Len(seq), f)
<1>5. ReachesUpTo(nds, seq, Len(seq), f)
  BY <1>4
<1>6. SequenceNodes(nds, seq) = f
  BY DEF SequenceNodes, ReachesUpTo, NodeAfter
<1> QED
  BY <1>5, <1>6

-----------------------------------------------------------------------------
(* Where a new line joins the tree.                                         *)

\* The lines up to n that begin with the first k keys of the one after them.
Sharers(B, n, k) == {i \in 1 .. n : SameStart(B[n + 1], B[i], k)}

(* Who shares a start shares the shorter ones.                              *)
LEMMA SharersAre ==
  ASSUME NEW B, NEW L, GoodBindings(B, L), NEW n \in 0 .. L - 1, NEW k \in 1 .. Len(B[n + 1].keys)
  PROVE  /\ n \in Nat /\ n + 1 \in 1 .. L /\ L \in Nat
         /\ \A i \in 1 .. n : i \in 1 .. L /\ Len(B[i].keys) \in Nat \ {0}
         /\ Len(B[n + 1].keys) \in Nat \ {0}
         /\ Sharers(B, n, k) \subseteq Sharers(B, n, k - 1)
         /\ \A i \in Sharers(B, n, k) : i \in 1 .. n /\ k <= Len(B[i].keys)
         /\ Sharers(B, n, 0) = 1 .. n
<1>1. L \in Nat /\ \A i \in 1 .. L : Len(B[i].keys) \in Nat \ {0}
  BY DEF GoodBindings
<1>2. n \in Nat /\ n + 1 \in 1 .. L /\ \A i \in 1 .. n : i \in 1 .. L
  BY <1>1
<1>3. k - 1 \in 0 .. k /\ k \in Nat
  BY <1>1, <1>2
<1>4. ASSUME NEW i \in Sharers(B, n, k)
      PROVE  i \in Sharers(B, n, k - 1) /\ k <= Len(B[i].keys)
  <2>1. i \in 1 .. n /\ SameStart(B[n + 1], B[i], k)
    BY DEF Sharers
  <2>2. SameStart(B[n + 1], B[i], k - 1)
    BY <1>1, <1>2, <1>3, <2>1, SameStartIs
  <2> QED
    BY <2>1, <2>2 DEF Sharers, SameStart
<1>5. Sharers(B, n, 0) = 1 .. n
  BY <1>1, <1>2 DEF Sharers, SameStart
<1>6. Sharers(B, n, k) \subseteq 1 .. n
  BY DEF Sharers
<1> QED
  BY <1>1, <1>2, <1>4, <1>5, <1>6

LEMMA SharedNode ==
  ASSUME NEW B, NEW n, NEW nds, NEW N, Index(B, n, nds, N), NEW i \in 1 .. n, NEW j \in 1 .. n,
         NEW k \in 0 .. Len(B[i].keys), NEW m \in 0 .. Len(B[j].keys), N[i][k] = N[j][m]
  PROVE  k = m /\ SameStart(B[i], B[j], k)
BY DEF Index, Sharing

LEMMA OneBefore ==
  ASSUME NEW n \in Nat, NEW k \in 1 .. n
  PROVE  k \in Nat \ {0} /\ k - 1 \in 0 .. n /\ k \in 0 .. n
OBVIOUS

LEMMA StartGrows ==
  ASSUME NEW b, NEW c, NEW k \in Nat \ {0}, Len(c.keys) \in Nat
  PROVE  SameStart(b, c, k) <=>
           SameStart(b, c, k - 1) /\ k <= Len(c.keys) /\ b.keys[k] = c.keys[k]
<1>1. \A q : q \in 1 .. k <=> q \in 1 .. k - 1 \/ q = k
  OBVIOUS
<1>2. \A m \in Nat : k <= m => k - 1 <= m
  OBVIOUS
<1> QED
  BY <1>1, <1>2 DEF SameStart

\* What the path of the line after n has after k keys.
PathAt(B, n, N, k, p) ==
  /\ \A i \in Sharers(B, n, k) : p = N[i][k]
  /\ k = 0 => p = Root
  /\ k # 0 /\ Sharers(B, n, k) = {} => p = Nowhere

(* The next node of the path of a new line: that of a line that shares it. *)
LEMMA NextFound ==
  ASSUME NEW B, NEW L, GoodBindings(B, L), NEW n \in 0 .. L - 1, NEW nds, NEW N, Index(B, n, nds, N),
         NEW k \in 1 .. Len(B[n + 1].keys), NEW e, Same(e, B[n + 1].keys[k]), NEW p,
         PathAt(B, n, N, k - 1, p), NEW x, x = NodeAfter(nds, p, e)
  PROVE  PathAt(B, n, N, k, x)
<1>0. /\ \A i \in Sharers(B, n, k - 1) : p = N[i][k - 1]
      /\ k = 1 => p = Root
      /\ k # 1 /\ Sharers(B, n, k - 1) = {} => p = Nowhere
  <2>1. k \in Nat
    BY DEF GoodBindings
  <2> QED
    BY <2>1 DEF PathAt
<1>1. /\ n \in Nat /\ n + 1 \in 1 .. L /\ L \in Nat
      /\ \A i \in 1 .. n : i \in 1 .. L /\ Len(B[i].keys) \in Nat \ {0}
      /\ Len(B[n + 1].keys) \in Nat \ {0}
      /\ Sharers(B, n, k) \subseteq Sharers(B, n, k - 1)
      /\ \A i \in Sharers(B, n, k) : i \in 1 .. n /\ k <= Len(B[i].keys)
      /\ Sharers(B, n, 0) = 1 .. n
  BY SharersAre
<1>2. k \in Nat \ {0}
  BY <1>1
<1> DEFINE S == {y \in Children(nds, p) : Same(e, nds[y].ev)}
<1>3. DOMAIN nds = 1 .. Len(nds) /\ Len(nds) \in Nat
  BY DEF Index, IsSeq
<1>4. ASSUME NEW i \in Sharers(B, n, k) PROVE S = {N[i][k]}
  <2>1. i \in 1 .. n /\ k \in 1 .. Len(B[i].keys) /\ p = N[i][k - 1]
    BY <1>0, <1>1, <1>2, <1>4
  <2>2. /\ N[i][k] \in 1 .. Len(nds) /\ nds[N[i][k]].parent = p
        /\ Same(nds[N[i][k]].ev, B[i].keys[k])
    BY <2>1 DEF Index, Paths
  <2>3. B[n + 1].keys[k] = B[i].keys[k]
    <3>1. \A q \in 1 .. k : B[n + 1].keys[q] = B[i].keys[q]
      BY DEF Sharers, SameStart
    <3>2. k \in 1 .. k
      BY <1>2
    <3> QED
      BY <3>1, <3>2
  <2>4. Same(e, nds[N[i][k]].ev)
    BY <2>2, <2>3, SameIsEquivalence
  <2>5. N[i][k] \in S
    BY <2>2, <2>4, <1>3 DEF Children
  <2>6. ASSUME NEW y \in S PROVE y = N[i][k]
    <3>1. y \in 1 .. Len(nds) /\ nds[y].parent = p /\ Same(e, nds[y].ev)
      BY <1>3 DEF Children
    <3>0. PICK j \in 1 .. n : \E m \in 1 .. Len(B[j].keys) : y = N[j][m]
      BY <3>1 DEF Index, Reached
    <3>2. PICK m \in 1 .. Len(B[j].keys) : y = N[j][m]
      BY <3>0
    <3>3. N[j][m - 1] = N[i][k - 1] /\ Same(nds[y].ev, B[j].keys[m])
      BY <3>1, <3>2, <2>1 DEF Index, Paths
    <3>4. m - 1 \in 0 .. Len(B[j].keys) /\ k - 1 \in 0 .. Len(B[i].keys) /\ m \in Nat
      <4>1. Len(B[i].keys) \in Nat /\ Len(B[j].keys) \in Nat
        BY <1>1, <2>1
      <4> QED BY <4>1, <2>1, OneBefore
    <3>5. m - 1 = k - 1 /\ SameStart(B[j], B[i], m - 1)
      <4> DEFINE a == m - 1
                 b == k - 1
      <4>1. a \in 0 .. Len(B[j].keys) /\ b \in 0 .. Len(B[i].keys) /\ N[j][a] = N[i][b]
        BY <3>3, <3>4
      <4> HIDE DEF a, b
      <4>2. a = b /\ SameStart(B[j], B[i], a)
        BY <4>1, <2>1 DEF Index, Sharing
      <4> QED BY <4>2 DEF a, b
    <3>6. m = k
      BY <3>4, <3>5, <1>2
    <3>7. Same(B[j].keys[k], B[i].keys[k])
      BY <2>2, <2>4, <3>1, <3>3, <3>6, SameIsEquivalence
    <3>8. B[j].keys[k] = B[i].keys[k]
      <4>1. Plain(B[j].keys[k]) /\ Plain(B[i].keys[k])
        BY <1>1, <2>1, <3>2, <3>6 DEF GoodBindings
      <4> QED
        BY <4>1, <3>7, SamePlainEvents
    <3>9. SameStart(B[j], B[i], k)
      <4>1. SameStart(B[j], B[i], k - 1)
        BY <3>5, <3>6
      <4>2. Len(B[i].keys) \in Nat /\ k <= Len(B[i].keys)
        BY <2>1, <1>1
      <4> QED
        BY <4>1, <4>2, <3>8, <1>2, StartGrows
    <3> QED
      BY <3>2, <3>4, <3>6, <3>9, <2>1, <1>1 DEF Index, Sharing
  <2> QED
    BY <2>5, <2>6
<1>5. ASSUME Sharers(B, n, k) = {} PROVE S = {} \/ p = Nowhere
  <2>1. SUFFICES ASSUME NEW y \in S, p # Nowhere PROVE FALSE
    BY <2>1
  <2>2. y \in 1 .. Len(nds) /\ nds[y].parent = p /\ Same(e, nds[y].ev)
    BY <1>3 DEF Children
  <2>0. PICK j \in 1 .. n : \E m \in 1 .. Len(B[j].keys) : y = N[j][m]
    BY <2>2 DEF Index, Reached
  <2>3. PICK m \in 1 .. Len(B[j].keys) : y = N[j][m]
    BY <2>0
  <2>4. N[j][m - 1] = p /\ Same(nds[y].ev, B[j].keys[m])
    BY <2>2, <2>3 DEF Index, Paths
  <2>5. m \in Nat \ {0} /\ m - 1 \in 0 .. Len(B[j].keys)
    BY <1>1
  <2>6. PICK i \in Sharers(B, n, k - 1) : p = N[i][k - 1]
    <3>1. Sharers(B, n, k - 1) # {}
      <4>1. CASE k = 1
        <5>1. k - 1 = 0 /\ j \in 1 .. n
          BY <4>1
        <5> QED BY <5>1, <1>1
      <4>2. CASE k # 1
        BY <1>0, <4>2, <2>1
      <4> QED BY <4>1, <4>2
    <3> QED BY <1>0, <3>1
  <2>7. i \in 1 .. n /\ SameStart(B[n + 1], B[i], k - 1)
    BY DEF Sharers
  <2>8. k - 1 \in 0 .. Len(B[i].keys)
    BY <2>7, <1>1, <1>2 DEF SameStart
  <2>9. m - 1 = k - 1 /\ SameStart(B[j], B[i], m - 1)
    <3> DEFINE a == m - 1
               b == k - 1
    <3>1. a \in 0 .. Len(B[j].keys) /\ b \in 0 .. Len(B[i].keys) /\ N[j][a] = N[i][b]
      BY <2>4, <2>5, <2>6, <2>8
    <3> HIDE DEF a, b
    <3>2. a = b /\ SameStart(B[j], B[i], a)
      BY <3>1, <2>7 DEF Index, Sharing
    <3> QED BY <3>2 DEF a, b
  <2>10. m = k
    BY <2>5, <2>9, <1>2
  <2>11. Same(B[n + 1].keys[k], B[j].keys[k])
    BY <2>2, <2>4, <2>10, SameIsEquivalence
  <2>12. B[n + 1].keys[k] = B[j].keys[k]
    <3>1. Plain(B[n + 1].keys[k]) /\ Plain(B[j].keys[k])
      BY <1>1, <2>3, <2>10 DEF GoodBindings
    <3> QED
      BY <3>1, <2>11, SamePlainEvents
  <2>13. SameStart(B[n + 1], B[j], k - 1)
    <3>1. SameStart(B[i], B[j], k - 1)
      <4>1. k - 1 <= Len(B[j].keys)
        BY <2>5, <2>10, <1>1
      <4> QED
        BY <4>1, <2>9, <2>10, SameStartIs
    <3> QED
      BY <2>7, <3>1, SameStartIs
  <2>14. SameStart(B[n + 1], B[j], k)
    <3>1. Len(B[j].keys) \in Nat /\ k <= Len(B[j].keys)
      BY <2>5, <2>10, <1>1, <1>2
    <3> QED
      BY <2>12, <2>13, <3>1, <1>2, StartGrows
  <2> QED
    BY <2>14, <1>5 DEF Sharers
<1>6. x = IF p = Nowhere THEN Nowhere ELSE LastOf(S)
  BY DEF NodeAfter
<1>7. ASSUME NEW i \in Sharers(B, n, k) PROVE x = N[i][k]
  <2>1. i \in 1 .. n /\ k \in 1 .. Len(B[i].keys) /\ p = N[i][k - 1]
    BY <1>0, <1>1, <1>2, <1>7
  <2>2. N[i][k] \in 1 .. Len(nds) /\ N[i][0] = Root
    BY <2>1 DEF Index, Paths
  <2>3. p # Nowhere
    <3>1. CASE k = 1
      BY <1>0, <3>1 DEF Root, Nowhere
    <3>2. CASE k # 1
      <4>1. k - 1 \in 1 .. Len(B[i].keys)
        BY <3>2, <2>1, <1>1
      <4>2. p \in 1 .. Len(nds)
        BY <2>1, <4>1 DEF Index, Paths
      <4> QED
        BY <4>2, <1>3 DEF Nowhere
    <3> QED BY <3>1, <3>2
  <2>4. LastOf(S) = N[i][k]
    <3>1. S = {N[i][k]} /\ N[i][k] \in Nat
      BY <1>4, <1>7, <2>2, <1>3
    <3> HIDE DEF S
    <3> QED
      BY <3>1, LastOfOne
  <2> QED
    BY <1>6, <2>3, <2>4
<1>8. ASSUME Sharers(B, n, k) = {} PROVE x = Nowhere
  <2>1. S = {} \/ p = Nowhere
    BY <1>5, <1>8
  <2> HIDE DEF S
  <2> QED
    BY <1>6, <2>1, LastOfOne
<1> QED
  BY <1>2, <1>7, <1>8 DEF PathAt

(* find_seq_nodes follows the lines that share the start of the new one.    *)
LEMMA Found ==
  ASSUME NEW B, NEW L, GoodBindings(B, L), NEW n \in 0 .. L - 1, NEW nds, NEW N, Index(B, n, nds, N),
         NEW seq, Len(seq) = Len(B[n + 1].keys),
         \A k \in 1 .. Len(seq) : Same(seq[k], B[n + 1].keys[k])
  PROVE  \A k \in 0 .. Len(seq) : PathAt(B, n, N, k, SequenceNodes(nds, seq)[k])
<1> DEFINE f == SequenceNodes(nds, seq)
           K == Len(seq)
           S == {k \in 0 .. K : PathAt(B, n, N, k, f[k])}
<1>1. L \in Nat /\ n \in Nat /\ n + 1 \in 1 .. L /\ K \in Nat \ {0}
  BY DEF GoodBindings
<1>2. ReachesUpTo(nds, seq, K, f)
  BY <1>1, SequenceNodesIs
<1> HIDE DEF f
<1>3. f[0] = Root
  BY <1>1, <1>2 DEF ReachesUpTo
<1>4. \A k \in 0 .. K - 1 : f[k + 1] = NodeAfter(nds, f[k], seq[k + 1])
  <2> TAKE k \in 0 .. K - 1
  <2>1. k + 1 \in 0 .. K /\ k + 1 # 0 /\ (k + 1) - 1 = k
    BY <1>1
  <2> QED
    BY <1>2, <2>1 DEF ReachesUpTo
<1>5. 0 \in S
  <2>1. \A i \in Sharers(B, n, 0) : f[0] = N[i][0]
    BY <1>3 DEF Sharers, Index, Paths
  <2> QED
    BY <2>1, <1>1, <1>3 DEF PathAt
<1>6. \A k \in 0 .. K - 1 : k \in S => k + 1 \in S
  <2> TAKE k \in 0 .. K - 1
  <2> HAVE k \in S
  <2> DEFINE l == k + 1
  <2>1. l \in 1 .. K /\ l - 1 = k /\ (l = 1 <=> k = 0) /\ l \in 0 .. K /\ l # 0
    BY <1>1
  <2>2. f[l] = NodeAfter(nds, f[k], seq[l])
    BY <1>4
  <2>3. PathAt(B, n, N, l - 1, f[k])
    BY <2>1
  <2> HIDE DEF l
  <2>4. l \in 1 .. Len(B[n + 1].keys) /\ Same(seq[l], B[n + 1].keys[l])
    BY <2>1
  <2>5. PathAt(B, n, N, l, f[l])
    BY <2>2, <2>3, <2>4, NextFound
  <2> QED
    BY <2>1, <2>5 DEF l
<1>7. \A k \in 0 .. K : k \in S
  <2> HIDE DEF S, K
  <2> QED
    BY <1>1, <1>5, <1>6, UpToInduction
<1> QED
  BY <1>7 DEF f

-----------------------------------------------------------------------------
(* The tree with one line more.                                             *)

\* P is the path of the line after n: shared up to h keys, new nodes from there.
PathOf(B, n, len, N, P, h) ==
  /\ h \in 0 .. Len(B[n + 1].keys)
  /\ P[0] = Root
  /\ \A k \in 1 .. h :
       Sharers(B, n, k) # {} /\ \A i \in Sharers(B, n, k) : P[k] = N[i][k]
  /\ \A k \in h + 1 .. Len(B[n + 1].keys) :
       Sharers(B, n, k) = {} /\ P[k] = len + k - h

\* What a line of K keys that begins to differ after h of them makes of the tree.
Grown(nds, nds2, P, seq, h, K, action) ==
  /\ IsSeq(nds2) /\ Len(nds2) = Len(nds) + (K - h)
  /\ \A x \in 1 .. Len(nds2) :
       nds2[x] = [parent |-> nds2[x].parent, ev |-> nds2[x].ev, action |-> nds2[x].action]
  /\ \A x \in 1 .. Len(nds) :
       /\ nds2[x].parent = nds[x].parent /\ nds2[x].ev = nds[x].ev
       /\ x # P[K] => nds2[x].action = nds[x].action
  /\ \A k \in h + 1 .. K :
       /\ nds2[P[k]].parent = P[k - 1] /\ nds2[P[k]].ev = seq[k]
       /\ k # K => nds2[P[k]].action = NoAction
  /\ nds2[P[K]].action = action

\* The paths of the lines up to n, and P of the one after them.
With(N, n, P) == [j \in 1 .. n + 1 |-> IF j = n + 1 THEN P ELSE N[j]]

OneLineMore(B, L, n, nds, N, P, h, seq, nds2) ==
  /\ GoodBindings(B, L) /\ n \in 0 .. L - 1 /\ Index(B, n, nds, N)
  /\ PathOf(B, n, Len(nds), N, P, h)
  /\ \A k \in 1 .. Len(B[n + 1].keys) : Same(seq[k], B[n + 1].keys[k])
  /\ Grown(nds, nds2, P, seq, h, Len(B[n + 1].keys), B[n + 1].action)

LEMMA Numbers ==
  ASSUME NEW B, NEW L, NEW n, NEW nds, NEW N, NEW P, NEW h, NEW seq, NEW nds2,
         OneLineMore(B, L, n, nds, N, P, h, seq, nds2)
  PROVE  /\ n \in Nat /\ n + 1 \in 1 .. L /\ n + 1 \notin 1 .. n /\ L \in Nat
         /\ \A i \in 1 .. n + 1 : i \in 1 .. L /\ Len(B[i].keys) \in Nat \ {0} /\ (i = n + 1 \/ i \in 1 .. n)
         /\ \A i \in 1 .. n : i \in 1 .. L /\ Len(B[i].keys) \in Nat \ {0} /\ i # n + 1 /\ i \in 1 .. n + 1
         /\ n + 1 \in 1 .. n + 1
         /\ h \in Nat /\ h <= Len(B[n + 1].keys) /\ Len(B[n + 1].keys) \in Nat \ {0}
         /\ Len(nds) \in Nat /\ Len(nds2) = Len(nds) + (Len(B[n + 1].keys) - h) /\ Len(nds2) \in Nat
         /\ Len(nds) <= Len(nds2)
         /\ DOMAIN nds = 1 .. Len(nds) /\ DOMAIN nds2 = 1 .. Len(nds2)
         /\ \A k \in 0 .. Len(B[n + 1].keys) :
              k = 0 \/ k \in 1 .. h \/ k \in h + 1 .. Len(B[n + 1].keys)
<1>1. L \in Nat /\ (\A i \in 1 .. L : Len(B[i].keys) \in Nat \ {0}) /\ n \in 0 .. L - 1
  BY DEF OneLineMore, GoodBindings
<1>2. n \in Nat /\ n + 1 \in 1 .. L /\ (\A i \in 1 .. n + 1 : i \in 1 .. L)
  BY <1>1
<1>3. Len(B[n + 1].keys) \in Nat \ {0}
  BY <1>1, <1>2
<1>4. h \in 0 .. Len(B[n + 1].keys)
  BY DEF OneLineMore, PathOf
<1>5. h \in Nat /\ h <= Len(B[n + 1].keys) /\ Len(B[n + 1].keys) - h \in Nat
  BY <1>3, <1>4
<1>6. Len(nds) \in Nat /\ DOMAIN nds = 1 .. Len(nds) /\ DOMAIN nds2 = 1 .. Len(nds2)
  BY DEF OneLineMore, Index, Grown, IsSeq
<1>7. Len(nds2) = Len(nds) + (Len(B[n + 1].keys) - h)
  BY DEF OneLineMore, Grown
<1>8. Len(nds2) \in Nat /\ Len(nds) <= Len(nds2)
  BY <1>5, <1>6, <1>7
<1>9. /\ n + 1 \notin 1 .. n
      /\ \A i \in 1 .. n + 1 : i = n + 1 \/ i \in 1 .. n
      /\ \A i \in 1 .. n : i # n + 1 /\ i \in 1 .. n + 1
      /\ n + 1 \in 1 .. n + 1
  BY <1>2
<1> DEFINE K == Len(B[n + 1].keys)
<1>10. \A k \in 0 .. K : k = 0 \/ k \in 1 .. h \/ k \in h + 1 .. K
  <2> HIDE DEF K
  <2> QED BY <1>3, <1>5 DEF K
<1> QED
  BY <1>1, <1>2, <1>3, <1>5, <1>6, <1>7, <1>8, <1>9, <1>10

LEMMA WithIs ==
  ASSUME NEW N, NEW n \in Nat, NEW P
  PROVE  /\ With(N, n, P)[n + 1] = P
         /\ \A j \in 1 .. n : With(N, n, P)[j] = N[j]
BY DEF With

(* The nodes of the new path that are shared belong to one line before.    *)
LEMMA SharedPath ==
  ASSUME NEW B, NEW L, NEW n, NEW nds, NEW N, NEW P, NEW h, NEW seq, NEW nds2,
         OneLineMore(B, L, n, nds, N, P, h, seq, nds2), h # 0
  PROVE  \E i \in 1 .. n : /\ h <= Len(B[i].keys)
                           /\ \A k \in 0 .. h : i \in Sharers(B, n, k) /\ P[k] = N[i][k]
<1>1. /\ n \in Nat /\ n + 1 \in 1 .. L
      /\ \A i \in 1 .. n : Len(B[i].keys) \in Nat
      /\ h \in Nat
  BY Numbers
<1>2. PICK i \in Sharers(B, n, h) : TRUE
  BY <1>1 DEF OneLineMore, PathOf
<1>3. i \in 1 .. n /\ SameStart(B[n + 1], B[i], h)
  BY DEF Sharers
<1>4. ASSUME NEW k \in 0 .. h PROVE i \in Sharers(B, n, k) /\ P[k] = N[i][k]
  <2>1. SameStart(B[n + 1], B[i], k)
    BY <1>1, <1>3, SameStartIs
  <2>2. i \in Sharers(B, n, k)
    BY <1>3, <2>1 DEF Sharers
  <2>3. CASE k = 0
    BY <2>2, <2>3, <1>3 DEF OneLineMore, PathOf, Index, Paths
  <2>4. CASE k # 0
    <3>1. k \in 1 .. h
      BY <2>4, <1>1
    <3> QED
      BY <2>2, <3>1 DEF OneLineMore, PathOf
  <2> QED BY <2>2, <2>3, <2>4
<1> QED
  BY <1>3, <1>4 DEF SameStart

(* Where the nodes of a path are.                                          *)
LEMMA PathRange ==
  ASSUME NEW B, NEW L, NEW n, NEW nds, NEW N, NEW P, NEW h, NEW seq, NEW nds2,
         OneLineMore(B, L, n, nds, N, P, h, seq, nds2)
  PROVE  /\ P[0] = 0
         /\ \A k \in 1 .. h : P[k] \in 1 .. Len(nds)
         /\ \A k \in h + 1 .. Len(B[n + 1].keys) :
              P[k] = Len(nds) + k - h /\ P[k] \in 1 .. Len(nds2) /\ P[k] > Len(nds) /\ k \in Nat \ {0}
         /\ \A j \in 1 .. n : N[j][0] = 0 /\ \A m \in 1 .. Len(B[j].keys) : N[j][m] \in 1 .. Len(nds)
<1>1. /\ n \in Nat /\ n + 1 \in 1 .. L
      /\ \A i \in 1 .. n : Len(B[i].keys) \in Nat
      /\ h \in Nat /\ h <= Len(B[n + 1].keys) /\ Len(B[n + 1].keys) \in Nat
      /\ Len(nds) \in Nat /\ Len(nds2) = Len(nds) + (Len(B[n + 1].keys) - h)
  BY Numbers
<1>2. \A j \in 1 .. n : N[j][0] = 0 /\ \A m \in 1 .. Len(B[j].keys) : N[j][m] \in 1 .. Len(nds)
  BY DEF OneLineMore, Index, Paths, Root
<1>3. ASSUME NEW k \in 1 .. h PROVE P[k] \in 1 .. Len(nds)
  <2>1. h # 0 /\ k \in 0 .. h
    BY <1>1
  <2>2. PICK i \in 1 .. n : h <= Len(B[i].keys) /\ \A q \in 0 .. h : P[q] = N[i][q]
    BY <2>1, SharedPath
  <2>3. k \in 1 .. Len(B[i].keys)
    BY <1>1, <2>2
  <2> QED
    BY <1>2, <2>1, <2>2, <2>3
<1>4. ASSUME NEW k \in h + 1 .. Len(B[n + 1].keys)
      PROVE  P[k] = Len(nds) + k - h /\ P[k] \in 1 .. Len(nds2) /\ P[k] > Len(nds) /\ k \in Nat \ {0}
  <2> DEFINE K == Len(B[n + 1].keys)
             l == Len(nds)
             l2 == Len(nds2)
             x == P[k]
  <2>1. x = l + k - h
    BY DEF OneLineMore, PathOf
  <2>2. k \in h + 1 .. K /\ h \in Nat /\ K \in Nat /\ l \in Nat /\ l2 = l + (K - h)
    BY <1>1
  <2>3. x = l + k - h /\ x \in 1 .. l2 /\ x > l /\ k \in Nat \ {0}
    <3> HIDE DEF K, l, l2, x
    <3> QED BY <2>1, <2>2
  <2> QED BY <2>3
<1>5. P[0] = 0
  BY DEF OneLineMore, PathOf, Root
<1> QED
  BY <1>2, <1>3, <1>4, <1>5

(* One line more keeps each part of what the tree is.                        *)
LEMMA PathsGrow ==
  ASSUME NEW B, NEW L, NEW n, NEW nds, NEW N, NEW P, NEW h, NEW seq, NEW nds2,
         OneLineMore(B, L, n, nds, N, P, h, seq, nds2)
  PROVE  Paths(B, n + 1, nds2, With(N, n, P))
<1> DEFINE M == With(N, n, P)
           K == Len(B[n + 1].keys)
<1>1. /\ n \in Nat /\ n + 1 \in 1 .. L
      /\ \A i \in 1 .. n + 1 : i \in 1 .. L /\ Len(B[i].keys) \in Nat \ {0} /\ (i = n + 1 \/ i \in 1 .. n)
      /\ h \in Nat /\ h <= K /\ K \in Nat \ {0}
      /\ Len(nds) \in Nat /\ Len(nds2) \in Nat /\ Len(nds) <= Len(nds2)
      /\ \A k \in 0 .. K : k = 0 \/ k \in 1 .. h \/ k \in h + 1 .. K
  BY Numbers
<1>2. M[n + 1] = P /\ \A j \in 1 .. n : M[j] = N[j]
  <2>1. n \in Nat
    BY <1>1
  <2> QED BY <2>1, WithIs
<1>3. \A x \in 1 .. Len(nds) :
        x \in 1 .. Len(nds2) /\ nds2[x].parent = nds[x].parent /\ nds2[x].ev = nds[x].ev
  <2>1. /\ Len(nds) \in Nat /\ Len(nds2) \in Nat /\ Len(nds) <= Len(nds2)
        /\ \A x \in 1 .. Len(nds) : nds2[x].parent = nds[x].parent /\ nds2[x].ev = nds[x].ev
    BY <1>1 DEF OneLineMore, Grown
  <2>2. \A x \in 1 .. Len(nds) : x \in 1 .. Len(nds2)
    BY <2>1
  <2> QED
    BY <2>1, <2>2
<1>4. Paths(B, n, nds, N)
  BY DEF OneLineMore, Index
<1> HIDE DEF M, K
<1>5. ASSUME NEW j \in 1 .. n
      PROVE  /\ M[j][0] = Root
             /\ \A k \in 1 .. Len(B[j].keys) :
                  /\ M[j][k] \in 1 .. Len(nds2)
                  /\ nds2[M[j][k]].parent = M[j][k - 1]
                  /\ Same(nds2[M[j][k]].ev, B[j].keys[k])
  <2>1. M[j] = N[j] /\ N[j][0] = Root
    BY <1>2, <1>4 DEF Paths
  <2>2. ASSUME NEW k \in 1 .. Len(B[j].keys)
        PROVE  /\ N[j][k] \in 1 .. Len(nds2)
               /\ nds2[N[j][k]].parent = N[j][k - 1]
               /\ Same(nds2[N[j][k]].ev, B[j].keys[k])
    <3>1. /\ N[j][k] \in 1 .. Len(nds) /\ nds[N[j][k]].parent = N[j][k - 1]
          /\ Same(nds[N[j][k]].ev, B[j].keys[k])
      BY <1>4 DEF Paths
    <3> QED
      BY <1>3, <3>1
  <2> QED
    BY <2>1, <2>2
<1>6. ASSUME NEW k \in 1 .. h
      PROVE  P[k] \in 1 .. Len(nds2) /\ nds2[P[k]].parent = P[k - 1] /\ Same(nds2[P[k]].ev, B[n + 1].keys[k])
  <2>1. h # 0 /\ k \in 0 .. h /\ k - 1 \in 0 .. h /\ k \in Nat \ {0}
    BY <1>1
  <2>2. PICK i \in 1 .. n : h <= Len(B[i].keys) /\ \A q \in 0 .. h : i \in Sharers(B, n, q) /\ P[q] = N[i][q]
    BY <2>1, SharedPath
  <2>3. k \in 1 .. Len(B[i].keys)
    BY <1>1, <2>2
  <2>4. /\ N[i][k] \in 1 .. Len(nds) /\ nds[N[i][k]].parent = N[i][k - 1]
        /\ Same(nds[N[i][k]].ev, B[i].keys[k])
    BY <1>4, <2>3 DEF Paths
  <2>5. B[n + 1].keys[k] = B[i].keys[k]
    <3>1. SameStart(B[n + 1], B[i], k)
      BY <2>1, <2>2 DEF Sharers
    <3> QED
      BY <2>1, <3>1 DEF SameStart
  <2>6. P[k] = N[i][k] /\ P[k - 1] = N[i][k - 1]
    BY <2>1, <2>2
  <2> QED
    BY <1>3, <2>4, <2>5, <2>6
<1>7. ASSUME NEW k \in h + 1 .. K
      PROVE  P[k] \in 1 .. Len(nds2) /\ nds2[P[k]].parent = P[k - 1] /\ Same(nds2[P[k]].ev, B[n + 1].keys[k])
  <2>1. P[k] \in 1 .. Len(nds2)
    BY <1>7, PathRange DEF K
  <2>2. nds2[P[k]].parent = P[k - 1] /\ nds2[P[k]].ev = seq[k]
    BY <1>7 DEF OneLineMore, Grown, K
  <2>3. k \in 1 .. K
    BY <1>1
  <2>4. Same(seq[k], B[n + 1].keys[k])
    BY <2>3 DEF OneLineMore, K
  <2> QED
    BY <2>1, <2>2, <2>4
<1>8. \A k \in 1 .. K : k \in 1 .. h \/ k \in h + 1 .. K
  BY <1>1
<1>9. M[n + 1][0] = Root
  BY <1>2 DEF OneLineMore, PathOf
<1>10. \A k \in 1 .. K : /\ M[n + 1][k] \in 1 .. Len(nds2)
                         /\ nds2[M[n + 1][k]].parent = M[n + 1][k - 1]
                         /\ Same(nds2[M[n + 1][k]].ev, B[n + 1].keys[k])
  BY <1>2, <1>6, <1>7, <1>8
<1>11. \A j \in 1 .. n + 1 :
         /\ M[j][0] = Root
         /\ \A k \in 1 .. Len(B[j].keys) :
              /\ M[j][k] \in 1 .. Len(nds2)
              /\ nds2[M[j][k]].parent = M[j][k - 1]
              /\ Same(nds2[M[j][k]].ev, B[j].keys[k])
  <2> TAKE j \in 1 .. n + 1
  <2>1. CASE j = n + 1
    BY <2>1, <1>9, <1>10 DEF K
  <2>2. CASE j \in 1 .. n
    BY <2>2, <1>5
  <2> QED BY <2>1, <2>2, <1>1
<1> QED
  BY <1>11 DEF Paths, M

(* The new path meets the path of an earlier line where they share a start. *)
LEMMA NewMeetsOld ==
  ASSUME NEW B, NEW L, NEW n, NEW nds, NEW N, NEW P, NEW h, NEW seq, NEW nds2,
         OneLineMore(B, L, n, nds, N, P, h, seq, nds2),
         NEW j \in 1 .. n, NEW k \in 0 .. Len(B[n + 1].keys), NEW m \in 0 .. Len(B[j].keys)
  PROVE  P[k] = N[j][m] <=> k = m /\ SameStart(B[n + 1], B[j], k)
<1> DEFINE b == B[n + 1]
           c == B[j]
           K == Len(b.keys)
           J == Len(c.keys)
           l == Len(nds)
<1>1. /\ n \in Nat /\ n + 1 \in 1 .. L
      /\ h \in Nat /\ h <= K /\ K \in Nat \ {0} /\ J \in Nat \ {0} /\ l \in Nat
      /\ k = 0 \/ k \in 1 .. h \/ k \in h + 1 .. K
  BY Numbers
<1>2. /\ P[0] = 0
      /\ \A q \in h + 1 .. K : P[q] > l
      /\ N[j][0] = 0 /\ \A q \in 1 .. J : N[j][q] \in 1 .. l
  BY PathRange
<1>3. m = 0 \/ m \in 1 .. J
  BY <1>1
<1> HIDE DEF l, K, J
<1>4. CASE k = 0
  <2>1. N[j][m] = 0 <=> m = 0
    BY <1>1, <1>2, <1>3
  <2>2. SameStart(b, c, 0)
    BY <1>1 DEF SameStart, J
  <2> QED
    BY <1>2, <1>4, <2>1, <2>2
<1>5. CASE k \in 1 .. h
  <2>1. h # 0 /\ k \in 0 .. h
    BY <1>1, <1>5
  <2>2. PICK i \in 1 .. n : h <= Len(B[i].keys) /\ \A q \in 0 .. h : i \in Sharers(B, n, q) /\ P[q] = N[i][q]
    BY <2>1, SharedPath
  <2>3. SameStart(b, B[i], k) /\ P[k] = N[i][k]
    BY <2>1, <2>2 DEF Sharers
  <2>4. Len(B[i].keys) \in Nat
    BY Numbers
  <2>5. k \in 0 .. Len(B[i].keys) /\ k <= K
    BY <1>1, <1>5, <2>2, <2>4
  <2>6. N[i][k] = N[j][m] <=> k = m /\ SameStart(B[i], c, k)
    BY <2>5 DEF OneLineMore, Index, Sharing
  <2>7. SameStart(B[i], b, k)
    BY <2>3, <2>5, SameStartIs DEF K
  <2>8. SameStart(B[i], c, k) <=> SameStart(b, c, k)
    BY <2>3, <2>7, SameStartIs
  <2> QED
    BY <2>3, <2>6, <2>8
<1>6. CASE k \in h + 1 .. K
  <2>1. P[k] # N[j][m]
    <3>1. N[j][m] <= l /\ N[j][m] \in Nat
      BY <1>1, <1>2, <1>3
    <3> QED
      BY <1>1, <1>2, <1>6, <3>1
  <2>2. Sharers(B, n, k) = {}
    BY <1>6 DEF OneLineMore, PathOf, K
  <2>3. ~SameStart(b, c, k)
    BY <2>2 DEF Sharers
  <2> QED
    BY <2>1, <2>3
<1> QED
  BY <1>1, <1>4, <1>5, <1>6

LEMMA NewMeetsItself ==
  ASSUME NEW B, NEW L, NEW n, NEW nds, NEW N, NEW P, NEW h, NEW seq, NEW nds2,
         OneLineMore(B, L, n, nds, N, P, h, seq, nds2),
         NEW k \in 0 .. Len(B[n + 1].keys), NEW m \in 0 .. Len(B[n + 1].keys), P[k] = P[m]
  PROVE  k = m
<1> DEFINE K == Len(B[n + 1].keys)
           l == Len(nds)
<1>1. /\ h \in Nat /\ h <= K /\ K \in Nat \ {0} /\ l \in Nat
      /\ k = 0 \/ k \in 1 .. h \/ k \in h + 1 .. K
      /\ m = 0 \/ m \in 1 .. h \/ m \in h + 1 .. K
  BY Numbers
<1>2. /\ P[0] = 0
      /\ \A q \in 1 .. h : P[q] \in 1 .. l
      /\ \A q \in h + 1 .. K : P[q] = l + q - h
  BY PathRange
<1> HIDE DEF K, l
<1>3. CASE k \in h + 1 .. K \/ m \in h + 1 .. K
  BY <1>1, <1>2, <1>3
<1>4. CASE k \notin h + 1 .. K /\ m \notin h + 1 .. K
  <2>1. k \in 0 .. h /\ m \in 0 .. h
    BY <1>1, <1>4
  <2>2. CASE h = 0
    BY <2>1, <2>2
  <2>3. CASE h # 0
    <3>1. PICK i \in 1 .. n : h <= Len(B[i].keys) /\ \A q \in 0 .. h : P[q] = N[i][q]
      BY <2>3, SharedPath
    <3>2. Len(B[i].keys) \in Nat
      BY Numbers
    <3>3. k \in 0 .. Len(B[i].keys) /\ m \in 0 .. Len(B[i].keys)
      BY <1>1, <2>1, <3>1, <3>2
    <3>4. N[i][k] = N[i][m]
      BY <2>1, <3>1
    <3> QED
      BY <3>3, <3>4, SharedNode DEF OneLineMore
  <2> QED BY <2>2, <2>3
<1> QED
  BY <1>3, <1>4

LEMMA SharingGrows ==
  ASSUME NEW B, NEW L, NEW n, NEW nds, NEW N, NEW P, NEW h, NEW seq, NEW nds2,
         OneLineMore(B, L, n, nds, N, P, h, seq, nds2)
  PROVE  Sharing(B, n + 1, With(N, n, P))
<1> DEFINE M == With(N, n, P)
<1>1. /\ n \in Nat /\ n + 1 \in 1 .. L
      /\ \A i \in 1 .. n + 1 : Len(B[i].keys) \in Nat \ {0} /\ (i = n + 1 \/ i \in 1 .. n)
  BY Numbers
<1>2. M[n + 1] = P /\ \A j \in 1 .. n : M[j] = N[j]
  <2>1. n \in Nat
    BY <1>1
  <2> QED BY <2>1, WithIs
<1> HIDE DEF M
<1>3. SUFFICES ASSUME NEW i \in 1 .. n + 1, NEW j \in 1 .. n + 1,
                      NEW k \in 0 .. Len(B[i].keys), NEW m \in 0 .. Len(B[j].keys)
               PROVE  M[i][k] = M[j][m] <=> k = m /\ SameStart(B[i], B[j], k)
  BY DEF Sharing, M
<1>4. /\ Len(B[i].keys) \in Nat /\ Len(B[j].keys) \in Nat
      /\ k <= Len(B[i].keys) /\ m <= Len(B[j].keys)
  BY <1>1
<1>5. CASE i \in 1 .. n /\ j \in 1 .. n
  BY <1>2, <1>5 DEF OneLineMore, Index, Sharing
<1>6. CASE i = n + 1 /\ j \in 1 .. n
  <2>1. P[k] = N[j][m] <=> k = m /\ SameStart(B[n + 1], B[j], k)
    BY <1>6, NewMeetsOld
  <2> QED BY <1>2, <1>6, <2>1
<1>7. CASE i \in 1 .. n /\ j = n + 1
  <2>1. P[m] = N[i][k] <=> m = k /\ SameStart(B[j], B[i], m)
    BY <1>7, NewMeetsOld
  <2>2. k = m => (SameStart(B[j], B[i], m) <=> SameStart(B[i], B[j], k))
    BY <1>4, SameStartIs
  <2> QED BY <1>2, <1>7, <2>1, <2>2
<1>8. CASE i = n + 1 /\ j = n + 1
  <2>1. P[k] = P[m] => k = m
    BY <1>8, NewMeetsItself
  <2>2. SameStart(B[i], B[j], k)
    BY <1>4, <1>8, SameStartIs
  <2> QED BY <1>2, <1>8, <2>1, <2>2
<1>9. (i = n + 1 \/ i \in 1 .. n) /\ (j = n + 1 \/ j \in 1 .. n)
  BY <1>1
<1> QED
  BY <1>5, <1>6, <1>7, <1>8, <1>9, Zenon

LEMMA ReachedGrows ==
  ASSUME NEW B, NEW L, NEW n, NEW nds, NEW N, NEW P, NEW h, NEW seq, NEW nds2,
         OneLineMore(B, L, n, nds, N, P, h, seq, nds2)
  PROVE  Reached(B, n + 1, nds2, With(N, n, P))
<1> DEFINE M == With(N, n, P)
<1>0. n \in Nat
  BY Numbers
<1>2. M[n + 1] = P /\ (\A j \in 1 .. n : M[j] = N[j]) /\ n + 1 \in 1 .. n + 1
  <2>1. M[n + 1] = P /\ \A j \in 1 .. n : M[j] = N[j]
    BY <1>0, WithIs
  <2>2. n + 1 \in 1 .. n + 1
    BY <1>0
  <2> QED BY <2>1, <2>2
<1> DEFINE K == Len(B[n + 1].keys)
           l == Len(nds)
           l2 == Len(nds2)
<1>1. /\ n \in Nat /\ \A i \in 1 .. n : i \in 1 .. n + 1
      /\ h \in Nat /\ h <= K /\ K \in Nat \ {0} /\ l \in Nat /\ l2 = l + (K - h)
  BY Numbers
<1>3. /\ \A q \in h + 1 .. K : P[q] = l + q - h
  BY PathRange
<1> HIDE DEF M, K, l, l2
<1>4. ASSUME NEW x \in 1 .. l PROVE \E j \in 1 .. n + 1 : \E k \in 1 .. Len(B[j].keys) : x = M[j][k]
  <2>1. PICK j \in 1 .. n : \E k \in 1 .. Len(B[j].keys) : x = N[j][k]
    BY DEF OneLineMore, Index, Reached, l
  <2> QED
    BY <1>1, <1>2, <2>1
<1>5. ASSUME NEW x \in l + 1 .. l2
      PROVE  \E j \in 1 .. n + 1 : \E k \in 1 .. Len(B[j].keys) : x = M[j][k]
  <2>1. (h + x - l) \in h + 1 .. K /\ (h + x - l) \in 1 .. K /\ l + (h + x - l) - h = x
    BY <1>1
  <2>2. P[h + x - l] = x
    BY <1>3, <2>1
  <2> QED
    BY <1>2, <2>1, <2>2 DEF K
<1>6. \A x \in 1 .. l2 : x \in 1 .. l \/ x \in l + 1 .. l2
  BY <1>1
<1>7. \A x \in 1 .. l2 : \E j \in 1 .. n + 1 : \E k \in 1 .. Len(B[j].keys) : x = M[j][k]
  BY <1>4, <1>5, <1>6
<1> QED
  BY <1>7 DEF Reached, M, l2

LEMMA OrderGrows ==
  ASSUME NEW B, NEW L, NEW n, NEW nds, NEW N, NEW P, NEW h, NEW seq, NEW nds2,
         OneLineMore(B, L, n, nds, N, P, h, seq, nds2)
  PROVE  LaterIsHigher(B, n + 1, With(N, n, P))
<1> DEFINE M == With(N, n, P)
           K == Len(B[n + 1].keys)
           l == Len(nds)
<1>1. /\ n \in Nat /\ n + 1 \in 1 .. L /\ L \in Nat
      /\ \A i \in 1 .. n + 1 : i \in 1 .. L /\ Len(B[i].keys) \in Nat \ {0} /\ (i = n + 1 \/ i \in 1 .. n)
      /\ h \in Nat /\ h <= K /\ K \in Nat \ {0} /\ l \in Nat
      /\ \A q \in 1 .. K : q \in 1 .. h \/ q \in h + 1 .. K
  <2>1. /\ n \in Nat /\ n + 1 \in 1 .. L /\ L \in Nat
        /\ \A i \in 1 .. n + 1 : i \in 1 .. L /\ Len(B[i].keys) \in Nat \ {0} /\ (i = n + 1 \/ i \in 1 .. n)
        /\ h \in Nat /\ h <= K /\ K \in Nat \ {0} /\ l \in Nat
    BY Numbers
  <2> HIDE DEF K, l
  <2> QED BY <2>1
<1>2. M[n + 1] = P /\ \A j \in 1 .. n : M[j] = N[j]
  <2>1. n \in Nat
    BY <1>1
  <2> QED BY <2>1, WithIs
<1>3. /\ \A q \in h + 1 .. K : P[q] > l /\ P[q] \in 1 .. Len(nds2)
      /\ \A j \in 1 .. n : \A m \in 1 .. Len(B[j].keys) : N[j][m] \in 1 .. Len(nds)
  BY PathRange
<1> HIDE DEF M, K, l
<1>4. SUFFICES ASSUME NEW i \in 1 .. n + 1, NEW j \in 1 .. n + 1,
                      NEW k \in 1 .. Len(B[i].keys), Len(B[j].keys) >= k,
                      Begun(B, i, k) < Begun(B, j, k)
               PROVE  M[i][k] < M[j][k]
  BY DEF LaterIsHigher, M
<1>5. GoodBindings(B, L)
  BY DEF OneLineMore
<1>6. /\ k \in 0 .. Len(B[i].keys) /\ k \in 0 .. Len(B[j].keys) /\ k \in 1 .. Len(B[j].keys)
      /\ i \in 1 .. L /\ j \in 1 .. L
  BY <1>1, <1>4
<1>7. CASE i \in 1 .. n /\ j \in 1 .. n
  BY <1>2, <1>4, <1>7 DEF OneLineMore, Index, LaterIsHigher
<1>8. \A q \in 1 .. h : \E o \in 1 .. n :
        /\ q \in 1 .. Len(B[o].keys) /\ P[q] = N[o][q]
        /\ Begun(B, n + 1, q) = Begun(B, o, q)
  <2> TAKE q \in 1 .. h
  <2>1. h # 0 /\ q \in 0 .. h
    BY <1>1
  <2>2. PICK o \in 1 .. n : h <= Len(B[o].keys) /\ \A r \in 0 .. h : o \in Sharers(B, n, r) /\ P[r] = N[o][r]
    BY <2>1, SharedPath
  <2>3. SameStart(B[n + 1], B[o], q) /\ P[q] = N[o][q]
    BY <2>1, <2>2 DEF Sharers
  <2>4. Len(B[o].keys) \in Nat /\ o \in 1 .. L
    BY Numbers
  <2>5. q \in 1 .. Len(B[o].keys) /\ q <= Len(B[o].keys) /\ q \in 0 .. Len(B[n + 1].keys)
    BY <1>1, <2>2, <2>4 DEF K
  <2>6. Begun(B, n + 1, q) = Begun(B, o, q)
    BY <1>1, <1>5, <2>3, <2>4, <2>5, BegunTogether
  <2> QED
    BY <2>3, <2>5, <2>6
<1>9. \A q \in h + 1 .. K : Begun(B, n + 1, q) = n + 1
  <2> TAKE q \in h + 1 .. K
  <2>1. q \in 0 .. Len(B[n + 1].keys)
    BY <1>1 DEF K
  <2>2. Begun(B, n + 1, q) \in 1 .. n + 1 /\ SameStart(B[n + 1], B[Begun(B, n + 1, q)], q)
    BY <1>1, <1>5, <2>1, BegunIs
  <2>3. Sharers(B, n, q) = {}
    BY DEF OneLineMore, PathOf, K
  <2>4. Begun(B, n + 1, q) \notin 1 .. n
    BY <2>2, <2>3 DEF Sharers
  <2> QED
    BY <1>1, <2>2, <2>4
<1>10. CASE i = n + 1 /\ j \in 1 .. n
  <2>1. CASE k \in 1 .. h
    <3>1. PICK o \in 1 .. n : /\ k \in 1 .. Len(B[o].keys) /\ P[k] = N[o][k]
                              /\ Begun(B, n + 1, k) = Begun(B, o, k)
      BY <1>8, <2>1
    <3>2. N[o][k] < N[j][k]
      BY <1>4, <1>10, <3>1 DEF OneLineMore, Index, LaterIsHigher
    <3> QED BY <1>2, <1>10, <3>1, <3>2
  <2>2. CASE k \in h + 1 .. K
    <3>1. Begun(B, i, k) = n + 1
      BY <1>9, <1>10, <2>2
    <3>2. Begun(B, j, k) \in 1 .. j
      BY <1>5, <1>6, BegunIs
    <3> QED
      BY <1>1, <1>4, <1>10, <3>1, <3>2
  <2> QED BY <1>1, <1>10, <2>1, <2>2 DEF K
<1>11. CASE i \in 1 .. n /\ j = n + 1
  <2>1. CASE k \in 1 .. h
    <3>1. PICK o \in 1 .. n : /\ k \in 1 .. Len(B[o].keys) /\ P[k] = N[o][k]
                              /\ Begun(B, n + 1, k) = Begun(B, o, k)
      BY <1>8, <2>1
    <3>2. Len(B[o].keys) >= k
      <4>1. Len(B[o].keys) \in Nat
        BY Numbers
      <4> QED BY <3>1, <4>1
    <3>3. N[i][k] < N[o][k]
      BY <1>4, <1>11, <3>1, <3>2 DEF OneLineMore, Index, LaterIsHigher
    <3> QED BY <1>2, <1>11, <3>1, <3>3
  <2>2. CASE k \in h + 1 .. K
    <3>1. N[i][k] \in 1 .. l /\ P[k] > l /\ P[k] \in Nat
      BY <1>3, <1>11, <2>2 DEF l
    <3>2. N[i][k] < P[k]
      BY <1>1, <3>1
    <3> QED BY <1>2, <1>11, <3>2
  <2> QED BY <1>1, <1>6, <1>11, <2>1, <2>2 DEF K
<1>12. CASE i = n + 1 /\ j = n + 1
  <2>1. Begun(B, i, k) \in 1 .. i
    BY <1>5, <1>6, BegunIs
  <2> QED BY <1>1, <1>4, <1>12, <2>1
<1> QED
  BY <1>1, <1>7, <1>10, <1>11, <1>12

(* The lines that end at a node, after one line more.                        *)
LEMMA ExactlyGrows ==
  ASSUME NEW B, NEW n \in Nat, NEW j, NEW k
  PROVE  Exactly(B, n + 1, j, k) =
           IF Len(B[n + 1].keys) = k /\ SameStart(B[j], B[n + 1], k)
           THEN Exactly(B, n, j, k) \cup {n + 1} ELSE Exactly(B, n, j, k)
<1>1. \A i : i \in 1 .. n + 1 <=> i \in 1 .. n \/ i = n + 1
  OBVIOUS
<1> QED
  BY <1>1 DEF Exactly

LEMMA LastIsMax ==
  ASSUME NEW n \in Nat, NEW S \in SUBSET (1 .. n)
  PROVE  Max(S \cup {n + 1}) = n + 1
<1>1. S \cup {n + 1} \in SUBSET (0 .. n + 1) /\ S \cup {n + 1} # {}
  OBVIOUS
<1>2. /\ Max(S \cup {n + 1}) \in S \cup {n + 1}
      /\ \A y \in S \cup {n + 1} : Max(S \cup {n + 1}) >= y
  BY <1>1, MaxIsThere
<1>3. \A m : m \in S \cup {n + 1} /\ m >= n + 1 => m = n + 1
  OBVIOUS
<1> QED
  BY <1>2, <1>3

LEMMA ActionsGrow ==
  ASSUME NEW B, NEW L, NEW n, NEW nds, NEW N, NEW P, NEW h, NEW seq, NEW nds2,
         OneLineMore(B, L, n, nds, N, P, h, seq, nds2)
  PROVE  Actions(B, n + 1, nds2, With(N, n, P))
<1> DEFINE M == With(N, n, P)
           b == B[n + 1]
           K == Len(b.keys)
           l == Len(nds)
           Act(C) == IF C = {} THEN NoAction ELSE B[Max(C)].action
<1>1. /\ n \in Nat /\ n + 1 \in 1 .. n + 1
      /\ \A i \in 1 .. n + 1 : Len(B[i].keys) \in Nat \ {0} /\ (i = n + 1 \/ i \in 1 .. n)
      /\ h \in Nat /\ h <= K /\ K \in Nat \ {0}
  BY Numbers
<1>2. M[n + 1] = P /\ \A j \in 1 .. n : M[j] = N[j]
  <2>1. n \in Nat
    BY <1>1
  <2> QED BY <2>1, WithIs
<1>3. \A j \in 1 .. n : \A m \in 1 .. Len(B[j].keys) : N[j][m] \in 1 .. l
  BY PathRange
<1>4. /\ \A x \in 1 .. l : x # P[K] => nds2[x].action = nds[x].action
      /\ \A k \in h + 1 .. K : k # K => nds2[P[k]].action = NoAction
      /\ nds2[P[K]].action = b.action
  BY DEF OneLineMore, Grown
<1>5. \A j \in 1 .. n : \A k \in 1 .. Len(B[j].keys) :
        nds[N[j][k]].action = Act(Exactly(B, n, j, k))
  BY DEF OneLineMore, Index, Actions
<1>6. \A j \in 1 .. n + 1 : \A k \in 1 .. Len(B[j].keys) :
        M[j][k] = P[K] <=> k = K /\ SameStart(B[j], b, k)
  <2>1. Sharing(B, n + 1, M)
    BY SharingGrows
  <2> TAKE j \in 1 .. n + 1
  <2> TAKE k \in 1 .. Len(B[j].keys)
  <2>2. k \in 0 .. Len(B[j].keys) /\ K \in 0 .. Len(B[n + 1].keys)
    BY <1>1
  <2> HIDE DEF M, K
  <2>3. M[j][k] = M[n + 1][K] <=> k = K /\ SameStart(B[j], B[n + 1], k)
    BY <2>1, <2>2, <1>1 DEF Sharing
  <2> QED
    BY <1>2, <2>3
<1> HIDE DEF M, K, l
<1>7. ASSUME NEW j \in 1 .. n + 1, NEW k \in 1 .. Len(B[j].keys)
      PROVE  nds2[M[j][k]].action = Act(Exactly(B, n + 1, j, k))
  <2>1. CASE k = K /\ SameStart(B[j], b, k)
    <3>1. nds2[M[j][k]].action = b.action
      BY <1>4, <1>6, <2>1
    <3>2. Exactly(B, n + 1, j, k) = Exactly(B, n, j, k) \cup {n + 1}
      BY <1>1, <2>1, ExactlyGrows DEF K
    <3>3. Exactly(B, n, j, k) \in SUBSET (1 .. n)
      BY DEF Exactly
    <3>4. Max(Exactly(B, n + 1, j, k)) = n + 1
      BY <1>1, <3>2, <3>3, LastIsMax
    <3> QED
      BY <3>1, <3>2, <3>4
  <2>2. CASE ~(k = K /\ SameStart(B[j], b, k))
    <3>1. Exactly(B, n + 1, j, k) = Exactly(B, n, j, k)
      <4>1. ~(Len(B[n + 1].keys) = k /\ SameStart(B[j], B[n + 1], k))
        BY <2>2 DEF K
      <4>2. n \in Nat
        BY <1>1
      <4> QED
        BY <4>1, <4>2, ExactlyGrows
    <3>2. M[j][k] # P[K]
      BY <1>6, <2>2
    <3>3. CASE j \in 1 .. n
      <4>1. N[j][k] \in 1 .. l /\ M[j][k] = N[j][k]
        BY <1>2, <1>3, <3>3
      <4>2. nds2[M[j][k]].action = nds[N[j][k]].action
        BY <1>4, <3>2, <4>1
      <4>3. nds[N[j][k]].action = Act(Exactly(B, n, j, k))
        BY <1>5, <3>3
      <4> QED
        BY <3>1, <4>2, <4>3
    <3>4. CASE j = n + 1 /\ k \in 1 .. h
      <4>1. h # 0 /\ k \in 0 .. h
        BY <1>1, <3>4
      <4>2. PICK o \in 1 .. n : h <= Len(B[o].keys) /\ \A r \in 0 .. h : o \in Sharers(B, n, r) /\ P[r] = N[o][r]
        BY <4>1, SharedPath
      <4>3. SameStart(b, B[o], k) /\ P[k] = N[o][k] /\ Len(B[o].keys) \in Nat
        <5>1. Len(B[o].keys) \in Nat
          BY Numbers
        <5> QED BY <4>1, <4>2, <5>1 DEF Sharers
      <4>4. k \in 1 .. Len(B[o].keys) /\ k <= Len(b.keys)
        BY <1>1, <3>4, <4>2, <4>3 DEF K
      <4>5. SameStart(B[o], b, k)
        BY <4>3, <4>4, SameStartIs
      <4>6. \A i : SameStart(B[o], B[i], k) <=> SameStart(b, B[i], k)
        BY <4>3, <4>5, SameStartIs
      <4>7. Exactly(B, n, o, k) = Exactly(B, n, j, k)
        BY <3>4, <4>6 DEF Exactly
      <4>8. N[o][k] \in 1 .. l /\ nds[N[o][k]].action = Act(Exactly(B, n, o, k))
        BY <1>3, <1>5, <4>4
      <4>9. M[j][k] = N[o][k]
        BY <1>2, <3>4, <4>3
      <4>10. nds2[N[o][k]].action = nds[N[o][k]].action
        BY <1>4, <3>2, <4>8, <4>9
      <4> QED
        BY <3>1, <4>7, <4>8, <4>9, <4>10
    <3>5. CASE j = n + 1 /\ k \in h + 1 .. K
      <4>1. M[j][k] = P[k] /\ k # K
        BY <1>2, <3>2, <3>5
      <4>2. nds2[M[j][k]].action = NoAction
        BY <1>4, <3>5, <4>1
      <4>3. Sharers(B, n, k) = {}
        BY <3>5 DEF OneLineMore, PathOf, K
      <4>4. Exactly(B, n, j, k) = {}
        BY <3>5, <4>3 DEF Exactly, Sharers
      <4> QED
        BY <3>1, <4>2, <4>4
    <3>6. j = n + 1 => k \in 1 .. h \/ k \in h + 1 .. K
      BY <1>1 DEF K
    <3> QED
      BY <1>1, <3>3, <3>4, <3>5, <3>6
  <2> QED
    BY <2>1, <2>2
<1> QED
  BY <1>7 DEF Actions, M

(* The tree of n + 1 lines.                                                *)
LEMMA IndexGrows ==
  ASSUME NEW B, NEW L, NEW n, NEW nds, NEW N, NEW P, NEW h, NEW seq, NEW nds2,
         OneLineMore(B, L, n, nds, N, P, h, seq, nds2)
  PROVE  Index(B, n + 1, nds2, With(N, n, P))
<1>1. IsSeq(nds2) /\ \A x \in 1 .. Len(nds2) :
       nds2[x] = [parent |-> nds2[x].parent, ev |-> nds2[x].ev, action |-> nds2[x].action]
  BY DEF OneLineMore, Grown
<1> QED
  BY <1>1, PathsGrow, SharingGrows, ReachedGrows, OrderGrows, ActionsGrow DEF Index

-----------------------------------------------------------------------------
(* keymap_insert_sequence.                                                  *)

\* A node with its fields.
IsNode(x) == x = [parent |-> x.parent, ev |-> x.ev, action |-> x.action]

AreNodes(nds) == IsSeq(nds) /\ \A y \in 1 .. Len(nds) : IsNode(nds[y])

\* keymap_insert_sequence, where the sequence is there already.
WithAction(nds, x, a) == [nds EXCEPT ![x].action = a]

ActionIs(nds, x, a, d) ==
  /\ AreNodes(d) /\ Len(d) = Len(nds)
  /\ \A y \in 1 .. Len(nds) :
       /\ d[y].parent = nds[y].parent /\ d[y].ev = nds[y].ev
       /\ y # x => d[y].action = nds[y].action
  /\ d[x].action = a

LEMMA ActionSet ==
  ASSUME NEW nds, AreNodes(nds), NEW x \in 1 .. Len(nds), NEW a
  PROVE  ActionIs(nds, x, a, WithAction(nds, x, a))
<1> DEFINE d == WithAction(nds, x, a)
<1>0. d = [nds EXCEPT ![x].action = a]
  BY Zenon DEF WithAction
<1> HIDE DEF d
<1>1. PICK S : nds \in Seq(S)
  BY DEF IsSeq, AreNodes
<1>2. Len(nds) \in Nat /\ DOMAIN nds = 1 .. Len(nds) /\ nds \in [1 .. Len(nds) -> S]
  BY <1>1
<1> DEFINE r == nds[x]
           r2 == d[x]
<1>3. r = [parent |-> r.parent, ev |-> r.ev, action |-> r.action]
  BY DEF IsNode, AreNodes
<1>4. /\ DOMAIN d = 1 .. Len(nds) /\ \A y \in 1 .. Len(nds) : y # x => d[y] = nds[y]
      /\ r2 = [r EXCEPT !.action = a]
      /\ d = [y \in 1 .. Len(nds) |-> d[y]]
  BY <1>0, <1>2
<1> HIDE DEF r, r2
<1>5. r2 = [parent |-> r.parent, ev |-> r.ev, action |-> a]
  BY <1>3, <1>4
<1>6. IsNode(r2) /\ r2.parent = r.parent /\ r2.ev = r.ev /\ r2.action = a
  BY <1>5 DEF IsNode
<1>7. d \in [1 .. Len(nds) -> S \cup {r2}]
  BY <1>2, <1>4 DEF r2
<1>8. d \in Seq(S \cup {r2})
  BY <1>2, <1>7, SeqDef
<1>9. IsSeq(d) /\ Len(d) = Len(nds)
  <2>1. Len(d) \in Nat /\ DOMAIN d = 1 .. Len(d) /\ IsSeq(d)
    BY <1>8 DEF IsSeq
  <2>2. 1 .. Len(d) = 1 .. Len(nds) /\ Len(nds) \in Nat
    BY <1>2, <1>4, <2>1
  <2>3. Len(d) = Len(nds)
    BY <2>1, <2>2
  <2> QED
    BY <2>1, <2>3
<1>10. \A y \in 1 .. Len(nds) : IsNode(d[y])
  BY <1>4, <1>6 DEF r2, AreNodes
<1>11. ActionIs(nds, x, a, d)
  BY <1>4, <1>6, <1>9, <1>10 DEF r, r2, ActionIs, AreNodes
<1> QED
  BY <1>11 DEF d

\* m nodes follow those of the tree.
HungBelow(nds, m, rest, d) ==
  /\ IsSeq(d) /\ Len(d) = Len(nds) + m /\ Len(nds) \in Nat
  /\ \A y \in 1 .. Len(nds) : d[y] = nds[y]
  /\ \A j \in 1 .. m : d[Len(nds) + j] = rest[j]

LEMMA RestHung ==
  ASSUME NEW nds, IsSeq(nds), NEW m \in Nat, NEW R, NEW rest \in [1 .. m -> R]
  PROVE  HungBelow(nds, m, rest, nds \o rest)
<1> DEFINE d == nds \o rest
<1>1. PICK S : nds \in Seq(S)
  BY DEF IsSeq
<1> DEFINE T == S \cup R
<1>2. rest \in [1 .. m -> T]
  OBVIOUS
<1>3. rest \in Seq(T)
  BY <1>2, SeqDef
<1>4. DOMAIN rest = 1 .. m /\ Len(rest) \in Nat /\ DOMAIN rest = 1 .. Len(rest)
  BY <1>3
<1>5. Len(rest) = m
  BY <1>4
<1>6. nds \in Seq(T)
  <2>1. Len(nds) \in Nat /\ nds \in [1 .. Len(nds) -> T]
    BY <1>1
  <2> QED
    BY <2>1, SeqDef
<1> HIDE DEF T
<1>7. d \in Seq(T) /\ Len(d) = Len(nds) + Len(rest)
  BY <1>3, <1>6, ConcatProperties
<1>8. \A y \in 1 .. Len(nds) + Len(rest) : d[y] = IF y <= Len(nds) THEN nds[y] ELSE rest[y - Len(nds)]
  BY <1>3, <1>6, ConcatProperties
<1>9. Len(nds) \in Nat
  BY <1>1
<1>10. \A y \in 1 .. Len(nds) : d[y] = nds[y]
  BY <1>4, <1>8, <1>9
<1>11. \A j \in 1 .. m : d[Len(nds) + j] = rest[j]
  <2> TAKE j \in 1 .. m
  <2>1. Len(nds) + j \in 1 .. Len(nds) + Len(rest) /\ ~(Len(nds) + j <= Len(nds)) /\ (Len(nds) + j) - Len(nds) = j
    BY <1>5, <1>9
  <2> QED
    BY <1>8, <2>1
<1> QED
  BY <1>5, <1>7, <1>9, <1>10, <1>11 DEF IsSeq, HungBelow

\* What keymap_insert_sequence finds: the last of the keys it has a node for.
Meets(B, n, nds, N, f, h) ==
  /\ h \in 0 .. Len(B[n + 1].keys)
  /\ f[0] = Root
  /\ \A k \in 1 .. h :
       Sharers(B, n, k) # {} /\ \A i \in Sharers(B, n, k) : f[k] = N[i][k]
  /\ \A k \in h + 1 .. Len(B[n + 1].keys) : Sharers(B, n, k) = {}

(* The node it finds is where the new line begins to differ.                *)
LEMMA MeetsAt ==
  ASSUME NEW B, NEW L, GoodBindings(B, L), NEW n \in 0 .. L - 1, NEW nds, NEW N, Index(B, n, nds, N),
         NEW f, \A k \in 0 .. Len(B[n + 1].keys) : PathAt(B, n, N, k, f[k]),
         NEW h, h = Max({k \in 0 .. Len(B[n + 1].keys) : f[k] # Nowhere})
  PROVE  Meets(B, n, nds, N, f, h)
<1> DEFINE K == Len(B[n + 1].keys)
           H == {k \in 0 .. K : f[k] # Nowhere}
<1>1. L \in Nat /\ n \in Nat /\ n + 1 \in 1 .. L /\ K \in Nat \ {0} /\ \A i \in 1 .. n : Len(B[i].keys) \in Nat
  <2>1. L \in Nat /\ \A i \in 1 .. L : Len(B[i].keys) \in Nat \ {0}
    BY DEF GoodBindings
  <2>2. n \in Nat /\ n + 1 \in 1 .. L /\ \A i \in 1 .. n : i \in 1 .. L
    BY <2>1
  <2> QED BY <2>1, <2>2
<1>2. Len(nds) \in Nat
  BY DEF Index, IsSeq
<1> HIDE DEF K
<1>3. f[0] = Root
  BY <1>1 DEF PathAt, K
<1>4. 0 \in H /\ H \in SUBSET (0 .. K)
  BY <1>1, <1>3 DEF Root, Nowhere
<1>5. h \in H /\ \A y \in H : h >= y
  <2>1. h = Max(H)
    BY DEF K
  <2> HIDE DEF H
  <2> QED
    BY <1>1, <1>4, <2>1, MaxIsThere
<1>6. ASSUME NEW k \in 1 .. K
      PROVE  /\ k \in H <=> Sharers(B, n, k) # {}
             /\ \A i \in Sharers(B, n, k) : f[k] = N[i][k]
  <2>1. k \in 0 .. K /\ k # 0
    BY <1>1
  <2>2. /\ \A i \in Sharers(B, n, k) : f[k] = N[i][k]
        /\ Sharers(B, n, k) = {} => f[k] = Nowhere
    BY <2>1 DEF PathAt, K
  <2>3. ASSUME NEW i \in Sharers(B, n, k) PROVE f[k] # Nowhere
    <3>1. i \in 1 .. n /\ k <= Len(B[i].keys)
      BY DEF Sharers, SameStart
    <3>2. k \in 1 .. Len(B[i].keys)
      BY <1>1, <3>1
    <3>3. N[i][k] \in 1 .. Len(nds)
      BY <3>1, <3>2 DEF Index, Paths
    <3> QED
      BY <1>2, <2>2, <2>3, <3>3 DEF Nowhere
  <2> QED
    BY <2>1, <2>2, <2>3
<1>7. h \in 0 .. K
  BY <1>5
<1>8. ASSUME NEW k \in 1 .. h
      PROVE  Sharers(B, n, k) # {} /\ \A i \in Sharers(B, n, k) : f[k] = N[i][k]
  <2>1. h \in 1 .. K /\ k \in 1 .. K /\ k \in 0 .. h /\ h \in Nat
    BY <1>1, <1>7
  <2>2. PICK i \in Sharers(B, n, h) : TRUE
    BY <1>5, <1>6, <2>1
  <2>3. i \in 1 .. n /\ SameStart(B[n + 1], B[i], h)
    BY DEF Sharers
  <2>4. SameStart(B[n + 1], B[i], k)
    BY <1>1, <2>1, <2>3, SameStartIs
  <2>5. i \in Sharers(B, n, k)
    BY <2>3, <2>4 DEF Sharers
  <2> QED
    BY <1>6, <2>1, <2>5
<1>9. ASSUME NEW k \in h + 1 .. K PROVE Sharers(B, n, k) = {}
  <2>1. k \in 1 .. K /\ ~(h >= k)
    BY <1>1, <1>7
  <2>2. k \notin H
    BY <1>5, <2>1
  <2> HIDE DEF H
  <2> QED
    BY <1>6, <2>1, <2>2
<1> QED
  BY <1>3, <1>7, <1>8, <1>9 DEF Meets, K

\* The rest of a line, hung under the last node it shares.
RestOf(f, seq, h, l, action) ==
  [j \in 1 .. Len(seq) - h |->
     [parent |-> IF j = 1 THEN f[h] ELSE l + j - 1,
      ev     |-> seq[h + j],
      action |-> IF h + j = Len(seq) THEN action ELSE NoAction]]

\* The nodes found, then the new ones.
NewPath(f, h, l, K) == [k \in 0 .. K |-> IF k <= h THEN f[k] ELSE l + k - h]

\* How many keys of a line have a node.
SharedKeys(f, n) == Max({k \in 0 .. n : f[k] # Nowhere})

(* The definition of InsertSequence, with its parts named.                  *)
LEMMA InsertIs ==
  ASSUME NEW nds, NEW seq, NEW action
  PROVE  InsertSequence(nds, seq, action) =
           IF SharedKeys(SequenceNodes(nds, seq), Len(seq)) = Len(seq)
           THEN WithAction(nds, SequenceNodes(nds, seq)[SharedKeys(SequenceNodes(nds, seq), Len(seq))], action)
           ELSE nds \o RestOf(SequenceNodes(nds, seq), seq,
                               SharedKeys(SequenceNodes(nds, seq), Len(seq)), Len(nds), action)
BY Zenon DEF InsertSequence, RestOf, WithAction, SharedKeys

(* Both ways to insert a sequence make the tree grow by the new path.      *)
LEMMA RestGrows ==
  ASSUME NEW nds, AreNodes(nds),
         NEW f, NEW seq, NEW h, NEW K, NEW action, K = Len(seq), K \in Nat, h \in 0 .. K - 1,
         NEW nds2, nds2 = nds \o RestOf(f, seq, h, Len(nds), action),
         NEW P, P = NewPath(f, h, Len(nds), K)
  PROVE  Grown(nds, nds2, P, seq, h, K, action)
<1> DEFINE rest == RestOf(f, seq, h, Len(nds), action)
           m == K - h
           l == Len(nds)
<1>1. m \in Nat \ {0} /\ h \in Nat /\ l \in Nat
  BY DEF IsSeq, AreNodes
<1>2. rest \in [1 .. m -> {rest[j] : j \in 1 .. m}]
  BY DEF RestOf
<1>3. \A j \in 1 .. m :
        rest[j] = [parent |-> IF j = 1 THEN f[h] ELSE l + j - 1, ev |-> seq[h + j],
                   action |-> IF h + j = K THEN action ELSE NoAction]
  BY DEF RestOf
<1>4. \A k \in 0 .. K : P[k] = IF k <= h THEN f[k] ELSE l + k - h
  BY DEF NewPath
<1>5. nds2 = nds \o rest
  OBVIOUS
<1> HIDE DEF rest, m
<1>6. /\ IsSeq(nds2) /\ Len(nds2) = l + m
      /\ \A y \in 1 .. l : nds2[y] = nds[y]
      /\ \A j \in 1 .. m : nds2[l + j] = rest[j]
  <2>1. IsSeq(nds)
    BY DEF AreNodes
  <2> QED
    <3>1. HungBelow(nds, m, rest, nds2)
      BY <1>1, <1>2, <1>5, <2>1, RestHung
    <3> QED
      BY <3>1 DEF HungBelow
<1> HIDE DEF l
<1>7. ASSUME NEW k \in h + 1 .. K
      PROVE  /\ nds2[P[k]].parent = P[k - 1] /\ nds2[P[k]].ev = seq[k]
             /\ nds2[P[k]].action = IF k = K THEN action ELSE NoAction
  <2> DEFINE j == k - h
  <2>1. /\ j \in 1 .. m /\ k \in 0 .. K /\ k - 1 \in 0 .. K /\ ~(k <= h) /\ h + j = k
        /\ l + k - h = l + j
        /\ IF j = 1 THEN k - 1 = h ELSE ~(k - 1 <= h) /\ l + (k - 1) - h = l + j - 1
    BY <1>1 DEF m
  <2>2. P[k] = l + j
    BY <1>4, <2>1
  <2>3. P[k - 1] = IF j = 1 THEN f[h] ELSE l + j - 1
    <3>1. CASE j = 1
      <4>1. k - 1 = h /\ h \in 0 .. K /\ h <= h
        BY <2>1, <3>1
      <4>2. P[h] = f[h]
        BY <1>4, <4>1
      <4> QED BY <3>1, <4>1, <4>2
    <3>2. CASE j # 1
      BY <1>4, <2>1, <3>2
    <3> QED BY <3>1, <3>2
  <2> HIDE DEF j
  <2>4. nds2[P[k]] = rest[j]
    BY <1>6, <2>1, <2>2
  <2>5. rest[j] = [parent |-> P[k - 1], ev |-> seq[k], action |-> IF k = K THEN action ELSE NoAction]
    <3>1. rest[j] = [parent |-> IF j = 1 THEN f[h] ELSE l + j - 1, ev |-> seq[h + j],
                     action |-> IF h + j = K THEN action ELSE NoAction]
      BY <1>3, <2>1
    <3>2. h + j = k
      BY <2>1
    <3> QED
      BY <2>3, <3>1, <3>2
  <2> QED
    BY <2>4, <2>5
<1>8. \A x \in 1 .. Len(nds2) : IsNode(nds2[x])
  <2> TAKE x \in 1 .. Len(nds2)
  <2>1. CASE x \in 1 .. l
    BY <2>1, <1>6 DEF l, AreNodes
  <2>2. CASE x \notin 1 .. l
    <3> DEFINE j == x - l
    <3>1. j \in 1 .. m /\ l + j = x
      BY <1>1, <1>6, <2>2
    <3> HIDE DEF j
    <3>2. nds2[x] = rest[j]
      BY <1>6, <3>1
    <3>3. IsNode(rest[j])
      <4> DEFINE r == rest[j]
                 a == IF j = 1 THEN f[h] ELSE l + j - 1
                 b == seq[h + j]
                 c == IF h + j = K THEN action ELSE NoAction
      <4>1. r = [parent |-> a, ev |-> b, action |-> c]
        BY <1>3, <3>1
      <4> HIDE DEF r, a, b, c
      <4>2. IsNode(r)
        BY <4>1 DEF IsNode
      <4> QED
        BY <4>2 DEF r
    <3> QED BY <3>2, <3>3
  <2> QED BY <2>1, <2>2
<1>9. nds2[P[K]].action = action
  <2>1. K \in h + 1 .. K
    BY <1>1 DEF m
  <2> QED BY <1>7, <2>1
<1>10. Len(nds2) = Len(nds) + (K - h)
  BY <1>6 DEF l, m
<1>11. \A x \in 1 .. Len(nds) :
         nds2[x].parent = nds[x].parent /\ nds2[x].ev = nds[x].ev /\ nds2[x].action = nds[x].action
  BY <1>6 DEF l
<1>12. \A k \in h + 1 .. K :
         /\ nds2[P[k]].parent = P[k - 1] /\ nds2[P[k]].ev = seq[k]
         /\ k # K => nds2[P[k]].action = NoAction
  BY <1>7
<1> QED
  BY <1>6, <1>8, <1>9, <1>10, <1>11, <1>12 DEF Grown, IsNode

LEMMA ActionGrows ==
  ASSUME NEW nds, AreNodes(nds),
         NEW f, NEW seq, NEW K \in Nat, NEW action, NEW P, P[K] \in 1 .. Len(nds), P[K] = f[K],
         NEW nds2, nds2 = WithAction(nds, f[K], action)
  PROVE  Grown(nds, nds2, P, seq, K, K, action)
<1> DEFINE x == P[K]
<1>1. x \in 1 .. Len(nds) /\ nds2 = WithAction(nds, x, action)
  OBVIOUS
<1> HIDE DEF x
<1>2. ActionIs(nds, x, action, nds2)
  BY <1>1, ActionSet
<1>3. Len(nds) \in Nat /\ Len(nds2) = Len(nds) + (K - K)
  BY <1>2 DEF IsSeq, AreNodes, ActionIs
<1>4. \A k \in K + 1 .. K : FALSE
  OBVIOUS
<1> QED
  BY <1>2, <1>3, <1>4 DEF Grown, IsNode, AreNodes, ActionIs, x

(* Inserting the keys of the next line makes the tree of one line more.     *)
LEMMA Inserted ==
  ASSUME NEW B, NEW L, GoodBindings(B, L), NEW n \in 0 .. L - 1, NEW nds, NEW N, Index(B, n, nds, N),
         NEW seq, Len(seq) = Len(B[n + 1].keys),
         \A k \in 1 .. Len(seq) : Same(seq[k], B[n + 1].keys[k]),
         NEW nds2, nds2 = InsertSequence(nds, seq, B[n + 1].action)
  PROVE  \E M : Index(B, n + 1, nds2, M)
<1> DEFINE K == Len(B[n + 1].keys)
           f == SequenceNodes(nds, seq)
           h == SharedKeys(f, Len(seq))
           a == B[n + 1].action
           P == NewPath(f, h, Len(nds), K)
<1>1. L \in Nat /\ n \in Nat /\ n + 1 \in 1 .. L /\ K \in Nat \ {0} /\ Len(seq) = K
  BY DEF GoodBindings
<1>2. \A k \in 0 .. Len(seq) : PathAt(B, n, N, k, f[k])
  BY Found
<1>3. nds2 = IF h = Len(seq) THEN WithAction(nds, f[h], a)
             ELSE nds \o RestOf(f, seq, h, Len(nds), a)
  BY InsertIs
<1> HIDE DEF f
<1>4. h = Max({k \in 0 .. Len(B[n + 1].keys) : f[k] # Nowhere})
  BY DEF SharedKeys
<1> HIDE DEF h
<1>5. Meets(B, n, nds, N, f, h)
  BY <1>2, <1>4, MeetsAt
<1>6. h \in 0 .. K /\ h \in Nat
  BY <1>1, <1>5 DEF Meets
<1>7. AreNodes(nds) /\ Len(nds) \in Nat
  BY DEF Index, IsNode, AreNodes, IsSeq
<1>8. \A k \in 0 .. K : P[k] = IF k <= h THEN f[k] ELSE Len(nds) + k - h
  BY DEF NewPath
<1>9. PathOf(B, n, Len(nds), N, P, h)
  <2>1. P[0] = Root
    BY <1>1, <1>5, <1>6, <1>8 DEF Meets
  <2>2. ASSUME NEW k \in 1 .. h
        PROVE  Sharers(B, n, k) # {} /\ \A i \in Sharers(B, n, k) : P[k] = N[i][k]
    <3>1. P[k] = f[k]
      BY <1>1, <1>6, <1>8
    <3> QED
      BY <1>5, <3>1 DEF Meets
  <2>3. ASSUME NEW k \in h + 1 .. K
        PROVE  Sharers(B, n, k) = {} /\ P[k] = Len(nds) + k - h
    <3>1. P[k] = Len(nds) + k - h
      BY <1>1, <1>6, <1>8
    <3> QED
      BY <1>5, <3>1 DEF Meets
  <2> HIDE DEF P
  <2> QED
    BY <1>6, <2>1, <2>2, <2>3 DEF PathOf
<1>10. Grown(nds, nds2, P, seq, h, K, a)
  <2>1. CASE h # K
    <3>1. h \in 0 .. K - 1
      BY <1>1, <1>6, <2>1
    <3>2. nds2 = nds \o RestOf(f, seq, h, Len(nds), a)
      BY <1>1, <1>3, <2>1
    <3> HIDE DEF K, a
    <3> QED
      BY <1>1, <1>7, <3>1, <3>2, RestGrows
  <2>2. CASE h = K
    <3>1. nds2 = WithAction(nds, f[K], a)
      BY <1>1, <1>3, <2>2
    <3>2. P[K] = f[K]
      <4>1. K \in 0 .. K /\ K <= h
        BY <1>1, <2>2
      <4> HIDE DEF K, P
      <4> QED BY <1>8, <4>1
    <3>3. P[K] \in 1 .. Len(nds)
      <4>1. K \in 1 .. h
        BY <1>1, <2>2
      <4>2. PICK i \in Sharers(B, n, K) : P[K] = N[i][K]
        BY <1>9, <4>1 DEF PathOf
      <4>3. i \in 1 .. n /\ K <= Len(B[i].keys)
        BY DEF Sharers, SameStart
      <4>4. K \in 1 .. Len(B[i].keys)
        <5>1. i \in 1 .. L
          BY <4>3 DEF GoodBindings
        <5>2. Len(B[i].keys) \in Nat
          BY <5>1 DEF GoodBindings
        <5> QED BY <5>2, <4>3, <1>1
      <4> QED
        BY <4>2, <4>3, <4>4 DEF Index, Paths
    <3> HIDE DEF K, a, P
    <3>4. Grown(nds, nds2, P, seq, K, K, a)
      BY <1>1, <1>7, <3>1, <3>2, <3>3, ActionGrows
    <3> QED BY <2>2, <3>4
  <2> QED BY <2>1, <2>2
<1>11. OneLineMore(B, L, n, nds, N, P, h, seq, nds2)
  <2>1. \A k \in 1 .. Len(B[n + 1].keys) : Same(seq[k], B[n + 1].keys[k])
    OBVIOUS
  <2>2. GoodBindings(B, L) /\ n \in 0 .. L - 1 /\ Index(B, n, nds, N)
    OBVIOUS
  <2> HIDE DEF P
  <2> QED
    BY <1>9, <1>10, <2>1, <2>2 DEF OneLineMore
<1>12. Index(B, n + 1, nds2, With(N, n, P))
  BY <1>11, IndexGrows
<1> QED
  BY <1>12

-----------------------------------------------------------------------------
(* From the configuration to the tree.                                      *)

(* A function on 1 .. n is a sequence of n.                                  *)
LEMMA LengthIs ==
  ASSUME NEW n \in Nat, NEW T, NEW s \in [1 .. n -> T]
  PROVE  Len(s) = n
<1>1. s \in Seq(T)
  BY SeqDef
<1>2. Len(s) \in Nat /\ DOMAIN s = 1 .. Len(s) /\ DOMAIN s = 1 .. n
  BY <1>1
<1> QED
  BY <1>2

(* The bindings that the configuration gives are good ones.                 *)
LEMMA BindingIs ==
  ASSUME NEW line, WellFormed(line)
  PROVE  /\ Len(Binding(line).keys) \in Nat \ {0}
         /\ Len(ParsedLine(line)) = Len(Binding(line).keys)
         /\ \A k \in 1 .. Len(Binding(line).keys) :
              Same(ParsedLine(line)[k], Binding(line).keys[k]) /\ Plain(Binding(line).keys[k])
         /\ Binding(line).action = line[Len(line)].action
         /\ Binding(line).action # NoAction
<1> DEFINE n == KeyOf(line, Len(line))
           ks == Binding(line).keys
<1>1. /\ Len(ParsedLine(line)) = n /\ n \in Nat \ {0}
      /\ \A k \in 1 .. n : Same(ParsedLine(line)[k], ks[k]) /\ Plain(ks[k])
  BY LineParsed
<1>2. ks = [k \in 1 .. n |-> Described(PartOf(line, k))] /\ Binding(line).action = line[Len(line)].action
  BY DEF Binding, PartOf
<1>3. line[Len(line)].action # NoAction
  BY DEF WellFormed
<1>4. ks \in [1 .. n -> {Described(PartOf(line, k)) : k \in 1 .. n}]
  BY <1>2
<1> HIDE DEF n, ks
<1>5. Len(ks) = n
  BY <1>1, <1>4, LengthIs
<1> QED
  BY <1>1, <1>2, <1>3, <1>5 DEF ks

LEMMA BindingsGood ==
  ASSUME NEW c \in DOMAIN Configs
  PROVE  /\ GoodBindings(Bindings[c], Len(Configs[c]))
         /\ \A i \in 1 .. Len(Configs[c]) :
              Bindings[c][i] = Binding(Configs[c][i]) /\ WellFormed(Configs[c][i])
<1> DEFINE conf == Configs[c]
           B == Bindings[c]
<1>1. /\ Len(conf) \in Nat /\ DOMAIN conf = 1 .. Len(conf)
      /\ \A i \in DOMAIN conf : WellFormed(conf[i])
  BY ConfigAssumption DEF ConfigAssumption
<1>2. DOMAIN B = DOMAIN conf /\ \A i \in DOMAIN conf : B[i] = Binding(conf[i])
  BY DEF Bindings, BindingsOf
<1> HIDE DEF conf, B
<1>3. \A i \in 1 .. Len(conf) :
        /\ Len(B[i].keys) \in Nat \ {0}
        /\ \A k \in 1 .. Len(B[i].keys) : Plain(B[i].keys[k])
        /\ B[i].action # NoAction
  BY <1>1, <1>2, BindingIs
<1>4. GoodBindings(B, Len(conf))
  BY <1>1, <1>2, <1>3 DEF GoodBindings
<1> QED
  BY <1>1, <1>2, <1>4 DEF conf, B

(* A line read makes the tree of one line more.                            *)
LEMMA LineRead ==
  ASSUME NEW c \in DOMAIN Configs, NEW n \in 0 .. Len(Configs[c]) - 1, NEW nds, NEW N,
         Index(Bindings[c], n, nds, N)
  PROVE  \E M : Index(Bindings[c], n + 1, AddLine(nds, Configs[c][n + 1]), M)
<1> DEFINE B == Bindings[c]
           L == Len(Configs[c])
           line == Configs[c][n + 1]
           seq == ParsedLine(line)
<1>1. GoodBindings(B, L) /\ \A i \in 1 .. L : B[i] = Binding(Configs[c][i]) /\ WellFormed(Configs[c][i])
  BY BindingsGood
<1>2. n + 1 \in 1 .. L
  <2>1. L \in Nat
    BY <1>1 DEF GoodBindings
  <2> QED BY <2>1
<1>3. B[n + 1] = Binding(line) /\ WellFormed(line)
  BY <1>1, <1>2
<1> HIDE DEF B, L, line
<1>4. /\ Len(seq) = Len(B[n + 1].keys)
      /\ \A k \in 1 .. Len(seq) : Same(seq[k], B[n + 1].keys[k])
      /\ B[n + 1].action = line[Len(line)].action
  BY <1>3, BindingIs
<1>5. AddLine(nds, line) = InsertSequence(nds, seq, B[n + 1].action)
  BY <1>4, Zenon DEF AddLine
<1>6. n \in 0 .. L - 1 /\ Index(B, n, nds, N)
  BY DEF L, B
<1> HIDE DEF seq
<1>7. \E M : Index(B, n + 1, AddLine(nds, line), M)
  BY <1>1, <1>4, <1>5, <1>6, Inserted
<1> QED
  BY <1>7 DEF B, line

NarrowsUpTo(B, evs, n, f) ==
  f = [k \in 0 .. n |-> IF k = 0 THEN DOMAIN B ELSE Narrowed(B, f[k - 1], k, evs[k])]

(* The bindings that are left exist, and there is one such function.        *)
LEMMA OneEventMore ==
  ASSUME NEW B, NEW evs, NEW n \in Nat, NEW f, NarrowsUpTo(B, evs, n, f), NEW g,
         g = [k \in 0 .. n + 1 |-> IF k <= n THEN f[k] ELSE Narrowed(B, f[n], n + 1, evs[n + 1])]
  PROVE  NarrowsUpTo(B, evs, n + 1, g)
<1> DEFINE R(k) == IF k = 0 THEN DOMAIN B ELSE Narrowed(B, g[k - 1], k, evs[k])
<1>0. \A k \in 0 .. n : f[k] = IF k = 0 THEN DOMAIN B ELSE Narrowed(B, f[k - 1], k, evs[k])
  BY DEF NarrowsUpTo
<1>1. \A k \in 0 .. n + 1 : g[k] = R(k)
  <2> TAKE k \in 0 .. n + 1
  <2>1. CASE k = 0
    BY <2>1, <1>0
  <2>2. CASE k \in 1 .. n
    <3>1. g[k] = f[k] /\ g[k - 1] = f[k - 1]
      BY <2>2
    <3> QED BY <2>2, <3>1, <1>0
  <2>3. CASE k = n + 1
    <3>1. g[k] = Narrowed(B, f[n], k, evs[n + 1]) /\ g[k - 1] = f[n]
      BY <2>3
    <3> QED BY <2>3, <3>1
  <2> QED BY <2>1, <2>2, <2>3
<1>2. g = [k \in 0 .. n + 1 |-> g[k]]
  OBVIOUS
<1>3. g = [k \in 0 .. n + 1 |-> R(k)]
  <2> HIDE DEF R
  <2> QED BY <1>1, <1>2
<1> QED
  BY <1>3, Zenon DEF NarrowsUpTo

LEMMA RivalsIs ==
  ASSUME NEW B, NEW evs, Len(evs) \in Nat
  PROVE  \E f : NarrowsUpTo(B, evs, Len(evs), f) /\ Rivals(B, evs) = f[Len(evs)]
<1> DEFINE S == {n \in Nat : \E f : NarrowsUpTo(B, evs, n, f)}
<1>1. 0 \in S
  <2> DEFINE f == [k \in 0 .. 0 |-> DOMAIN B]
  <2>1. NarrowsUpTo(B, evs, 0, f)
    BY DEF NarrowsUpTo
  <2> QED
    BY <2>1
<1>2. ASSUME NEW n \in Nat, n \in S PROVE n + 1 \in S
  <2>1. PICK f : NarrowsUpTo(B, evs, n, f)
    BY <1>2
  <2>2. NarrowsUpTo(B, evs, n + 1,
                    [k \in 0 .. n + 1 |-> IF k <= n THEN f[k] ELSE Narrowed(B, f[n], n + 1, evs[n + 1])])
    BY <2>1, OneEventMore
  <2> QED
    BY <2>2
<1>3. Nat \subseteq S
  <2> HIDE DEF S
  <2> QED BY <1>1, <1>2, NatSetInduction
<1>4. \E f : NarrowsUpTo(B, evs, Len(evs), f)
  BY <1>3
<1> DEFINE f == CHOOSE f : NarrowsUpTo(B, evs, Len(evs), f)
<1>5. NarrowsUpTo(B, evs, Len(evs), f)
  BY <1>4
<1>6. Rivals(B, evs) = f[Len(evs)]
  BY DEF Rivals, NarrowsUpTo
<1> QED
  BY <1>5, <1>6

(* Before any event every binding is left.                                   *)
LEMMA RivalsOfNone ==
  ASSUME NEW B
  PROVE  Rivals(B, <<>>) = DOMAIN B
<1>1. Len(<<>>) = 0
  OBVIOUS
<1>2. PICK f : NarrowsUpTo(B, <<>>, 0, f) /\ Rivals(B, <<>>) = f[0]
  BY <1>1, RivalsIs
<1>3. f[0] = DOMAIN B
  BY <1>2 DEF NarrowsUpTo
<1> QED
  BY <1>2, <1>3

(* The events seen before decide what one more leaves.                     *)
LEMMA RivalsNarrow ==
  ASSUME NEW B, NEW t, IsSeq(t), NEW ev
  PROVE  Rivals(B, Append(t, ev)) = Narrowed(B, Rivals(B, t), Len(t) + 1, ev)
<1> DEFINE u == Append(t, ev)
           m == Len(t)
<1>1. /\ m \in Nat /\ Len(u) = m + 1 /\ u[m + 1] = ev
      /\ \A k \in 1 .. m : u[k] = t[k]
  BY OneMore
<1> HIDE DEF u, m
<1>2. PICK f : NarrowsUpTo(B, t, m, f) /\ Rivals(B, t) = f[m]
  BY <1>1, RivalsIs DEF m
<1>3. Len(u) \in Nat
  BY <1>1
<1>4. PICK g : NarrowsUpTo(B, u, m + 1, g) /\ Rivals(B, u) = g[m + 1]
  BY <1>1, <1>3, RivalsIs
<1> DEFINE S == {k \in 0 .. m : f[k] = g[k]}
<1>5. \A k \in 0 .. m : f[k] = IF k = 0 THEN DOMAIN B ELSE Narrowed(B, f[k - 1], k, t[k])
  BY <1>2 DEF NarrowsUpTo
<1>6. \A k \in 0 .. m + 1 : g[k] = IF k = 0 THEN DOMAIN B ELSE Narrowed(B, g[k - 1], k, u[k])
  BY <1>4 DEF NarrowsUpTo
<1>7. 0 \in S
  BY <1>1, <1>5, <1>6
<1>8. \A k \in 0 .. m - 1 : k \in S => k + 1 \in S
  <2> TAKE k \in 0 .. m - 1
  <2> HAVE k \in S
  <2>1. /\ k + 1 \in 0 .. m /\ k + 1 \in 0 .. m + 1 /\ k + 1 # 0 /\ (k + 1) - 1 = k
        /\ k + 1 \in 1 .. m
    BY <1>1
  <2>2. f[k + 1] = Narrowed(B, f[k], k + 1, t[k + 1])
    BY <1>5, <2>1
  <2>3. g[k + 1] = Narrowed(B, g[k], k + 1, u[k + 1])
    BY <1>6, <2>1
  <2>4. u[k + 1] = t[k + 1] /\ f[k] = g[k]
    BY <1>1, <2>1
  <2> QED
    BY <2>1, <2>2, <2>3, <2>4
<1>9. m \in S
  <2> HIDE DEF S
  <2>1. \A k \in 0 .. m : k \in S
    BY <1>1, <1>7, <1>8, UpToInduction
  <2> QED BY <1>1, <2>1
<1>10. g[m + 1] = Narrowed(B, g[m], m + 1, u[m + 1])
  <2>1. m + 1 \in 0 .. m + 1 /\ m + 1 # 0 /\ (m + 1) - 1 = m
    BY <1>1
  <2> QED BY <1>6, <2>1
<1> QED
  BY <1>1, <1>2, <1>4, <1>9, <1>10 DEF u, m

-----------------------------------------------------------------------------
(* The walk.                                                                *)

\* The lines that reach the node x with their first m keys.
Through(B, L, N, m, x) == {i \in 1 .. L : Len(B[i].keys) >= m /\ N[i][m] = x}

\* The events w have led to the node x, and the lines they begin lead there.
WalkedTo(B, L, N, w, x) ==
  /\ IsSeq(w)
  /\ Rivals(B, w) = Through(B, L, N, Len(w), x)
  /\ IF x = Root THEN Len(w) = 0 ELSE Rivals(B, w) # {}

\* The bindings left whose n-th key takes the event.
Taking(B, left, n, ev) == {i \in left : Len(B[i].keys) >= n /\ Contains(B[i].keys[n], ev)}

LEMMA NarrowedIs ==
  ASSUME NEW B, NEW left, NEW n, NEW ev
  PROVE  Narrowed(B, left, n, ev) =
           {i \in Taking(B, left, n, ev) : \A j \in Taking(B, left, n, ev) : Begun(B, i, n) >= Begun(B, j, n)}
BY DEF Narrowed, Taking

\* The children of x that take the event.
Takers(nds, x, ev) == {i \in Children(nds, x) : Contains(nds[i].ev, ev)}

(* The children that take the event are the nodes of the lines that do.     *)
LEMMA TakersAre ==
  ASSUME NEW B, NEW L, GoodBindings(B, L), NEW nds, NEW N, Index(B, L, nds, N),
         NEW w, NEW x, WalkedTo(B, L, N, w, x), NEW ev
  PROVE  Takers(nds, x, ev) =
           {N[i][Len(w) + 1] : i \in Taking(B, Rivals(B, w), Len(w) + 1, ev)}
<1> DEFINE m == Len(w)
           take == Taking(B, Rivals(B, w), m + 1, ev)
<1>1. m \in Nat
  BY DEF WalkedTo, IsSeq
<1>2. \A i \in 1 .. L : Len(B[i].keys) \in Nat \ {0}
  BY DEF GoodBindings
<1>3. DOMAIN nds = 1 .. Len(nds) /\ Len(nds) \in Nat
  BY DEF Index, IsSeq
<1>4. Rivals(B, w) = Through(B, L, N, m, x) /\ IF x = Root THEN m = 0 ELSE Rivals(B, w) # {}
  BY DEF WalkedTo
<1> HIDE DEF m
<1>5. ASSUME NEW i \in take PROVE N[i][m + 1] \in Takers(nds, x, ev)
  <2>1. /\ i \in 1 .. L /\ N[i][m] = x /\ Len(B[i].keys) >= m + 1
        /\ Contains(B[i].keys[m + 1], ev)
    BY <1>4 DEF Taking, Through
  <2>2. m + 1 \in 1 .. Len(B[i].keys) /\ (m + 1) - 1 = m
    BY <1>1, <1>2, <2>1
  <2>3. /\ N[i][m + 1] \in 1 .. Len(nds) /\ nds[N[i][m + 1]].parent = N[i][m]
        /\ Same(nds[N[i][m + 1]].ev, B[i].keys[m + 1])
    BY <2>1, <2>2 DEF Index, Paths
  <2>4. Contains(nds[N[i][m + 1]].ev, ev)
    BY <2>1, <2>3, SameTakesTheSame
  <2> QED
    BY <1>3, <2>1, <2>3, <2>4 DEF Takers, Children
<1>6. ASSUME NEW y \in Takers(nds, x, ev) PROVE \E i \in take : y = N[i][m + 1]
  <2>1. y \in 1 .. Len(nds) /\ nds[y].parent = x /\ Contains(nds[y].ev, ev)
    BY <1>3 DEF Takers, Children
  <2>2. PICK j \in 1 .. L : \E q \in 1 .. Len(B[j].keys) : y = N[j][q]
    BY <2>1 DEF Index, Reached
  <2>3. PICK q \in 1 .. Len(B[j].keys) : y = N[j][q]
    BY <2>2
  <2>4. N[j][q - 1] = x /\ Same(nds[y].ev, B[j].keys[q]) /\ N[j][0] = Root
    BY <2>1, <2>3 DEF Index, Paths
  <2> DEFINE a == q - 1
  <2>5. a \in 0 .. Len(B[j].keys) /\ a + 1 = q /\ q \in Nat \ {0}
    <3>1. Len(B[j].keys) \in Nat
      BY <1>2
    <3> QED BY <3>1
  <2>6. N[j][a] = x
    BY <2>4
  <2> HIDE DEF a
  <2>7. PICK i \in 1 .. L : Len(B[i].keys) >= m /\ N[i][m] = x
    <3>1. CASE x # Root
      BY <1>4, <3>1 DEF Through
    <3>2. CASE x = Root
      <4>1. m = 0 /\ Len(B[j].keys) >= 0
        BY <1>2, <1>4, <3>2
      <4> QED
        BY <2>4, <3>2, <4>1
    <3> QED BY <3>1, <3>2
  <2>8. m \in 0 .. Len(B[i].keys)
    <3>1. Len(B[i].keys) \in Nat
      BY <1>2
    <3> QED BY <1>1, <2>7, <3>1
  <2>9. a = m
    BY <2>5, <2>6, <2>7, <2>8 DEF Index, Sharing
  <2>10. j \in Rivals(B, w)
    <3>1. Len(B[j].keys) >= m
      <4>1. Len(B[j].keys) \in Nat
        BY <1>2
      <4> QED BY <2>5, <2>9, <4>1
    <3> QED
      BY <1>4, <2>6, <2>9, <3>1 DEF Through
  <2>11. Len(B[j].keys) >= m + 1 /\ q = m + 1
    <3>1. Len(B[j].keys) \in Nat
      BY <1>2
    <3> QED BY <2>5, <2>9, <3>1
  <2>12. Contains(B[j].keys[m + 1], ev)
    BY <2>1, <2>4, <2>11, SameTakesTheSame
  <2>13. j \in take
    BY <2>10, <2>11, <2>12 DEF Taking
  <2> HIDE DEF take
  <2> QED
    BY <2>3, <2>11, <2>13
<1>7. \A y : y \in Takers(nds, x, ev) <=> \E i \in take : y = N[i][m + 1]
  BY <1>5, <1>6
<1> HIDE DEF take
<1>8. Takers(nds, x, ev) = {N[i][m + 1] : i \in take}
  BY <1>7
<1> QED
  BY <1>8 DEF m, take

(* eval_input_event takes the last child that takes the event.              *)
LEMMA EvalIs ==
  ASSUME NEW nds, NEW x, NEW ev, Len(nds) \in Nat, DOMAIN nds = 1 .. Len(nds),
         NEW y, y = Eval(nds, x, ev)
  PROVE  IF Takers(nds, x, ev) = {} THEN y = Nowhere
         ELSE /\ y \in Takers(nds, x, ev) /\ y \in 1 .. Len(nds)
              /\ \A z \in Takers(nds, x, ev) : y >= z
<1> DEFINE S == Takers(nds, x, ev)
<1>1. y = IF S = {} THEN Nowhere ELSE Max(S)
  BY DEF Eval, LastOf, Takers
<1>2. S \in SUBSET (0 .. Len(nds)) /\ S \subseteq 1 .. Len(nds)
  BY DEF Takers, Children
<1> HIDE DEF S
<1>3. S # {} => Max(S) \in S /\ \A z \in S : Max(S) >= z
  BY <1>2, MaxIsThere
<1> QED
  BY <1>1, <1>2, <1>3 DEF S

(* One event more: the walk and the lines go on together.                  *)
LEMMA WalkGoesOn ==
  ASSUME NEW B, NEW L, GoodBindings(B, L), NEW nds, NEW N, Index(B, L, nds, N),
         NEW w, NEW x, WalkedTo(B, L, N, w, x), NEW ev, NEW y, y = Eval(nds, x, ev)
  PROVE  /\ IsSeq(Append(w, ev)) /\ Len(Append(w, ev)) = Len(w) + 1 /\ Len(w) \in Nat
         /\ y = Nowhere => Rivals(B, Append(w, ev)) = {}
         /\ y # Nowhere =>
              /\ y \in 1 .. Len(nds)
              /\ WalkedTo(B, L, N, Append(w, ev), y)
<1> DEFINE m == Len(w)
           t == Append(w, ev)
           left == Rivals(B, w)
           take == Taking(B, left, m + 1, ev)
           S == Takers(nds, x, ev)
<1>1. m \in Nat /\ IsSeq(t) /\ Len(t) = m + 1
  BY OneMore DEF WalkedTo
<1>2. \A i \in 1 .. L : Len(B[i].keys) \in Nat \ {0}
  BY DEF GoodBindings
<1>3. DOMAIN nds = 1 .. Len(nds) /\ Len(nds) \in Nat
  BY DEF Index, IsSeq
<1>4. left = Through(B, L, N, m, x)
  BY DEF WalkedTo
<1>5. S = {N[i][m + 1] : i \in take}
  BY TakersAre
<1>6. Rivals(B, t) = {i \in take : \A j \in take : Begun(B, i, m + 1) >= Begun(B, j, m + 1)}
  <2>1. Rivals(B, t) = Narrowed(B, left, m + 1, ev)
    BY RivalsNarrow DEF WalkedTo
  <2> QED
    BY <2>1, NarrowedIs
<1>7. IF S = {} THEN y = Nowhere
      ELSE y \in S /\ y \in 1 .. Len(nds) /\ \A z \in S : y >= z
  BY <1>3, EvalIs
<1>8. \A i \in take : /\ i \in 1 .. L /\ m + 1 \in 1 .. Len(B[i].keys) /\ m + 1 <= Len(B[i].keys)
                      /\ m + 1 \in 0 .. Len(B[i].keys)
                      /\ i \in left /\ Contains(B[i].keys[m + 1], ev)
                      /\ N[i][m + 1] \in 1 .. Len(nds)
  <2> TAKE i \in take
  <2>1. i \in left /\ i \in 1 .. L /\ Len(B[i].keys) >= m + 1 /\ Contains(B[i].keys[m + 1], ev)
    BY <1>4 DEF Taking, Through
  <2>2. Len(B[i].keys) \in Nat
    BY <1>2, <2>1
  <2>3. m + 1 \in 1 .. Len(B[i].keys) /\ m + 1 <= Len(B[i].keys) /\ m + 1 \in 0 .. Len(B[i].keys)
    BY <1>1, <2>1, <2>2
  <2>4. N[i][m + 1] \in 1 .. Len(nds)
    BY <2>1, <2>3 DEF Index, Paths
  <2> QED BY <2>1, <2>3, <2>4
<1> HIDE DEF take, left, t, m, S
<1>9. ASSUME NEW i \in take, NEW j \in take
      PROVE  N[i][m + 1] >= N[j][m + 1] <=> Begun(B, i, m + 1) >= Begun(B, j, m + 1)
  <2>1. /\ i \in 1 .. L /\ j \in 1 .. L
        /\ m + 1 \in 1 .. Len(B[i].keys) /\ m + 1 \in 1 .. Len(B[j].keys)
        /\ m + 1 \in 0 .. Len(B[i].keys) /\ m + 1 \in 0 .. Len(B[j].keys)
        /\ Len(B[i].keys) >= m + 1 /\ Len(B[j].keys) >= m + 1
        /\ m + 1 <= Len(B[i].keys) /\ m + 1 <= Len(B[j].keys)
        /\ N[i][m + 1] \in 1 .. Len(nds) /\ N[j][m + 1] \in 1 .. Len(nds)
    <3>1. Len(B[i].keys) \in Nat /\ Len(B[j].keys) \in Nat
      BY <1>2, <1>8
    <3> QED BY <1>1, <1>8, <3>1
  <2>2. Begun(B, i, m + 1) < Begun(B, j, m + 1) => N[i][m + 1] < N[j][m + 1]
    BY <2>1 DEF Index, LaterIsHigher
  <2>3. Begun(B, j, m + 1) < Begun(B, i, m + 1) => N[j][m + 1] < N[i][m + 1]
    BY <2>1 DEF Index, LaterIsHigher
  <2>4. Begun(B, i, m + 1) = Begun(B, j, m + 1) => N[i][m + 1] = N[j][m + 1]
    <3>1. Begun(B, i, m + 1) = Begun(B, j, m + 1) => SameStart(B[i], B[j], m + 1)
      BY <2>1, BegunTogether
    <3>2. SameStart(B[i], B[j], m + 1) => N[i][m + 1] = N[j][m + 1]
      BY <2>1 DEF Index, Sharing
    <3> QED BY <3>1, <3>2
  <2>5. Begun(B, i, m + 1) \in 1 .. i /\ Begun(B, j, m + 1) \in 1 .. j
    BY <2>1, BegunIs
  <2>6. Begun(B, i, m + 1) \in Int /\ Begun(B, j, m + 1) \in Int /\ N[i][m + 1] \in Int /\ N[j][m + 1] \in Int
    BY <1>3, <2>1, <2>5
  <2> QED
    BY <2>2, <2>3, <2>4, <2>6
<1>10. S = {} => Rivals(B, t) = {}
  BY <1>5, <1>6
<1>11. ASSUME S # {} PROVE y # Nowhere /\ y \in 1 .. Len(nds) /\ WalkedTo(B, L, N, t, y)
  <2>1. y \in S /\ y \in 1 .. Len(nds) /\ \A z \in S : y >= z
    BY <1>7, <1>11
  <2>2. y # Nowhere /\ y # Root
    BY <1>3, <2>1 DEF Nowhere, Root
  <2>3. PICK o \in take : y = N[o][m + 1]
    BY <1>5, <2>1
  <2>4. ASSUME NEW i \in Rivals(B, t) PROVE i \in Through(B, L, N, m + 1, y)
    <3>1. i \in take /\ Begun(B, i, m + 1) >= Begun(B, o, m + 1)
      BY <1>6
    <3>2. N[i][m + 1] >= y
      BY <1>9, <2>3, <3>1
    <3>3. N[i][m + 1] \in S
      BY <1>5, <3>1
    <3>4. y >= N[i][m + 1]
      BY <2>1, <3>3
    <3>5. N[i][m + 1] \in 1 .. Len(nds)
      BY <1>8, <3>1
    <3>6. N[i][m + 1] = y
      BY <1>3, <2>1, <3>2, <3>4, <3>5
    <3>7. Len(B[i].keys) >= m + 1 /\ i \in 1 .. L
      <4>1. i \in 1 .. L /\ m + 1 <= Len(B[i].keys)
        BY <1>8, <3>1
      <4>2. Len(B[i].keys) \in Nat
        BY <1>2, <4>1
      <4> QED BY <1>1, <4>1, <4>2
    <3> QED
      BY <3>6, <3>7 DEF Through
  <2>5. ASSUME NEW i \in Through(B, L, N, m + 1, y) PROVE i \in Rivals(B, t)
    <3>1. i \in 1 .. L /\ Len(B[i].keys) >= m + 1 /\ N[i][m + 1] = N[o][m + 1]
      BY <2>3 DEF Through
    <3>2. /\ o \in 1 .. L /\ m + 1 \in 0 .. Len(B[o].keys) /\ m + 1 \in 1 .. Len(B[o].keys)
          /\ N[o][m] = x /\ Contains(B[o].keys[m + 1], ev)
      BY <1>4, <1>8 DEF Through
    <3>3. m + 1 \in 0 .. Len(B[i].keys) /\ m + 1 \in 1 .. Len(B[i].keys) /\ m \in 0 .. Len(B[i].keys)
          /\ m \in 0 .. Len(B[o].keys) /\ Len(B[i].keys) >= m
      <4>1. Len(B[i].keys) \in Nat /\ Len(B[o].keys) \in Nat
        BY <1>2, <3>1, <3>2
      <4> QED BY <1>1, <3>1, <3>2, <4>1
    <3>4. SameStart(B[i], B[o], m + 1)
      BY <3>1, <3>2, <3>3 DEF Index, Sharing
    <3>5. B[i].keys[m + 1] = B[o].keys[m + 1]
      BY <1>1, <3>4 DEF SameStart
    <3>6. N[i][m] = x
      <4>1. Len(B[o].keys) \in Nat
        BY <1>2, <3>2
      <4>2. m \in 0 .. m + 1 /\ m + 1 \in Nat
        BY <1>1
      <4>3. SameStart(B[i], B[o], m)
        BY <3>4, <4>1, <4>2, SameStartIs
      <4>4. N[i][m] = N[o][m] <=> m = m /\ SameStart(B[i], B[o], m)
        BY <3>1, <3>2, <3>3 DEF Index, Sharing
      <4> QED BY <3>2, <4>3, <4>4
    <3>7. i \in take
      BY <1>4, <3>1, <3>2, <3>3, <3>5, <3>6 DEF take, Taking, Through
    <3>8. \A j \in take : Begun(B, i, m + 1) >= Begun(B, j, m + 1)
      <4> TAKE j \in take
      <4>1. N[j][m + 1] \in S
        BY <1>5
      <4>2. N[i][m + 1] >= N[j][m + 1]
        BY <2>1, <2>3, <3>1, <4>1
      <4> QED
        BY <1>9, <3>7, <4>2
    <3> QED
      BY <1>6, <3>7, <3>8
  <2>6. Rivals(B, t) = Through(B, L, N, m + 1, y)
    BY <2>4, <2>5
  <2>7. o \in Through(B, L, N, m + 1, y)
    <3>1. o \in 1 .. L /\ m + 1 <= Len(B[o].keys)
      BY <1>8
    <3>2. Len(B[o].keys) \in Nat
      BY <1>2, <3>1
    <3>3. Len(B[o].keys) >= m + 1
      BY <1>1, <3>1, <3>2
    <3> QED
      BY <2>3, <3>1, <3>3 DEF Through
  <2>8. WalkedTo(B, L, N, t, y)
    BY <1>1, <2>2, <2>6, <2>7 DEF WalkedTo
  <2> QED
    BY <2>1, <2>2, <2>8
<1>12. y = Nowhere => Rivals(B, t) = {}
  BY <1>10, <1>11
<1>13. y # Nowhere => y \in 1 .. Len(nds) /\ WalkedTo(B, L, N, t, y)
  BY <1>7, <1>11
<1> QED
  BY <1>1, <1>12, <1>13 DEF t, m

-----------------------------------------------------------------------------
(* What a walk says.                                                        *)

\* The bindings that the events complete.
Complete(B, t) == {i \in Rivals(B, t) : Len(B[i].keys) = Len(t)}

(* What a node says is what the lines say of the events that lead to it.    *)
LEMMA NodeSays ==
  ASSUME NEW B, NEW L, GoodBindings(B, L), NEW nds, NEW N, Index(B, L, nds, N),
         NEW t, NEW y \in 1 .. Len(nds), WalkedTo(B, L, N, t, y)
  PROVE  IF nds[y].action = NoAction
         THEN Expected(B, t) = "more" /\ ~CompleteAndBegin(B, t)
         ELSE Expected(B, t) = nds[y].action /\ (CompleteAndBegin(B, t) <=> Children(nds, y) # {})
<1> DEFINE m == Len(t)
           R == Rivals(B, t)
           C == Complete(B, t)
<1>1. m \in Nat
  BY DEF WalkedTo, IsSeq
<1>2. L \in Nat /\ \A i \in 1 .. L : Len(B[i].keys) \in Nat \ {0} /\ B[i].action # NoAction
  BY DEF GoodBindings
<1>3. DOMAIN nds = 1 .. Len(nds) /\ Len(nds) \in Nat
  BY DEF Index, IsSeq
<1>4. y # Root
  BY <1>3 DEF Root
<1>5. R = Through(B, L, N, m, y) /\ R # {}
  BY <1>4 DEF WalkedTo
<1> HIDE DEF m, R, C
<1>6. PICK o \in R : TRUE
  BY <1>5
<1>7. o \in 1 .. L /\ Len(B[o].keys) >= m /\ N[o][m] = y
  BY <1>5 DEF Through
<1>8. m # 0
  BY <1>4, <1>7 DEF Index, Paths
<1>9. m \in 1 .. Len(B[o].keys) /\ m \in 0 .. Len(B[o].keys) /\ m \in Nat
  <2>1. Len(B[o].keys) \in Nat
    BY <1>2, <1>7
  <2> QED BY <1>1, <1>7, <1>8, <2>1
<1>10. ASSUME NEW i \in 1 .. L PROVE i \in R <=> SameStart(B[o], B[i], m)
  <2>1. ASSUME Len(B[i].keys) >= m PROVE N[o][m] = N[i][m] <=> SameStart(B[o], B[i], m)
    <3>1. m \in 0 .. Len(B[i].keys)
      <4>1. Len(B[i].keys) \in Nat
        BY <1>2
      <4> QED BY <1>1, <2>1, <4>1
    <3>2. N[o][m] = N[i][m] <=> m = m /\ SameStart(B[o], B[i], m)
      BY <1>7, <1>9, <3>1 DEF Index, Sharing
    <3> QED BY <3>2
  <2>2. SameStart(B[o], B[i], m) => Len(B[i].keys) >= m
    BY DEF SameStart
  <2> QED
    BY <1>5, <1>7, <2>1, <2>2 DEF Through
<1>11. C = Exactly(B, L, o, m)
  <2>1. \A i : i \in C <=> i \in 1 .. L /\ i \in R /\ Len(B[i].keys) = m
    BY <1>5 DEF C, Complete, R, m, Through
  <2>2. \A i : i \in Exactly(B, L, o, m) <=> i \in 1 .. L /\ Len(B[i].keys) = m /\ SameStart(B[o], B[i], m)
    BY DEF Exactly
  <2> QED
    BY <1>10, <2>1, <2>2
<1>12. nds[y].action = IF C = {} THEN NoAction ELSE B[Max(C)].action
  BY <1>7, <1>9, <1>11 DEF Index, Actions
<1>13. C # {} => B[Max(C)].action # NoAction
  <2>1. C \in SUBSET (0 .. L) /\ C \subseteq 1 .. L
    BY <1>2, <1>11 DEF Exactly
  <2>2. C # {} => Max(C) \in C
    BY <1>2, <2>1, MaxIsThere
  <2> QED
    BY <1>2, <2>1, <2>2
<1>14. Expected(B, t) = IF C = {} THEN "more" ELSE B[Max(C)].action
  BY <1>5 DEF Expected, C, Complete, R
<1> DEFINE lengths == {Len(B[i].keys) : i \in R}
<1>15. CompleteAndBegin(B, t) <=> m \in lengths /\ lengths # {m}
  BY DEF CompleteAndBegin, m, R
<1>16. m \in lengths <=> C # {}
  BY DEF C, Complete, m, R
<1>17. ASSUME m \in lengths PROVE lengths # {m} <=> Children(nds, y) # {}
  <2>1. lengths # {m} <=> \E i \in R : Len(B[i].keys) # m
    BY <1>17
  <2>2. ASSUME NEW i \in R, Len(B[i].keys) # m PROVE Children(nds, y) # {}
    <3>1. i \in 1 .. L /\ Len(B[i].keys) >= m /\ N[i][m] = y
      BY <1>5 DEF Through
    <3>2. m + 1 \in 1 .. Len(B[i].keys) /\ (m + 1) - 1 = m
      <4>1. Len(B[i].keys) \in Nat
        BY <1>2, <3>1
      <4> QED BY <1>1, <2>2, <3>1, <4>1
    <3>3. N[i][m + 1] \in 1 .. Len(nds) /\ nds[N[i][m + 1]].parent = N[i][m]
      BY <3>1, <3>2 DEF Index, Paths
    <3> QED
      BY <1>3, <3>1, <3>3 DEF Children
  <2>3. ASSUME NEW z \in Children(nds, y) PROVE \E i \in R : Len(B[i].keys) # m
    <3>1. z \in 1 .. Len(nds) /\ nds[z].parent = y
      BY <1>3 DEF Children
    <3>2. PICK j \in 1 .. L : \E q \in 1 .. Len(B[j].keys) : z = N[j][q]
      BY <3>1 DEF Index, Reached
    <3>3. PICK q \in 1 .. Len(B[j].keys) : z = N[j][q]
      BY <3>2
    <3> DEFINE a == q - 1
    <3>4. a \in 0 .. Len(B[j].keys) /\ a + 1 = q /\ Len(B[j].keys) \in Nat /\ a + 1 <= Len(B[j].keys)
      <4>1. Len(B[j].keys) \in Nat
        BY <1>2
      <4> QED BY <4>1
    <3>5. N[j][a] = y
      BY <3>1, <3>3 DEF Index, Paths
    <3> HIDE DEF a
    <3>6. N[j][a] = N[o][m]
      BY <1>7, <3>5
    <3>7. a = m
      BY <1>7, <1>9, <3>4, <3>6 DEF Index, Sharing
    <3>8. Len(B[j].keys) >= m /\ Len(B[j].keys) # m
      BY <1>1, <3>4, <3>7
    <3> QED
      BY <1>5, <3>5, <3>7, <3>8 DEF Through
  <2> QED
    BY <2>1, <2>2, <2>3
<1> QED
  BY <1>12, <1>13, <1>14, <1>15, <1>16, <1>17

(* What no line begins has nothing to do.                                     *)
LEMMA NothingExpected ==
  ASSUME NEW B, NEW t, Rivals(B, t) = {}
  PROVE  Expected(B, t) = "none" /\ ~CompleteAndBegin(B, t)
BY DEF Expected, CompleteAndBegin

(* Small facts about sequences and numbers.                                 *)
LEMMA NoneIsSeq == IsSeq(<<>>) /\ Len(<<>>) = 0
<1>1. <<>> \in Seq({})
  OBVIOUS
<1> QED BY <1>1 DEF IsSeq

LEMMA OneIsSeq == ASSUME NEW e PROVE <<e>> = Append(<<>>, e)
OBVIOUS

LEMMA UpTo ==
  ASSUME NEW n \in Nat
  PROVE  0 \in 0 .. n /\ ~(n < n) /\ \A k \in 0 .. n - 1 : k + 1 \in 0 .. n
OBVIOUS

\* No line read yet, no node yet.
LEMMA EmptyIndex == ASSUME NEW B PROVE Index(B, 0, <<>>, <<>>)
BY NoneIsSeq DEF Index, Paths, Sharing, Reached, LaterIsHigher, Actions

(* At the root the walk has not begun: every line is still possible.       *)
LEMMA AtRoot ==
  ASSUME NEW B, NEW L, GoodBindings(B, L), NEW nds, NEW N, Index(B, L, nds, N)
  PROVE  WalkedTo(B, L, N, <<>>, Root)
<1>1. Rivals(B, <<>>) = 1 .. L
  BY RivalsOfNone DEF GoodBindings
<1>2. Len(<<>>) = 0 /\ IsSeq(<<>>)
  BY NoneIsSeq
<1>3. \A i \in 1 .. L : Len(B[i].keys) >= 0 /\ N[i][0] = Root
  BY DEF GoodBindings, Index, Paths
<1>4. Through(B, L, N, 0, Root) = 1 .. L
  BY <1>3 DEF Through
<1> QED
  BY <1>1, <1>2, <1>4 DEF WalkedTo

\* The events of the walk that goes on, none at the root.
Walk == IF at = Root THEN <<>> ELSE typed

\* N names the nodes on the path of each line read; once all are read, the walk
\* is where the lines lead.
TreeInv(N) ==
  /\ Index(Bindings[config], lines, nodes, N)
  /\ lines = Len(Configs[config]) => WalkedTo(Bindings[config], lines, N, Walk, at)

\* Before the lines are all read nothing is typed.
KeyInv ==
  /\ config \in DOMAIN Configs
  /\ lines \in 0 .. Len(Configs[config])
  /\ \E N : TreeInv(N)
  /\ lines < Len(Configs[config]) => at = Root /\ outcome = "nothing yet"
  /\ KeysRunTheirBindings

(* No line is read at first.                                               *)
LEMMA KeyInvInit == KeyInit => KeyInv
<1> SUFFICES ASSUME KeyInit PROVE KeyInv
  OBVIOUS
<1> DEFINE B == Bindings[config]
           L == Len(Configs[config])
<1>1. /\ config \in DOMAIN Configs /\ lines = 0 /\ nodes = <<>>
      /\ at = Root /\ outcome = "nothing yet"
  BY DEF KeyInit
<1>2. GoodBindings(B, L) /\ L \in Nat
  BY <1>1, BindingsGood DEF GoodBindings
<1>3. Index(B, lines, nodes, <<>>)
  BY <1>1, EmptyIndex
<1>4. lines = L => WalkedTo(B, lines, <<>>, Walk, at)
  BY <1>1, <1>2, <1>3, AtRoot DEF Walk
<1>5. TreeInv(<<>>)
  BY <1>3, <1>4 DEF TreeInv
<1>6. KeysRunTheirBindings
  BY <1>1 DEF KeysRunTheirBindings
<1>7. lines \in 0 .. Len(Configs[config])
  BY <1>1, <1>2, UpTo
<1> QED
  BY <1>1, <1>5, <1>6, <1>7 DEF KeyInv

(* A line read adds its path to the tree.                                    *)
LEMMA ReadLineKeeps == KeyInv /\ ReadLine => KeyInv'
<1> SUFFICES ASSUME KeyInv, ReadLine PROVE KeyInv'
  OBVIOUS
<1> DEFINE B == Bindings[config]
           L == Len(Configs[config])
<1>1. /\ lines \in 0 .. L - 1 /\ lines' = lines + 1 /\ config' = config /\ config \in DOMAIN Configs
      /\ nodes' = AddLine(nodes, Configs[config][lines + 1])
      /\ UNCHANGED <<at, typed, outcome, stopped>>
      /\ at = Root /\ outcome = "nothing yet" /\ GoodBindings(B, L) /\ L \in Nat
  <2>1. GoodBindings(B, L) /\ L \in Nat
    BY BindingsGood DEF KeyInv, GoodBindings
  <2>2. lines < L /\ lines \in 0 .. L
    BY DEF KeyInv, ReadLine
  <2>3. lines \in 0 .. L - 1
    <3> HIDE DEF L
    <3> QED BY <2>1, <2>2
  <2>4. at = Root /\ outcome = "nothing yet"
    BY <2>2 DEF KeyInv
  <2> QED
    BY <2>1, <2>3, <2>4 DEF KeyInv, ReadLine
<1>2. PICK N : Index(B, lines, nodes, N)
  BY DEF KeyInv, TreeInv
<1>3. PICK M : Index(B, lines + 1, nodes', M)
  BY <1>1, <1>2, LineRead
<1>4. lines + 1 = L => WalkedTo(B, L, M, <<>>, Root)
  BY <1>1, <1>3, AtRoot
<1>5. TreeInv(M)'
  BY <1>1, <1>3, <1>4 DEF TreeInv, Walk
<1>6. KeysRunTheirBindings'
  BY <1>1 DEF KeysRunTheirBindings
<1>7. lines' \in 0 .. L
  <2>1. L \in Nat /\ lines \in 0 .. L - 1 /\ lines' = lines + 1
    BY <1>1
  <2> HIDE DEF L
  <2> QED BY <2>1, UpTo
<1>8. Configs[config'] = Configs[config]
  BY <1>1
<1>9. config' \in DOMAIN Configs /\ at' = Root /\ outcome' = "nothing yet"
  BY <1>1
<1>10. (\E Q : TreeInv(Q))'
  BY <1>5
<1> QED
  BY <1>6, <1>7, <1>8, <1>9, <1>10 DEF KeyInv

(* An event moves the walk down, ends it, or stops the core.               *)
LEMMA KeyPressedKeeps == KeyInv /\ KeyPressed => KeyInv'
<1> SUFFICES ASSUME KeyInv, KeyPressed PROVE KeyInv'
  OBVIOUS
<1> DEFINE B == Bindings[config]
           L == Len(Configs[config])
           w == Walk
<1>1. /\ config \in DOMAIN Configs /\ lines = L /\ stopped = "no"
      /\ GoodBindings(B, L) /\ L \in Nat
  <2>1. GoodBindings(B, L) /\ L \in Nat
    BY BindingsGood DEF KeyInv, GoodBindings
  <2> QED
    BY <2>1 DEF KeyInv, KeyPressed
<1>2. PICK N : Index(B, L, nodes, N) /\ WalkedTo(B, L, N, w, at)
  BY <1>1 DEF KeyInv, TreeInv
<1>3. UNCHANGED <<nodes, config, lines>>
  BY DEF KeyPressed, Untranslated, NoMatch, NeedMore, Action
<1>4. SUFFICES WalkedTo(B, L, N, Walk, at)' /\ KeysRunTheirBindings'
  <2>1. ASSUME WalkedTo(B, L, N, Walk, at)' PROVE TreeInv(N)'
    BY <1>1, <1>2, <1>3, <2>1 DEF TreeInv
  <2>2. lines' \in 0 .. Len(Configs[config'])
    BY <1>1, <1>3
  <2>3. lines' < Len(Configs[config']) => at' = Root /\ outcome' = "nothing yet"
    <3>1. lines' = L /\ Len(Configs[config']) = L
      BY <1>1, <1>3
    <3>2. L \in Nat
      BY <1>1
    <3> HIDE DEF L, B
    <3> QED
      BY <3>1, <3>2, UpTo
  <2>4. config' \in DOMAIN Configs
    BY <1>1, <1>3
  <2> SUFFICES ASSUME WalkedTo(B, L, N, Walk, at)', KeysRunTheirBindings' PROVE KeyInv'
    OBVIOUS
  <2>5. (\E M : TreeInv(M))'
    BY <2>1
  <2> QED
    BY <2>2, <2>3, <2>4, <2>5 DEF KeyInv
<1>5. ASSUME NEW k, Untranslated(k) PROVE WalkedTo(B, L, N, Walk, at)' /\ KeysRunTheirBindings'
  <2>1. stopped' = "untranslated" /\ UNCHANGED <<at, config, typed, outcome>>
    BY <1>5 DEF Untranslated
  <2>2. WalkedTo(B, L, N, Walk, at)'
    BY <1>2, <2>1 DEF Walk
  <2>3. KeysRunTheirBindings'
    BY <1>1, <2>1 DEF KeyInv, KeysRunTheirBindings
  <2> QED BY <2>2, <2>3
<1>6. ASSUME NEW ev, NoMatch(ev) \/ NeedMore(ev) \/ Action(ev)
      PROVE  WalkedTo(B, L, N, Walk, at)' /\ KeysRunTheirBindings'
  <2> DEFINE t == Append(w, ev)
             y == Matched(ev)
  <2>1. typed' = t
    <3>1. Walked(ev) = t
      <4>1. CASE at = Root
        BY <4>1, OneIsSeq DEF Walked, Walk
      <4>2. CASE at # Root
        BY <4>2 DEF Walked, Walk
      <4> QED BY <4>1, <4>2
    <3> QED
      BY <1>6, <3>1 DEF NoMatch, NeedMore, Action
  <2>2. y = Eval(nodes, at, ev)
    BY DEF Matched
  <2> HIDE DEF t, y
  <2>3. /\ y = Nowhere => Rivals(B, t) = {}
        /\ y # Nowhere => y \in 1 .. Len(nodes) /\ WalkedTo(B, L, N, t, y)
    BY <1>1, <1>2, <2>2, WalkGoesOn DEF t
  <2>4. WalkedTo(B, L, N, <<>>, Root)
    BY <1>1, <1>2, AtRoot
  <2>5. CASE NoMatch(ev)
    <3>1. at' = Root /\ outcome' = "none" /\ UNCHANGED <<config, stopped>> /\ y = Nowhere
      BY <2>5 DEF NoMatch, y
    <3>2. Expected(B, t) = "none" /\ ~CompleteAndBegin(B, t)
      BY <2>3, <3>1, NothingExpected
    <3>3. KeysRunTheirBindings'
      BY <1>1, <2>1, <3>1, <3>2 DEF KeysRunTheirBindings
    <3>4. WalkedTo(B, L, N, Walk, at)'
      BY <2>4, <3>1 DEF Walk
    <3> QED BY <3>3, <3>4
  <2>6. CASE NeedMore(ev)
    <3>1. /\ at' = y /\ outcome' = "more" /\ UNCHANGED <<config, stopped>> /\ y # Nowhere
          /\ nodes[y].action = NoAction
      BY <2>6 DEF NeedMore, y
    <3>2. y \in 1 .. Len(nodes) /\ WalkedTo(B, L, N, t, y)
      BY <2>3, <3>1
    <3>3. Expected(B, t) = "more" /\ ~CompleteAndBegin(B, t)
      BY <1>1, <1>2, <3>1, <3>2, NodeSays
    <3>4. KeysRunTheirBindings'
      BY <1>1, <2>1, <3>1, <3>3 DEF KeysRunTheirBindings
    <3>5. y # Root
      BY <3>2 DEF Root
    <3>6. WalkedTo(B, L, N, Walk, at)'
      BY <2>1, <3>1, <3>2, <3>5 DEF Walk
    <3> QED BY <3>4, <3>6
  <2>7. CASE Action(ev)
    <3>1. /\ at' = Root /\ outcome' = nodes[y].action /\ UNCHANGED config /\ y # Nowhere
          /\ nodes[y].action # NoAction
          /\ stopped' = "prefix" <=> Children(nodes, y) # {}
      BY <2>7 DEF Action, y
    <3>2. y \in 1 .. Len(nodes) /\ WalkedTo(B, L, N, t, y)
      BY <2>3, <3>1
    <3>3. Expected(B, t) = nodes[y].action /\ (CompleteAndBegin(B, t) <=> Children(nodes, y) # {})
      BY <1>1, <1>2, <3>1, <3>2, NodeSays
    <3>4. KeysRunTheirBindings'
      BY <2>1, <3>1, <3>3 DEF KeysRunTheirBindings
    <3>5. WalkedTo(B, L, N, Walk, at)'
      BY <2>4, <3>1 DEF Walk
    <3> QED BY <3>4, <3>5
  <2> QED
    BY <1>6, <2>5, <2>6, <2>7
<1> QED
  BY <1>5, <1>6 DEF KeyPressed

LEMMA KeyInvInductive == KeyInv /\ [KeyNext]_keyVars => KeyInv'
<1>1. KeyInv /\ UNCHANGED keyVars => KeyInv'
  <2> SUFFICES ASSUME KeyInv, UNCHANGED keyVars PROVE KeyInv'
    OBVIOUS
  <2>1. PICK N : TreeInv(N)
    BY DEF KeyInv
  <2>2. TreeInv(N)'
    BY <2>1 DEF TreeInv, Walk, keyVars
  <2>3. KeysRunTheirBindings'
    BY DEF KeyInv, KeysRunTheirBindings, keyVars
  <2> QED
    BY <2>2, <2>3 DEF KeyInv, keyVars
<1> QED
  BY <1>1, ReadLineKeeps, KeyPressedKeeps DEF KeyNext

-----------------------------------------------------------------------------
(* The tables of buffers.                                                  *)

USE SizeAssumption DEF Indices

AllFiles == Files \cup {Dummy}

Counted(t) == t.used = Cardinality(Taken(t))

InOrder(t) == \A i \in Indices : ~IsFree(t, i) <=> i <= t.last

TableType(t, S) ==
  /\ t.slot \in [Indices -> {Free} \cup S]
  /\ t.last \in 0 .. Size - 1
  /\ t.used \in Nat

ByteEntries   == {Byte(f) : f \in AllFiles}
EditorEntries == {Editor(b, f) : b \in Indices, f \in AllFiles}

HeldAreOpen == ~strays => \A b \in held : Holds(bytes, b)

TableInv ==
  /\ TableType(bytes, ByteEntries)
  /\ TableType(editors, EditorEntries)
  /\ held \subseteq Indices /\ known \subseteq Indices
  /\ Counted(bytes) /\ Counted(editors)
  /\ InOrder(editors)
  /\ ~closes => InOrder(bytes)
  /\ HeldAreOpen
  /\ BuffersFindTheirFile

(***************************************************************************)
(* Operations on one table.                                                *)
(***************************************************************************)

LEMMA EntriesAreNotFree ==
  \A b, f : Byte(f) # Free /\ Editor(b, f) # Free
<1> TAKE b, f
<1>1. "file" \in DOMAIN Byte(f) /\ "file" \in DOMAIN Editor(b, f)
  BY DEF Byte, Editor
<1>2. "file" \notin DOMAIN Free
  BY DEF Free
<1> QED
  BY <1>1, <1>2

LEMMA TakenIsFinite ==
  ASSUME NEW t
  PROVE  IsFiniteSet(Taken(t)) /\ Cardinality(Taken(t)) \in Nat /\ Cardinality(Taken(t)) < Size
<1>1. IsFiniteSet(1 .. Size - 1) /\ Cardinality(1 .. Size - 1) = Size - 1
  BY FS_Interval
<1>2. Taken(t) \in SUBSET (1 .. Size - 1)
  BY DEF Taken
<1>3. IsFiniteSet(Taken(t)) /\ Cardinality(Taken(t)) <= Size - 1
  BY <1>1, <1>2, FS_Subset
<1>4. Cardinality(Taken(t)) \in Nat
  BY <1>3, FS_CardinalityType
<1> QED
  BY <1>3, <1>4

(* A table counts its entries when one is put into it.                     *)
LEMMA PutCounts ==
  ASSUME NEW t, NEW S, TableType(t, S), Counted(t),
         NEW i \in Indices, IsFree(t, i), NEW x \in S, x # Free
  PROVE  TableType(Put(t, i, x), S) /\ Counted(Put(t, i, x))
<1>1. Taken(Put(t, i, x)) = Taken(t) \cup {i}
  BY DEF Taken, Put, IsFree, TableType
<1>2. i \notin Taken(t)
  BY DEF Taken
<1>3. Cardinality(Taken(t) \cup {i}) = Cardinality(Taken(t)) + 1
  BY <1>2, TakenIsFinite, FS_AddElement
<1>4. Counted(Put(t, i, x))
  BY <1>1, <1>3 DEF Counted, Put
<1>5. TableType(Put(t, i, x), S)
  BY DEF TableType, Put
<1> QED
  BY <1>4, <1>5

LEMMA EraseCounts ==
  ASSUME NEW t, NEW S, TableType(t, S), Counted(t), NEW i \in Indices, ~IsFree(t, i)
  PROVE  TableType(Erase(t, i), S) /\ Counted(Erase(t, i))
<1>1. Taken(Erase(t, i)) = Taken(t) \ {i}
  BY DEF Taken, Erase, IsFree, TableType
<1>2. i \in Taken(t)
  BY DEF Taken
<1>3. Cardinality(Taken(t) \ {i}) = Cardinality(Taken(t)) - 1
  BY <1>2, TakenIsFinite, FS_RemoveElement
<1>4. Counted(Erase(t, i))
  BY <1>1, <1>3 DEF Counted, Erase
<1>5. Cardinality(Taken(t) \ {i}) \in Nat
  BY <1>1, TakenIsFinite
<1>6. TableType(Erase(t, i), S)
  BY <1>3, <1>5 DEF TableType, Erase, Counted
<1> QED
  BY <1>4, <1>6

(* A table without gaps gives the next index, or is full and refuses.      *)
LEMMA InOrderSearch ==
  ASSUME NEW t, t.last \in 0 .. Size - 1, InOrder(t)
  PROVE  /\ ~Overruns(t)
         /\ Refuses(t) => \A i \in Indices : ~IsFree(t, i)
         /\ \A i \in Indices : Finds(t, i) => i = t.last + 1
<1>1. CASE t.last + 1 >= Size
  <2>1. t.last = Size - 1 /\ First(t) = 1
    BY <1>1 DEF First
  <2>2. \A i \in Indices : ~IsFree(t, i)
    BY <2>1 DEF InOrder
  <2>3. Refuses(t)
    BY <2>1, <2>2 DEF Refuses, TakenUpTo
  <2> QED
    BY <2>2, <2>3 DEF Overruns, Finds
<1>2. CASE t.last + 1 < Size
  <2>1. First(t) = t.last + 1 /\ t.last + 1 \in Indices /\ IsFree(t, t.last + 1)
    BY <1>2 DEF First, InOrder
  <2>2. ~Refuses(t)
    BY <2>1 DEF Refuses
  <2>3. ~Overruns(t)
    BY <2>1, <1>2 DEF Overruns, TakenUpTo
  <2>4. \A i \in Indices : Finds(t, i) => i = t.last + 1
    BY <2>1 DEF Finds, TakenUpTo
  <2> QED
    BY <2>2, <2>3, <2>4
<1> QED
  BY <1>1, <1>2

LEMMA PutKeepsOrder ==
  ASSUME NEW t, NEW S, TableType(t, S), InOrder(t),
         NEW i \in Indices, Finds(t, i), NEW x, x # Free
  PROVE  InOrder(Put(t, i, x))
<1>1. i = t.last + 1
  BY InOrderSearch DEF TableType
<1> QED
  BY <1>1 DEF InOrder, Put, IsFree, TableType

(***************************************************************************)
(* The two tables together.                                                *)
(***************************************************************************)

(* A full table of editor buffers over distinct byte buffers leaves no     *)
(* byte buffer free.                                                       *)
LEMMA FullEditorsFullBytes ==
  ASSUME TableInv, ~strays, \A e \in Indices : ~IsFree(editors, e),
         NEW b \in Indices, IsFree(bytes, b)
  PROVE  FALSE
<1> DEFINE S == 1 .. Size - 1
           T == S \ {b}
           bid == [e \in S |-> editors.slot[e].bid]
<1>1. \A e \in S : Holds(editors, e) /\ Holds(bytes, editors.slot[e].bid)
  BY DEF TableInv, BuffersFindTheirFile, Holds
<1>2. bid \in [S -> T]
  BY <1>1 DEF Holds
<1>3. IsFiniteSet(S) /\ Cardinality(S) = Size - 1
  BY FS_Interval
<1>4. IsFiniteSet(T) /\ Cardinality(T) = Cardinality(S) - 1
  <2>1. b \in S
    OBVIOUS
  <2> HIDE DEF S
  <2> QED
    BY <1>3, <2>1, FS_RemoveElement
<1>5. Cardinality(T) < Cardinality(S)
  <2> HIDE DEF S, T
  <2> QED
    BY <1>3, <1>4
<1>6. \E x, y \in S : x # y /\ bid[x] = bid[y]
  <2> HIDE DEF bid, S, T
  <2> QED
    BY <1>2, <1>3, <1>4, <1>5, FS_PigeonHole
<1> QED
  BY <1>1, <1>6 DEF TableInv, BuffersFindTheirFile

(* An editor buffer opened over a byte buffer opened for it.               *)
LEMMA OpensAsKeeps ==
  ASSUME TableInv, NEW f \in AllFiles, NEW b \in Indices, NEW e \in Indices,
         OpensAs(f, b, e), UNCHANGED <<held, known, closes, strays>>
  PROVE  TableInv'
<1> USE EntriesAreNotFree DEF OpensAs
<1>1. Byte(f) \in ByteEntries /\ Editor(b, f) \in EditorEntries
  BY DEF ByteEntries, EditorEntries
<1>2. IsFree(bytes, b) /\ IsFree(editors, e)
  BY DEF Finds
<1>3. TableType(bytes, ByteEntries)' /\ Counted(bytes)'
  BY <1>1, <1>2, PutCounts DEF TableInv
<1>4. TableType(editors, EditorEntries)' /\ Counted(editors)'
  BY <1>1, <1>2, PutCounts DEF TableInv
<1>5. InOrder(editors)'
  BY PutKeepsOrder DEF TableInv
<1>6. (~closes => InOrder(bytes))'
  BY PutKeepsOrder DEF TableInv
<1>7. \A i \in Indices : Holds(bytes, i)' <=> Holds(bytes, i) \/ i = b
  BY DEF Holds, IsFree, Put, TableInv, TableType
<1>8. HeldAreOpen'
  BY <1>7 DEF HeldAreOpen, TableInv
<1>9. BuffersFindTheirFile'
  <2> SUFFICES ASSUME ~strays, NEW x \in Indices, Holds(editors, x)'
               PROVE  /\ Holds(bytes, editors.slot[x].bid)'
                      /\ (bytes.slot[editors.slot[x].bid].file = editors.slot[x].file)'
                      /\ editors'.slot[x].bid \notin held
                      /\ \A o \in Indices : Holds(editors, o)' /\ o # x => editors'.slot[o].bid # editors'.slot[x].bid
    BY DEF BuffersFindTheirFile
  <2>1. /\ editors'.slot[e] = Editor(b, f) /\ bytes'.slot[b] = Byte(f)
        /\ \A i \in Indices : i # e => editors'.slot[i] = editors.slot[i]
        /\ \A i \in Indices : i # b => bytes'.slot[i] = bytes.slot[i]
    BY DEF Put, TableInv, TableType
  <2>2. \A i \in Indices : i # e /\ Holds(editors, i)' => Holds(editors, i)
    BY <2>1 DEF Holds, IsFree
  <2>3. \A i \in Indices : i # e /\ Holds(editors, i)' =>
          Holds(bytes, editors.slot[i].bid) /\ editors.slot[i].bid # b
    BY <1>2, <2>2 DEF TableInv, BuffersFindTheirFile, Holds
  <2>4. b \notin held
    BY <1>2 DEF TableInv, HeldAreOpen, Holds
  <2>5. CASE x = e
    BY <1>7, <2>1, <2>3, <2>4, <2>5 DEF Editor, Byte
  <2>6. CASE x # e
    <3>1. Holds(editors, x) /\ Holds(bytes, editors.slot[x].bid) /\ editors.slot[x].bid # b
      BY <2>2, <2>3, <2>6
    <3>2. editors.slot[x].bid \in Indices
      BY <3>1 DEF Holds
    <3>3. \A o \in Indices : Holds(editors, o)' /\ o # x => editors'.slot[o].bid # editors'.slot[x].bid
      <4> SUFFICES ASSUME NEW o \in Indices, Holds(editors, o)', o # x
                   PROVE  editors'.slot[o].bid # editors'.slot[x].bid
        OBVIOUS
      <4>1. CASE o = e
        BY <2>1, <2>6, <3>1, <4>1 DEF Editor
      <4>2. CASE o # e
        BY <2>1, <2>2, <2>6, <3>1, <4>2 DEF TableInv, BuffersFindTheirFile
      <4> QED
        BY <4>1, <4>2
    <3>4. editors.slot[x].bid \notin held /\ bytes.slot[editors.slot[x].bid].file = editors.slot[x].file
      BY <3>1 DEF TableInv, BuffersFindTheirFile
    <3> QED
      BY <1>7, <2>1, <2>6, <3>1, <3>2, <3>3, <3>4
  <2> QED
    BY <2>5, <2>6
<1> QED
  BY <1>3, <1>4, <1>5, <1>6, <1>8, <1>9 DEF TableInv

(* A byte buffer of a module's own.                                        *)
LEMMA ModuleOpenKeeps ==
  ASSUME TableInv, NEW f \in AllFiles, NEW b \in Indices, Finds(bytes, b),
         bytes' = Put(bytes, b, Byte(f)), held' = held \cup {b}, known' = known \cup {b},
         UNCHANGED <<editors, closes, strays>>
  PROVE  TableInv'
<1> USE EntriesAreNotFree
<1>1. Byte(f) \in ByteEntries
  BY DEF ByteEntries
<1>2. IsFree(bytes, b)
  BY DEF Finds
<1>3. TableType(bytes, ByteEntries)' /\ Counted(bytes)'
  BY <1>1, <1>2, PutCounts DEF TableInv
<1>4. (~closes => InOrder(bytes))'
  BY PutKeepsOrder DEF TableInv
<1>5. /\ bytes'.slot[b] = Byte(f)
      /\ \A i \in Indices : i # b => bytes'.slot[i] = bytes.slot[i]
  BY DEF Put, TableInv, TableType
<1>6. \A i \in Indices : Holds(bytes, i)' <=> Holds(bytes, i) \/ i = b
  BY <1>5 DEF Holds, IsFree
<1>7. HeldAreOpen'
  BY <1>6 DEF HeldAreOpen, TableInv
<1>8. BuffersFindTheirFile'
  <2> SUFFICES ASSUME ~strays, NEW x \in Indices, Holds(editors, x)
               PROVE  /\ Holds(bytes, editors.slot[x].bid)'
                      /\ bytes'.slot[editors.slot[x].bid].file = editors.slot[x].file
                      /\ editors.slot[x].bid \notin held'
                      /\ \A o \in Indices : Holds(editors, o) /\ o # x => editors.slot[o].bid # editors.slot[x].bid
    BY DEF BuffersFindTheirFile, Holds, IsFree
  <2>1. /\ Holds(bytes, editors.slot[x].bid)
        /\ bytes.slot[editors.slot[x].bid].file = editors.slot[x].file
        /\ editors.slot[x].bid \notin held
        /\ \A o \in Indices : Holds(editors, o) /\ o # x => editors.slot[o].bid # editors.slot[x].bid
    BY DEF TableInv, BuffersFindTheirFile
  <2>2. editors.slot[x].bid # b /\ editors.slot[x].bid \in Indices
    BY <1>2, <2>1 DEF Holds
  <2> QED
    BY <1>5, <1>6, <2>1, <2>2
<1>9. TableType(editors, EditorEntries)' /\ Counted(editors)' /\ InOrder(editors)'
  BY DEF TableInv, TableType, Counted, InOrder, IsFree, Taken
<1> QED
  BY <1>3, <1>4, <1>7, <1>8, <1>9 DEF TableInv

(* A module closes a byte buffer: one of its own, unless it is a stray     *)
(* close.                                                                  *)
LEMMA ModuleCloseKeeps ==
  ASSUME TableInv, NEW b \in Indices, ModuleCloses(b)
  PROVE  TableInv'
<1> USE DEF ModuleCloses
<1>1. CASE Holds(bytes, b)
  <2>1. /\ bytes' = Erase(bytes, b) /\ closes'
        /\ TableType(bytes, ByteEntries)' /\ Counted(bytes)'
    BY <1>1, EraseCounts DEF TableInv, Holds
  <2>2. /\ \A i \in Indices : i # b => bytes'.slot[i] = bytes.slot[i]
        /\ \A i \in Indices : i # b => (Holds(bytes, i)' <=> Holds(bytes, i))
    BY <2>1 DEF Erase, TableInv, TableType, Holds, IsFree
  <2>3. HeldAreOpen'
    BY <2>2 DEF HeldAreOpen, TableInv
  <2>4. BuffersFindTheirFile'
    <3> SUFFICES ASSUME ~strays', NEW x \in Indices, Holds(editors, x)
                 PROVE  /\ Holds(bytes, editors.slot[x].bid)'
                        /\ bytes'.slot[editors.slot[x].bid].file = editors.slot[x].file
                        /\ editors.slot[x].bid \notin held'
                        /\ \A o \in Indices : Holds(editors, o) /\ o # x => editors.slot[o].bid # editors.slot[x].bid
      BY DEF BuffersFindTheirFile, Holds, IsFree
    <3>1. ~strays /\ b \in held
      OBVIOUS
    <3>2. /\ Holds(bytes, editors.slot[x].bid)
          /\ bytes.slot[editors.slot[x].bid].file = editors.slot[x].file
          /\ editors.slot[x].bid \notin held
          /\ \A o \in Indices : Holds(editors, o) /\ o # x => editors.slot[o].bid # editors.slot[x].bid
      BY <3>1 DEF TableInv, BuffersFindTheirFile
    <3>3. editors.slot[x].bid # b /\ editors.slot[x].bid \in Indices
      BY <3>1, <3>2 DEF Holds
    <3> QED
      BY <2>2, <3>2, <3>3
  <2>5. TableType(editors, EditorEntries)' /\ Counted(editors)' /\ InOrder(editors)'
    BY DEF TableInv, TableType, Counted, InOrder, IsFree, Taken
  <2> QED
    BY <2>1, <2>3, <2>4, <2>5 DEF TableInv
<1>2. CASE ~Holds(bytes, b)
  <2>1. UNCHANGED <<bytes, editors, closes>> /\ held' = held \ {b} /\ (strays => strays')
    BY <1>2
  <2> QED
    BY <2>1 DEF TableInv, TableType, Counted, InOrder, IsFree, Taken, HeldAreOpen,
                BuffersFindTheirFile, Holds
<1> QED
  BY <1>1, <1>2
(***************************************************************************)
(* The inductive invariant, and the properties it implies.                 *)
(***************************************************************************)

ScalarTypes ==
  /\ phase \in {"modules", "files", "running", "assert", "overrun", "null"}
  /\ opens \in Nat /\ closes \in BOOLEAN /\ strays \in BOOLEAN

ListIsGood ==
  /\ todo \in Seq(Files)
  /\ listed \in Seq(Indices)
  /\ listed # <<>> => Holds(editors, Head(listed))
  /\ phase = "running" => todo = <<>>

BInv == TableInv /\ ListIsGood /\ ScalarTypes /\ StopsHaveACause

LEMMA BInitHolds == BInit => BInv
<1> SUFFICES ASSUME BInit PROVE BInv
  OBVIOUS
<1> USE FilesAssumption DEF BInit
<1>1. TableType(bytes, ByteEntries) /\ TableType(editors, EditorEntries)
  BY DEF TableType, EmptyTable
<1>2. Taken(bytes) = {} /\ Taken(editors) = {} /\ InOrder(bytes) /\ InOrder(editors)
  BY DEF Taken, IsFree, EmptyTable, InOrder
<1>3. Counted(bytes) /\ Counted(editors)
  BY <1>2, FS_EmptySet DEF Counted, EmptyTable
<1>4. BuffersFindTheirFile /\ HeldAreOpen
  BY DEF BuffersFindTheirFile, HeldAreOpen, Holds, IsFree, EmptyTable
<1>5. ListIsGood
  BY DEF ListIsGood
<1>6. StopsHaveACause
  BY DEF StopsHaveACause
<1>7. ScalarTypes
  BY DEF ScalarTypes
<1> QED
  BY <1>1, <1>2, <1>3, <1>4, <1>5, <1>6, <1>7 DEF BInv, TableInv

LEMMA SameTables ==
  ASSUME TableInv, UNCHANGED <<bytes, editors, held, known, closes, strays>>
  PROVE  TableInv'
BY DEF TableInv, TableType, Counted, InOrder, IsFree, Taken, HeldAreOpen,
       BuffersFindTheirFile, Holds

(* What opening a buffer stops with: only a table that was closed in is    *)
(* read past its end, and a full table of editor buffers is met only after *)
(* a stray close.                                                          *)
LEMMA ByteOverrunsAfterClose ==
  ASSUME TableInv, NEW f, ByteOverrun(f)
  PROVE  closes
BY InOrderSearch DEF ByteOverrun, TableInv, TableType

LEMMA EditorFailsAfterStray ==
  ASSUME TableInv, NEW f, NEW why, EditorFails(f, why)
  PROVE  why = "null" /\ strays
<1>1. ~Overruns(editors) /\ (Refuses(editors) => \A i \in Indices : ~IsFree(editors, i))
  BY InOrderSearch DEF TableInv, TableType
<1>2. why = "null" /\ \A i \in Indices : ~IsFree(editors, i)
  BY <1>1 DEF EditorFails
<1>3. PICK b \in Indices : IsFree(bytes, b)
  BY DEF EditorFails, Finds
<1> QED
  BY <1>2, <1>3, FullEditorsFullBytes

(* The shown buffer stays what it is: nothing closes an editor buffer.     *)
LEMMA PutKeepsEntry ==
  ASSUME TableInv, NEW e \in Indices, IsFree(editors, e), NEW x, x # Free,
         editors' = Put(editors, e, x), NEW i \in Indices, Holds(editors, i)
  PROVE  Holds(editors, i)' /\ editors'.slot[i] = editors.slot[i]
BY DEF Put, Holds, IsFree, TableInv, TableType

LEMMA OpensAsKeepsEntries ==
  ASSUME TableInv, NEW f, NEW b, NEW e \in Indices, OpensAs(f, b, e),
         NEW i \in Indices, Holds(editors, i)
  PROVE  Holds(editors, i)' /\ editors'.slot[i] = editors.slot[i]
BY PutKeepsEntry, EntriesAreNotFree DEF OpensAs, Finds

LEMMA ScalarsKeep == ScalarTypes /\ [BNext]_bufferVars => ScalarTypes'
<1> SUFFICES ASSUME ScalarTypes, [BNext]_bufferVars PROVE ScalarTypes'
  OBVIOUS
<1> USE DEF ScalarTypes
<1>1. CASE OpenFile
  BY <1>1 DEF OpenFile
<1>2. CASE OpenFileFails
  BY <1>2 DEF OpenFileFails, Stop
<1>3. CASE FilesDone
  BY <1>3 DEF FilesDone
<1>4. CASE OpenDummy
  BY <1>4 DEF OpenDummy
<1>5. CASE \E f \in Files : ModuleOpens(f)
  BY <1>5 DEF ModuleOpens
<1>6. CASE \E f \in Files : ModuleOpensEditor(f)
  BY <1>6 DEF ModuleOpensEditor
<1>7. CASE \E b \in Indices : ModuleCloses(b)
  BY <1>7 DEF ModuleCloses
<1>8. CASE UNCHANGED bufferVars
  BY <1>8 DEF bufferVars
<1> QED
  BY <1>1, <1>2, <1>3, <1>4, <1>5, <1>6, <1>7, <1>8 DEF BNext

LEMMA BStepKeeps == BInv /\ [BNext]_bufferVars => BInv'
<1> SUFFICES ASSUME BInv, [BNext]_bufferVars PROVE BInv'
  OBVIOUS
<1> USE FilesAssumption
<1>0. ScalarTypes'
  BY ScalarsKeep DEF BInv
<1>1. CASE OpenFile
  <2>1. PICK b \in Indices, e \in Indices : OpensAs(Head(todo), b, e) /\ listed' = Append(listed, e)
    BY <1>1 DEF OpenFile
  <2>2. Head(todo) \in AllFiles /\ Tail(todo) \in Seq(Files)
    BY <1>1 DEF OpenFile, BInv, ListIsGood, AllFiles
  <2>3. TableInv'
    BY <1>1, <2>1, <2>2, OpensAsKeeps DEF OpenFile, BInv
  <2>4. Holds(editors, e)'
    BY <2>1, EntriesAreNotFree DEF OpensAs, Put, Holds, IsFree, BInv, TableInv, TableType
  <2>5. listed # <<>> => Holds(editors, Head(listed))'
    <3> SUFFICES ASSUME listed # <<>> PROVE Holds(editors, Head(listed))'
      OBVIOUS
    <3>1. Head(listed) \in Indices /\ Holds(editors, Head(listed)) /\ Head(listed') = Head(listed)
      BY <2>1 DEF BInv, ListIsGood
    <3> QED
      BY <2>1, <3>1, OpensAsKeepsEntries DEF BInv
  <2>6. listed' \in Seq(Indices) /\ Head(listed') = IF listed = <<>> THEN e ELSE Head(listed)
    BY <2>1 DEF BInv, ListIsGood
  <2>7. ListIsGood'
    BY <1>1, <2>2, <2>4, <2>5, <2>6 DEF OpenFile, ListIsGood
  <2>8. StopsHaveACause'
    BY <1>1 DEF OpenFile, StopsHaveACause
  <2> QED
    BY <1>0, <2>3, <2>7, <2>8 DEF BInv
<1>2. CASE OpenFileFails
  <2>1. UNCHANGED <<bytes, editors, listed, todo, held, known, opens, closes, strays>>
    BY <1>2 DEF OpenFileFails, Stop
  <2>2. TableInv'
    BY <2>1, SameTables DEF BInv
  <2>3. phase' \in {"assert", "overrun", "null"}
    BY <1>2 DEF OpenFileFails, Stop
  <2>4. ListIsGood'
    BY <2>1, <2>3 DEF BInv, ListIsGood, Holds, IsFree
  <2>5. StopsHaveACause'
    BY <1>2, <2>1, ByteOverrunsAfterClose, EditorFailsAfterStray
       DEF OpenFileFails, Stop, StopsHaveACause, BInv
  <2> QED
    BY <1>0, <2>2, <2>4, <2>5 DEF BInv
<1>3. CASE FilesDone
  <2>1. TableInv'
    BY <1>3, SameTables DEF FilesDone, BInv
  <2> QED
    BY <1>0, <1>3, <2>1 DEF FilesDone, BInv, ListIsGood, Holds, IsFree, StopsHaveACause
<1>4. CASE OpenDummy
  <2>1. CASE \E b, e \in Indices : OpensAs(Dummy, b, e) /\ phase' = "running"
    <3>1. PICK b \in Indices, e \in Indices : OpensAs(Dummy, b, e) /\ phase' = "running"
      BY <2>1
    <3>2. TableInv'
      BY <1>4, <3>1, OpensAsKeeps DEF OpenDummy, BInv, AllFiles
    <3>3. ListIsGood'
      <4>1. listed # <<>> => Holds(editors, Head(listed))'
        <5>1. listed' = listed
          BY <1>4 DEF OpenDummy
        <5> QED
          BY <3>1, <5>1, OpensAsKeepsEntries DEF BInv, ListIsGood, Holds
      <4> QED
        BY <1>4, <3>1, <4>1 DEF OpenDummy, BInv, ListIsGood
    <3> QED
      BY <1>0, <3>1, <3>2, <3>3 DEF BInv, StopsHaveACause
  <2>2. CASE UNCHANGED <<bytes, editors>> /\ phase' \in {"assert", "overrun", "null"}
    <3>1. TableInv'
      BY <1>4, <2>2, SameTables DEF OpenDummy, BInv
    <3>2. ListIsGood'
      BY <1>4, <2>2 DEF OpenDummy, BInv, ListIsGood, Holds, IsFree
    <3>3. StopsHaveACause'
      BY <1>4, <2>2, ByteOverrunsAfterClose, EditorFailsAfterStray
         DEF OpenDummy, StopsHaveACause, BInv
    <3> QED
      BY <1>0, <3>1, <3>2, <3>3 DEF BInv
  <2> QED
    BY <1>4, <2>1, <2>2 DEF OpenDummy
<1>5. ASSUME NEW f \in Files, ModuleOpens(f) PROVE BInv'
  <2> USE <1>5 DEF ModuleOpens
  <2>1. TableInv'
    <3>1. CASE UNCHANGED <<bytes, held, known>>
      <4>1. UNCHANGED <<editors, closes, strays>>
        OBVIOUS
      <4> QED
        BY <3>1, <4>1, SameTables DEF BInv
    <3>2. CASE \E b \in Indices : /\ Finds(bytes, b) /\ bytes' = Put(bytes, b, Byte(f))
                                  /\ held' = held \cup {b} /\ known' = known \cup {b}
      <4>1. PICK b \in Indices : /\ Finds(bytes, b) /\ bytes' = Put(bytes, b, Byte(f))
                                /\ held' = held \cup {b} /\ known' = known \cup {b}
        BY <3>2
      <4>2. UNCHANGED <<editors, closes, strays>> /\ f \in AllFiles
        BY DEF AllFiles
      <4> QED
        BY <4>1, <4>2, ModuleOpenKeeps DEF BInv
    <3> QED
      BY <3>1, <3>2
  <2>2. ListIsGood'
    BY DEF BInv, ListIsGood, Holds, IsFree
  <2>3. StopsHaveACause'
    BY ByteOverrunsAfterClose DEF BInv, StopsHaveACause
  <2> QED
    BY <1>0, <2>1, <2>2, <2>3 DEF BInv
<1>6. ASSUME NEW f \in Files, ModuleOpensEditor(f) PROVE BInv'
  <2> USE <1>6 DEF ModuleOpensEditor
  <2>1. CASE UNCHANGED <<bytes, editors>>
    <3>1. TableInv'
      BY <2>1, SameTables DEF BInv
    <3>2. phase' = "running" => phase = "running"
      BY EditorFailsAfterStray, EntriesAreNotFree DEF BInv
    <3>3. ListIsGood'
      BY <2>1, <3>2 DEF BInv, ListIsGood, Holds, IsFree
    <3>4. StopsHaveACause'
      BY ByteOverrunsAfterClose, EditorFailsAfterStray DEF BInv, StopsHaveACause
    <3> QED
      BY <1>0, <3>1, <3>3, <3>4 DEF BInv
  <2>2. CASE \E b, e \in Indices : OpensAs(f, b, e) /\ UNCHANGED phase
    <3>1. PICK b \in Indices, e \in Indices : OpensAs(f, b, e) /\ UNCHANGED phase
      BY <2>2
    <3>2. TableInv'
      BY <3>1, OpensAsKeeps DEF BInv, AllFiles
    <3>3. listed # <<>> => Holds(editors, Head(listed))'
      <4>1. listed' = listed
        OBVIOUS
      <4> QED
        BY <3>1, <4>1, OpensAsKeepsEntries DEF BInv, ListIsGood, Holds
    <3> QED
      BY <1>0, <3>1, <3>2, <3>3 DEF BInv, ListIsGood, StopsHaveACause
  <2> QED
    BY <2>1, <2>2
<1>7. ASSUME NEW b \in Indices, ModuleCloses(b) PROVE BInv'
  <2>1. TableInv'
    BY <1>7, ModuleCloseKeeps DEF BInv
  <2> QED
    BY <1>0, <1>7, <2>1 DEF ModuleCloses, BInv, ListIsGood, StopsHaveACause, Holds, IsFree
<1>8. CASE UNCHANGED bufferVars
  <2>1. TableInv'
    BY <1>8, SameTables DEF bufferVars, BInv
  <2> QED
    BY <1>0, <1>8, <2>1 DEF bufferVars, BInv, ListIsGood, StopsHaveACause, Holds, IsFree
<1> QED
  BY <1>1, <1>2, <1>3, <1>4, <1>5, <1>6, <1>7, <1>8 DEF BNext

LEMMA TypesHold == BInv => BTypeOK
BY DEF BInv, TableInv, TableType, ListIsGood, ScalarTypes, BTypeOK, ByteEntries,
       EditorEntries, AllFiles

(* The tables count what is in them.                                       *)
LEMMA CountedNeverGrows == TableInv => TablesNeverGrow
BY TakenIsFinite DEF TableInv, TablesNeverGrow, Counted


-----------------------------------------------------------------------------
(* The program.                                                            *)

(* While no module was given a byte buffer the two tables are filled in     *)
(* step, and an editor buffer has the number of its byte buffer.           *)
InStep ==
  phase \in {"modules", "files"} =>
    /\ known = {} /\ ~closes
    /\ bytes.last = editors.last
    /\ \A e \in Indices : Holds(editors, e) => editors.slot[e].bid = e

SameNumbers == listed # <<>> => editors.slot[Shown].bid = Shown

Inv ==
  /\ BInv
  /\ phase \in {"modules", "files"} => reached = {} /\ paged = {} /\ outcome # "page-up"
  /\ early \in BOOLEAN
  /\ ~early => InStep /\ SameNumbers
  /\ CommandsReachTheFileShown

LEMMA StopKeeps == BInv /\ Stop("assert") => BInv'
<1> SUFFICES ASSUME BInv, Stop("assert") PROVE BInv'
  OBVIOUS
<1>1. TableInv'
  BY SameTables DEF BInv, Stop
<1>2. ListIsGood' /\ ScalarTypes' /\ StopsHaveACause'
  BY DEF BInv, Stop, ListIsGood, ScalarTypes, StopsHaveACause, Holds, IsFree
<1> QED
  BY <1>1, <1>2 DEF BInv

LEMMA BuffersKeep == BInv /\ [Next]_vars => BInv'
<1> SUFFICES ASSUME BInv, [Next]_vars PROVE BInv'
  OBVIOUS
<1>1. [BNext]_bufferVars \/ Stop("assert")
  BY DEF Next, Starting, MakeView, KeyStep, PageUpFails, vars, bufferVars
<1> QED
  BY <1>1, BStepKeeps, StopKeeps

(* Two tables in step give the same number.                                 *)
LEMMA OpensInStep ==
  ASSUME BInv, InStep, SameNumbers, phase \in {"modules", "files"},
         NEW f, NEW b \in Indices, NEW e \in Indices, OpensAs(f, b, e)
  PROVE  /\ b = e /\ editors'.slot[e].bid = e
         /\ (bytes.last = editors.last)'
         /\ (\A i \in Indices : Holds(editors, i) => editors.slot[i].bid = i)'
<1>1. b = bytes.last + 1 /\ e = editors.last + 1
  BY InOrderSearch DEF OpensAs, BInv, TableInv, TableType, InStep
<1>2. b = e
  BY <1>1 DEF InStep
<1>3. bytes'.last = b /\ editors'.last = e
  BY DEF OpensAs, Put
<1>4. editors'.slot[e] = Editor(b, f)
  BY DEF OpensAs, Put, BInv, TableInv, TableType
<1>5. \A i \in Indices : i # e => editors'.slot[i] = editors.slot[i]
  BY DEF OpensAs, Put, BInv, TableInv, TableType
<1>6. editors'.slot[e].bid = e
  BY <1>2, <1>4 DEF Editor
<1>7. ASSUME NEW i \in Indices, Holds(editors, i)'
      PROVE  editors'.slot[i].bid = i
  <2>1. CASE i = e
    BY <1>6, <2>1
  <2>2. CASE i # e
    BY <1>5, <1>7, <2>2 DEF InStep, Holds, IsFree
  <2> QED
    BY <2>1, <2>2
<1> QED
  BY <1>2, <1>3, <1>6, <1>7

(* The buffer shown keeps its entry when one is opened.                     *)
LEMMA ShownKept ==
  ASSUME BInv, SameNumbers, listed # <<>>,
         NEW f, NEW b \in Indices, NEW e \in Indices, OpensAs(f, b, e)
  PROVE  editors'.slot[Shown].bid = Shown
<1>1. Shown \in Indices /\ Holds(editors, Shown)
  BY DEF BInv, ListIsGood, Shown
<1> QED
  BY <1>1, OpensAsKeepsEntries DEF BInv, SameNumbers

(* The modules and the files, while no module is given a byte buffer.       *)
LEMMA StartKeepsStep ==
  ASSUME BInv, InStep, SameNumbers, phase \in {"modules", "files"}, BNext, known' = {}
  PROVE  InStep' /\ SameNumbers'
<1>0. known = {}
  BY DEF InStep
<1>1. CASE OpenFile
  <2>1. PICK b \in Indices, e \in Indices : OpensAs(Head(todo), b, e) /\ listed' = Append(listed, e)
    BY <1>1 DEF OpenFile
  <2>2. /\ editors'.slot[e].bid = e /\ (bytes.last = editors.last)'
        /\ (\A i \in Indices : Holds(editors, i) => editors.slot[i].bid = i)'
    BY <2>1, OpensInStep
  <2>3. InStep'
    BY <1>0, <1>1, <2>2 DEF OpenFile, InStep
  <2>4. CASE listed = <<>>
    <3>1. Shown' = e
      BY <2>1, <2>4 DEF Shown
    <3> QED
      BY <2>2, <2>3, <3>1 DEF SameNumbers
  <2>5. CASE listed # <<>>
    <3>1. Shown' = Shown
      BY <2>1, <2>5 DEF Shown, BInv, ListIsGood
    <3>2. editors'.slot[Shown].bid = Shown
      BY <2>1, <2>5, ShownKept
    <3> QED
      BY <2>3, <3>1, <3>2 DEF SameNumbers
  <2> QED
    BY <2>4, <2>5
<1>2. CASE UNCHANGED <<bytes, editors, listed, known, closes>>
  BY <1>2 DEF InStep, SameNumbers, Shown, Holds, IsFree
<1>3. CASE UNCHANGED <<listed, known, closes>>
             /\ \E f \in Files \cup {Dummy} : \E b, e \in Indices : OpensAs(f, b, e)
  <2>1. PICK f \in Files \cup {Dummy}, b \in Indices, e \in Indices : OpensAs(f, b, e)
    BY <1>3
  <2>2. /\ (bytes.last = editors.last)'
        /\ (\A i \in Indices : Holds(editors, i) => editors.slot[i].bid = i)'
    BY <2>1, OpensInStep
  <2>3. InStep'
    BY <1>0, <1>3, <2>2 DEF InStep
  <2>4. listed # <<>> => editors'.slot[Shown].bid = Shown
    BY <2>1, ShownKept
  <2> QED
    BY <1>3, <2>3, <2>4 DEF SameNumbers, Shown
<1>4. CASE OpenFileFails
  BY <1>2, <1>4 DEF OpenFileFails, Stop
<1>5. CASE FilesDone
  BY <1>2, <1>5 DEF FilesDone
<1>6. CASE OpenDummy
  BY <1>2, <1>3, <1>6 DEF OpenDummy
<1>7. ASSUME NEW f \in Files, ModuleOpens(f) PROVE InStep' /\ SameNumbers'
  BY <1>2, <1>7 DEF ModuleOpens
<1>8. ASSUME NEW f \in Files, ModuleOpensEditor(f) PROVE InStep' /\ SameNumbers'
  BY <1>2, <1>3, <1>8 DEF ModuleOpensEditor
<1>9. ASSUME NEW b \in Indices, ModuleCloses(b) PROVE InStep' /\ SameNumbers'
  BY <1>0, <1>9 DEF ModuleCloses
<1> QED
  BY <1>1, <1>4, <1>5, <1>6, <1>7, <1>8, <1>9 DEF BNext

(* Once the program runs, the buffers' steps are the modules', and leave    *)
(* the buffer shown as it is.                                              *)
LEMMA ShownStays ==
  ASSUME BInv, phase = "running", listed # <<>>, [BNext]_bufferVars
  PROVE  /\ listed' = listed /\ phase' \notin {"modules", "files"}
         /\ editors'.slot[Shown'] = editors.slot[Shown]
         /\ strays => strays'
<1>1. Shown \in Indices /\ Holds(editors, Shown) /\ todo = <<>>
  BY DEF BInv, ListIsGood, Shown
<1>2. CASE \E f \in Files : ModuleOpens(f)
  BY <1>2 DEF ModuleOpens, Shown
<1>3. CASE \E f \in Files : ModuleOpensEditor(f)
  <2>1. PICK f \in Files : ModuleOpensEditor(f)
    BY <1>3
  <2>2. listed' = listed /\ strays' = strays
    BY <2>1 DEF ModuleOpensEditor
  <2>3. phase' \notin {"modules", "files"}
    BY <2>1, EditorFailsAfterStray DEF ModuleOpensEditor, BInv
  <2>4. CASE UNCHANGED editors
    BY <2>2, <2>3, <2>4 DEF Shown
  <2>5. CASE \E b, e \in Indices : OpensAs(f, b, e)
    <3>1. editors'.slot[Shown] = editors.slot[Shown]
      BY <1>1, <2>5, OpensAsKeepsEntries DEF BInv
    <3> QED
      BY <2>2, <2>3, <3>1 DEF Shown
  <2> QED
    BY <2>1, <2>4, <2>5 DEF ModuleOpensEditor
<1>4. CASE \E b \in Indices : ModuleCloses(b)
  BY <1>4 DEF ModuleCloses, Shown
<1>5. CASE UNCHANGED bufferVars
  BY <1>5 DEF bufferVars, Shown
<1>6. ~OpenFile /\ ~OpenFileFails /\ ~FilesDone /\ ~OpenDummy
  BY <1>1 DEF OpenFile, OpenFileFails, FilesDone, OpenDummy
<1> QED
  BY <1>2, <1>3, <1>4, <1>5, <1>6 DEF BNext

(* What the byte buffer of the shown buffer holds is the file shown, and    *)
(* what page-up finds too when the two numbers are the same.               *)
LEMMA ReachedIsShown ==
  ASSUME BInv, ~strays, listed # <<>>
  PROVE  /\ FilesOf({ByteBuffer}) \subseteq {editors.slot[Shown].file}
         /\ SameNumbers => PageUpBuffers = {ByteBuffer}
<1>1. Shown \in Indices /\ Holds(editors, Shown)
  BY DEF BInv, ListIsGood, Shown
<1>2. bytes.slot[ByteBuffer].file = editors.slot[Shown].file
  BY <1>1 DEF BInv, TableInv, BuffersFindTheirFile, ByteBuffer
<1>3. SameNumbers => ByteBuffer = Shown /\ Shown \in Taken(editors)
  BY <1>1 DEF SameNumbers, ByteBuffer, Taken, Holds
<1>4. SameNumbers => PageUpBuffers = {editors.slot[Shown].bid}
  BY <1>3 DEF PageUpBuffers
<1> QED
  BY <1>2, <1>4 DEF FilesOf, ByteBuffer

LEMMA InitHolds == Init => Inv
<1> SUFFICES ASSUME Init PROVE Inv
  OBVIOUS
<1>1. BInv
  BY BInitHolds DEF Init
<1>2. InStep /\ SameNumbers
  BY DEF Init, BInit, EmptyTable, InStep, SameNumbers, Holds, IsFree
<1>3. outcome # "page-up"
  BY Zenon DEF Init, KeyInit
<1> QED
  BY <1>1, <1>2, <1>3 DEF Init, BInit, Inv, CommandsReachTheFileShown

LEMMA NextKeeps == Inv /\ [Next]_vars => Inv'
<1> SUFFICES ASSUME Inv, [Next]_vars PROVE Inv'
  OBVIOUS
<1>1. BInv'
  BY BuffersKeep DEF Inv
<1>2. CASE Starting
  <2>1. /\ reached = {} /\ reached' = {} /\ paged = {} /\ paged' = {}
        /\ outcome' = outcome /\ outcome # "page-up"
    BY <1>2 DEF Starting, Inv, keyVars
  <2>2. early' \in BOOLEAN /\ (~early' => ~early /\ known' = {})
    BY <1>2 DEF Starting, Inv
  <2>3. ~early' => InStep' /\ SameNumbers'
    BY <1>2, <2>2, StartKeepsStep DEF Starting, Inv
  <2> QED
    BY <1>1, <2>1, <2>2, <2>3 DEF Inv, CommandsReachTheFileShown
<1>3. CASE UNCHANGED <<bytes, editors, listed, phase, known, closes, strays, reached, paged, early, outcome>>
  BY <1>1, <1>3 DEF Inv, CommandsReachTheFileShown, Shown, InStep, SameNumbers, Holds, IsFree
<1>4. CASE MakeView
  BY <1>3, <1>4 DEF MakeView, ReadLine, bufferVars
<1>5. CASE KeyStep
  <2>1. phase = "running" /\ listed # <<>> /\ Reach /\ early' = early
    BY <1>5 DEF KeyStep
  <2>2. [BNext]_bufferVars \/ PageUpFails
    BY <1>5 DEF KeyStep
  <2>3. /\ listed' = listed /\ phase' \notin {"modules", "files"}
        /\ editors'.slot[Shown'] = editors.slot[Shown] /\ Shown' = Shown
        /\ strays => strays'
    <3>1. CASE PageUpFails
      BY <3>1 DEF PageUpFails, Stop, Shown
    <3>2. CASE [BNext]_bufferVars
      BY <2>1, <3>2, ShownStays DEF Inv, Shown
    <3> QED
      BY <2>2, <3>1, <3>2
  <2>4. ~early' => InStep' /\ SameNumbers'
    BY <2>1, <2>3 DEF Inv, InStep, SameNumbers
  <2>5. ASSUME ~strays' PROVE
          /\ \A f \in reached' : f = editors'.slot[Shown'].file
          /\ ~early' => \A f \in paged' : f = editors'.slot[Shown'].file
          /\ ~early' /\ outcome' = "page-up" => phase' # "assert"
    <3>0. ~strays
      BY <2>3, <2>5
    <3>1. /\ FilesOf({ByteBuffer}) \subseteq {editors.slot[Shown].file}
          /\ ~early => PageUpBuffers = {ByteBuffer}
      BY <2>1, <3>0, ReachedIsShown DEF Inv
    <3>2. /\ \A f \in reached : f = editors.slot[Shown].file
          /\ ~early => \A f \in paged : f = editors.slot[Shown].file
      BY <3>0 DEF Inv, CommandsReachTheFileShown
    <3>3. ~early /\ outcome' = "page-up" => UNCHANGED phase
      BY <1>5, <3>1 DEF KeyStep, PageUpFails, bufferVars
    <3> QED
      BY <2>1, <2>3, <3>1, <3>2, <3>3 DEF Reach
  <2> QED
    BY <1>1, <2>1, <2>3, <2>4, <2>5 DEF Inv, CommandsReachTheFileShown
<1>6. CASE UNCHANGED vars
  BY <1>3, <1>6 DEF vars, bufferVars, keyVars
<1> QED
  BY <1>2, <1>4, <1>5, <1>6 DEF Next

LEMMA Invariance == Spec => []Inv
<1>1. Init => Inv
  BY InitHolds
<1>2. Inv /\ [Next]_vars => Inv'
  BY NextKeeps
<1> QED
  BY <1>1, <1>2, PTL DEF Spec

(* The type invariant of the buffers.                                      *)
THEOREM BufferTypes == Spec => []BTypeOK
<1>1. Inv => BTypeOK
  BY TypesHold DEF Inv
<1> QED
  BY <1>1, Invariance, PTL

(* Every editor buffer finds the file it was opened for, alone, unless a   *)
(* module closed a byte buffer it did not hold.                            *)
THEOREM EditorsFindTheirFile == Spec => []BuffersFindTheirFile
<1>1. Inv => BuffersFindTheirFile
  BY DEF Inv, BInv, TableInv
<1> QED
  BY <1>1, Invariance, PTL

(* No command works on another file than the one shown; page-up only if no *)
(* module was given a byte buffer before the files were opened.            *)
THEOREM CommandsEditTheFileShown == Spec => []CommandsReachTheFileShown
<1>1. Inv => CommandsReachTheFileShown
  BY DEF Inv
<1> QED
  BY <1>1, Invariance, PTL

(* The table of byte buffers is read past its end only after a close, that *)
(* of editor buffers never, and its null pointer is met only after a stray *)
(* close.                                                                  *)
THEOREM TablesStopWithACause == Spec => []StopsHaveACause
<1>1. Inv => StopsHaveACause
  BY DEF Inv, BInv
<1> QED
  BY <1>1, Invariance, PTL

(* The tables count their entries, and are never enlarged.                 *)
THEOREM FullTablesStayFull == Spec => []TablesNeverGrow
<1>1. Inv => TablesNeverGrow
  BY CountedNeverGrows DEF Inv, BInv
<1> QED
  BY <1>1, Invariance, PTL

(* The keys are the input map's alone: a step of the program reads a line, *)
(* takes an event or leaves them alone.                                    *)
LEMMA StepsOfTheKeys == Next => [KeyNext]_keyVars
BY DEF Next, Starting, MakeView, KeyStep, KeyNext

(* Whatever was typed before, the events since the walk last began do what *)
(* the configuration says of them, read line by line.                      *)
THEOREM KeysRunBindings == Spec => []KeysRunTheirBindings
<1>1. Init => KeyInv
  BY KeyInvInit DEF Init
<1>2. KeyInv /\ [Next]_vars => KeyInv'
  BY KeyInvInductive, StepsOfTheKeys DEF vars
<1>3. KeyInv => KeysRunTheirBindings
  BY DEF KeyInv
<1> QED
  BY <1>1, <1>2, <1>3, PTL DEF Spec
=============================================================================

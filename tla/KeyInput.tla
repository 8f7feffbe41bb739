------------------------------ MODULE KeyInput ------------------------------
(* What a key or a mouse button does: the user interfaces translate it into   *)
(* an input event (ncurses.cpp, x11_keyboard.cpp with ui/ew/text_view.hpp),   *)
(* and the core walks down the input map with it                              *)
(* (core/event/process_event.cpp).  The walk is kept in the view between two  *)
(* events; its end is the name of a function, run if a module or the core has *)
(* registered it (core/module/module.cpp).                                    *)
EXTENDS InputMap, Utf8

CONSTANTS Configs,       \* the configurations, in a sequence
          Keyboard,      \* what the user may type, by user interface
          ModuleFns      \* the names registered by the modules that are loaded

\* The tokens that say what a key is, and those that only modify it.
Codes     == {"unicode", "key", "mouse"}
Modifiers == {"ctrl", "alt"}

\* The number of the key a token belongs to: the commas before it tell.
KeyOf(line, p) == 1 + Cardinality({q \in 1 .. p - 1 : line[q].tok = "comma"})

\* A line as the parser is given them: it ends with its only "=", and there is
\* exactly one code point, key or button between two commas.
WellFormed(line) ==
  /\ Len(line) \in Nat \ {0} /\ DOMAIN line = 1 .. Len(line)
  /\ \A p \in DOMAIN line :
       /\ line[p].tok \in Modifiers \cup Codes \cup {"comma", "eq"}
       /\ line[p].tok = "eq" <=> p = Len(line)
       /\ line[p].tok = "key" => line[p].key \in KeyNames
       /\ line[p].tok = "unicode" =>
            line[p].range \in BOOLEAN /\ (~line[p].range => line[p].end = 0)
  /\ \A k \in 1 .. KeyOf(line, Len(line)) :
       \E p \in DOMAIN line :
         \A q \in DOMAIN line : KeyOf(line, q) = k /\ line[q].tok \in Codes <=> q = p
  /\ line[Len(line)].action # NoAction

\* The program parses one configuration (setup_default_input_map), of this form.
ASSUME ConfigAssumption ==
  \A c \in DOMAIN Configs :
    /\ Len(Configs[c]) \in Nat /\ DOMAIN Configs[c] = 1 .. Len(Configs[c])
    /\ \A i \in DOMAIN Configs[c] : WellFormed(Configs[c][i])

VARIABLES nodes,         \* the tree of the view's input map
          at,            \* input.last_keymap_entry: the node reached, or Root
          ui,            \* the user interface of the session
          config,        \* the configuration of the view's input map
          lines,         \* how many of its lines are in the tree
          typed,         \* the events since the walk last began
          outcome,       \* what the last event led to
          stopped        \* why the core stopped, "no" while it runs

keyVars == <<nodes, at, ui, config, lines, typed, outcome, stopped>>

(******************************* translation ********************************)

\* ncurses_keycode_to_eedit_event.  Of the control codes 10 and 9 are the
\* code points newline and tab, each other is a letter with ctrl; what lies
\* above them is a code point, ESC and DEL too.
CursesKey(k) ==
  CASE k = "KEY_DOWN" -> "Down"            [] k = "KEY_UP" -> "Up"
    [] k = "KEY_LEFT" -> "Left"            [] k = "KEY_RIGHT" -> "Right"
    [] k \in {"KEY_HOME", "KEY_SHOME"} -> "Home"
    [] k \in {"KEY_END", "KEY_SEND"} -> "End"
    [] k = "KEY_BACKSPACE" -> "BackSpace"  [] k = "KEY_DC" -> "Delete"
    [] k = "KEY_NPAGE" -> "PageDown"       [] k = "KEY_PPAGE" -> "PageUp"
    [] OTHER -> "abort"

NcursesEvent(k) ==
  CASE k.kind = "key" -> KeyEvent(CursesKey(k.key), {}, 0)
    [] k.kind = "char" /\ k.char \in {9, 10} -> KeyEvent("UNICODE", {}, k.char)
    [] k.kind = "char" /\ k.char \in 0 .. 26 \ {9, 10} ->
         KeyEvent("UNICODE", {"ctrl"}, k.char + 96)
    [] k.kind = "char" /\ k.char \in 27 .. 127 -> KeyEvent("UNICODE", {}, k.char)
    [] OTHER -> KeyEvent("abort", {}, 0)

\* xkeysym_to_event_key: the keypad falls through to Keypad_Plus or F1, the
\* function keys from F12 on, the modifiers and all others to NUL.
KeysymKey(sym) ==
  CASE sym \in KeyNames \ {"Keypad_Plus", "F12"} -> sym
    [] sym \in {"KP_Enter", "KP_Home", "KP_Add"} -> "Keypad_Plus"
    [] sym \in {"KP_Subtract", "KP_0"} -> "F1"
    [] sym \in {"F12"} -> "F12"
    [] OTHER -> "NUL"

\* The text Xlib gives for each key, decoded.
Unicode ==
  [c \in {k.char : k \in {x \in Keyboard["ew"] : x.kind = "x11"}} |-> GetCp(Utf8Of(c))]

\* x11key_to_unicode: without an input context the key stays NUL, and so it
\* does for text that comes without a keysym, as composed text does.  The string
\* is looked up without the control bit; text that is no code point, one below
\* 32, or 127, is left to the keysym.
X11Key(k) ==
  IF ~k.context \/ k.sym = "none" THEN [key |-> "NUL", char |-> 0]
  ELSE IF Unicode[k.char] >= 32 /\ Unicode[k.char] # 127
       THEN [key |-> "UNICODE", char |-> Unicode[k.char]]
       ELSE [key |-> KeysymKey(k.sym), char |-> 0]

\* text_view: a key keeps ctrl and both alts; a button has no modifiers.
EwEvent(k) ==
  IF k.kind = "button"
  THEN ButtonEvent(IF k.press THEN "button_press" ELSE "button_release", k.button)
  ELSE LET x == X11Key(k) IN KeyEvent(x.key, k.mods \cap {"ctrl", "altL", "altR"}, x.char)

InputEvent(k) == IF ui = "ncurses" THEN NcursesEvent(k) ELSE EwEvent(k)

(********************************* the walk *********************************)

\* core::main registers these itself.
CoreFns == {"quit-editor", "undo", "redo", "dump-buffer-log"}

Registered == CoreFns \cup ModuleFns

KeyInit ==
  /\ ui \in {"ncurses", "ew"}
  /\ config \in DOMAIN Configs
  /\ lines = 0
  /\ nodes = <<>>
  /\ at = Root
  /\ typed = <<>>
  /\ outcome = "nothing yet"
  /\ stopped = "no"

\* parse_input_map_config, when the view is made: line by line into the tree.
ReadLine ==
  /\ lines < Len(Configs[config])
  /\ nodes' = AddLine(nodes, Configs[config][lines + 1])
  /\ lines' = lines + 1
  /\ UNCHANGED <<at, ui, config, typed, outcome, stopped>>

\* A walk that has ended begins again at the root.
Walked(ev) == IF at = Root THEN <<ev>> ELSE Append(typed, ev)

\* A key code ncurses does not translate aborts the program.
Untranslated(k) ==
  /\ InputEvent(k).key = "abort"
  /\ stopped' = "untranslated"
  /\ UNCHANGED <<nodes, at, ui, config, lines, typed, outcome>>

Matched(ev) == Eval(nodes, at, ev)

\* Mutant: the walk is not reset.
NoMatchStays(ev) ==
  /\ Matched(ev) = Nowhere
  /\ at' = at
  /\ typed' = Walked(ev)
  /\ outcome' = "none"
  /\ UNCHANGED <<nodes, ui, config, lines, stopped>>

\* No child takes the event: it is swallowed and the walk ends.
NoMatch(ev) ==
  /\ Matched(ev) = Nowhere
  /\ at' = Root
  /\ typed' = Walked(ev)
  /\ outcome' = "none"
  /\ UNCHANGED <<nodes, ui, config, lines, stopped>>

\* A child without an action: the sequence needs more.
NeedMore(ev) ==
  /\ Matched(ev) # Nowhere
  /\ nodes[Matched(ev)].action = NoAction
  /\ at' = Matched(ev)
  /\ typed' = Walked(ev)
  /\ outcome' = "more"
  /\ UNCHANGED <<nodes, ui, config, lines, stopped>>

\* An action: the child must have no children itself.  The registered
\* function is run, one that is not registered is passed over; undo and redo
\* stop at an assertion of theirs.
Action(ev) ==
  /\ Matched(ev) # Nowhere
  /\ nodes[Matched(ev)].action # NoAction
  /\ typed' = Walked(ev)
  /\ outcome' = nodes[Matched(ev)].action
  /\ at' = Root
  /\ stopped' = IF Children(nodes, Matched(ev)) # {} THEN "prefix"
                ELSE IF outcome' \in {"undo", "redo"} \cap Registered THEN "undo"
                ELSE "no"
  /\ UNCHANGED <<nodes, ui, config, lines>>

\* eval_input_event
KeyPressed ==
  /\ lines = Len(Configs[config])
  /\ stopped = "no"
  /\ \E k \in Keyboard[ui] :
       \/ Untranslated(k)
       \/ LET ev == InputEvent(k)
          IN  ev.key # "abort" /\ (NoMatch(ev) \/ NeedMore(ev) \/ Action(ev))

KeyNext == ReadLine \/ KeyPressed

KeySpec == KeyInit /\ [][KeyNext]_keyVars

(******************************* properties *********************************)

\* The configuration read line by line, without a tree.  Described is the
\* event that the tokens of a key describe together.
MouseEntry(type, button) == [NoEvent EXCEPT !.type = type, !.button = button]

KeyEntry(mods, key, range, start, end) ==
  [NoEvent EXCEPT !.mods = mods, !.key = key, !.range = range, !.start = start, !.end = end]

Described(part) ==
  LET Has(tok) == \E t \in part : t.tok = tok
      The(tok) == CHOOSE t \in part : t.tok = tok
      mods     == {m \in {"ctrl", "altL"} : Has(IF m = "ctrl" THEN "ctrl" ELSE "alt")}
  IN  IF Has("mouse")
      THEN MouseEntry(IF The("mouse").press THEN "button_press" ELSE "button_release",
                      The("mouse").button)
      ELSE IF Has("unicode")
      THEN KeyEntry(mods, "UNICODE", The("unicode").range, The("unicode").start, The("unicode").end)
      ELSE KeyEntry(mods, The("key").key, FALSE, 0, 0)

\* The keys of a line, between its commas, and its action.
Binding(line) ==
  [keys   |-> [k \in 1 .. KeyOf(line, Len(line)) |->
                 Described({line[p] : p \in {q \in DOMAIN line : KeyOf(line, q) = k}})],
   action |-> line[Len(line)].action]

BindingsOf(conf) == [i \in DOMAIN conf |-> Binding(conf[i])]

Bindings == [c \in DOMAIN Configs |-> BindingsOf(Configs[c])]

\* Two bindings begin with the same n keys.
SameStart(b, c, n) == Len(c.keys) >= n /\ \A k \in 1 .. n : b.keys[k] = c.keys[k]

\* The line that first began like this one: of two starts that take the same
\* events, the one begun later wins.
Begun(B, i, n) == Min({j \in DOMAIN B : SameStart(B[i], B[j], n)})

\* The bindings in "left" whose n-th key takes the event; of these, the ones
\* whose start was begun last.
Narrowed(B, left, n, ev) ==
  LET take == {i \in left : Len(B[i].keys) >= n /\ Contains(B[i].keys[n], ev)}
  IN  {i \in take : \A j \in take : Begun(B, i, n) >= Begun(B, j, n)}

\* The bindings that the events evs begin.
Rivals(B, evs) ==
  LET left[k \in 0 .. Len(evs)] ==
        IF k = 0 THEN DOMAIN B ELSE Narrowed(B, left[k - 1], k, evs[k])
  IN  left[Len(evs)]

\* What the bindings B say of these events.
Expected(B, evs) ==
  LET left     == Rivals(B, evs)
      complete == {i \in left : Len(B[i].keys) = Len(evs)}
  IN  IF left = {} THEN "none"
      ELSE IF complete = {} THEN "more"
      ELSE B[Max(complete)].action

\* They complete one binding and begin another, longer one.
CompleteAndBegin(B, evs) ==
  LET lengths == {Len(B[i].keys) : i \in Rivals(B, evs)}
  IN  Len(evs) \in lengths /\ lengths # {Len(evs)}

\* Whatever was typed before, the events since the walk last began do what the
\* configuration says of them, read line by line: the action of the binding
\* they complete, the last one given, nothing yet while they begin a binding,
\* nothing at all when no binding begins like them; and the core stops at an
\* action that is not a leaf exactly when they complete one binding and begin
\* another.  (The walk kept in the view between two events, its resets, and the
\* tree built with shared nodes.)
KeysRunTheirBindings ==
  outcome # "nothing yet" =>
    /\ outcome = Expected(Bindings[config], typed)
    /\ stopped = "prefix" <=> CompleteAndBegin(Bindings[config], typed)
=============================================================================

------------------------------ MODULE InputMap ------------------------------
(* The input map (core/input/event/input_event_map.hpp): input events, the    *)
(* configuration that binds sequences of them to actions, the tree it is      *)
(* parsed into and the search of one level of that tree.                      *)
(*                                                                            *)
(* A configuration is a sequence of lines, a line the sequence of the tokens   *)
(* get_token finds in it.  The tree is the sequence of its nodes in the order in which they    *)
(* are created: a node names its parent (Root for the first level), so the    *)
(* children of a node, in the order of its vector, are the nodes that name    *)
(* it.                                                                        *)
EXTENDS Integers, Sequences, FiniteSetsExt

\* What c_string_to_key_value knows: the names of the keys, without their case.
KeyNames ==
  {"Tab", "Linefeed", "Clear", "Return", "Pause", "ScrollLock", "SysReq", "Escape",
   "Delete", "BackSpace", "Home", "Left", "Up", "Right", "Down", "PageUp", "PageDown",
   "End", "Begin", "F1", "F2", "F3", "F4", "F5", "F6", "F7", "F8", "F9", "F10", "F11",
   "F12", "Keypad_Plus"}

NoAction == "no action"
Root     == 0
Nowhere  == -1        \* no node

(***************************** input events *********************************)

\* The entry the parser starts from: key NUL, no modifier.
NoEvent == [type |-> "keypress", key |-> "NUL", mods |-> {}, range |-> FALSE,
            start |-> 0, end |-> 0, button |-> 0]

\* The event of a key: Tab becomes the code point 9, altR is not kept for a
\* code point, and the end of the range stays 0.
KeyEvent(key, mods, codepoint) ==
  IF key = "Tab"
  THEN [NoEvent EXCEPT !.key = "UNICODE", !.mods = mods \ {"altR"}, !.start = 9, !.end = 9]
  ELSE [NoEvent EXCEPT !.key = key, !.start = codepoint,
                       !.mods = IF key = "UNICODE" THEN mods \ {"altR"} ELSE mods]

ButtonEvent(type, button) ==
  [NoEvent EXCEPT !.type = type, !.key = "NO_KEY", !.button = button]

\* operator ==: the key, the range and the modifiers of a key; the button
\* alone for a button.
Same(a, b) ==
  /\ a.type = b.type
  /\ IF a.type = "keypress"
     THEN <<a.key, a.mods, a.range, a.start, a.end>> = <<b.key, b.mods, b.range, b.start, b.end>>
     ELSE a.button = b.button

\* contains: a range takes what starts and ends in it; a typed code point ends
\* at 0, so only its start counts.
Contains(a, b) ==
  \/ Same(a, b)
  \/ /\ a.type = "keypress"
     /\ a.range
     /\ a.key = b.key
     /\ a.start <= b.start
     /\ a.end >= b.end
     /\ a.mods = b.mods

(********************************* the tree *********************************)

Children(nodes, parent) == {i \in DOMAIN nodes : nodes[i].parent = parent}

LastOf(S) == IF S = {} THEN Nowhere ELSE Max(S)

\* eval_input_event of the map: the last child the event equals or is in.
Eval(nodes, parent, ev) ==
  LastOf({i \in Children(nodes, parent) : Contains(nodes[i].ev, ev)})

\* find_seq_nodes: at each level the last child that is equal; Nowhere from
\* the first level without one.
SequenceNodes(nodes, seq) ==
  LET at[k \in 0 .. Len(seq)] ==
        IF k = 0 THEN Root
        ELSE IF at[k - 1] = Nowhere THEN Nowhere
        ELSE LastOf({i \in Children(nodes, at[k - 1]) : Same(seq[k], nodes[i].ev)})
  IN  at

\* keymap_insert_sequence: a sequence that is there gets the new action, the
\* rest of another one is hung under the last node they share.
InsertSequence(nodes, seq, action) ==
  LET at     == SequenceNodes(nodes, seq)
      shared == Max({k \in 0 .. Len(seq) : at[k] # Nowhere})
      rest   == [j \in 1 .. Len(seq) - shared |->
                   [parent |-> IF j = 1 THEN at[shared] ELSE Len(nodes) + j - 1,
                    ev     |-> seq[shared + j],
                    action |-> IF shared + j = Len(seq) THEN action ELSE NoAction]]
  IN  IF shared = Len(seq)
      THEN [nodes EXCEPT ![at[shared]].action = action]
      ELSE nodes \o rest

(******************************** the parser ********************************)

\* parse_control and parse_alt: a modifier given twice changes nothing.
ParseModifier(c, mod) == [c EXCEPT !.entry.mods = @ \cup {mod}]

ParseUnicode(c, t) ==
  [c EXCEPT !.entry.key = "UNICODE", !.entry.start = t.start,
            !.entry.range = @ \/ t.range, !.entry.end = IF t.range THEN t.end ELSE @]

\* get_token_keyname, parse_page_up and parse_page_down: an unknown name is
\* the key NUL; what else the entry holds stays.
ParseKey(c, t) == [c EXCEPT !.entry.key = IF t.key \in KeyNames THEN t.key ELSE "NUL"]

ParseMouse(c, t) ==
  [c EXCEPT !.entry.button = t.button,
            !.entry.type = IF t.press THEN "button_press" ELSE "button_release"]

\* push_current_keymap_entry
PushEntry(c) == [c EXCEPT !.seq = Append(@, c.entry), !.entry = NoEvent]

\* parse_input_map_string: one turn of its loop.  The "=" ends the sequence:
\* its last entry is pushed with the action.
TakeToken(c, t) ==
  CASE t.tok = "ctrl"    -> ParseModifier(c, "ctrl")
    [] t.tok = "alt"     -> ParseModifier(c, "altL")
    [] t.tok = "unicode" -> ParseUnicode(c, t)
    [] t.tok = "key"     -> ParseKey(c, t)
    [] t.tok = "mouse"   -> ParseMouse(c, t)
    [] t.tok = "comma"   -> PushEntry(c)
    [] t.tok = "eq"      -> PushEntry(c)

\* The sequence of a line.  (A line without an "=" would leave its modifiers
\* and keys to the next one; no configuration has one.)
ParsedLine(line) ==
  LET after[k \in 0 .. Len(line)] ==
        IF k = 0 THEN [entry |-> NoEvent, seq |-> <<>>] ELSE TakeToken(after[k - 1], line[k])
  IN  after[Len(line)].seq

\* add_keys_to_current_input_map: a line read goes into the tree.
AddLine(nodes, line) == InsertSequence(nodes, ParsedLine(line), line[Len(line)].action)

(*************************** the configuration ******************************)

AllOnes == 2147483647   \* stands for 0xFFFFFFFF: no code point is larger

Ctrl         == [tok |-> "ctrl"]
Alt          == [tok |-> "alt"]
Comma        == [tok |-> "comma"]
Char(c)      == [tok |-> "unicode", start |-> c, range |-> FALSE, end |-> 0]
Span(a, b) == [tok |-> "unicode", start |-> a, range |-> TRUE, end |-> b]
Key(name)    == [tok |-> "key", key |-> name]
Press(b)     == [tok |-> "mouse", button |-> b, press |-> TRUE]
Release(b)   == [tok |-> "mouse", button |-> b, press |-> FALSE]
Bind(action) == [tok |-> "eq", action |-> action]

\* setup_default_input_map, the only configuration the program parses: 32 is
\* the space, 60 and 62 are < and >, 76 is L and 90 Z, the others letters.
DefaultMap ==
  <<
    <<Span(0, AllOnes), Bind("self-insert")>>,
    <<Key("Return"), Bind("insert-newline")>>,
    <<Ctrl, Char(120), Comma, Ctrl, Char(115), Bind("save-buffer")>>,
    <<Ctrl, Char(120), Comma, Ctrl, Char(99), Bind("quit-editor")>>,
    <<Ctrl, Char(103), Bind("goto-line")>>,
    <<Ctrl, Char(97), Bind("goto-beginning-of-line")>>,
    <<Ctrl, Char(101), Bind("goto-end-of-line")>>,
    <<Key("Home"), Bind("goto-beginning-of-line")>>,
    <<Key("End"), Bind("goto-end-of-line")>>,
    <<Ctrl, Char(115), Bind("incremental-search-forward")>>,
    <<Key("BackSpace"), Bind("delete-left-char")>>,
    <<Key("Delete"), Bind("delete-right-char")>>,
    <<Ctrl, Char(100), Bind("delete-right-char")>>,
    <<Key("Left"), Bind("left-char")>>,
    <<Key("Right"), Bind("right-char")>>,
    <<Key("Up"), Bind("previous-line")>>,
    <<Key("Down"), Bind("next-line")>>,
    <<Key("PageUp"), Bind("page-up")>>,
    <<Key("PageDown"), Bind("page-down")>>,
    <<Ctrl, Key("Right"), Bind("right-word")>>,
    <<Ctrl, Key("Left"), Bind("left-word")>>,
    <<Alt, Char(60), Bind("goto-beginning-of-buffer")>>,
    <<Alt, Char(62), Bind("goto-end-of-buffer")>>,
    <<Ctrl, Key("Home"), Bind("goto-beginning-of-buffer")>>,
    <<Ctrl, Key("End"), Bind("goto-end-of-buffer")>>,
    <<Ctrl, Char(102), Comma, Key("Left"), Bind("fold-current-block")>>,
    <<Ctrl, Char(102), Comma, Key("Right"), Bind("unfold-current-block")>>,
    <<Ctrl, Char(32), Bind("begin-selection")>>,
    <<Press(1), Bind("begin-selection")>>,
    <<Release(1), Bind("end-selection")>>,
    <<Press(2), Bind("mouse-button2-press")>>,
    <<Release(2), Bind("mouse-button2-release")>>,
    <<Press(3), Bind("mouse-button3-press")>>,
    <<Release(3), Bind("mouse-button3-release")>>,
    <<Press(4), Bind("mouse-wheel-up")>>,
    <<Press(5), Bind("mouse-wheel-down")>>,
    <<Ctrl, Char(122), Bind("undo")>>,
    <<Ctrl, Char(90), Bind("redo")>>,
    <<Ctrl, Char(76), Bind("dump-buffer-log")>>
  >>
=============================================================================

---------------------------- MODULE MCEditorCore ----------------------------
(* EditorCore with two usable handles in each table; the default input map,   *)
(* the one of its #else, and one that binds a sequence twice, shares starts,  *)
(* lets a range and one of its code points compete, and makes one sequence    *)
(* the beginning of another.                                                  *)
EXTENDS EditorCore

Code(c) == [kind |-> "char", char |-> c]
Named(k) == [kind |-> "key", key |-> k]

\* ctrl with c, g, m, s, x and z; tab, a letter, and one key it cannot translate.
Curses ==
  {Code(c) : c \in {3, 7, 9, 13, 19, 24, 26, 97}}
    \cup {Named(k) : k \in {"KEY_LEFT", "KEY_SEND", "KEY_PPAGE", "KEY_RESIZE"}}

X11(char, sym, mods) ==
  [kind |-> "x11", context |-> TRUE, char |-> char, sym |-> sym, mods |-> mods]

\* A modifier alone, a key without an input context and a button are events too.
X11Keys ==
  {X11(120, "x", {"ctrl"}), X11(99, "c", {"ctrl", "altR"}), X11(102, "f", {"ctrl"}),
   X11(115, "s", {"ctrl"}), X11(60, "less", {"altL"}), X11(0, "Left", {}), X11(0, "Control_L", {}),
   X11(233, "eacute", {}), X11(128512, "smile", {}), X11(233, "none", {}),
   X11(9, "Tab", {}), X11(0, "KP_Home", {}), X11(127, "Delete", {}),
   [X11(97, "a", {}) EXCEPT !.context = FALSE],
   [kind |-> "button", press |-> TRUE, button |-> 1],
   [kind |-> "button", press |-> FALSE, button |-> 1]}

MCKeyboard == [ncurses |-> Curses, ew |-> X11Keys]

ElseMap == <<<<Span(0, AllOnes), Bind("self-insert")>>>>

Variant ==
  <<
    <<Ctrl, Char(120), Comma, Ctrl, Char(115), Bind("save-buffer")>>,
    <<Char(97), Bind("goto-line")>>,
    <<Span(32, 126), Bind("self-insert")>>,
    <<Char(115), Bind("left-char")>>,
    <<Char(233), Bind("goto-line")>>,
    <<Ctrl, Char(120), Comma, Key("Left"), Comma, Char(97), Bind("page-up")>>,
    <<Char(97), Bind("right-char")>>,
    <<Ctrl, Char(120), Comma, Ctrl, Char(115), Bind("page-down")>>,
    <<Ctrl, Char(102), Bind("goto-line")>>,
    <<Ctrl, Char(102), Comma, Key("Left"), Bind("left-char")>>
  >>

MCConfigs == <<DefaultMap, ElseMap, Variant>>

MCModuleFns == {"self-insert", "save-buffer", "page-up"}

\* Of the code points around the borders of the automaton's states, those
\* arrive that begin with neither EE nor F0, nor with F4 before a third byte
\* above 9F: one row of init() is missing, one is overwritten, and two share a
\* state (utf8.cpp:141-226).  Of the others some arrive as another code point:
\* the first three bytes of F0 BF BF BF are a code point of their own.
Borders ==
  {32, 126, 128, 2047, 2048, 4095, 4096, 55295, 57344, 61439, 61440, 65535,
   65536, 128512, 262143, 262144, 1048575, 1048576, 1050624, 1114111}

Lost(b) == \/ b[1] \in {238, 240}
           \/ b[1] = 244 /\ b[3] > 159

ASSUME TypedTextArrives ==
  /\ \A c \in Borders : GetCp(Utf8Of(c)) = c <=> ~Lost(Utf8Of(c))
  /\ GetCp(Utf8Of(262143)) = 4095 /\ GetCp(Utf8Of(128512)) = -1

MCCommandLines == {<<>>, <<"f1">>, <<"f1", "f2">>, <<"f1", "gone">>}
=============================================================================

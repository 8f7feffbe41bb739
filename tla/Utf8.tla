-------------------------------- MODULE Utf8 --------------------------------
(* One code point out of a buffer of bytes: the automaton of the utf8 codec   *)
(* (codecs/text/unicode/utf8/utf8.cpp), run by get_cp (textcodec.hpp).        *)
EXTENDS Integers, Sequences, FiniteSetsExt

\* init() fills the table in this order; a later row overwrites an earlier one,
\* what no row fills is the error state.
Rows ==
  << <<"S0",   0, 127, "F">>,  <<"S0", 194, 223, "S1">>, <<"S0", 224, 224, "S6">>,
     <<"S0", 225, 236, "S2">>, <<"S0", 237, 237, "S3">>, <<"S0", 239, 239, "S2">>,
     <<"S0", 240, 243, "S7">>, <<"S0", 241, 243, "S4">>, <<"S0", 244, 244, "S5">>,
     <<"S1", 128, 191, "F">>,  <<"S2", 128, 191, "S1">>, <<"S3", 128, 159, "S1">>,
     <<"S4", 128, 191, "S2">>, <<"S5", 128, 143, "S3">>, <<"S6", 160, 191, "S1">>,
     <<"S7", 160, 191, "S1">> >>

State(s, byte) ==
  LET filled == {i \in DOMAIN Rows : Rows[i][1] = s /\ byte \in Rows[i][2] .. Rows[i][3]}
  IN  IF filled = {} THEN "E" ELSE Rows[Max(filled)][4]

\* The bits of a byte that belong to the code point.
Mask(byte) ==
  CASE byte < 128 -> byte
    [] byte \in 128 .. 191 -> byte % 64
    [] byte \in 192 .. 223 -> byte % 32
    [] byte \in 224 .. 239 -> byte % 16
    [] byte \in 240 .. 247 -> byte % 8
    [] OTHER -> 0     \* never filled, and the error state whatever it is

\* The bytes are taken up to the first final or error state.
GetCp(buffer) ==
  LET run[i \in 0 .. Len(buffer)] ==
        IF i = 0 THEN [state |-> "S0", cp |-> 0]
        ELSE [state |-> State(run[i - 1].state, buffer[i]),
              cp    |-> run[i - 1].cp * 64 + Mask(buffer[i])]
      ends == {i \in DOMAIN buffer : run[i].state \in {"F", "E"}}
      last == IF ends = {} THEN Len(buffer) ELSE Min(ends)
  IN  IF run[last].state = "E" THEN -1 ELSE run[last].cp

\* What Xlib puts into the buffer for a code point, and the zeros behind it.
Utf8Of(c) ==
  LET tail(n) == 128 + (n % 64)
  IN  CASE c < 128           -> <<c, 0>>
        [] c \in 128 .. 2047  -> <<192 + (c \div 64), tail(c), 0>>
        [] c \in 2048 .. 65535 -> <<224 + (c \div 4096), tail(c \div 64), tail(c), 0>>
        [] c \in 65536 .. 1114111 ->
             <<240 + (c \div 262144), tail(c \div 4096), tail(c \div 64), tail(c), 0>>
=============================================================================

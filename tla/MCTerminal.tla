----------------------------- MODULE MCTerminal -----------------------------
(***************************************************************************)
(* Instances of Terminal for TLC.  Three sessions: a keyboard with         *)
(* modifiers whose ring overflows, a serial line with editing, and both    *)
(* devices together.                                                       *)
(***************************************************************************)
EXTENDS Terminal

\* c, Enter, Backspace, Ctrl, left shift.
AtKeyboard == [keys |-> {46, 28, 14, Ctrl, LeftShift}, typed |-> 6, bytes |-> {}, sent |-> 0]

\* a, CR, LF, DEL, Ctrl+C, tab.
AtSerial == [keys |-> {}, typed |-> 0, bytes |-> {97, 13, 10, 127, 3, 9}, sent |-> 5]

AtBoth == [keys |-> {30, 28, Ctrl}, typed |-> 3, bytes |-> {98, 13}, sent |-> 2]

MCSessions == {AtKeyboard, AtSerial, AtBoth}
MCTyping == {[AtBoth EXCEPT !.keys = {30, 28}]}
=============================================================================

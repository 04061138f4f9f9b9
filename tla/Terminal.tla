------------------------------ MODULE Terminal ------------------------------
(***************************************************************************)
(* Terminal input, from the devices to a read of descriptor 0: the         *)
(* keyboard interrupt (interrupts.rs, input/ps2.rs), the line discipline   *)
(* (tty.rs) and the loop of sys_read that feeds it (syscall.rs).           *)
(*                                                                         *)
(* A system call runs with interrupts off (SFMASK clears IF), and sys_read *)
(* polls in a loop until the terminal has data: between two turns of that  *)
(* loop the devices go on, but no interrupt is taken and no other process  *)
(* runs.  Ctrl+C and Ctrl+Z call handlers that signal the foreground group *)
(* of the scheduler; no code sets that group, so they signal nobody, and   *)
(* the loop goes on.  Echo is output only and left out.                    *)
(***************************************************************************)
EXTENDS Keyboard, FiniteSets

CONSTANTS
    MaxLineLen,     \* MAX_LINE_LEN, 256 in the code
    ControllerSize, \* bound on the scancodes waiting in the i8042
    Counts,         \* buffer lengths passed to read
    Sessions        \* what is typed: [keys, typed, bytes, sent], the keys and
                    \* serial bytes used and how many of each at most

VARIABLES
    controller,     \* scancodes waiting in the i8042
    ring,           \* SCANCODE_BUFFER
    keyboard,       \* KEYBOARD_STATE
    serial,         \* bytes waiting in the UART
    tty,            \* GLOBAL_TTY: the current line and the completed ones
    reader,         \* the read call in the loop of sys_read, if any
    session, typed, sent,
    held,           \* history: the keys that are down
    lost,           \* history: a scancode was overwritten in the ring
    queued,         \* history: the scancodes pushed and not popped
    committed,      \* history: the bytes of all completed lines
    taken           \* history: the bytes taken out of the terminal by reads

devices == <<controller, ring, keyboard, serial>>
history == <<held, lost, queued, committed, taken>>
vars == <<devices, tty, reader, session, typed, sent, history>>

NoReader == 0
Newline == 10
NewTty == [current |-> <<>>, completed |-> <<>>]

-----------------------------------------------------------------------------
(* The line discipline.                                                    *)

Printable(byte) == byte \in 32 .. 126

Commit(t) ==
    [current |-> <<>>, completed |-> Append(t.completed, Append(t.current, Newline))]

\* Mistake: only line feed ends a line.
InputByteOnlyLf(t, byte) ==
    CASE byte \in {3, 26} -> [t EXCEPT !.current = <<>>]
      [] byte \in {8, 127} -> [t EXCEPT !.current = IF @ = <<>> THEN @ ELSE Front(@)]
      [] byte = Newline -> Commit(t)
      [] Printable(byte) /\ Len(t.current) < MaxLineLen -> [t EXCEPT !.current = Append(@, byte)]
      [] OTHER -> t

\* Ctrl+C, Ctrl+Z; backspace, delete; LF, CR; printable characters up to the
\* length of a line; the rest is ignored.
InputByte(t, byte) ==
    CASE byte \in {3, 26} -> [t EXCEPT !.current = <<>>]
      [] byte \in {8, 127} -> [t EXCEPT !.current = IF @ = <<>> THEN @ ELSE Front(@)]
      [] byte \in {10, 13} -> Commit(t)
      [] Printable(byte) /\ Len(t.current) < MaxLineLen -> [t EXCEPT !.current = Append(@, byte)]
      [] OTHER -> t

RECURSIVE Drain(_, _, _)
\* The loop of Tty::read: bytes from the front line until the buffer is full
\* or a newline was copied; a line is removed when it is used up.
Drain(lines, room, got) ==
    IF room = 0 \/ lines = <<>>
    THEN [lines |-> lines, got |-> got]
    ELSE LET k    == IF Len(Head(lines)) < room THEN Len(Head(lines)) ELSE room
             rest == SubSeq(Head(lines), k + 1, Len(Head(lines)))
             left == IF rest = <<>> THEN Tail(lines) ELSE <<rest>> \o Tail(lines)
             now  == got \o SubSeq(Head(lines), 1, k)
         IN  IF Last(now) = Newline
             THEN [lines |-> left, got |-> now]
             ELSE Drain(left, room - k, now)

\* Mistake: what does not fit in the buffer is dropped with its line.
TtyReadDropsRest(t, count) ==
    LET d == Drain(t.completed, count, <<>>)
    IN  [tty |-> [t EXCEPT !.completed = IF @ = <<>> THEN @ ELSE Tail(@)], got |-> d.got]

TtyRead(t, count) ==
    LET d == Drain(t.completed, count, <<>>)
    IN  [tty |-> [t EXCEPT !.completed = d.lines], got |-> d.got]

-----------------------------------------------------------------------------
(* Steps.                                                                  *)

Init ==
    /\ controller = <<>>
    /\ ring = EmptyRing
    /\ keyboard = [shift |-> FALSE, ctrl |-> FALSE]
    /\ serial = <<>>
    /\ tty = NewTty
    /\ reader = NoReader
    /\ session \in Sessions
    /\ typed = 0 /\ sent = 0
    /\ held = {}
    /\ lost = FALSE
    /\ queued = <<>>
    /\ committed = <<>>
    /\ taken = <<>>

\* A key goes down or up, whoever is running.
KeyMoves(key) ==
    /\ typed < session.typed
    /\ Len(controller) < ControllerSize
    /\ typed' = typed + 1
    /\ controller' = Append(controller, IF key \in held THEN key + Release ELSE key)
    /\ held' = IF key \in held THEN held \ {key} ELSE held \cup {key}
    /\ UNCHANGED <<ring, keyboard, serial, tty, reader, session, sent,
                   lost, queued, committed, taken>>

SerialReceives(byte) ==
    /\ sent < session.sent
    /\ sent' = sent + 1
    /\ serial' = Append(serial, byte)
    /\ UNCHANGED <<controller, ring, keyboard, tty, reader, session, typed, history>>

\* IRQ 1 is taken in user mode only.  The handler empties the controller.
KeyboardInterrupt ==
    /\ reader = NoReader
    /\ controller # <<>>
    /\ ring' = PushAll(ring, controller)
    /\ controller' = <<>>
    /\ queued' = LET all == queued \o controller
                 IN  SubSeq(all, IF Len(all) > RingSize THEN Len(all) - RingSize + 1 ELSE 1, Len(all))
    /\ lost' = (lost \/ Len(queued) + Len(controller) > RingSize)
    /\ UNCHANGED <<keyboard, serial, tty, reader, session, typed, sent,
                   held, committed, taken>>

\* sys_read of descriptor 0 when it is not redirected.
SysRead(count) ==
    /\ reader = NoReader
    /\ reader' = count
    /\ UNCHANGED <<devices, tty, session, typed, sent, history>>

\* The terminal has data.  When the copy to the user's buffer fails the call
\* fails, and the bytes are gone.
ReadReturns ==
    LET r == TtyRead(tty, reader)
    IN  /\ reader # NoReader
        /\ r.got # <<>>
        /\ tty' = r.tty
        /\ reader' = NoReader
        /\ taken' = taken \o r.got
        /\ UNCHANGED <<devices, session, typed, sent, held, lost, queued, committed>>

\* read_byte and tty_input_byte: one scancode, or a byte of the serial line
\* when the scancode gives none; with neither the loop spins.
ReadByte ==
    LET scancode == Oldest(ring)
        byte     == IF scancode = None THEN None
                    ELSE DecodeScancode(keyboard, scancode)
    IN  /\ ring' = Pop(ring)
        /\ queued' = IF queued = <<>> THEN queued ELSE Tail(queued)
        /\ keyboard' = IF scancode = None THEN keyboard ELSE Modifiers(keyboard, scancode)
        /\ IF byte # None
           THEN /\ tty' = InputByte(tty, byte)
                /\ UNCHANGED serial
           ELSE IF serial # <<>>
           THEN /\ tty' = InputByte(tty, Head(serial))
                /\ serial' = Tail(serial)
           ELSE UNCHANGED <<tty, serial>>

\* Mistake: input is polled before the terminal is asked for data.
ReadPollsFirst ==
    /\ reader # NoReader
    /\ ReadByte
    /\ committed' = committed \o FlattenSeq(SubSeq(tty'.completed, Len(tty.completed) + 1,
                                                   Len(tty'.completed)))
    /\ UNCHANGED <<controller, reader, session, typed, sent, held, lost, taken>>

\* A turn of the loop that finds no data.
ReadPolls ==
    /\ reader # NoReader
    /\ TtyRead(tty, reader).got = <<>>
    /\ ReadByte
    /\ committed' = committed \o FlattenSeq(SubSeq(tty'.completed, Len(tty.completed) + 1,
                                                   Len(tty'.completed)))
    /\ UNCHANGED <<controller, reader, session, typed, sent, held, lost, taken>>

Next ==
    \/ \E key \in session.keys : KeyMoves(key)
    \/ \E byte \in session.bytes : SerialReceives(byte)
    \/ KeyboardInterrupt
    \/ \E count \in Counts : SysRead(count)
    \/ ReadReturns
    \/ ReadPolls

Spec == Init /\ [][Next]_vars

\* The CPU goes on executing the loop of a read, and a pending interrupt is
\* taken once interrupts stay enabled.
Fairness ==
    /\ WF_vars(ReadPolls)
    /\ WF_vars(ReadReturns)
    /\ WF_vars(KeyboardInterrupt)

LiveSpec == Spec /\ Fairness

-----------------------------------------------------------------------------
(* Properties.                                                             *)

\* The current line never holds more than MAX_LINE_LEN characters and no
\* newline, and no completed line is empty or lacks its newline: tty.rs
\* copies completed lines without checking either.
TerminalTypeOK ==
    /\ keyboard \in KeyboardState
    /\ reader \in Counts \cup {NoReader}
    /\ Len(tty.current) <= MaxLineLen /\ \A i \in DOMAIN tty.current : Printable(tty.current[i])
    /\ \A i \in DOMAIN tty.completed : tty.completed[i] # <<>> /\ Last(tty.completed[i]) = Newline

\* "Committed lines are delivered to readers in FIFO order" (tty.rs): what the
\* reads took so far, followed by what is still there, is what was committed,
\* in order and without a byte lost or repeated, whatever the buffer lengths.
LinesInOrder == taken \o FlattenSeq(tty.completed) = committed

\* completed_lines has no limit of its own (tty.rs), yet it never holds more
\* than one line: input is fed only by a reader that found none, and one byte
\* at a time.
OneLineWaits == TerminalTypeOK /\ Len(tty.completed) <= 1

\* The ring holds the newest scancodes that were pushed and not popped, oldest
\* first, however often head and tail went round and push overwrote
\* (ringbuffer.rs).
RingHoldsNewest == Contents(ring) = queued

\* As long as the ring has lost nothing, decoding what is on the way leaves the
\* driver believing Ctrl to be down exactly when it is (ps2.rs); otherwise
\* every key typed is taken for a control character, or Ctrl+C for a letter.
CtrlFollowsKey ==
    ~lost => FoldLeft(Modifiers, keyboard, Contents(ring) \o controller).ctrl = (Ctrl \in held)

\* A reader that waits while the end of a line is in the UART returns
\* (syscall.rs): the keys in front of it cannot keep the loop from it.
SerialLineIsRead ==
    (reader # NoReader /\ \E i \in DOMAIN serial : serial[i] \in {10, 13}) ~> (reader = NoReader)

\* A reader that waits while Enter is in the keyboard controller returns:
\* "The kernel polls both sources" (TESTING_GUIDE.md).
KeyedLineIsRead ==
    (reader # NoReader /\ \E i \in DOMAIN controller : controller[i] = 28) ~> (reader = NoReader)

=============================================================================

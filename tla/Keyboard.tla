------------------------------ MODULE Keyboard ------------------------------
(***************************************************************************)
(* The PS/2 keyboard driver (kernel/src/input/ps2.rs) and the ring buffer  *)
(* it keeps scancodes in (hal/src/ringbuffer.rs), as operators on their    *)
(* state.  Scancodes (set 1) and bytes are the numbers the code uses.      *)
(***************************************************************************)
EXTENDS Integers, Sequences, SequencesExt

CONSTANT RingSize       \* SCANCODE_BUFFER_SIZE, 128 in the code

ASSUME RingSizeAssumption == RingSize \in Nat \ {0}

\* Option::None, for a slot of the ring and for a byte.
None == 256

EmptyRing == [data |-> [i \in 0 .. RingSize - 1 |-> None], head |-> 0, tail |-> 0, count |-> 0]

\* Mistake: the head stays on the slot that a push on a full ring reuses.
PushHeadStays(r, item) ==
    [data  |-> [r.data EXCEPT ![r.tail] = item],
     head  |-> r.head,
     tail  |-> (r.tail + 1) % RingSize,
     count |-> IF r.count = RingSize THEN r.count ELSE r.count + 1]

\* A push on a full ring overwrites the oldest item.
Push(r, item) ==
    [data  |-> [r.data EXCEPT ![r.tail] = item],
     head  |-> IF r.count = RingSize THEN (r.head + 1) % RingSize ELSE r.head,
     tail  |-> (r.tail + 1) % RingSize,
     count |-> IF r.count = RingSize THEN r.count ELSE r.count + 1]

\* What pop() returns, and the ring it leaves.
Oldest(r) == IF r.count = 0 THEN None ELSE r.data[r.head]

Pop(r) ==
    IF r.count = 0
    THEN r
    ELSE [data  |-> [r.data EXCEPT ![r.head] = None],
          head  |-> (r.head + 1) % RingSize,
          tail  |-> r.tail,
          count |-> r.count - 1]

Contents(r) == [i \in 1 .. r.count |-> r.data[(r.head + i - 1) % RingSize]]

PushAll(r, items) == FoldLeft(Push, r, items)

-----------------------------------------------------------------------------
(* Decoding.                                                               *)

KeyboardState == [shift : BOOLEAN, ctrl : BOOLEAN]

LeftShift == 42
RightShift == 54
Ctrl == 29

Release == 128
IsRelease(scancode) == scancode >= Release
KeyCode(scancode) == scancode % Release

\* Mistake: releases are ignored before the modifier keys are looked at.
ModifiersKeepDown(k, scancode) ==
    LET key == KeyCode(scancode)
    IN  IF IsRelease(scancode) THEN k
        ELSE [shift |-> k.shift \/ key \in {LeftShift, RightShift},
              ctrl  |-> k.ctrl \/ key = Ctrl]

\* One flag for both shift keys: the release of either clears it.
Modifiers(k, scancode) ==
    LET key  == KeyCode(scancode)
        down == ~IsRelease(scancode)
    IN  [shift |-> IF key \in {LeftShift, RightShift} THEN down ELSE k.shift,
         ctrl  |-> IF key = Ctrl THEN down ELSE k.ctrl]

\* The keys of the four rows, left to right from the first key code, as ASCII
\* without and with shift.
KeyRows ==
    << [first |-> 2,                                    \* 1 ... =
        plain |-> <<49, 50, 51, 52, 53, 54, 55, 56, 57, 48, 45, 61>>,
        shift |-> <<33, 64, 35, 36, 37, 94, 38, 42, 40, 41, 95, 43>>],
       [first |-> 14, plain |-> <<8, 9>>, shift |-> <<8, 9>>], \* Backspace Tab
       [first |-> 16,                                   \* q ... ] Enter
        plain |-> <<113, 119, 101, 114, 116, 121, 117, 105, 111, 112, 91, 93, 10>>,
        shift |-> <<81, 87, 69, 82, 84, 89, 85, 73, 79, 80, 123, 125, 10>>],
       [first |-> 30,                                   \* a ... '
        plain |-> <<97, 115, 100, 102, 103, 104, 106, 107, 108, 59, 39>>,
        shift |-> <<65, 83, 68, 70, 71, 72, 74, 75, 76, 58, 34>>],
       [first |-> 43,                                   \* \ z ... /
        plain |-> <<92, 122, 120, 99, 118, 98, 110, 109, 44, 46, 47>>,
        shift |-> <<124, 90, 88, 67, 86, 66, 78, 77, 60, 62, 63>>],
       [first |-> 57, plain |-> <<32>>, shift |-> <<32>>] >> \* Space

DecodeKeyToAscii(key, shift) ==
    LET Holds(row) == key \in row.first .. row.first + Len(row.plain) - 1
        at(row)    == key - row.first + 1
    IN  IF \E i \in DOMAIN KeyRows : Holds(KeyRows[i])
        THEN LET row == KeyRows[CHOOSE i \in DOMAIN KeyRows : Holds(KeyRows[i])]
             IN  IF shift THEN row.shift[at(row)] ELSE row.plain[at(row)]
        ELSE None

\* With Ctrl down only C and Z give a byte.
DecodeScancode(k, scancode) ==
    LET key == KeyCode(scancode)
    IN  CASE key \in {LeftShift, RightShift, Ctrl} \/ IsRelease(scancode) -> None
          [] k.ctrl /\ key = 46 /\ ~IsRelease(scancode) -> 3
          [] k.ctrl /\ key = 44 /\ ~IsRelease(scancode) -> 26
          [] ~k.ctrl /\ key \notin {LeftShift, RightShift, Ctrl} /\ ~IsRelease(scancode) ->
                DecodeKeyToAscii(key, k.shift)
          [] OTHER -> None

=============================================================================

-------------------------------- MODULE Pipe --------------------------------
(***************************************************************************)
(* One pipe (kernel/src/pipe.rs): a ring buffer and two counts of open     *)
(* ends, as operators on its record.  The pool is in module Descriptors.   *)
(***************************************************************************)
EXTENDS Integers, Sequences

CONSTANTS
    BufferSize,     \* PIPE_BUFFER_SIZE
    Bytes,          \* the bytes the programs write; 0 is the initial content
    MaxEnds         \* bound on the ends of one pipe open at a time

ASSUME BufferAssumption == BufferSize \in Nat \ {0} /\ 0 \in Bytes /\ MaxEnds \in Nat

Slots == 0 .. BufferSize - 1

PipeType ==
    [buffer : [Slots -> Bytes], read_pos : Slots, write_pos : Slots,
     count : 0 .. BufferSize, readers : Nat, writers : Nat]

NewPipe ==
    [buffer |-> [k \in Slots |-> 0], read_pos |-> 0, write_pos |-> 0,
     count |-> 0, readers |-> 0, writers |-> 0]

IsAllocated(p) == p.readers > 0 \/ p.writers > 0
IsEmpty(p) == p.count = 0
IsFull(p) == p.count = BufferSize

AtMost(m, n) == IF m <= n THEN m ELSE n

-----------------------------------------------------------------------------
(* The counts; close saturates at 0, open never comes near the top.        *)

OpenRead(p) == [p EXCEPT !.readers = @ + 1]
OpenWrite(p) == [p EXCEPT !.writers = @ + 1]
CloseRead(p) == [p EXCEPT !.readers = IF @ = 0 THEN 0 ELSE @ - 1]
CloseWrite(p) == [p EXCEPT !.writers = IF @ = 0 THEN 0 ELSE @ - 1]

\* PipePool::allocate: both ends are opened, the ring is left as it was.
Allocate(p) == OpenWrite(OpenRead(p))

-----------------------------------------------------------------------------
(* The ring.                                                               *)

CanWrite(p) == p.readers > 0 /\ ~IsFull(p)

\* write_handler passes on at most a buffer of 4096 bytes, the ring's size.
Data == UNION {[1 .. n -> Bytes] : n \in 1 .. BufferSize}

\* The buffer after the first n bytes of data went in at write_pos.
Filled(p, data, n) ==
    [k \in Slots |->
        LET d == (k - p.write_pos) % BufferSize
        IN  IF d < n THEN data[d + 1] ELSE p.buffer[k]]

\* Mistake: what does not fit overwrites the bytes not yet read.
WriteAll(p, data) ==
    [p EXCEPT !.buffer = Filled(p, data, Len(data)),
              !.write_pos = (@ + Len(data)) % BufferSize,
              !.count = AtMost(@ + Len(data), BufferSize)]

\* As much of the data as fits, from write_pos on.
Write(p, data) ==
    LET n == AtMost(Len(data), BufferSize - p.count)
    IN  [p EXCEPT !.buffer = Filled(p, data, n),
                  !.write_pos = (@ + n) % BufferSize,
                  !.count = @ + n]

\* Mistake: the read position does not wrap with the write position.
ReadBytesFromStart(p, n) == [i \in 1 .. AtMost(n, p.count) |-> p.buffer[i - 1]]

\* What a read of n bytes returns, and the pipe it leaves.
ReadBytes(p, n) ==
    [i \in 1 .. AtMost(n, p.count) |-> p.buffer[(p.read_pos + i - 1) % BufferSize]]

Read(p, n) ==
    LET k == AtMost(n, p.count)
    IN  [p EXCEPT !.read_pos = (@ + k) % BufferSize, !.count = @ - k]

\* The bytes in the ring, oldest first.
Contents(p) == ReadBytes(p, p.count)

=============================================================================

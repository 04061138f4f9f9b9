------------------------------ MODULE PipeRing ------------------------------
(***************************************************************************)
(* One slot of the pipe pool under every sequence of pool operations, and  *)
(* the channel its ring buffer implements.  Slots are given out again with *)
(* the bytes nobody read, so the channel outlives the pipes in it.         *)
(***************************************************************************)
EXTENDS Pipe

VARIABLES
    pipe,           \* the slot
    delivered       \* what the last transfer returned: of a write, nothing

ringVars == <<pipe, delivered>>

RingInit == pipe = NewPipe /\ delivered = <<>>

AllocateSlot ==
    /\ ~IsAllocated(pipe)
    /\ pipe' = Allocate(pipe)
    /\ UNCHANGED delivered

OpenEnd ==
    /\ IsAllocated(pipe)
    /\ pipe.readers + pipe.writers < MaxEnds
    /\ pipe' \in {OpenRead(pipe), OpenWrite(pipe)}
    /\ UNCHANGED delivered

CloseEnd ==
    /\ IsAllocated(pipe)
    /\ pipe' \in {CloseRead(pipe), CloseWrite(pipe)}
    /\ UNCHANGED delivered

WriteData(data) ==
    /\ IsAllocated(pipe)
    /\ CanWrite(pipe)
    /\ pipe' = Write(pipe, data)
    /\ delivered' = <<>>

\* An empty pipe gives end of file or EAGAIN and stays as it is.
ReadData(n) ==
    /\ IsAllocated(pipe)
    /\ ~IsEmpty(pipe)
    /\ delivered' = ReadBytes(pipe, n)
    /\ pipe' = Read(pipe, n)

RingNext ==
    \/ AllocateSlot
    \/ OpenEnd
    \/ CloseEnd
    \/ \E data \in Data : WriteData(data)
    \/ \E n \in 1 .. BufferSize : ReadData(n)

RingSpec == RingInit /\ [][RingNext]_ringVars

Chan == INSTANCE Channel
            WITH Capacity <- BufferSize, queue <- Contents(pipe)

\* The two positions and the count describe one stretch of the ring, through
\* every wrap-around (the loops of Pipe::write and Pipe::read).
PositionsAgree ==
    /\ pipe \in PipeType
    /\ (pipe.read_pos + pipe.count) % BufferSize = pipe.write_pos

\* Bytes come out of a pipe as they went in: none lost, none twice, none out
\* of order, and a write takes all that fits (Pipe::write, Pipe::read).
ImplementsChannel == Chan!ChannelSpec

=============================================================================

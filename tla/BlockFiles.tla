----------------------------- MODULE BlockFiles -----------------------------
(***************************************************************************)
(* What the two read-only filesystems share: sectors of a block device     *)
(* (hal/src/block.rs) and the loop that copies a range of a file out of    *)
(* its blocks.  A disk is a function from sector numbers to sectors, a     *)
(* sector the sequence of what the reader takes out of it: bytes, table    *)
(* entries, inodes or directory slots.                                     *)
(***************************************************************************)
EXTENDS Integers, Sequences, SequencesExt

Okay(val) == [val |-> val]
Error(err) == [err |-> err]
Failed(r) == "err" \in DOMAIN r

Lesser(a, b) == IF a < b THEN a ELSE b

ReadSector(disk, n) == IF n \in DOMAIN disk THEN Okay(disk[n]) ELSE Error("IoError")

RECURSIVE CopySkippingAll(_, _, _, _)
\* Mistake: the offset into the first block is skipped in every block.
CopySkippingAll(blocks, skip, want, got) ==
    IF blocks = <<>> \/ want = 0 THEN Okay(got)
    ELSE IF Failed(Head(blocks)) THEN Head(blocks)
    ELSE LET data == Head(blocks).val
             end  == Lesser(Len(data), skip + want)
         IN  CopySkippingAll(Tail(blocks), skip, want - (end - skip),
                             got \o SubSeq(data, skip + 1, end))

RECURSIVE CopyBlocks(_, _, _, _)
\* The loop of both read_file functions, over the blocks as the device gives
\* them: `skip' units into the first one, then from the start of each, until
\* `want' units are copied or the blocks end.
CopyBlocks(blocks, skip, want, got) ==
    IF blocks = <<>> \/ want = 0 THEN Okay(got)
    ELSE IF Failed(Head(blocks)) THEN Head(blocks)
    ELSE LET data == Head(blocks).val
             end  == Lesser(Len(data), skip + want)
         IN  CopyBlocks(Tail(blocks), 0, want - (end - skip),
                        got \o SubSeq(data, skip + 1, end))

\* A read of `room' units at `offset' of a file of `size' in blocks of `unit'.
ReadRange(blocks, unit, size, offset, room) ==
    IF offset >= size THEN Okay(<<>>)
    ELSE CopyBlocks(SubSeq(blocks, offset \div unit + 1, Len(blocks)),
                    offset % unit, Lesser(size - offset, room), <<>>)

\* All blocks one after the other, or the first error.
Joined(blocks) ==
    IF \E i \in DOMAIN blocks : Failed(blocks[i])
    THEN Error("IoError")
    ELSE Okay(FlattenSeq([i \in DOMAIN blocks |-> blocks[i].val]))

=============================================================================

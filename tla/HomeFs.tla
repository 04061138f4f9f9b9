------------------------------- MODULE HomeFs -------------------------------
(***************************************************************************)
(* The writable file system of homefs.rs: superblock, two bitmaps, inode   *)
(* table and data blocks on a device whose sector writes are atomic, with  *)
(* superblock and bitmaps cached in memory.  A call reads what it needs    *)
(* and then writes sector after sector; the machine may stop between any   *)
(* two of them, and any of them may fail.                                  *)
(*                                                                         *)
(* A call is planned as the sequence of its sector writes: each carries    *)
(* the device after it, the cache at that moment and what the caller rolls *)
(* back when it fails.  Names are model data; sizes and offsets count      *)
(* blocks; the programs write zeros; reads do not fail; permissions are    *)
(* left out.                                                               *)
(*                                                                         *)
(* The root directory's entries are in a block that no bitmap marks, and   *)
(* that allocate_block gives away once the blocks before it are used up.   *)
(* `rootTaken' tells whether it has; it is bookkeeping, no step reads it.  *)
(***************************************************************************)
EXTENDS Integers, Sequences, FiniteSets, FiniteSetsExt, SequencesExt

CONSTANTS
    Names,              \* file names the callers use
    MaxInodes,          \* MAX_INODES, 256
    MaxDataBlocks,      \* MAX_DATA_BLOCKS, 989
    BitsPerByte,        \* 8: the block search covers whole bytes of the bitmap
    FirstDataBlock,     \* 35, the sector of block 0
    MaxDirect,          \* MAX_DIRECT_BLOCKS, 8
    MaxFaults,          \* bound: crashes and failed writes in a behaviour
    MaxCalls            \* bound: calls in a behaviour

ASSUME HomeAssumption ==
    /\ "." \notin Names /\ ".." \notin Names
    /\ MaxInodes > 2 /\ BitsPerByte > 0 /\ MaxDirect > 0 /\ MaxFaults \in Nat /\ MaxCalls \in Nat
    /\ FirstDataBlock \in 1 .. (MaxDataBlocks \div BitsPerByte) * BitsPerByte - 1

VARIABLES
    disk,       \* the sectors
    cache,      \* superblock and bitmaps as HomeFs holds them
    todo,       \* the sector writes the call in progress still has to make
    op,         \* the call in progress
    torn,       \* the calls a crash or a failed write cut short
    rootTaken,  \* the root directory's block was given to another
    faults,
    calls

vars == <<disk, cache, todo, op, torn, rootTaken, faults, calls>>

Root == 1
Inodes == 1 .. MaxInodes - 1
Blocks == 0 .. MaxDataBlocks - 1

\* allocate_block looks at MAX_DATA_BLOCKS / 8 bytes of the bitmap.
Allocatable == 0 .. (MaxDataBlocks \div BitsPerByte) * BitsPerByte - 1

EntriesPerBlock == 2

Empty == [inode |-> 0, name |-> "", type |-> "none"]
Entry(i, n, t) == [inode |-> i, name |-> n, type |-> t]

ZeroBlock == [s \in 1 .. EntriesPerBlock |-> Empty]
DotBlock(i, parent) == <<Entry(i, ".", "dir"), Entry(parent, "..", "dir")>>

Inode(t, blocks) == [type |-> t, blocks |-> blocks]

Super(free_inodes, free_blocks) ==
    [inodes |-> free_inodes, blocks |-> free_blocks]

(***************************************************************************)
(* create and open                                                         *)
(***************************************************************************)

\* The root inode names its block by its sector, first_data_block, where all
\* else counts from first_data_block on: "." and ".." go to block 0, and the
\* entries of the root directory to block first_data_block.
FreshDisk ==
    [super |-> Super(MaxInodes - 1, MaxDataBlocks - 1),
     ibm |-> {Root},
     bbm |-> {0},
     inode |-> [i \in Inodes |->
                    IF i = Root THEN Inode("dir", <<FirstDataBlock>>)
                    ELSE Inode("none", <<>>)],
     block |-> [b \in Blocks |-> IF b = 0 THEN DotBlock(Root, Root) ELSE ZeroBlock]]

Opened(d) == [super |-> d.super, ibm |-> d.ibm, bbm |-> d.bbm]

(***************************************************************************)
(* A call in the making                                                    *)
(***************************************************************************)

Starting == [disk |-> disk, cache |-> cache, todo |-> <<>>, undo |-> <<>>,
             ok |-> TRUE, val |-> 0]

Failed(w) == [w EXCEPT !.ok = FALSE]

\* One write_sector: the device becomes d.
Write(w, d) ==
    [w EXCEPT !.disk = d,
              !.todo = Append(@, [disk |-> d, cache |-> w.cache, undo |-> w.undo])]

WriteSuperblock(w) == Write(w, [w.disk EXCEPT !.super = w.cache.super])
WriteInodeBitmap(w) == Write(w, [w.disk EXCEPT !.ibm = w.cache.ibm])
WriteBlockBitmap(w) == Write(w, [w.disk EXCEPT !.bbm = w.cache.bbm])
WriteInode(w, i, rec) == Write(w, [w.disk EXCEPT !.inode[i] = rec])
WriteBlock(w, b, content) == Write(w, [w.disk EXCEPT !.block[b] = content])

(***************************************************************************)
(* The allocators: the cache first, then the bitmap, then the superblock   *)
(***************************************************************************)

AllocateInode(w) ==
    LET free == Inodes \ w.cache.ibm
        i == Min(free)
        c == [w.cache EXCEPT !.ibm = @ \cup {i}, !.super.inodes = @ - 1]
    IN  IF w.cache.super.inodes = 0 \/ free = {} THEN Failed(w)
        ELSE [WriteSuperblock(WriteInodeBitmap([w EXCEPT !.cache = c])) EXCEPT !.val = i]

FreeInode(w, i) ==
    LET c == [w.cache EXCEPT !.ibm = @ \ {i}, !.super.inodes = @ + 1]
    IN  IF i \notin w.cache.ibm THEN Failed(w)
        ELSE WriteSuperblock(WriteInodeBitmap([w EXCEPT !.cache = c]))

\* Mistake: allocate_block marks the block in memory only.
AllocateBlockUnmarked(w) ==
    LET free == Allocatable \ w.cache.bbm
        b == Min(free)
        c == [w.cache EXCEPT !.bbm = @ \cup {b}, !.super.blocks = @ - 1]
    IN  IF w.cache.super.blocks = 0 \/ free = {} THEN Failed(w)
        ELSE [WriteSuperblock([w EXCEPT !.cache = c]) EXCEPT !.val = b]

AllocateBlock(w) ==
    LET free == Allocatable \ w.cache.bbm
        b == Min(free)
        c == [w.cache EXCEPT !.bbm = @ \cup {b}, !.super.blocks = @ - 1]
    IN  IF w.cache.super.blocks = 0 \/ free = {} THEN Failed(w)
        ELSE [WriteSuperblock(WriteBlockBitmap([w EXCEPT !.cache = c])) EXCEPT !.val = b]

\* Mistake: free_block forgets the count.
FreeBlockUncounted(w, b) ==
    LET c == [w.cache EXCEPT !.bbm = @ \ {b}]
    IN  IF b \notin w.cache.bbm THEN Failed(w)
        ELSE WriteSuperblock(WriteBlockBitmap([w EXCEPT !.cache = c]))

FreeBlock(w, b) ==
    LET c == [w.cache EXCEPT !.bbm = @ \ {b}, !.super.blocks = @ + 1]
    IN  IF b \notin w.cache.bbm THEN Failed(w)
        ELSE WriteSuperblock(WriteBlockBitmap([w EXCEPT !.cache = c]))

FreeBlocks(w, blocks) ==
    FoldLeft(LAMBDA v, b : IF v.ok THEN FreeBlock(v, b) ELSE v, w, blocks)

\* Mistake: an error is returned without giving anything back.
RollbackNothing(w, items) == w

\* What a caller gives back after an error, each item whatever became of the
\* one before.
Rollback(w, items) ==
    FoldLeft(LAMBDA v, k :
                LET x == [v EXCEPT !.undo = SubSeq(items, k + 1, Len(items))]
                IN  IF items[k].kind = "inode" THEN FreeInode(x, items[k].num)
                    ELSE FreeBlock(x, items[k].num),
             w, [k \in 1 .. Len(items) |-> k])

InodeItem(i) == [kind |-> "inode", num |-> i]
BlockItem(b) == [kind |-> "block", num |-> b]

(***************************************************************************)
(* Directories: the entries of a directory in the order of its blocks      *)
(***************************************************************************)

Positions(d, dir) == 1 .. Len(d.inode[dir].blocks) * EntriesPerBlock
BlockOf(d, dir, p) == d.inode[dir].blocks[((p - 1) \div EntriesPerBlock) + 1]
SlotOf(p) == ((p - 1) % EntriesPerBlock) + 1
EntryAt(d, dir, p) == d.block[BlockOf(d, dir, p)][SlotOf(p)]

IsDir(d, i) == d.inode[i].type = "dir"

\* readdir
Readdir(d, dir) ==
    {e \in {EntryAt(d, dir, p) : p \in Positions(d, dir)} : e.inode # 0}

Found(d, dir, n) ==
    {p \in Positions(d, dir) : EntryAt(d, dir, p).inode # 0 /\ EntryAt(d, dir, p).name = n}

\* The inode, 0 when the name is not there.
LookupInDir(d, dir, n) ==
    IF ~IsDir(d, dir) \/ Found(d, dir, n) = {} THEN 0
    ELSE EntryAt(d, dir, Min(Found(d, dir, n))).inode

Children(d, i) ==
    IF IsDir(d, i) THEN {e \in Readdir(d, i) : e.name \in Names} ELSE {}

\* The inodes that a path from the root leads to.
Reachable(d) ==
    LET reach[k \in 0 .. MaxInodes] ==
            IF k = 0 THEN {Root}
            ELSE reach[k - 1] \cup
                 UNION {{e.inode : e \in Children(d, i)} : i \in reach[k - 1]}
    IN  reach[MaxInodes]

WriteDirEntry(w, dir, p, e) ==
    LET b == BlockOf(w.disk, dir, p)
    IN  WriteBlock(w, b, [w.disk.block[b] EXCEPT ![SlotOf(p)] = e])

\* The first empty slot, else the first slot of a new block, linked last.
AddDirEntry(w, dir, e) ==
    LET blocks == w.disk.inode[dir].blocks
        room == {p \in Positions(w.disk, dir) : EntryAt(w.disk, dir, p).inode = 0}
        a == AllocateBlock(w)
        filled == WriteBlock(WriteBlock(a, a.val, ZeroBlock), a.val,
                             [ZeroBlock EXCEPT ![1] = e])
    IN  IF LookupInDir(w.disk, dir, e.name) # 0 \/ ~IsDir(w.disk, dir) THEN Failed(w)
        ELSE IF room # {} THEN WriteDirEntry(w, dir, Min(room), e)
        ELSE IF Len(blocks) >= MaxDirect \/ ~a.ok THEN Failed(w)
        ELSE WriteInode(filled, dir, Inode("dir", Append(blocks, a.val)))

RemoveDirEntry(w, dir, n) ==
    IF ~w.ok \/ LookupInDir(w.disk, dir, n) = 0 THEN Failed(w)
    ELSE WriteDirEntry(w, dir, Min(Found(w.disk, dir, n)), Empty)

(***************************************************************************)
(* The calls                                                               *)
(***************************************************************************)

\* add_dir_entry as the last part of a creation, with its rollback.
Link(w, dir, e, undo) ==
    LET linked == AddDirEntry([w EXCEPT !.undo = undo], dir, e)
    IN  IF linked.ok THEN linked ELSE Rollback(linked, undo)

\* Mistake: the name is entered before the inode is written.
CreateFileNameFirst(dir, n) ==
    LET a == AllocateInode(Starting)
        linked == Link(a, dir, Entry(a.val, n, "file"), <<InodeItem(a.val)>>)
    IN  IF ~a.ok THEN a
        ELSE IF ~linked.ok THEN linked
        ELSE WriteInode(linked, a.val, Inode("file", <<>>))

CreateFile(dir, n) ==
    LET a == AllocateInode(Starting)
        i == a.val
        written == WriteInode(a, i, Inode("file", <<>>))
    IN  IF ~a.ok THEN a
        ELSE Link(written, dir, Entry(i, n, "file"), <<InodeItem(i)>>)

CreateDirectory(parent, n) ==
    LET a == AllocateInode(Starting)
        i == a.val
        b == AllocateBlock([a EXCEPT !.undo = <<InodeItem(i)>>])
        filled == WriteBlock([b EXCEPT !.undo = <<>>], b.val, DotBlock(i, parent))
        written == WriteInode(filled, i, Inode("dir", <<b.val>>))
    IN  IF ~a.ok THEN a
        ELSE IF ~b.ok THEN Rollback(a, <<InodeItem(i)>>)
        ELSE Link(written, parent, Entry(i, n, "dir"), <<BlockItem(b.val), InodeItem(i)>>)

\* blocks_needed > MAX_DIRECT_BLOCKS
TooLong(offset, len) == offset + len > MaxDirect

\* All blocks up to the end of the write are allocated before any is written,
\* and the inode is written last: a call that runs out of space half way has
\* allocated blocks that no inode names.
WriteFile(i, offset, len) ==
    LET file == disk.inode[i]
        missing == offset + len - Len(file.blocks)
        grown == FoldLeft(LAMBDA w, k :
                        LET a == AllocateBlock(w.w)
                        IN  IF ~w.w.ok \/ ~a.ok THEN [w EXCEPT !.w = Failed(@)]
                            ELSE [w |-> a, blocks |-> Append(w.blocks, a.val)],
                    [w |-> Starting, blocks |-> file.blocks],
                    [k \in 1 .. missing |-> k])
        data == FoldLeft(LAMBDA w, k : WriteBlock(w, grown.blocks[k], ZeroBlock),
                         grown.w, [k \in 1 .. len |-> offset + k])
    IN  IF file.type # "file" \/ TooLong(offset, len) THEN Failed(Starting)
        ELSE IF ~grown.w.ok THEN grown.w
        ELSE WriteInode(data, i, Inode("file", grown.blocks))

\* The common end of unlink and rmdir: blocks, then inode, then the name.
FreeAndUnname(dir, n, i) ==
    LET freed == FreeBlocks(Starting, disk.inode[i].blocks)
        gone == IF freed.ok THEN FreeInode(freed, i) ELSE freed
    IN  IF gone.ok THEN RemoveDirEntry(gone, dir, n) ELSE gone

UnlinkFile(dir, n) ==
    LET i == LookupInDir(disk, dir, n)
    IN  IF i = 0 \/ IsDir(disk, i) THEN Failed(Starting) ELSE FreeAndUnname(dir, n, i)

\* At most "." and ".." are left.
Rmdir(parent, n) ==
    LET i == LookupInDir(disk, parent, n)
        used == {p \in Positions(disk, i) : EntryAt(disk, i, p).inode # 0}
    IN  IF i = 0 THEN Failed(Starting)
        ELSE IF ~IsDir(disk, i) \/ Cardinality(used) > 2 THEN Failed(Starting)
        ELSE FreeAndUnname(parent, n, i)

\* The new name before the old one goes; ".." of a moved directory stays.
Rename(old_dir, old_name, new_dir, new_name) ==
    LET i == LookupInDir(disk, old_dir, old_name)
        e == Entry(i, new_name, IF IsDir(disk, i) THEN "dir" ELSE "file")
        added == AddDirEntry(Starting, new_dir, e)
    IN  IF i = 0 \/ LookupInDir(disk, new_dir, new_name) # 0 THEN Failed(Starting)
        ELSE IF ~added.ok THEN added
        ELSE RemoveDirEntry(added, old_dir, old_name)

Truncate(i) ==
    LET freed == FreeBlocks(Starting, disk.inode[i].blocks)
    IN  IF disk.inode[i].type # "file" THEN Failed(Starting)
        ELSE IF ~freed.ok THEN freed
        ELSE WriteInode(freed, i, Inode("file", <<>>))

\* The mode bits are left out: the inode is written back.
Chmod(i) == WriteInode(Starting, i, disk.inode[i])

(***************************************************************************)
(* Behaviour                                                               *)
(***************************************************************************)

Init ==
    /\ disk = FreshDisk
    /\ cache = Opened(FreshDisk)
    /\ todo = <<>> /\ op = "idle" /\ torn = {} /\ rootTaken = FALSE
    /\ faults = 0 /\ calls = 0

\* A call starts: it has checked everything and planned its writes.
Begin(call, w) ==
    /\ op = "idle" /\ w.todo # <<>> /\ calls < MaxCalls
    /\ todo' = w.todo /\ op' = call /\ calls' = calls + 1
    /\ UNCHANGED <<disk, cache, torn, rootTaken, faults>>

\* The callers have the inode numbers from lookups along a path.
Live == Reachable(disk)

CallCreateFile == \E dir \in Live, n \in Names : Begin("create", CreateFile(dir, n))
CallCreateDirectory == \E dir \in Live, n \in Names : Begin("mkdir", CreateDirectory(dir, n))
CallWriteFile ==
    \E i \in Live, offset \in 0 .. MaxDirect, len \in 1 .. MaxDirect :
        Begin("write", WriteFile(i, offset, len))
CallUnlinkFile == \E dir \in Live, n \in Names : Begin("unlink", UnlinkFile(dir, n))
CallRmdir == \E dir \in Live, n \in Names : Begin("rmdir", Rmdir(dir, n))
CallRename ==
    \E from, to \in Live, m, n \in Names : Begin("rename", Rename(from, m, to, n))
CallTruncate == \E i \in Live : Begin("truncate", Truncate(i))
CallChmod == \E i \in Live : Begin("chmod", Chmod(i))

Finish(rest) == todo' = rest /\ op' = IF rest = <<>> THEN "idle" ELSE op

NoteRoot == rootTaken' = (rootTaken \/ FirstDataBlock \in cache'.bbm)

\* The next sector write of the call in progress.
WriteSector ==
    /\ todo # <<>>
    /\ disk' = Head(todo).disk /\ cache' = Head(todo).cache
    /\ Finish(Tail(todo))
    /\ NoteRoot
    /\ UNCHANGED <<torn, faults, calls>>

\* The write fails: the cache has changed already, the device has not, and
\* the error goes up to the caller that rolls back.
WriteFails ==
    /\ todo # <<>> /\ faults < MaxFaults
    /\ cache' = Head(todo).cache
    /\ Finish(Rollback([disk |-> disk, cache |-> cache', todo |-> <<>>, undo |-> <<>>,
                        ok |-> TRUE, val |-> 0], Head(todo).undo).todo)
    /\ torn' = torn \cup {op} /\ faults' = faults + 1
    /\ NoteRoot
    /\ UNCHANGED <<disk, calls>>

\* The machine stops, between two calls or between two writes of one, and
\* the file system is opened again.
CrashAndOpen ==
    /\ faults < MaxFaults
    /\ cache' = Opened(disk)
    /\ todo' = <<>> /\ op' = "idle"
    /\ torn' = torn \cup ({op} \ {"idle"}) /\ faults' = faults + 1
    /\ UNCHANGED <<disk, rootTaken, calls>>

\* The bound on calls is reached.
AllCallsMade == calls = MaxCalls /\ op = "idle" /\ UNCHANGED vars

Next ==
    \/ CallCreateFile \/ CallCreateDirectory \/ CallWriteFile
    \/ CallUnlinkFile \/ CallRmdir \/ CallRename \/ CallTruncate \/ CallChmod
    \/ WriteSector \/ WriteFails \/ CrashAndOpen
    \/ AllCallsMade

Spec == Init /\ [][Next]_vars

(***************************************************************************)
(* Properties                                                              *)
(***************************************************************************)

\* The calls that take something away.
Removing == {"unlink", "rmdir", "rename", "truncate"}

\* Nothing is being taken away, and no fault has cut a removal short.
OnlyBuilding == torn \cup {op} \subseteq {"idle", "create", "mkdir", "write", "chmod"}

BlocksOf(d, i) == ToSet(d.inode[i].blocks)

\* Entries, inodes, counts and plans are what homefs.rs stores.
HomeTypeOK ==
    /\ \A d \in {disk} \cup {todo[k].disk : k \in 1 .. Len(todo)} :
        /\ d.super \in [inodes : 0 .. 2 * MaxInodes, blocks : 0 .. 2 * MaxDataBlocks]
        /\ d.ibm \subseteq Inodes /\ d.bbm \subseteq Blocks
        /\ \A i \in Inodes : /\ d.inode[i].type \in {"none", "file", "dir"}
                             /\ BlocksOf(d, i) \subseteq Blocks
                             /\ Len(d.inode[i].blocks) <= MaxDirect
        /\ \A b \in Blocks, s \in 1 .. EntriesPerBlock :
                d.block[b][s].inode \in {0} \cup Inodes
    /\ (op = "idle") = (todo = <<>>)

\* As long as the root directory has its block, creating and writing are
\* crash-safe for names: whatever write a crash or an error falls on, every
\* name under the root leads to an allocated inode of the entry's type, in the
\* bitmap on the device and in the cached one.  The bitmap is written before
\* the inode and the inode before the entry.  (Removals are not: blocks and
\* inode are freed before the name goes, and OnlyBuilding leaves them out.)
NamesLeadToInodes ==
    /\ HomeTypeOK
    /\ OnlyBuilding /\ ~rootTaken =>
        \A i \in Reachable(disk) : \A e \in Children(disk, i) :
            /\ e.inode \in disk.ibm \cap cache.ibm
            /\ disk.inode[e.inode].type = e.type

\* As long as the root directory has its block, creating and writing are
\* crash-safe for blocks: no block belongs to two files or directories under
\* the root or twice to one, and each but the root's own is marked in the
\* bitmap on the device and in the cached one.
BlocksApart ==
    OnlyBuilding /\ ~rootTaken =>
        /\ \A i, j \in Reachable(disk) :
                i # j => BlocksOf(disk, i) \cap BlocksOf(disk, j) = {}
        /\ \A i \in Reachable(disk) :
            /\ IsInjective(disk.inode[i].blocks)
            /\ BlocksOf(disk, i) \ {FirstDataBlock} \subseteq disk.bbm \cap cache.bbm

\* "Mark first data block as used (for root directory)" (homefs.rs:166): no
\* other inode is given the block with the root's entries.  The bit that is
\* set is that of block 0, the inode names block first_data_block.
RootKeepsItsBlock ==
    \A i \in disk.ibm \ {Root} : BlocksOf(disk, i) \cap BlocksOf(disk, Root) = {}

\* Rollback and removal are complete: without faults, and as long as the root
\* directory has its block, every allocated inode but the root has exactly one
\* name once a call has returned, whatever errors the calls returned on the
\* way (a name taken, no inode left, a directory that is a file or not empty).
EveryInodeNamedOnce ==
    op = "idle" /\ torn = {} /\ ~rootTaken =>
        \A i \in disk.ibm \ {Root} :
            Cardinality({<<dir, p>> \in disk.ibm \X (1 .. MaxDirect * EntriesPerBlock) :
                            /\ IsDir(disk, dir) /\ p \in Positions(disk, dir)
                            /\ EntryAt(disk, dir, p).inode = i
                            /\ EntryAt(disk, dir, p).name \in Names}) = 1

\* Write-through: between calls the cached superblock and bitmaps are those on
\* the device, unless a write failed; a crash between two calls loses nothing.
\* And the free counts the superblock caches drift from the bitmaps by at most
\* one for every fault: a crash between bitmap and superblock, and nothing
\* else, makes them disagree.
CacheAgrees ==
    LET inodes == MaxInodes - Cardinality(cache.ibm) - cache.super.inodes
        blocks == MaxDataBlocks - Cardinality(cache.bbm) - cache.super.blocks
    IN  /\ op = "idle" /\ faults = 0 => cache = Opened(disk)
        /\ inodes \in -faults .. faults /\ blocks \in -faults .. faults

=============================================================================

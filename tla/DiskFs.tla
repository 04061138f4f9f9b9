------------------------------- MODULE DiskFs -------------------------------
(***************************************************************************)
(* The read-only disk filesystem (kernel/src/diskfs.rs), and how the       *)
(* script that makes its images (scripts/mkdiskimg.py) lays them out.  A   *)
(* sector is a sequence of bytes, or of inodes in the inode table.         *)
(***************************************************************************)
EXTENDS BlockFiles

CONSTANTS
    DiskSectorSize,     \* SECTOR_SIZE, 512 in the code
    InodesPerSector,    \* 4 in the code
    MaxDirectBlocks     \* MAX_DIRECT_BLOCKS, 28 in the code

FsMagic == 1346457156   \* "PAND"

OpenDisk(super) ==
    IF super.magic # FsMagic THEN Error("InvalidMagic")
    ELSE IF super.version # 1 THEN Error("InvalidVersion")
    ELSE Okay([root |-> super.root_inode, total |-> super.total_inodes])

\* Pointers that are zero are dropped, so a hole moves the later blocks up.
ReadInode(v, disk, n) ==
    LET sector == ReadSector(disk, 1 + n \div InodesPerSector)
        inode  == sector.val[(n % InodesPerSector) + 1]
    IN  IF n >= v.total THEN Error("InvalidInode")
        ELSE IF Failed(sector) THEN sector
        ELSE IF inode.type \notin {"file", "dir"} THEN Error("InvalidInodeType")
        ELSE Okay([type |-> inode.type, size |-> inode.size,
                   blocks |-> SelectSeq(inode.direct, LAMBDA b : b # 0)])

Blocks(disk, inode) == [i \in DOMAIN inode.blocks |-> ReadSector(disk, inode.blocks[i])]

ReadDiskFile(v, disk, n, offset, room) ==
    LET inode == ReadInode(v, disk, n)
    IN  IF Failed(inode) THEN inode
        ELSE IF inode.val.type # "file" THEN Error("NotAFile")
        ELSE ReadRange(Blocks(disk, inode.val), DiskSectorSize, inode.val.size, offset, room)

\* A directory entry: four bytes of inode number, the length of the name, the
\* name, padding to a multiple of four.
HeaderSize == 5

Align(offset) == 4 * ((offset + 3) \div 4)

RECURSIVE ParseEntries(_, _, _)
ParseEntries(bytes, limit, offset) ==
    LET len  == bytes[offset + HeaderSize]
        name == offset + HeaderSize
    IN  IF offset + HeaderSize > limit THEN <<>>
        ELSE IF len = 0 \/ name + len > limit THEN <<>>
        ELSE <<[inode |-> bytes[offset + 1], name |-> SubSeq(bytes, name + 1, name + len)]>>
                \o ParseEntries(bytes, limit, Align(name + len))

ReadDir(v, disk, n) ==
    LET inode == ReadInode(v, disk, n)
        bytes == Joined(Blocks(disk, inode.val))
    IN  IF Failed(inode) THEN inode
        ELSE IF inode.val.type # "dir" THEN Error("NotADirectory")
        ELSE IF Failed(bytes) THEN bytes
        ELSE Okay(ParseEntries(bytes.val, Lesser(inode.val.size, Len(bytes.val)), 0))

LookupEntry(v, disk, n, name) ==
    LET list == ReadDir(v, disk, n)
        hits == {i \in DOMAIN list.val : list.val[i].name = name}
    IN  IF Failed(list) THEN list
        ELSE IF hits = {} THEN Error("NotFound")
        ELSE Okay(list.val[CHOOSE i \in hits : \A j \in hits : i <= j].inode)

DiskResolvePath(v, disk, path) ==
    LET Step(at, name) == IF Failed(at) THEN at ELSE LookupEntry(v, disk, at.val, name)
    IN  FoldLeft(Step, Okay(v.root), path)

-----------------------------------------------------------------------------
(* mkdiskimg.py.                                                           *)

Zeros(n) == [i \in 1 .. n |-> 0]

EntryBytes(e) ==
    LET bytes == <<e.inode, 0, 0, 0, Len(e.name)>> \o e.name
    IN  bytes \o Zeros((4 - (Len(bytes) % 4)) % 4)

\* What is written for a file or a directory: one block after the other, of
\* which the inode names the first MAX_DIRECT_BLOCKS.
BlocksNeeded(bytes) == (Len(bytes) + DiskSectorSize - 1) \div DiskSectorSize

BlockBytes(bytes, k) ==
    LET chunk == SubSeq(bytes, (k - 1) * DiskSectorSize + 1, Lesser(k * DiskSectorSize, Len(bytes)))
    IN  chunk \o Zeros(DiskSectorSize - Len(chunk))

\* The image of a list of nodes [type, bytes], the i-th with inode number i - 1,
\* and what its superblock says; the root directory comes last.
Image(nodes) ==
    LET tables == (Len(nodes) + InodesPerSector - 1) \div InodesPerSector
        before(i) == 1 + tables + FoldLeft(LAMBDA sum, n : sum + BlocksNeeded(n.bytes), 0,
                                           SubSeq(nodes, 1, i - 1))
        inode(i) == [type |-> nodes[i].type, size |-> Len(nodes[i].bytes),
                     direct |-> [k \in 1 .. MaxDirectBlocks |->
                                    IF k <= BlocksNeeded(nodes[i].bytes)
                                    THEN before(i) + k - 1 ELSE 0]]
        data == FlattenSeq([i \in DOMAIN nodes |->
                    [k \in 1 .. BlocksNeeded(nodes[i].bytes) |-> BlockBytes(nodes[i].bytes, k)]])
        none == [type |-> "none", size |-> 0, direct |-> Zeros(MaxDirectBlocks)]
    IN  [s \in 1 .. tables + Len(data) |->
            IF s > tables THEN data[s - tables]
            ELSE [k \in 1 .. InodesPerSector |->
                    LET i == (s - 1) * InodesPerSector + k
                    IN  IF i <= Len(nodes) THEN inode(i) ELSE none]]

Superblock(nodes) ==
    [magic |-> FsMagic, version |-> 1, root_inode |-> Len(nodes) - 1, total_inodes |-> Len(nodes)]

DirectoryBytes(entries) == FlattenSeq([i \in DOMAIN entries |-> EntryBytes(entries[i])])

=============================================================================

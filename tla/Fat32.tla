------------------------------- MODULE Fat32 -------------------------------
(***************************************************************************)
(* The read-only FAT32 driver (kernel/src/fat32.rs).  A volume is what     *)
(* Bpb::parse keeps of the boot sector, with the disk; a sector of the FAT *)
(* is a sequence of table entries, one of a directory a sequence of slots. *)
(* A name is the sequence of its parts, one part for a short name and one  *)
(* for each long-name slot; letter case is left out.                       *)
(***************************************************************************)
EXTENDS BlockFiles

CONSTANTS
    FatSectorSize,   \* SECTOR_SIZE in units, 512 bytes in the code
    MaxChainLength   \* MAX_CHAIN_LENGTH, 65536 in the code

EocMarker == 268435448      \* 0x0FFFFFF8
BadCluster == 268435447     \* 0x0FFFFFF7
MaxCluster == 268435455     \* 0x0FFFFFFF
FatMask == 268435456        \* an entry is its low 28 bits

ParseBpb(boot) ==
    IF boot.signature # 43605 THEN Error("InvalidSignature")        \* 0xAA55
    ELSE IF boot.bytes_per_sector # FatSectorSize THEN Error("UnsupportedSectorSize")
    ELSE IF boot.sectors_per_cluster \notin {2^k : k \in 0 .. 7} THEN Error("InvalidBpb")
    ELSE IF boot.num_fats = 0 \/ boot.reserved_sectors = 0 THEN Error("InvalidBpb")
    ELSE Okay([spc   |-> boot.sectors_per_cluster,
               fat   |-> boot.reserved_sectors,
               data  |-> boot.reserved_sectors + boot.num_fats * boot.sectors_per_fat,
               root  |-> boot.root_cluster])

\* Clusters are numbered from 2.
ClusterToSector(v, cluster) ==
    v.data + (IF cluster >= 2 THEN cluster - 2 ELSE 0) * v.spc

BytesPerCluster(v) == FatSectorSize * v.spc

\* Mistake: the upper four bits of an entry are kept.
ReadFatEntryRaw(v, disk, cluster) ==
    IF cluster < 2 \/ cluster >= MaxCluster THEN Error("InvalidCluster")
    ELSE LET sector == ReadSector(disk, v.fat + cluster \div FatSectorSize)
         IN  IF Failed(sector) THEN sector
             ELSE Okay(sector.val[(cluster % FatSectorSize) + 1])

ReadFatEntry(v, disk, cluster) ==
    IF cluster < 2 \/ cluster >= MaxCluster THEN Error("InvalidCluster")
    ELSE LET sector == ReadSector(disk, v.fat + cluster \div FatSectorSize)
         IN  IF Failed(sector) THEN sector
             ELSE Okay(sector.val[(cluster % FatSectorSize) + 1] % FatMask)

RECURSIVE Follow(_, _, _, _)
Follow(v, disk, cluster, chain) ==
    IF cluster >= EocMarker \/ Len(chain) >= MaxChainLength THEN Okay(chain)
    ELSE IF cluster = BadCluster THEN Error("BadCluster")
    ELSE LET next == ReadFatEntry(v, disk, cluster)
         IN  IF Failed(next) THEN next
             ELSE Follow(v, disk, next.val, Append(chain, cluster))

GetClusterChain(v, disk, start) ==
    IF start = 0 THEN Okay(<<>>) ELSE Follow(v, disk, start, <<>>)

ReadCluster(v, disk, cluster) ==
    Joined([i \in 1 .. v.spc |-> ReadSector(disk, ClusterToSector(v, cluster) + i - 1)])

Clusters(v, disk, chain) == [i \in DOMAIN chain |-> ReadCluster(v, disk, chain[i])]

ReadFile(v, disk, start, size, offset, room) ==
    IF start = 0 \/ offset >= size THEN Okay(<<>>)
    ELSE LET chain == GetClusterChain(v, disk, start)
         IN  IF Failed(chain) THEN chain
             ELSE ReadRange(Clusters(v, disk, chain.val), BytesPerCluster(v),
                            size, offset, room)

-----------------------------------------------------------------------------
(* Directories.  A slot has a kind: "lfn" for a part of a long name,       *)
(* "file" and "dir" for a short entry, "volume" for a label, "deleted"     *)
(* (first byte 0xE5) and "end" (first byte 0).                             *)

EntryOf(slot, lfn) ==
    [name    |-> IF lfn = <<>> THEN slot.name ELSE FlattenSeq(Reverse(lfn)),
     dir     |-> slot.kind = "dir",
     cluster |-> slot.cluster,
     size    |-> slot.size]

\* Mistake: a slot that is neither kind leaves the long name collected so far.
ListSlotKeepingName(acc, slot) ==
    IF acc.end \/ slot.kind = "end" THEN [acc EXCEPT !.end = TRUE]
    ELSE IF slot.kind = "lfn" THEN [acc EXCEPT !.lfn = Append(@, slot.name)]
    ELSE IF slot.kind \in {"file", "dir"}
    THEN [acc EXCEPT !.lfn = <<>>,
                     !.entries = IF EntryOf(slot, acc.lfn).name \in {<<".">>, <<"..">>} THEN @
                                 ELSE Append(@, EntryOf(slot, acc.lfn))]
    ELSE acc

\* One turn of read_directory's loop: parts of a long name are collected until
\* the short entry they belong to; anything else drops them.
ListSlot(acc, slot) ==
    IF acc.end \/ slot.kind = "end" THEN [acc EXCEPT !.end = TRUE]
    ELSE IF slot.kind = "lfn" THEN [acc EXCEPT !.lfn = Append(@, slot.name)]
    ELSE IF slot.kind \in {"file", "dir"}
    THEN [acc EXCEPT !.lfn = <<>>,
                     !.entries = IF EntryOf(slot, acc.lfn).name \in {<<".">>, <<"..">>} THEN @
                                 ELSE Append(@, EntryOf(slot, acc.lfn))]
    ELSE [acc EXCEPT !.lfn = <<>>]

ListSlots(slots) ==
    FoldLeft(ListSlot, [entries |-> <<>>, lfn |-> <<>>, end |-> FALSE], slots).entries

ReadDirectory(v, disk, cluster) ==
    LET chain == GetClusterChain(v, disk, cluster)
        slots == Joined(Clusters(v, disk, chain.val))
    IN  IF Failed(chain) THEN chain
        ELSE IF Failed(slots) THEN slots
        ELSE Okay(ListSlots(slots.val))

Lookup(v, disk, cluster, name) ==
    LET list == ReadDirectory(v, disk, cluster)
        hits == {i \in DOMAIN list.val : list.val[i].name = name}
    IN  IF Failed(list) THEN list
        ELSE IF hits = {} THEN Error("NotFound")
        ELSE Okay(list.val[CHOOSE i \in hits : \A j \in hits : i <= j])

\* One component after the other.  An entry that is no directory is refused
\* unless it is the first; the entry before it is not looked at.
Resolve(v, disk, entry, path) ==
    LET Step(at, i) ==
            IF Failed(at) THEN at
            ELSE LET found == Lookup(v, disk, at.val.cluster, path[i])
                 IN  IF ~Failed(found) /\ ~found.val.dir /\ i > 1
                     THEN Error("NotADirectory") ELSE found
    IN  FoldLeft(Step, entry, [i \in DOMAIN path |-> i])

\* The path as its names, <<>> for "/".
Fat32ResolvePath(v, disk, path) ==
    Resolve(v, disk, Okay([name |-> <<"/">>, dir |-> TRUE, cluster |-> v.root, size |-> 0]), path)

=============================================================================

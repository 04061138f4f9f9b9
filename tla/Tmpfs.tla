------------------------------- MODULE Tmpfs -------------------------------
(***************************************************************************)
(* The file system in memory (tmpfs.rs) and the path operations mount.rs   *)
(* builds on it, as functions from a file system to an answer: the file    *)
(* system after the call, an error and a value.  A file system holds its   *)
(* nodes by inode number, their modes and the next number.                 *)
(***************************************************************************)
EXTENDS Integers, Sequences, FiniteSets, SequencesExt, Functions, Paths

RootInode == 1

NewFile == [type |-> "file", data |-> <<>>]
NewDirectory == [type |-> "dir", entries |-> <<>>]

NewTmpfs ==
    [next |-> RootInode + 1,
     nodes |-> RootInode :> NewDirectory,
     modes |-> RootInode :> DefaultDirMode]

Ok(fs, val) == [fs |-> fs, err |-> "ok", val |-> val]
Err(fs, e) == [fs |-> fs, err |-> e, val |-> 0]

Exists(fs, i) == i \in DOMAIN fs.nodes
IsDirectory(fs, i) == fs.nodes[i].type = "dir"
Entries(fs, i) == fs.nodes[i].entries

Without(f, x) == Restrict(f, DOMAIN f \ {x})

(***************************************************************************)
(* Nodes and names                                                         *)
(***************************************************************************)

\* One name after the other from a base inode.
Lookup(fs, base, names) ==
    FoldLeft(LAMBDA a, n :
                IF a.err # "ok" THEN a
                ELSE IF ~Exists(fs, a.val) THEN Err(fs, "ENOENT")
                ELSE IF ~IsDirectory(fs, a.val) THEN Err(fs, "ENOTDIR")
                ELSE IF n \notin DOMAIN Entries(fs, a.val) THEN Err(fs, "ENOENT")
                ELSE Ok(fs, Entries(fs, a.val)[n]),
             Ok(fs, base), names)

TmpfsLookup(fs, rel) == Lookup(fs, RootInode, rel)

\* Mistake: the lowest free number is taken again.
AllocateInodeAgain(fs) == CHOOSE i \in 1 .. fs.next :
    i \notin DOMAIN fs.nodes /\ \A j \in 1 .. i - 1 : j \in DOMAIN fs.nodes

\* Numbers are never used twice.
AllocateInode(fs) == fs.next

Enter(fs, parent, n, i) == [fs EXCEPT !.nodes[parent].entries = @ @@ (n :> i)]
Strike(fs, parent, n) == [fs EXCEPT !.nodes[parent].entries = Without(@, n)]

\* A directory without the name, and the error if it is not one.
DirError(fs, parent) ==
    IF ~Exists(fs, parent) THEN "ENOENT"
    ELSE IF ~IsDirectory(fs, parent) THEN "ENOTDIR" ELSE "ok"

Create(fs, parent, n, node, mode) ==
    LET i == AllocateInode(fs)
        added == [fs EXCEPT !.next = @ + 1, !.nodes = (i :> node) @@ @,
                            !.modes = (i :> mode) @@ @]
    IN  IF n = "" THEN Err(fs, "EINVAL")
        ELSE IF DirError(fs, parent) # "ok" THEN Err(fs, DirError(fs, parent))
        ELSE IF n \in DOMAIN Entries(fs, parent) THEN Err(fs, "EEXIST")
        ELSE Ok(Enter(added, parent, n, i), i)

CreateFile(fs, parent, n) == Create(fs, parent, n, NewFile, DefaultFileMode)
CreateDirectory(fs, parent, n) == Create(fs, parent, n, NewDirectory, DefaultDirMode)

\* Mistake: a directory goes with all that is in it.
UnlinkWhateverIsInside(fs, parent, n) ==
    IF n = "" THEN Err(fs, "EINVAL")
    ELSE IF DirError(fs, parent) # "ok" THEN Err(fs, DirError(fs, parent))
    ELSE IF n \notin DOMAIN Entries(fs, parent) THEN Err(fs, "ENOENT")
    ELSE LET i == Entries(fs, parent)[n]
         IN  Ok([Strike(fs, parent, n) EXCEPT !.nodes = Without(@, i)], 0)

\* The name and the node go, open or not; the mode stays.
Unlink(fs, parent, n) ==
    IF n = "" THEN Err(fs, "EINVAL")
    ELSE IF DirError(fs, parent) # "ok" THEN Err(fs, DirError(fs, parent))
    ELSE IF n \notin DOMAIN Entries(fs, parent) THEN Err(fs, "ENOENT")
    ELSE LET i == Entries(fs, parent)[n]
         IN  IF ~Exists(fs, i) THEN Err(fs, "ENOENT")
             ELSE IF IsDirectory(fs, i) /\ DOMAIN Entries(fs, i) # {} THEN Err(fs, "ENOTEMPTY")
             ELSE Ok([Strike(fs, parent, n) EXCEPT !.nodes = Without(@, i)], 0)

\* Mistake: the old name goes before the new one is looked at.
RenameStrikeFirst(fs, from, m, to, n) ==
    IF m = "" \/ n = "" THEN Err(fs, "EINVAL")
    ELSE IF DirError(fs, from) # "ok" THEN Err(fs, DirError(fs, from))
    ELSE IF m \notin DOMAIN Entries(fs, from) THEN Err(fs, "ENOENT")
    ELSE LET struck == Strike(fs, from, m)
         IN  IF DirError(fs, to) # "ok" THEN Err(struck, DirError(fs, to))
             ELSE IF n \in DOMAIN Entries(struck, to) THEN Err(struck, "EEXIST")
             ELSE Ok(Enter(struck, to, n, Entries(fs, from)[m]), 0)

\* A directory may be moved below itself.
Rename(fs, from, m, to, n) ==
    IF m = "" \/ n = "" THEN Err(fs, "EINVAL")
    ELSE IF DirError(fs, from) # "ok" THEN Err(fs, DirError(fs, from))
    ELSE IF m \notin DOMAIN Entries(fs, from) THEN Err(fs, "ENOENT")
    ELSE IF DirError(fs, to) # "ok" THEN Err(fs, DirError(fs, to))
    ELSE IF n \in DOMAIN Entries(fs, to) THEN Err(fs, "EEXIST")
    ELSE Ok(Enter(Strike(fs, from, m), to, n, Entries(fs, from)[m]), 0)

\* The names in the order of the BTreeMap.
ReadDir(fs, i, order) ==
    IF DirError(fs, i) # "ok" THEN Err(fs, DirError(fs, i))
    ELSE IF \E n \in DOMAIN Entries(fs, i) : ~Exists(fs, Entries(fs, i)[n]) THEN Err(fs, "ENOENT")
    ELSE Ok(fs, SelectSeq(order, LAMBDA n : n \in DOMAIN Entries(fs, i)))

(***************************************************************************)
(* Contents                                                                *)
(***************************************************************************)

FileError(fs, i) ==
    IF ~Exists(fs, i) THEN "ENOENT" ELSE IF IsDirectory(fs, i) THEN "EISDIR" ELSE "ok"

\* Bytes of a vector from an offset on, and a vector with bytes stored at an
\* offset: a gap is filled with zeros.
ReadAt(data, offset, count) ==
    SubSeq(data, offset + 1, offset + Min({count, Max({Len(data) - offset, 0})}))

Resized(data, len) == [k \in 1 .. len |-> IF k <= Len(data) THEN data[k] ELSE 0]

WriteAt(data, offset, bytes) ==
    LET gap == IF offset > Len(data) THEN Resized(data, offset) ELSE data
        end == offset + Len(bytes)
        grown == IF end > Len(gap) THEN Resized(gap, end) ELSE gap
    IN  IF offset = Len(gap) THEN gap \o bytes
        ELSE [k \in 1 .. Len(grown) |->
                IF k \in offset + 1 .. end THEN bytes[k - offset] ELSE grown[k]]

Read(fs, i, offset, count) ==
    IF FileError(fs, i) # "ok" THEN Err(fs, FileError(fs, i))
    ELSE Ok(fs, Len(ReadAt(fs.nodes[i].data, offset, count)))

Write(fs, i, offset, bytes) ==
    IF FileError(fs, i) # "ok" THEN Err(fs, FileError(fs, i))
    ELSE Ok([fs EXCEPT !.nodes[i].data = WriteAt(@, offset, bytes)], Len(bytes))

Truncate(fs, i) ==
    IF FileError(fs, i) # "ok" THEN Err(fs, FileError(fs, i))
    ELSE Ok([fs EXCEPT !.nodes[i].data = <<>>], 0)

Size(node) == IF node.type = "file" THEN Len(node.data) ELSE 0

\* Every file belongs to root.
Stat(fs, i) ==
    IF ~Exists(fs, i) THEN Err(fs, "ENOENT")
    ELSE Ok(fs, [type |-> fs.nodes[i].type, size |-> Size(fs.nodes[i]),
                 mode |-> fs.modes[i], uid |-> 0, gid |-> 0])

Chmod(fs, i, mode) ==
    IF ~Exists(fs, i) THEN Err(fs, "ENOENT") ELSE Ok([fs EXCEPT !.modes[i] = mode], 0)

(***************************************************************************)
(* The same by path (mount.rs): first the directory, then the call         *)
(***************************************************************************)

TmpfsCreate(fs, rel) ==
    LET dir == TmpfsLookup(fs, ParentOf(rel))
    IN  IF dir.err # "ok" THEN dir ELSE CreateFile(fs, dir.val, NameOf(rel))

TmpfsMkdir(fs, rel) ==
    LET dir == TmpfsLookup(fs, ParentOf(rel))
    IN  IF dir.err # "ok" THEN dir ELSE CreateDirectory(fs, dir.val, NameOf(rel))

TmpfsUnlink(fs, rel) ==
    LET dir == TmpfsLookup(fs, ParentOf(rel))
    IN  IF dir.err # "ok" THEN dir ELSE Unlink(fs, dir.val, NameOf(rel))

\* The empty name leads to the root directory itself.
TmpfsRmdir(fs, rel) ==
    LET dir == TmpfsLookup(fs, ParentOf(rel))
        it == IF rel = <<>> THEN dir ELSE Lookup(fs, dir.val, <<NameOf(rel)>>)
    IN  IF dir.err # "ok" THEN dir
        ELSE IF it.err # "ok" THEN it
        ELSE IF ~IsDirectory(fs, it.val) THEN Err(fs, "ENOTDIR")
        ELSE IF DOMAIN Entries(fs, it.val) # {} THEN Err(fs, "ENOTEMPTY")
        ELSE Unlink(fs, dir.val, NameOf(rel))

TmpfsRename(fs, old, new) ==
    LET from == TmpfsLookup(fs, ParentOf(old))
        to == TmpfsLookup(fs, ParentOf(new))
    IN  IF from.err # "ok" THEN from
        ELSE IF to.err # "ok" THEN to
        ELSE Rename(fs, from.val, NameOf(old), to.val, NameOf(new))

=============================================================================

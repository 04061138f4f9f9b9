------------------------------- MODULE Files -------------------------------
(***************************************************************************)
(* The file calls of the kernel: the handlers of main.rs over fs.rs (the   *)
(* descriptor tables, the files built into the kernel, the overlay that    *)
(* keeps what is written to them), mount.rs and tmpfs.rs.  A call runs     *)
(* with interrupts off, so it is one step; the steps of the processes      *)
(* interleave.  Handlers are functions from a world to an answer.          *)
(*                                                                         *)
(* A byte is the process that wrote it, 0 in a gap; names are model data;  *)
(* pipes are in Descriptors and Pipe.                                      *)
(***************************************************************************)
EXTENDS Integers, Sequences, FiniteSets, TLC, Tmpfs

CONSTANTS
    Procs,          \* process numbers, 1 is the first process
    Fds,            \* FIRST_NONSTD_FD .. MAX_FDS - 1
    NameOrder,      \* the names in /tmp, in the order of strings
    BufferLen,      \* 4096, the kernel's buffer of one read or write
    MaxInode,       \* bound: inode numbers given out
    MaxLen,         \* bound: file length and offset
    Sessions        \* bound: which calls with which arguments a behaviour makes

ASSUME FilesAssumption ==
    /\ 1 \in Procs /\ Fds \subseteq Nat /\ Fds # {}
    /\ BufferLen \in Nat \ {0} /\ MaxInode \in Nat /\ MaxLen \in Nat

VARIABLES
    world,          \* tmpfs, overlay, modes, owners and the processes
    listing,        \* history: what directory listings owe and have shown
    session,        \* the session of this behaviour
    calls           \* the calls made

vars == <<world, listing, session, calls>>

(***************************************************************************)
(* What is there from the start                                            *)
(***************************************************************************)

FileAt(path, data) == [path |-> path, type |-> "file", data |-> data]
DirAt(path) == [path |-> path, type |-> "dir", data |-> <<>>]

\* FILES, without /bin and /etc/version that behave as their neighbours.
FILES == <<DirAt(<<>>), DirAt(<<"etc">>), DirAt(<<"tmp">>), DirAt(<<"mnt">>),
           FileAt(<<"etc", "motd">>, <<0>>)>>

\* The disk at /mnt, read-only.
DiskFiles == <<DirAt(<<>>), FileAt(<<"f">>, <<0>>)>>

Mounts == <<[point |-> <<"tmp">>, type |-> "tmpfs"], [point |-> <<"mnt">>, type |-> "disk"]>>

Has(files, path) == \E k \in DOMAIN files : files[k].path = path
NodeAt(files, path) == files[CHOOSE k \in DOMAIN files : files[k].path = path]

\* list_directory: the files one component below.
ChildrenAt(files, dir) ==
    LET below == SelectSeq(files, LAMBDA f : f.path # <<>> /\ Front(f.path) = dir)
    IN  [k \in 1 .. Len(below) |-> Last(below[k].path)]

\* resolve_path of the disk file system.
DiskLookup(rel) ==
    IF Has(DiskFiles, rel) THEN "ok"
    ELSE IF \E f \in ToSet(DiskFiles) : f.type = "file" /\ IsPrefix(f.path, rel) THEN "ENOTDIR"
    ELSE "ENOENT"

Answer(w, err, val) == [w |-> w, err |-> err, val |-> val]
Fail(w, err) == Answer(w, err, 0)
Done(w) == Answer(w, "ok", 0)

(***************************************************************************)
(* Descriptors                                                             *)
(***************************************************************************)

NoFd == [kind |-> "none", node |-> 0, offset |-> 0, flags |-> {}]
Descriptor(kind, node, flags) == [kind |-> kind, node |-> node, offset |-> 0, flags |-> flags]

Writable(flags) == "WRONLY" \in flags \/ "RDWR" \in flags
Readable(flags) == "WRONLY" \notin flags \/ "RDWR" \in flags

FileKinds == {"file", "disk", "tmp"}
DirKinds == {"dir", "diskdir", "tmpdir"}

FreeFds(w, p) == {fd \in Fds : w.proc[p].fd[fd].kind = "none"}

\* allocate_fd and the new entry.
Install(w, p, d) ==
    IF FreeFds(w, p) = {} THEN Fail(w, "EMFILE")
    ELSE LET fd == Min(FreeFds(w, p))
         IN  Answer([w EXCEPT !.proc[p].fd[fd] = d], "ok", fd)

SetOffset(w, p, fd, offset) == [w EXCEPT !.proc[p].fd[fd].offset = offset]

(***************************************************************************)
(* Metadata                                                                *)
(***************************************************************************)

\* A built-in file with what was written over it.
StaticData(w, path) ==
    IF path \in DOMAIN w.overlay THEN w.overlay[path] ELSE NodeAt(FILES, path).data

StaticStat(w, path) ==
    LET node == NodeAt(FILES, path)
        owner == IF path \in DOMAIN w.owners THEN w.owners[path] ELSE [uid |-> 0, gid |-> 0]
    IN  [type |-> node.type, size |-> Len(StaticData(w, path)),
         mode |-> IF path \in DOMAIN w.modes THEN w.modes[path]
                  ELSE IF node.type = "dir" THEN DefaultDirMode ELSE DefaultFileMode,
         uid |-> owner.uid, gid |-> owner.gid]

DiskStat(rel) ==
    LET node == NodeAt(DiskFiles, rel)
    IN  [type |-> node.type, size |-> Len(node.data), uid |-> 0, gid |-> 0,
         mode |-> IF node.type = "dir" THEN DefaultDirMode ELSE DefaultFileMode]

StatPath(w, abs) ==
    LET m == ResolveMount(Mounts, abs)
        i == TmpfsLookup(w.tmpfs, m.rel)
    IN  IF m.type = "tmpfs" THEN IF i.err = "ok" THEN Stat(w.tmpfs, i.val) ELSE i
        ELSE IF m.type = "disk" THEN
            IF DiskLookup(m.rel) = "ok" THEN Answer(w, "ok", DiskStat(m.rel))
            ELSE Fail(w, DiskLookup(m.rel))
        ELSE IF Has(FILES, abs) THEN Answer(w, "ok", StaticStat(w, abs)) ELSE Fail(w, "ENOENT")

Permitted(who, meta, flags) ==
    /\ Readable(flags) => Can("r", who, meta.uid, meta.gid, meta.mode)
    /\ Writable(flags) => Can("w", who, meta.uid, meta.gid, meta.mode)

(***************************************************************************)
(* open                                                                    *)
(***************************************************************************)

\* Truncation and creation come first, permission and a free descriptor
\* are asked for after them.
OpenTmpfs(w, p, rel, flags) ==
    LET found == TmpfsLookup(w.tmpfs, rel)
        got == IF found.err = "ok" /\ "TRUNC" \in flags /\ Writable(flags)
               THEN [Truncate(w.tmpfs, found.val) EXCEPT !.val = found.val]
               ELSE IF found.err = "ENOENT" /\ "CREAT" \in flags THEN TmpfsCreate(w.tmpfs, rel)
               ELSE found
        after == [w EXCEPT !.tmpfs = got.fs]
        meta == Stat(got.fs, got.val)
    IN  IF got.err # "ok" THEN Fail(w, got.err)
        ELSE IF meta.err # "ok" THEN Fail(after, meta.err)
        ELSE IF ~Permitted(w.proc[p], meta.val, flags) THEN Fail(after, "EACCES")
        ELSE Install(after, p, Descriptor(IF meta.val.type = "file" THEN "tmp" ELSE "tmpdir",
                                          got.val, flags))

OpenDisk(w, p, rel, flags) ==
    IF DiskLookup(rel) # "ok" THEN Fail(w, DiskLookup(rel))
    ELSE IF ~Permitted(w.proc[p], DiskStat(rel), flags) THEN Fail(w, "EACCES")
    ELSE IF Writable(flags) THEN Fail(w, "EROFS")
    ELSE Install(w, p, Descriptor(IF DiskStat(rel).type = "file" THEN "disk" ELSE "diskdir",
                                  rel, flags))

\* create_dynamic_file makes files below /tmp only, where tmpfs is mounted.
OpenStatic(w, p, path, flags) ==
    LET dir == NodeAt(FILES, path).type = "dir"
        after == IF "TRUNC" \in flags /\ Writable(flags)
                 THEN [w EXCEPT !.overlay = (path :> <<>>) @@ @] ELSE w
    IN  IF ~Has(FILES, path) THEN Fail(w, IF "CREAT" \in flags THEN "EACCES" ELSE "ENOENT")
        ELSE IF FreeFds(w, p) = {} THEN Fail(w, "EMFILE")
        ELSE IF ~Permitted(w.proc[p], StaticStat(w, path), flags) THEN Fail(w, "EACCES")
        ELSE IF dir /\ Writable(flags) THEN Fail(w, "EISDIR")
        ELSE IF dir THEN Install(w, p, Descriptor("dir", path, flags))
        ELSE Install(after, p, Descriptor("file", path, flags))

Open(w, p, path, flags) ==
    LET abs == ResolvePath(w.proc[p].cwd, path)
        m == ResolveMount(Mounts, abs)
    IN  IF m.type = "tmpfs" THEN OpenTmpfs(w, p, m.rel, flags)
        ELSE IF m.type = "disk" THEN OpenDisk(w, p, m.rel, flags)
        ELSE OpenStatic(w, p, abs, flags)

(***************************************************************************)
(* read, write, close, dup2, lseek, getdents64                             *)
(***************************************************************************)

\* The offset moves before the bytes are copied to the program, and stays
\* moved when its buffer is not one (`mapped').
ReadFd(w, p, fd, count, mapped) ==
    LET d == w.proc[p].fd[fd]
        n == Min({count, BufferLen})
        data == IF d.kind = "file" THEN StaticData(w, d.node) ELSE NodeAt(DiskFiles, d.node).data
        got == IF d.kind = "tmp" THEN Read(w.tmpfs, d.node, d.offset, n)
               ELSE Ok(w, Len(ReadAt(data, d.offset, n)))
    IN  IF d.kind = "none" THEN Fail(w, "EBADF")
        ELSE IF d.kind \in DirKinds THEN Fail(w, "EISDIR")
        ELSE IF got.err # "ok" THEN Fail(w, got.err)
        ELSE IF got.val > 0 /\ ~mapped
             THEN Fail(SetOffset(w, p, fd, d.offset + got.val), "EFAULT")
        ELSE Answer(SetOffset(w, p, fd, d.offset + got.val), "ok", got.val)

\* Mistake: O_APPEND goes by the descriptor's own offset.
WriteOffsetOwn(w, d) == d.offset

\* With O_APPEND the size now, of a built-in file that of its overlay.
WriteOffset(w, d) ==
    IF "APPEND" \notin d.flags THEN d.offset
    ELSE IF d.kind = "tmp" THEN Size(w.tmpfs.nodes[d.node])
    ELSE IF d.node \in DOMAIN w.overlay THEN Len(w.overlay[d.node]) ELSE 0

\* A built-in file is written through a descriptor opened for writing; the
\* access mode of a tmpfs descriptor is not looked at.  What is first written
\* to a built-in file replaces all of it.  The bytes are copied from the
\* program before anything else happens.
WriteFd(w, p, fd, count, mapped) ==
    LET d == w.proc[p].fd[fd]
        bytes == [k \in 1 .. Min({count, BufferLen}) |-> p]
        at == WriteOffset(w, d)
        old == IF d.node \in DOMAIN w.overlay THEN w.overlay[d.node] ELSE <<>>
        put == Write(w.tmpfs, d.node, at, bytes)
    IN  IF d.kind # "tmp" /\ ~(d.kind = "file" /\ Writable(d.flags)) THEN Fail(w, "EBADF")
        ELSE IF ~mapped THEN Fail(w, "EFAULT")
        ELSE IF d.kind = "file" THEN
            Answer(SetOffset([w EXCEPT !.overlay = (d.node :> WriteAt(old, at, bytes)) @@ @],
                             p, fd, at + Len(bytes)), "ok", Len(bytes))
        ELSE IF ~Exists(w.tmpfs, d.node) THEN Fail(w, "ENOENT")
        ELSE Answer(SetOffset([w EXCEPT !.tmpfs = put.fs], p, fd, at + put.val), "ok", put.val)

Close(w, p, fd) ==
    IF w.proc[p].fd[fd].kind = "none" THEN Fail(w, "EBADF")
    ELSE Done([w EXCEPT !.proc[p].fd[fd] = NoFd])

\* The copy has an offset of its own.
Dup2(w, p, oldfd, newfd) ==
    IF w.proc[p].fd[oldfd].kind = "none" THEN Fail(w, "EBADF")
    ELSE Answer([w EXCEPT !.proc[p].fd[newfd] = w.proc[p].fd[oldfd]], "ok", newfd)

FileSize(w, d) ==
    IF d.kind = "file" THEN Ok(w, Len(StaticData(w, d.node)))
    ELSE IF d.kind = "disk" THEN Ok(w, Len(NodeAt(DiskFiles, d.node).data))
    ELSE IF Exists(w.tmpfs, d.node) THEN Ok(w, Size(w.tmpfs.nodes[d.node]))
    ELSE Err(w, "ENOENT")

Lseek(w, p, fd, offset, whence) ==
    LET d == w.proc[p].fd[fd]
        size == FileSize(w, d)
        base == IF whence = "SET" THEN 0 ELSE IF whence = "CUR" THEN d.offset ELSE size.val
    IN  IF whence = "SET" /\ offset < 0 THEN Fail(w, "EINVAL")
        ELSE IF d.kind = "none" THEN Fail(w, "EBADF")
        ELSE IF d.kind \in DirKinds THEN Fail(w, "EISDIR")
        ELSE IF whence = "END" /\ size.err # "ok" THEN Fail(w, size.err)
        ELSE IF base + offset < 0 THEN Fail(w, "EINVAL")
        ELSE Answer(SetOffset(w, p, fd, base + offset), "ok", base + offset)

DirEntries(w, d) ==
    IF d.kind = "dir" THEN Ok(w, ChildrenAt(FILES, d.node))
    ELSE IF d.kind = "diskdir" THEN Ok(w, ChildrenAt(DiskFiles, d.node))
    ELSE ReadDir(w.tmpfs, d.node, NameOrder)

\* Mistake: the entry that no longer fits is counted as read.
GetdentsOneTooFar(w, p, fd, room, mapped) ==
    LET d == w.proc[p].fd[fd]
        all == DirEntries(w, d)
        shown == ReadAt(all.val, d.offset, room)
    IN  IF d.kind = "none" THEN Fail(w, "EBADF")
        ELSE IF d.kind \notin DirKinds THEN Fail(w, "ENOTDIR")
        ELSE IF all.err # "ok" THEN Fail(w, all.err)
        ELSE Answer(SetOffset(w, p, fd, Min({d.offset + Len(shown) + 1, Len(all.val)})), "ok", shown)

\* The entries from the descriptor's offset on that fit the caller's buffer;
\* the offset counts entries, and moves only once they are copied.
Getdents(w, p, fd, room, mapped) ==
    LET d == w.proc[p].fd[fd]
        all == DirEntries(w, d)
        shown == ReadAt(all.val, d.offset, room)
    IN  IF d.kind = "none" THEN Fail(w, "EBADF")
        ELSE IF d.kind \notin DirKinds THEN Fail(w, "ENOTDIR")
        ELSE IF all.err # "ok" THEN Fail(w, all.err)
        ELSE IF shown # <<>> /\ ~mapped THEN Fail(w, "EFAULT")
        ELSE Answer(SetOffset(w, p, fd, d.offset + Len(shown)), "ok", shown)

(***************************************************************************)
(* The calls that take a path                                              *)
(***************************************************************************)

AbsPath(w, p, path) == ResolvePath(w.proc[p].cwd, path)
MountOf(w, p, path) == ResolveMount(Mounts, AbsPath(w, p, path))

\* Into tmpfs, or the error of the other file systems.
OnTmpfs(w, m, answer, elsewhere) ==
    IF m.type = "disk" THEN Fail(w, "EROFS")
    ELSE IF m.type = "none" THEN Fail(w, elsewhere)
    ELSE Answer([w EXCEPT !.tmpfs = answer.fs], answer.err, 0)

\* Only the files built into the kernel are looked at: no directory of a
\* mounted file system but its mount point can be entered.
Chdir(w, p, path) ==
    LET abs == AbsPath(w, p, path)
    IN  IF ~Has(FILES, abs) THEN Fail(w, "ENOENT")
        ELSE IF NodeAt(FILES, abs).type # "dir" THEN Fail(w, "ENOTDIR")
        ELSE Done([w EXCEPT !.proc[p].cwd = abs])

UnlinkPath(w, p, path) ==
    LET m == MountOf(w, p, path) IN OnTmpfs(w, m, TmpfsUnlink(w.tmpfs, m.rel), "EACCES")

Mkdir(w, p, path) ==
    LET m == MountOf(w, p, path) IN OnTmpfs(w, m, TmpfsMkdir(w.tmpfs, m.rel), "EACCES")

RmdirPath(w, p, path) ==
    LET m == MountOf(w, p, path) IN OnTmpfs(w, m, TmpfsRmdir(w.tmpfs, m.rel), "EACCES")

RenamePath(w, p, old, new) ==
    LET m == MountOf(w, p, old)
        n == MountOf(w, p, new)
    IN  IF m.type = "none" /\ n.type = "none" THEN Fail(w, "EACCES")
        ELSE IF m.type # n.type THEN Fail(w, "EXDEV")
        ELSE OnTmpfs(w, m, TmpfsRename(w.tmpfs, m.rel, n.rel), "EACCES")

MayChmod(who, meta) == who.uid = 0 \/ who.uid = meta.uid

ChmodPath(w, p, path, mode) ==
    LET abs == AbsPath(w, p, path)
        m == ResolveMount(Mounts, abs)
        meta == StatPath(w, abs)
    IN  IF meta.err # "ok" THEN Fail(w, meta.err)
        ELSE IF ~MayChmod(w.proc[p], meta.val) THEN Fail(w, "EPERM")
        ELSE IF m.type = "none" THEN Done([w EXCEPT !.modes = (abs :> mode) @@ @])
        ELSE OnTmpfs(w, m, Chmod(w.tmpfs, TmpfsLookup(w.tmpfs, m.rel).val, mode), "EACCES")

\* u32::MAX stands for no change.
Keep == -1

\* Ownership is kept for the built-in files only.
ChownPath(w, p, path, uid, gid) ==
    LET abs == AbsPath(w, p, path)
        m == ResolveMount(Mounts, abs)
        now == StaticStat(w, abs)
    IN  IF w.proc[p].uid # 0 THEN Fail(w, "EPERM")
        ELSE IF m.type = "disk" THEN Fail(w, "EROFS")
        ELSE IF m.type = "tmpfs" THEN Fail(w, "ENOSYS")
        ELSE IF ~Has(FILES, abs) THEN Fail(w, "ENOENT")
        ELSE Done([w EXCEPT !.owners = (abs :> [uid |-> IF uid = Keep THEN now.uid ELSE uid,
                                                gid |-> IF gid = Keep THEN now.gid ELSE gid]) @@ @])

UserId == 1000

\* Root becomes root or the user, and nobody else anything.
Setuid(w, p, uid) ==
    IF w.proc[p].uid # 0 THEN Fail(w, "EPERM")
    ELSE IF uid \notin {0, UserId} THEN Fail(w, "EINVAL")
    ELSE Done([w EXCEPT !.proc[p].uid = uid])

Setgid(w, p, gid) ==
    IF w.proc[p].uid # 0 THEN Fail(w, "EPERM")
    ELSE IF gid \notin {0, UserId} THEN Fail(w, "EINVAL")
    ELSE Done([w EXCEPT !.proc[p].gid = gid])

\* The child gets a copy of the descriptors, offsets included, the working
\* directory and the ids.
Fork(w, p, q) == [w EXCEPT !.proc = (q :> w.proc[p]) @@ @]

(***************************************************************************)
(* Behaviour                                                               *)
(***************************************************************************)

Alive == DOMAIN world.proc

FirstProcess == [cwd |-> <<>>, uid |-> 0, gid |-> 0, fd |-> [fd \in Fds |-> NoFd]]

NoListing == [due |-> {}, seen |-> {}]

Init ==
    /\ world = [tmpfs |-> NewTmpfs, overlay |-> <<>>, modes |-> <<>>, owners |-> <<>>,
                proc |-> 1 :> FirstProcess]
    /\ listing = [fd \in Fds |-> NoListing]
    /\ session \in Sessions
    /\ calls = 0

NamesIn(w, i) == IF Exists(w.tmpfs, i) THEN DOMAIN Entries(w.tmpfs, i) ELSE {}

\* The listings of process 1 after a step: one begins with a descriptor and
\* owes the names of that moment; when a name is taken out of its directory
\* it owes nothing any more.
Listings(w, shown) ==
    [fd \in Fds |->
        LET d == w.proc[1].fd[fd]
            was == world.proc[1].fd[fd]
        IN  IF d.kind # "tmpdir" THEN NoListing
            ELSE IF was.kind # "tmpdir" \/ was.node # d.node
                 THEN [due |-> NamesIn(w, d.node), seen |-> {}]
            ELSE [due |-> IF NamesIn(world, d.node) \subseteq NamesIn(w, d.node)
                          THEN listing[fd].due ELSE {},
                  seen |-> listing[fd].seen \cup shown[fd]]]

NothingShown == [fd \in Fds |-> {}]

\* A call of the session is made, whatever it answers.
Call(name, answer) ==
    /\ name \in session.calls /\ calls < session.max
    /\ answer.w.tmpfs.next <= MaxInode + 1
    /\ world' = answer.w /\ listing' = Listings(answer.w, NothingShown)
    /\ calls' = calls + 1 /\ UNCHANGED session

FitsBound(w, p, fd) ==
    /\ w.proc[p].fd[fd].offset <= MaxLen
    /\ \A i \in DOMAIN w.tmpfs.nodes : Size(w.tmpfs.nodes[i]) <= MaxLen
    /\ \A f \in DOMAIN w.overlay : Len(w.overlay[f]) <= MaxLen

CallOpen ==
    \E p \in Alive, path \in session.paths, flags \in session.flags :
        Call("open", Open(world, p, path, flags))
CallRead ==
    \E p \in Alive, fd \in Fds, n \in 0 .. BufferLen + 1, mapped \in BOOLEAN :
        Call("read", ReadFd(world, p, fd, n, mapped))
CallWrite ==
    \E p \in Alive, fd \in Fds, n \in 1 .. BufferLen + 1, mapped \in BOOLEAN :
        LET r == WriteFd(world, p, fd, n, mapped) IN Call("write", r) /\ FitsBound(r.w, p, fd)
CallClose == \E p \in Alive, fd \in Fds : Call("close", Close(world, p, fd))
CallDup2 ==
    \E p \in Alive, old, new \in Fds : old # new /\ Call("dup2", Dup2(world, p, old, new))
CallLseek ==
    \E p \in Alive, fd \in Fds, offset \in -1 .. 1, whence \in {"SET", "CUR", "END"} :
        LET r == Lseek(world, p, fd, offset, whence)
        IN  Call("lseek", r) /\ FitsBound(r.w, p, fd)
CallGetdents ==
    \E p \in Alive, fd \in Fds, room \in 1 .. 2, mapped \in BOOLEAN :
        LET r == Getdents(world, p, fd, room, mapped)
            shown == IF r.err = "ok" /\ p = 1 THEN ToSet(r.val) ELSE {}
        IN  /\ "getdents" \in session.calls /\ calls < session.max
            /\ world' = r.w /\ calls' = calls + 1
            /\ listing' = Listings(r.w, [NothingShown EXCEPT ![fd] = shown])
            /\ UNCHANGED session
CallChdir ==
    \E p \in Alive, path \in session.paths : Call("chdir", Chdir(world, p, path))
CallUnlink ==
    \E p \in Alive, path \in session.paths : Call("unlink", UnlinkPath(world, p, path))
CallMkdir ==
    \E p \in Alive, path \in session.paths : Call("mkdir", Mkdir(world, p, path))
CallRmdir ==
    \E p \in Alive, path \in session.paths : Call("rmdir", RmdirPath(world, p, path))
CallRename ==
    \E p \in Alive, old, new \in session.paths : Call("rename", RenamePath(world, p, old, new))
CallChmod ==
    \E p \in Alive, path \in session.paths, mode \in session.modes :
        Call("chmod", ChmodPath(world, p, path, mode))
CallChown ==
    \E p \in Alive, path \in session.paths, uid, gid \in {UserId, Keep} :
        Call("chown", ChownPath(world, p, path, uid, gid))
CallSetuid == \E p \in Alive, uid \in {0, 1, UserId} : Call("setuid", Setuid(world, p, uid))
CallSetgid == \E p \in Alive, gid \in {0, 1, UserId} : Call("setgid", Setgid(world, p, gid))
CallFork ==
    \E p \in Alive, q \in Procs \ Alive : Call("fork", Done(Fork(world, p, q)))

\* The bound on calls is reached.
AllCallsMade == calls = session.max /\ UNCHANGED vars

Next ==
    \/ CallOpen \/ CallRead \/ CallWrite \/ CallClose \/ CallDup2 \/ CallLseek
    \/ CallGetdents \/ CallChdir \/ CallUnlink \/ CallMkdir \/ CallRmdir
    \/ CallRename \/ CallChmod \/ CallChown \/ CallSetuid \/ CallSetgid
    \/ CallFork \/ AllCallsMade

Spec == Init /\ [][Next]_vars

(***************************************************************************)
(* Properties                                                              *)
(***************************************************************************)

Fd(p, fd) == world.proc[p].fd[fd]
TmpNode(i) == world.tmpfs.nodes[i]

\* Every part of the world has its shape, and the files stay in their bounds.
FilesTypeOK ==
    /\ DOMAIN world.tmpfs.nodes \subseteq 1 .. MaxInode
    /\ world.tmpfs.next \in 2 .. MaxInode + 1
    /\ DOMAIN world.modes \cup DOMAIN world.owners \cup DOMAIN world.overlay
            \subseteq {f.path : f \in ToSet(FILES)}
    /\ \A p \in Alive :
        /\ Has(FILES, world.proc[p].cwd) /\ NodeAt(FILES, world.proc[p].cwd).type = "dir"
        /\ {world.proc[p].uid, world.proc[p].gid} \subseteq {0, UserId}
        /\ \A fd \in Fds : /\ Fd(p, fd).kind \in FileKinds \cup DirKinds \cup {"none"}
                           /\ Fd(p, fd).offset \in 0 .. MaxLen + Len(NameOrder)

\* TMPFS.md, "Invariants": the root is a directory, every entry leads to a
\* node, and every other node has exactly one name.  No order of create,
\* unlink, rmdir and rename, of any processes, breaks this.
TreeSound ==
    LET fs == world.tmpfs
        names == {<<i, n>> \in (DOMAIN fs.nodes) \X ToSet(NameOrder) :
                    IsDirectory(fs, i) /\ n \in DOMAIN Entries(fs, i)}
    IN  /\ FilesTypeOK
        /\ Exists(fs, RootInode) /\ IsDirectory(fs, RootInode)
        /\ \A e \in names : Exists(fs, Entries(fs, e[1])[e[2]])
        /\ \A i \in DOMAIN fs.nodes \ {RootInode} :
                Cardinality({e \in names : Entries(fs, e[1])[e[2]] = i}) = 1

\* A descriptor outlives the file it was opened on, for unlink does not look
\* at descriptors: it then leads nowhere, and never to a file or directory
\* made later (allocate_inode uses no number twice).
DescriptorsKeepTheirFile ==
    \A p \in Alive, fd \in Fds :
        LET d == Fd(p, fd)
        IN  d.kind \in {"tmp", "tmpdir"} =>
                /\ d.node < world.tmpfs.next
                /\ Exists(world.tmpfs, d.node) =>
                        (TmpNode(d.node).type = "file") = (d.kind = "tmp")

\* A write to a file in /tmp changes the bytes it is given and no others: not
\* those before its offset, not those behind its end, not another file; a gap
\* reads as zeros.  And with two processes appending, seeking and truncating,
\* what O_APPEND adds comes after all that was in the file.  (Nothing is said
\* of the built-in files, where VFS.md:62 and VFS.md:555 are not kept: the
\* first write with O_APPEND goes to offset 0 and replaces the file.)
WritesStayInRange ==
    \A p \in Alive, fd \in Fds :
        LET d == Fd(p, fd)
            at == WriteOffset(world, d)
            r == WriteFd(world, p, fd, BufferLen, TRUE)
            old == TmpNode(d.node).data
            new == r.w.tmpfs.nodes[d.node].data
        IN  d.kind = "tmp" /\ r.err = "ok" =>
                /\ Len(new) = Max({Len(old), at + BufferLen})
                /\ \A k \in 1 .. Len(new) :
                    new[k] = IF k \in at + 1 .. at + BufferLen THEN p
                             ELSE IF k <= Len(old) THEN old[k] ELSE 0
                /\ \A i \in DOMAIN world.tmpfs.nodes \ {d.node} :
                        r.w.tmpfs.nodes[i] = TmpNode(i)
                /\ "APPEND" \in d.flags => IsPrefix(old, new)

\* A call that returns an error has changed nothing: no half of a rename, no
\* entry left behind, no offset moved but that of a read whose bytes could not
\* be copied to the program, and no other of that read.  (open is left out: it
\* creates and truncates before it asks for permission and for a descriptor.)
FailedCallsChangeNothing ==
    \A p \in Alive :
        /\ \A path \in session.paths, r \in {"unlink", "mkdir", "rmdir", "chdir"} :
            LET a == IF r = "unlink" THEN UnlinkPath(world, p, path)
                     ELSE IF r = "mkdir" THEN Mkdir(world, p, path)
                     ELSE IF r = "rmdir" THEN RmdirPath(world, p, path)
                     ELSE Chdir(world, p, path)
            IN  a.err # "ok" => a.w = world
        /\ \A old, new \in session.paths :
            LET a == RenamePath(world, p, old, new) IN a.err # "ok" => a.w = world
        /\ \A fd \in Fds, mapped \in BOOLEAN :
            LET put == WriteFd(world, p, fd, 1, mapped)
                list == Getdents(world, p, fd, 1, mapped)
                seek == Lseek(world, p, fd, -1, "CUR")
                got == ReadFd(world, p, fd, 1, mapped)
            IN  /\ put.err # "ok" => put.w = world
                /\ list.err # "ok" => list.w = world
                /\ seek.err # "ok" => seek.w = world
                /\ got.err # "ok" =>
                    got.w = IF mapped THEN world
                            ELSE SetOffset(world, p, fd, got.w.proc[p].fd[fd].offset)

\* A listing that has come to the end of its directory has shown every name
\* that was there when the directory was opened, however many calls it took
\* and whatever other processes created meanwhile, unless a name was taken
\* out of the directory on the way: the offset counts entries, so that one
\* removed before it makes getdents64 skip one behind it.
ListingComplete ==
    \A fd \in Fds :
        LET d == Fd(1, fd)
            all == DirEntries(world, d)
        IN  d.kind = "tmpdir" /\ all.err = "ok" /\ d.offset >= Len(all.val) =>
                listing[fd].due \subseteq listing[fd].seen

=============================================================================

------------------------------ MODULE Loaders ------------------------------
(***************************************************************************)
(* The algorithms between a path and a running program, one task at a      *)
(* time: path resolution, the two read-only disk filesystems, the ELF      *)
(* loader, the first stack and execve.  Each task has its own input set;   *)
(* a file is read through a descriptor, piece after piece.  The invariants *)
(* compare what the code computes with a definition made without it.       *)
(***************************************************************************)
EXTENDS Fat32, DiskFs, ExecImage

CONSTANTS
    PathTasks,      \* [cwd, path]
    ChainTasks,     \* [volume, disk, fat, start]
    FatReadTasks,   \* [volume, disk, start, size, room, content]
    FatListTasks,   \* [volume, disk, slots]
    FatPathTasks,   \* [volume, disk, tree, path]
    DiskReadTasks,  \* [bytes, room]
    DiskListTasks,  \* [entries]
    StackTasks,     \* the arguments of SetupUserStack
    LoadTasks,      \* [file]
    ExecTasks       \* [p, files, call, memory]

VARIABLES
    kind,   \* which algorithm
    task,   \* its input
    got,    \* what was read of a file so far
    out     \* "none", or [val] or [err]

vars == <<kind, task, got, out>>

None == [none |-> TRUE]
Running == "none" \in DOMAIN out

Init ==
    /\ got = <<>> /\ out = None
    /\ \/ kind = "path" /\ task \in PathTasks
       \/ kind = "chain" /\ task \in ChainTasks
       \/ kind = "fatread" /\ task \in FatReadTasks
       \/ kind = "fatlist" /\ task \in FatListTasks
       \/ kind = "fatpath" /\ task \in FatPathTasks
       \/ kind = "diskread" /\ task \in DiskReadTasks
       \/ kind = "disklist" /\ task \in DiskListTasks
       \/ kind = "stack" /\ task \in StackTasks
       \/ kind = "load" /\ task \in LoadTasks
       \/ kind = "exec" /\ task \in ExecTasks

Answers(k, result) ==
    /\ kind = k /\ Running
    /\ out' = result
    /\ UNCHANGED <<kind, task, got>>

ResolveName == Answers("path", Okay(ResolvePath(task.cwd, task.path)))
FollowChain == Answers("chain", GetClusterChain(task.volume, task.disk, task.start))
ListFatDirectory == Answers("fatlist", ReadDirectory(task.volume, task.disk, task.volume.root))
ResolveFatName == Answers("fatpath", Fat32ResolvePath(task.volume, task.disk, task.path))
BuildStack == Answers("stack", SetupUserStack(task))
ExecuteProgram == Answers("exec", Pass(Execve(task.p, task.files, task.call, task.memory)))

LoadImage ==
    LET parsed == ParseElf(task.file)
        loaded == LoadElfSegments(parsed.val, task.file.data)
    IN  Answers("load",
            IF Faulted(parsed) THEN parsed
            ELSE IF Faulted(loaded) THEN loaded
            ELSE Pass([pages |-> loaded.val, heap |-> CalculateHeapStart(parsed.val)]))

\* The image holds the files the entries name, one byte each, and the root.
DiskNodes ==
    LET sizes == [i \in DOMAIN task.entries |-> [type |-> "file", bytes |-> <<i>>]]
    IN  Append(sizes, [type |-> "dir", bytes |-> DirectoryBytes(task.entries)])

ListDiskDirectory ==
    LET v == OpenDisk(Superblock(DiskNodes))
    IN  Answers("disklist", ReadDir(v.val, Image(DiskNodes), v.val.root))

\* read_fd on a descriptor of one of the disks: the offset moves by what was
\* read; an empty answer is the end of the file.
Reads(k, piece) ==
    /\ kind = k /\ Running
    /\ IF Failed(piece) THEN out' = piece /\ UNCHANGED got
       ELSE IF piece.val = <<>> THEN out' = Okay("end") /\ UNCHANGED got
       ELSE got' = got \o piece.val /\ UNCHANGED out
    /\ UNCHANGED <<kind, task>>

ReadFatPiece ==
    Reads("fatread",
          ReadFile(task.volume, task.disk, task.start, task.size, Len(got), task.room))

\* The file is looked up by its name in the root directory first.
ReadDiskPiece ==
    LET name  == <<1>>
        root  == DirectoryBytes(<<[inode |-> 0, name |-> name]>>)
        nodes == <<[type |-> "file", bytes |-> task.bytes], [type |-> "dir", bytes |-> root]>>
        v     == OpenDisk(Superblock(nodes)).val
        found == DiskResolvePath(v, Image(nodes), <<name>>)
    IN  Reads("diskread",
              IF Failed(found) THEN found
              ELSE ReadDiskFile(v, Image(nodes), found.val, Len(got), task.room))

TaskDone == ~Running /\ UNCHANGED vars

Next ==
    \/ ResolveName \/ FollowChain \/ ListFatDirectory \/ ResolveFatName
    \/ BuildStack \/ ExecuteProgram \/ LoadImage \/ ListDiskDirectory
    \/ ReadFatPiece \/ ReadDiskPiece \/ TaskDone

Spec == Init /\ [][Next]_vars

Answered(k) == kind = k /\ ~Running
Succeeded(k) == kind = k /\ "val" \in DOMAIN out

-----------------------------------------------------------------------------
(* Properties.                                                             *)

(* resolve_path: a name of the path, or of the working directory when the  *)
(* path is relative, is left in exactly when no ".." that comes later      *)
(* takes it away, that is when no stretch behind it goes further up than   *)
(* down; the names that stay keep their order.                             *)
NamesResolve ==
    Succeeded("path") =>
        LET all == IF StartsWithSlash(task.path) THEN task.path ELSE task.cwd \o task.path
            isName(i) == all[i] \notin {"", ".", ".."}
            ups(i, j) == Cardinality({k \in i .. j : all[k] = ".."})
            downs(i, j) == Cardinality({k \in i .. j : isName(k)})
            stays == {i \in DOMAIN all :
                        /\ isName(i)
                        /\ \A j \in i + 1 .. Len(all) : ups(i + 1, j) <= downs(i + 1, j)}
        IN  /\ Len(out.val) = Cardinality(stays)
            /\ \A i \in stays :
                  out.val[Cardinality({k \in stays : k <= i})] = all[i]

(* get_cluster_chain: the clusters of a chain follow one another in the    *)
(* FAT by the low 28 bits of its entries, the last is marked as the end,   *)
(* and no cluster comes twice unless the limit on the length stopped a     *)
(* chain that runs in a circle; an error names a chain that really runs    *)
(* into a free, reserved, bad or missing cluster.                          *)
ChainFollowsFat ==
    Answered("chain") =>
        LET fat == [c \in DOMAIN task.fat |-> task.fat[c] % FatMask]
            reach(n) == {c \in [1 .. n -> DOMAIN fat] :
                            /\ c[1] = task.start
                            /\ \A i \in 1 .. n - 1 : fat[c[i]] = c[i + 1]}
        IN  IF "val" \in DOMAIN out
            THEN \/ task.start = 0 /\ out.val = <<>>
                 \/ /\ out.val \in reach(Len(out.val))
                    /\ IF Len(out.val) < MaxChainLength
                       THEN IsInjective(out.val) /\ fat[Last(out.val)] >= EocMarker
                       ELSE ~IsInjective(out.val)
            ELSE \E n \in 1 .. Cardinality(DOMAIN fat) : \E c \in reach(n) :
                    fat[c[n]] \notin DOMAIN fat /\ fat[c[n]] < EocMarker

(* What the file is, without the reading loops: what its blocks were       *)
(* filled with, cut at the size and at what the blocks of an inode hold.   *)
Content ==
    IF kind = "fatread" THEN SubSeq(task.content, 1, Lesser(task.size, Len(task.content)))
    ELSE SubSeq(task.bytes, 1, Lesser(Len(task.bytes), MaxDirectBlocks * DiskSectorSize))

(* read_file of fat32.rs and diskfs.rs: pieces of any length read one      *)
(* after the other, across sector, cluster and block boundaries, are       *)
(* together the file from its start, and its end is reported exactly when  *)
(* all of it has been read; an error of the device loses no piece that was *)
(* read before and puts in nothing that is not the file's.                 *)
FilesReadWhole ==
    kind \in {"fatread", "diskread"} =>
        /\ IsPrefix(got, Content)
        /\ "val" \in DOMAIN out => got = Content

(* read_directory: the name of an entry is made of the long-name slots     *)
(* directly before it, also when they lie in the cluster before, and is    *)
(* its short name when there are none; slots of a deleted entry lend their *)
(* name to nobody, and nothing behind the end mark is listed.              *)
LongNamesBelong ==
    Succeeded("fatlist") =>
        LET s == task.slots
            live(p) == /\ s[p].kind \in {"file", "dir"}
                       /\ \A q \in 1 .. p : s[q].kind # "end"
            run(p) == {q \in 1 .. p - 1 : \A r \in q .. p - 1 : s[r].kind = "lfn"}
            name(p) == IF run(p) = {} THEN s[p].name
                       ELSE FlattenSeq([k \in 1 .. Cardinality(run(p)) |-> s[p - k].name])
            shown == {p \in DOMAIN s : live(p) /\ name(p) \notin {<<".">>, <<"..">>}}
        IN  /\ Len(out.val) = Cardinality(shown)
            /\ \A p \in shown :
                  LET e == out.val[Cardinality({q \in shown : q <= p})]
                  IN  e.name = name(p) /\ e.cluster = s[p].cluster /\ e.dir = (s[p].kind = "dir")

(* resolve_path of fat32.rs: a path of directories leads to the directory  *)
(* of that path, and a file of the root directory is found; a name that is *)
(* not in the directory before it is not found.  `tree' gives each path    *)
(* that exists its cluster.                                                *)
DirectoriesResolve ==
    Answered("fatpath") =>
        LET known(n) == SubSeq(task.path, 1, n) \in DOMAIN task.tree
            dir(n) == task.tree[SubSeq(task.path, 1, n)].dir
            len == Len(task.path)
        IN  IF \A n \in 0 .. len - 1 : known(n) /\ dir(n)
            THEN /\ ~known(len) => out = Error("NotFound")
                 /\ known(len) /\ (dir(len) \/ len = 1) =>
                        "val" \in DOMAIN out /\ out.val.cluster = task.tree[task.path].cluster
            ELSE TRUE

(* read_dir of diskfs.rs on an image of mkdiskimg.py: the entries come out *)
(* as they were put in, whatever the lengths of their names and wherever a *)
(* block ends, up to what the blocks of the inode can hold.                *)
DiskListingAsWritten ==
    Answered("disklist") =>
        LET fits(i) == Len(DirectoryBytes(SubSeq(task.entries, 1, i))) <= MaxDirectBlocks * DiskSectorSize
        IN  /\ "val" \in DOMAIN out
            /\ IsPrefix(out.val, task.entries)
            /\ \A i \in DOMAIN task.entries : fits(i) => Len(out.val) >= i

ReadWord(mem, a) == IF a \in DOMAIN mem /\ mem[a].kind = "word" THEN mem[a].v ELSE -1

ReadString(mem, a) ==
    LET n == CHOOSE k \in 0 .. StackSize :
                mem[a + k] = Char(0) /\ \A j \in 0 .. k - 1 : mem[a + j] # Char(0)
    IN  [i \in 1 .. n |-> mem[a + i - 1].v]

(* setup_user_stack: the words it writes are, from the lowest upwards,     *)
(* argc, the arguments, a null word, the environment, a null word and the  *)
(* auxiliary vector with the path of the program, and every pointer among  *)
(* them leads to the string that was passed.  This is about what is in     *)
(* memory.  That rsp points at argc (PROCESS_LIFECYCLE.md:262-264,         *)
(* ABI.md:151-153) is not kept: the pointer is aligned to 16 after argc    *)
(* was written, so that half of the programs find argc a word above it.    *)
StackHoldsArguments ==
    Succeeded("stack") =>
        LET mem == out.val.mem
            word(i) == ReadWord(mem, out.val.argc + 8 * i)
            argc == Len(task.argv)
            envc == Len(task.envp)
            aux == argc + envc + 3
            value(type) == word(1 + CHOOSE i \in aux .. aux + 24 : (i - aux) % 2 = 0 /\ word(i) = type)
        IN  /\ word(0) = argc
            /\ \A i \in 1 .. argc : ReadString(mem, word(i)) = task.argv[i]
            /\ word(argc + 1) = 0
            /\ \A i \in 1 .. envc : ReadString(mem, word(argc + 1 + i)) = task.envp[i]
            /\ word(argc + envc + 2) = 0
            /\ ReadString(mem, value(31)) = task.path
            /\ value(9) = task.entry /\ value(11) = task.uid

(* setup_user_stack: the size it computes beforehand is enough: whatever   *)
(* it then pushes and aligns stays in the four pages mapped for the stack, *)
(* the stack pointer is a multiple of 16, and nothing that was written     *)
(* lies below it, where the program's own pushes would destroy it.         *)
StackStaysInPages ==
    Succeeded("stack") =>
        /\ out.val.sp >= 0
        /\ out.val.sp % 16 = 0
        /\ \A a \in 0 .. out.val.sp - 1 : out.val.mem[a] = Char(0)

(* load_elf_segments: every byte of every page that gets mapped is the     *)
(* byte of the file its segment puts there, or zero, wherever the segment  *)
(* starts and ends within a page.                                          *)
ImageAsLinked ==
    Succeeded("load") =>
        LET segs == ParseElf(task.file).val.segments
            filled(i) == segs[i].vaddr .. segs[i].vaddr + segs[i].filesz - 1
            byte(a) == IF \E i \in DOMAIN segs : a \in filled(i)
                       THEN LET i == CHOOSE j \in DOMAIN segs : a \in filled(j)
                            IN  task.file.data[segs[i].offset + a - segs[i].vaddr + 1]
                       ELSE 0
        IN  /\ \A p \in DOMAIN out.val.pages : \A k \in 0 .. PageSize - 1 :
                    out.val.pages[p][k] = byte(p + k)
            /\ \A i \in DOMAIN segs : \A a \in segs[i].vaddr .. segs[i].vaddr + segs[i].memsz - 1 :
                    PageSize * (a \div PageSize) \in DOMAIN out.val.pages

(* calculate_heap_start: the heap starts on a page of its own above        *)
(* everything that was loaded, so growing it never meets the image.        *)
HeapAboveImage ==
    Succeeded("load") =>
        /\ out.val.heap % PageSize = 0
        /\ \A p \in DOMAIN out.val.pages : p < out.val.heap

(* execve_handler: a call that fails before the new image is in place      *)
(* leaves image, heap, environment and stack of the caller as they were;   *)
(* the one failure behind that point, arguments too large for the stack,   *)
(* is met in the new image, with its heap, the new environment and the     *)
(* stack still empty.                                                      *)
ExecFailsCleanly ==
    Succeeded("exec") /\ out.val.ret # "run" =>
        \/ out.val.p = task.p
        \/ LET file == task.files[FindProgram(task.files, task.p, task.call.prog).val].file
               elf == ParseElf(file).val
           IN  /\ out.val.ret = "E2BIG"
               /\ Pass(out.val.p.image) = LoadElfSegments(elf, file.data)
               /\ out.val.p.heap = CalculateHeapStart(elf)
               /\ out.val.p.environ = EnvironOf(task.call.envp)
               /\ out.val.p.stack = "empty" /\ out.val.p.sp = StackSize

(* The two of paths together: resolve_path of path.rs and of fat32.rs.     *)
PathsResolve == NamesResolve /\ DirectoriesResolve

(* The two of directories together: every listing shows what was written.  *)
ListingsAsWritten == LongNamesBelong /\ DiskListingAsWritten

(* The two of the stack together: what setup_user_stack writes is what was *)
(* passed, and is written where it may be.                                 *)
StackAsPassed == StackStaysInPages /\ StackHoldsArguments

(* The two of the image together: the program is loaded as it was linked,  *)
(* with its heap behind it.                                                *)
ImageInPlace == ImageAsLinked /\ HeapAboveImage

=============================================================================

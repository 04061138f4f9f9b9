----------------------------- MODULE ExecImage -----------------------------
(***************************************************************************)
(* What execve makes of a file and its arguments: the ELF loader (elf.rs), *)
(* the first user stack (exec_stack.rs), and the order in which            *)
(* execve_handler (main.rs) replaces the image, the environment and the    *)
(* stack.  Frames and page tables are the matter of AddressSpaces; here    *)
(* memory is a function from addresses to bytes.  Strings are sequences of *)
(* characters, which are positive numbers.                                 *)
(***************************************************************************)
EXTENDS Integers, Sequences, SequencesExt, FiniteSets, Paths

CONSTANTS
    PageSize,       \* 4096 in the code
    HeaderLen, PhdrLen, \* sizes of Elf64Ehdr and Elf64Phdr, 64 and 56
    MaxPhdrs,       \* 8 in the code
    StackSize,      \* the user stack, 4 pages or 16384 bytes
    MaxArgc,        \* MAX_ARGC and MAX_ENVC, 64 in the code
    MaxStrLen,      \* MAX_STRLEN, 256 in the code
    MaxTotalBytes   \* MAX_TOTAL_BYTES, 32768 in the code

Pass(val) == [val |-> val]
Fault(err) == [err |-> err]
Faulted(r) == "err" \in DOMAIN r

SumOf(f) == FoldLeft(LAMBDA a, b : a + b, 0, f)
AlignDown(n, k) == k * (n \div k)
AlignUp(n, k) == AlignDown(n + k - 1, k)

-----------------------------------------------------------------------------
(* ELF files: the result of the checks on the header ("ok" or the error),  *)
(* where the program headers are, the headers and the bytes.               *)

ParseElf(file) ==
    LET outside(i) == file.phoff + i * PhdrLen > Len(file.data)
        load(i) == file.phdrs[i].load
        bad(i) == \/ file.phdrs[i].filesz > file.phdrs[i].memsz
                  \/ file.phdrs[i].offset + file.phdrs[i].filesz > Len(file.data)
        wrong(i) == outside(i) \/ (load(i) /\ bad(i))
        first == CHOOSE i \in 1 .. file.phnum : wrong(i) /\ \A j \in 1 .. i - 1 : ~wrong(j)
    IN  IF Len(file.data) < HeaderLen THEN Fault("FileTooSmall")
        ELSE IF file.header # "ok" THEN Fault(file.header)
        ELSE IF file.phnum > MaxPhdrs THEN Fault("InvalidPhdrCount")
        ELSE IF \E i \in 1 .. file.phnum : wrong(i)
        THEN Fault(IF outside(first) THEN "InvalidPhdrOffset" ELSE "InvalidSize")
        ELSE LET loads == SelectSeq(SubSeq(file.phdrs, 1, file.phnum), LAMBDA p : p.load)
             IN  Pass([segments |-> loads, phnum |-> file.phnum,
                       phdr |-> IF file.phoff < PageSize /\ loads # <<>>
                                THEN loads[1].vaddr + file.phoff ELSE 0])

PagesOf(seg) ==
    {PageSize * p : p \in seg.vaddr \div PageSize ..
                          ((seg.vaddr + seg.memsz + PageSize - 1) \div PageSize) - 1}

\* Mistake: a page that starts before the segment still takes a whole page.
PageOfSegmentTooLong(seg, data, page) ==
    LET skipped == IF page >= seg.vaddr THEN page - seg.vaddr ELSE 0
        inPage  == IF seg.vaddr > page THEN seg.vaddr - page ELSE 0
        count   == IF PageSize < seg.filesz - skipped THEN PageSize ELSE seg.filesz - skipped
    IN  [k \in 0 .. PageSize - 1 |->
            IF page < seg.vaddr + seg.filesz /\ k \in inPage .. count - 1
            THEN data[seg.offset + skipped + k - inPage + 1] ELSE 0]

\* One page of a segment: zeroed, then the part of the file that falls in it.
PageOfSegment(seg, data, page) ==
    LET skipped == IF page >= seg.vaddr THEN page - seg.vaddr ELSE 0
        inPage  == IF seg.vaddr > page THEN seg.vaddr - page ELSE 0
        room    == PageSize - inPage
        count   == IF room < seg.filesz - skipped THEN room ELSE seg.filesz - skipped
    IN  [k \in 0 .. PageSize - 1 |->
            IF page < seg.vaddr + seg.filesz /\ k \in inPage .. inPage + count - 1
            THEN data[seg.offset + skipped + k - inPage + 1] ELSE 0]

\* map_page panics when two segments meet in a page.
LoadElfSegments(info, data) ==
    LET segs == info.segments
        pages == UNION {PagesOf(segs[i]) : i \in DOMAIN segs}
        owner(p) == CHOOSE i \in DOMAIN segs : p \in PagesOf(segs[i])
    IN  IF \E i, j \in DOMAIN segs : i < j /\ PagesOf(segs[i]) \cap PagesOf(segs[j]) # {}
        THEN Fault("panic")
        ELSE Pass([p \in pages |-> PageOfSegment(segs[owner(p)], data, p)])

CalculateHeapStart(info) ==
    LET ends == {0} \cup {info.segments[i].vaddr + info.segments[i].memsz :
                             i \in DOMAIN info.segments}
    IN  AlignUp(CHOOSE e \in ends : \A f \in ends : f <= e, PageSize)

-----------------------------------------------------------------------------
(* Arguments and the stack.                                                *)

\* parse_argv and parse_envp.  The array of MAX_ARGC strings is refused before
\* its terminator is read, and the two share no count of bytes.
ParseStrings(strings) ==
    LET longer(i) == Len(strings[i]) >= MaxStrLen
        size(i) == SumOf([k \in 1 .. i |-> Len(strings[k]) + 1])
    IN  IF \/ Len(strings) >= MaxArgc
           \/ \E i \in DOMAIN strings : longer(i) \/ size(i) > MaxTotalBytes
        THEN Fault("E2BIG") ELSE Pass(strings)

StringsSize(strings) == SumOf([i \in DOMAIN strings |-> Len(strings[i]) + 1])

TotalSize(call) ==
    AlignUp(8 + 8 * (Len(call.argv) + 1) + 8 * (Len(call.envp) + 1) + 192
            + StringsSize(call.argv) + StringsSize(call.envp) + Len(call.path) + 1 + 16, 16)

\* Memory cells: a character, or a byte of a word (the first holds its value).
Char(c) == [kind |-> "char", v |-> c]
Chars(s) == [i \in DOMAIN s |-> Char(s[i])]
WordCells(w) == [k \in 1 .. 8 |-> [kind |-> IF k = 1 THEN "word" ELSE "rest", v |-> w]]

\* Cells go below the stack pointer.
PushCells(s, cells) ==
    LET at == s.sp - Len(cells)
    IN  [s EXCEPT !.sp = at,
                  !.mem = [a \in DOMAIN @ |-> IF a \in at .. s.sp - 1 THEN cells[a - at + 1] ELSE @[a]]]

\* Mistake: the pointers stay in the order they were pushed in.
PushStringsBackwards(s, strings) ==
    FoldLeft(LAMBDA acc, str :
                 LET next == PushCells(acc, Chars(Append(str, 0)))
                 IN  [next EXCEPT !.ptrs = Append(@, next.sp)],
             [s EXCEPT !.ptrs = <<>>], Reverse(strings))

\* The last string first; the list of pointers is put in order afterwards.
PushStrings(s, strings) ==
    FoldLeft(LAMBDA acc, str :
                 LET next == PushCells(acc, Chars(Append(str, 0)))
                 IN  [next EXCEPT !.ptrs = <<next.sp>> \o @],
             [s EXCEPT !.ptrs = <<>>], Reverse(strings))

\* The auxiliary vector as (type, value) words, lowest address first.
Auxv(call, random, execfn) ==
    <<6, 4096>> \o (IF call.phdr # 0 THEN <<3, call.phdr>> ELSE <<>>)
    \o <<4, 56, 5, call.phnum, 9, call.entry, 11, call.uid, 12, call.uid,
         13, call.gid, 14, call.gid, 25, random, 31, execfn, 0, 0>>

RandomBytes == [i \in 1 .. 16 |-> Char(222)]

\* The stack of the new program, in addresses 0 .. StackSize - 1: the words lie
\* above the aligned strings; the stack pointer is aligned once more at the
\* end, and argc may then lie a word above it.
SetupUserStack(call) ==
    LET empty == [mem |-> [a \in 0 .. StackSize - 1 |-> Char(0)], sp |-> StackSize, ptrs |-> <<>>]
        args  == PushStrings(empty, call.argv)
        envs  == PushStrings(args, call.envp)
        path  == PushCells(envs, Chars(Append(call.path, 0)))
        rand  == PushCells(path, RandomBytes)
        words == <<Len(call.argv)>> \o args.ptrs \o <<0>> \o envs.ptrs \o <<0>>
                    \o Auxv(call, rand.sp, path.sp)
        done  == PushCells([rand EXCEPT !.sp = AlignDown(@, 8)],
                           FlattenSeq([i \in DOMAIN words |-> WordCells(words[i])]))
    IN  IF TotalSize(call) > StackSize THEN Fault("E2BIG")
        ELSE Pass([mem |-> done.mem, argc |-> done.sp, sp |-> AlignDown(done.sp, 16)])

-----------------------------------------------------------------------------
(* execve_handler.  `files' maps paths, as sequences of names, to what is   *)
(* there: [dir, exec, file, spelling].  `search' is PATH without its empty  *)
(* components, which are skipped.                                          *)

\* A path with a '/' is resolved, any other is tried in each directory of PATH.
FindProgram(files, p, path) ==
    LET full(i) == Append(p.search[i], path[1])
        hits == {i \in DOMAIN p.search : full(i) \in DOMAIN files}
    IN  IF Len(path) > 1 THEN Pass(ResolvePath(p.cwd, path))
        ELSE IF hits = {} THEN Fault("ENOENT")
        ELSE Pass(full(CHOOSE i \in hits : \A j \in hits : i <= j))

HeaderErrors == {"InvalidMagic", "InvalidClass", "InvalidEndian", "InvalidVersion",
                 "NotExecutable", "WrongMachine"}

\* KEY=VALUE strings; 61 is '='.
EnvironOf(envp) ==
    LET eq(s) == CHOOSE i \in DOMAIN s : s[i] = 61 /\ \A j \in 1 .. i - 1 : s[j] # 61
        pairs == SelectSeq(envp, LAMBDA s : \E i \in DOMAIN s : s[i] = 61)
        key(s) == SubSeq(s, 1, eq(s) - 1)
        last(k) == CHOOSE i \in DOMAIN pairs :
                       key(pairs[i]) = k /\ \A j \in i + 1 .. Len(pairs) : key(pairs[j]) # k
    IN  [k \in {key(pairs[i]) : i \in DOMAIN pairs} |->
            LET s == pairs[last(k)] IN SubSeq(s, eq(s) + 1, Len(s))]

Failing(p, err) == [p |-> p, ret |-> err]

\* Mistake: the environment is replaced before the file is looked at.
ExecveEarlyEnviron(p, files, call, memory) ==
    LET found == FindProgram(files, p, call.prog)
        q == [p EXCEPT !.environ = EnvironOf(call.envp)]
    IN  IF Faulted(ParseStrings(call.argv)) \/ Faulted(ParseStrings(call.envp))
        THEN Failing(p, "E2BIG")
        ELSE IF Faulted(found) \/ found.val \notin DOMAIN files THEN Failing(q, "ENOENT")
        ELSE [p |-> q, ret |-> "run"]

\* The steps in order, with their early returns.  replace_image builds the new
\* image aside, and fails (ENOMEM) without a trace; what comes after it, a
\* stack that is too small for the arguments, fails in the new image.
Execve(p, files, call, memory) ==
    LET found  == FindProgram(files, p, call.prog)
        f      == files[found.val]
        parsed == ParseElf(f.file)
        loaded == LoadElfSegments(parsed.val, f.file.data)
        args   == [argv |-> call.argv, envp |-> call.envp, path |-> f.spelling,
                   phdr |-> parsed.val.phdr, phnum |-> parsed.val.phnum,
                   entry |-> f.file.entry, uid |-> p.uid, gid |-> p.uid]
        stack  == SetupUserStack(args)
        q      == [p EXCEPT !.image = loaded.val, !.heap = CalculateHeapStart(parsed.val),
                            !.environ = EnvironOf(call.envp), !.stack = "empty", !.sp = StackSize]
    IN  IF Faulted(ParseStrings(call.argv)) \/ Faulted(ParseStrings(call.envp))
        THEN Failing(p, "E2BIG")
        ELSE IF Faulted(found) \/ found.val \notin DOMAIN files THEN Failing(p, "ENOENT")
        ELSE IF f.dir THEN Failing(p, "EISDIR")
        ELSE IF ~f.exec THEN Failing(p, "EACCES")
        ELSE IF Faulted(parsed)
        THEN Failing(p, IF parsed.err \in HeaderErrors THEN "ENOEXEC" ELSE "EINVAL")
        ELSE IF ~memory THEN Failing(p, "ENOMEM")
        ELSE IF Faulted(loaded) THEN Failing(p, "panic")
        ELSE IF Faulted(stack) THEN Failing(q, "E2BIG")
        ELSE [p |-> [q EXCEPT !.stack = args, !.sp = stack.val.sp], ret |-> "run"]

=============================================================================

---------------------------- MODULE AddressSpaces ----------------------------
(***************************************************************************)
(* The address spaces of the processes over one frame allocator: page      *)
(* faults, brk, mmap, fork, execve and the end of a process (main.rs,      *)
(* interrupts.rs and process.rs in kernel/src).  A call or a fault is one  *)
(* step, as in module Kernel, and any live process may be the one that     *)
(* runs.                                                                   *)
(*                                                                         *)
(* Two things are outside.  The kernel half, with it the kernel stack:     *)
(* `Fork' is what follows when fork_from gets past it.  And what happens   *)
(* once brk has given back a frame that another page table still maps: the *)
(* step that does so ends the behaviour with mode "dangling".              *)
(***************************************************************************)
EXTENDS PageTables

CONSTANTS
    KernelRanges, BootInfoFrames, L4Frames,     \* what the machine booted with
    HeapFrames,                 \* frames of the kernel heap
    Image,                      \* the pages of a program: <<page, writable>>
    HeapStart, HeapLimit,       \* bounds of the break, as pages
    MmapTop,                    \* where mmap starts to grow down from
    StackTop, StackPages,
    Touched,                    \* bound on the pages programs and kernel access
    MmapHints,                  \* bound on the addresses mmap is asked for
    MaxMmap,                    \* bound on the pages of one mmap
    MmapFloor,                  \* bound on how far the base goes down
    MaxProc                     \* bound on the processes created

ASSUME AddressSpacesAssumption ==
    /\ \A r \in KernelRanges : r.start \in Nat /\ r.end \in Nat
    /\ BootInfoFrames \cup L4Frames \subseteq Nat
    /\ Touched \subseteq Pages /\ MmapHints \subseteq Pages
    /\ HeapFrames \in Nat /\ MaxMmap \in Nat \ {0} /\ MaxProc \in Nat \ {0}
    /\ Image \in Seq(Pages \X BOOLEAN) /\ \A i \in DOMAIN Image : Image[i][1] < HeapStart
    /\ HeapStart \in Pages /\ HeapLimit \in HeapStart .. MaxPage
    /\ MmapTop \in Pages /\ MmapFloor \in Pages /\ StackPages \in Nat /\ StackTop \in StackPages .. MaxPage + 1

\* A frame has no more sharers than its count can show.
ASSUME SharersAssumption == MaxProc <= MaxRefcount

Procs == 1 .. MaxProc
Init1 == 1                      \* the first process, the one without a parent

VARIABLES
    fa,             \* FRAME_ALLOCATOR
    space,          \* of each process: page table, break and mmap base
    leaked,         \* frames that error paths dropped
    mode            \* "run", "panic", or "dangling"

memVars == <<fa, space, leaked, mode>>

\* life: "unborn", "live", "freed", or "lost": never freed, though the
\* process is gone.
Unborn == [life |-> "unborn", pt |-> NoTable, heap_end |-> 0, mmap_base |-> 0]

IsLive(p) == mode = "run" /\ space[p].life = "live"

\* What a step of process p works on.
Begin(p) == [fa |-> fa, pt |-> space[p].pt, leaked |-> leaked, res |-> "ok"]

Panicked(m) == m.res = "panic" \/ m.fa.fault

\* A step that left m behind for process p, which goes on as s.
Commit(m, p, s) ==
    /\ fa' = m.fa
    /\ leaked' = m.leaked
    /\ space' = [space EXCEPT ![p] = s]
    /\ mode' = IF Panicked(m) THEN "panic" ELSE "run"

-----------------------------------------------------------------------------
(* Boot: the reservations of init_from_bootloader, the heap, init.         *)

ReserveNext(a, r) == ReserveRange(a, r[1], r[2])

\* find_first_usable_frame is at least 1; frame 0 is reserved all the same.
BootReserved(k, b, l) ==
    FoldLeft(ReserveNext, NewAllocator,
             <<<<0, 1>>, <<k.start, k.end>>, <<b, b + 1>>, <<l, l + 1>>, <<l, l + 1>>>>)

HeapFrame(h, i) ==
    LET f == NextFree(h.fa)
    IN  IF f = NoFrame THEN [h EXCEPT !.fa.fault = TRUE]
        ELSE [fa |-> Take(h.fa, f), got |-> Append(h.got, f)]

ReserveFrame(a, f) == ReserveRange(a, f, f + 1)

\* The heap takes its frames and then reserves each of them.
MapHeap(a) ==
    LET h == FoldLeft(HeapFrame, [fa |-> a, got |-> <<>>], [i \in 1 .. HeapFrames |-> i])
    IN  FoldLeft(ReserveFrame, h.fa, h.got)

\* load_elf_segments and allocate_user_stack into a new page table.
LoadImage(m) ==
    MapPages(MapPages(m, Image), [i \in 1 .. StackPages |-> <<StackTop - i, TRUE>>])

\* Process::new and replace_image up to the point where either may fail.
NewImage(a, lk) ==
    LET m == CreateUserPageTable([fa |-> a, pt |-> NoTable, leaked |-> lk, res |-> "ok"])
    IN  IF m.res = "ok" THEN LoadImage(m) ELSE m

MemInit ==
    \E k \in KernelRanges, b \in BootInfoFrames, l \in L4Frames :
        LET m == NewImage(MapHeap(BootReserved(k, b, l)), {})
        IN  /\ fa = m.fa
            /\ leaked = m.leaked
            /\ space = [p \in Procs |->
                           IF p = Init1
                           THEN [life |-> "live", pt |-> m.pt, heap_end |-> HeapStart,
                                 mmap_base |-> MmapTop]
                           ELSE Unborn]
            /\ mode = IF m.res = "ok" /\ ~m.fa.fault THEN "run" ELSE "panic"

-----------------------------------------------------------------------------
(* Accesses, by the program and by the kernel on its behalf.               *)

Access(p, q, write) ==
    /\ IsLive(p)
    /\ LET m == UserAccess(Begin(p), q, write)
       IN  Commit(m, p, [space[p] EXCEPT !.pt = m.pt])

CopyToUser(p, q, write) ==
    /\ IsLive(p)
    /\ LET m == KernelAccess(Begin(p), q, write)
       IN  Commit(m, p, [space[p] EXCEPT !.pt = m.pt])

-----------------------------------------------------------------------------
(* brk and mmap.  Both clear a new page at the address that equals its     *)
(* physical address, which in a user page table is a page like any other.  *)

MapCleared(m, q, w) ==
    LET n == MapFresh(m, q, w)
    IN  IF n.res = "ok" THEN KernelAccess(n, n.pt.pte[q].frame, TRUE) ELSE n

ClearNext(m, s) == IF m.res = "ok" THEN MapCleared(m, s[1], s[2]) ELSE m

MapClearedPages(m, first, count, w) ==
    FoldLeft(ClearNext, m, [i \in 1 .. count |-> <<first + i - 1, w>>])

\* Mistake: the break goes up at once.
BrkGrowEager(p, end) ==
    /\ IsLive(p)
    /\ space[p].heap_end < end /\ end <= space[p].mmap_base
    /\ LET m == MapClearedPages(Begin(p), space[p].heap_end, end - space[p].heap_end, TRUE)
       IN  Commit(m, p, [space[p] EXCEPT !.pt = m.pt, !.heap_end = end])

\* The break goes up only when every page could be mapped.
BrkGrow(p, end) ==
    /\ IsLive(p)
    /\ space[p].heap_end < end /\ end <= space[p].mmap_base
    /\ LET m == MapClearedPages(Begin(p), space[p].heap_end, end - space[p].heap_end, TRUE)
       IN  Commit(m, p, [space[p] EXCEPT !.pt = m.pt,
                                         !.heap_end = IF m.res = "ok" THEN end ELSE @])

UnmapPage(pt, q) == [pt EXCEPT !.pte[q] = NoEntry]

\* unmap_page and deallocate_frame; a page that is not mapped is passed over.
ShrinkPage(m, q) ==
    IF IsMapped(m.pt, q)
    THEN [m EXCEPT !.fa = DeallocateFrame(@, m.pt.pte[q].frame), !.pt = UnmapPage(@, q)]
    ELSE m

\* Some page of another process or of the rest of this one maps f.  Once such
\* a frame is free it may become a page table or another page while it is
\* written through the old entry, and anything may follow: the behaviours of
\* this module end there, as they do at a panic.
MappedElsewhere(pt, p, f) ==
    \/ \E q \in Pages : pt.pte[q].frame = f
    \/ \E o \in Procs \ {p} : \E q \in Pages : space[o].pt.pte[q].frame = f

BrkShrink(p, end) ==
    /\ IsLive(p)
    /\ end < space[p].heap_end /\ end <= space[p].mmap_base
    /\ LET pages == [i \in 1 .. space[p].heap_end - end |-> end + i - 1]
           m == FoldLeft(ShrinkPage, Begin(p), pages)
           gone == {space[p].pt.pte[pages[i]].frame : i \in DOMAIN pages} \ {NoFrame}
       IN  /\ fa' = m.fa
           /\ space' = [space EXCEPT ![p].pt = m.pt, ![p].heap_end = end]
           /\ mode' = IF Panicked(m) THEN "panic"
                      ELSE IF \E f \in gone : MappedElsewhere(m.pt, p, f) THEN "dangling"
                      ELSE "run"
           /\ UNCHANGED leaked

\* Both outcomes of a break at or below the current one are above; a break
\* beyond the mmap base or out of range changes nothing.
SysBrk(p) == \E end \in HeapStart .. HeapLimit : BrkGrow(p, end) \/ BrkShrink(p, end)

\* addr is 0 (take what is below the base) or the address asked for.  The
\* base has moved even if the rest fails.
MmapAt(p, addr, n, w) ==
    LET base == IF addr = 0 THEN Max({space[p].mmap_base - n, 0}) ELSE space[p].mmap_base
        first == IF addr = 0 THEN base ELSE addr
        m == IF first < space[p].heap_end THEN Begin(p)
             ELSE MapClearedPages(Begin(p), first, n, w)
    IN  /\ first + n - 1 <= MaxPage /\ base >= MmapFloor
        /\ Commit(m, p, [space[p] EXCEPT !.pt = m.pt, !.mmap_base = base])

SysMmap(p) ==
    /\ IsLive(p)
    /\ \E addr \in {0} \cup MmapHints, n \in 1 .. MaxMmap, w \in BOOLEAN :
           MmapAt(p, addr, n, w)

-----------------------------------------------------------------------------
(* fork, execve and the end of a process.                                  *)

\* A clone that fails half way leaves its tables and its references behind.
SysFork(p, c) ==
    /\ IsLive(p) /\ space[c].life = "unborn"
    /\ \A o \in Procs : o < c => space[o].life # "unborn"
    /\ LET r == CloneUserAddressSpace(fa, leaked, space[p].pt)
           child == [space[p] EXCEPT !.pt = r.m.pt,
                                     !.life = IF r.m.res = "ok" THEN "live" ELSE "lost"]
       IN  /\ fa' = r.m.fa
           /\ leaked' = r.m.leaked
           /\ space' = [space EXCEPT ![p].pt = r.pt,
                                     ![c] = IF r.m.pt = NoTable THEN Unborn ELSE child]
           /\ mode' = "run"

\* The new image is complete before the old one goes; mmap_base stays.
SysExecve(p) ==
    /\ IsLive(p)
    /\ LET m == NewImage(fa, leaked)
           done == m.res = "ok"
           old == IF done THEN space[p].pt ELSE m.pt
           n == [m EXCEPT !.fa = IF old.l4 = NoFrame THEN @
                                 ELSE FreeProcessAddressSpace(@, old)]
       IN  Commit(n, p, IF done THEN [space[p] EXCEPT !.pt = m.pt, !.heap_end = HeapStart]
                        ELSE space[p])

\* exit frees the address space of a process without a parent.  One with a
\* parent becomes a zombie, which the scheduler drops (module Kernel).
SysExit(p) ==
    /\ IsLive(p)
    /\ LET m == IF p = Init1 THEN [Begin(p) EXCEPT !.fa = FreeProcessAddressSpace(@, space[p].pt)]
                ELSE Begin(p)
       IN  Commit(m, p, IF p = Init1 THEN [Unborn EXCEPT !.life = "freed"]
                        ELSE [space[p] EXCEPT !.life = "lost"])

\* A signal ends the process; nobody frees anything.
Signalled(p) ==
    /\ IsLive(p)
    /\ Commit(Begin(p), p, [space[p] EXCEPT !.life = "lost"])

MemNext ==
    \E p \in Procs :
        \/ \E q \in Touched, write \in BOOLEAN : Access(p, q, write) \/ CopyToUser(p, q, write)
        \/ SysBrk(p)
        \/ SysMmap(p)
        \/ \E c \in Procs : SysFork(p, c)
        \/ SysExecve(p)
        \/ SysExit(p)
        \/ Signalled(p)

MemSpec == MemInit /\ [][MemNext]_memVars

-----------------------------------------------------------------------------
(* Properties.                                                             *)

\* Types of the allocator, the page tables and the bounds kept beside them.
MemTypeOK ==
    /\ fa \in AllocatorType /\ Len(fa.regions) <= MaxRegions
    /\ space \in [Procs -> [life : {"unborn", "live", "freed", "lost"}, pt : PageTableType,
                            heap_end : Pages, mmap_base : Pages]]
    /\ leaked \subseteq Frames
    /\ mode \in {"run", "panic", "dangling"}

\* The search of allocate_frame may start at its hint: every frame below it is
\* in use or reserved.  And the bitmap agrees with the counts, which change
\* in different functions.  After boot the reserved regions are apart from
\* each other, so that a reservation is one region and their table does not
\* fill up.
AllocatorSound ==
    /\ MemTypeOK
    /\ \A f \in FirstFrame .. fa.next - 1 : ~Available(fa, f)
    /\ fa.used = {f \in Frames : fa.refs[f] > 0}
    /\ MergePairs(fa.regions) = {}

MappingsOf(f) == {x \in Procs \X Pages : space[x[1]].pt.pte[x[2]].frame = f}
TablesAt(f) ==
    {p \in Procs : space[p].pt.l4 = f}
    \cup {x \in Procs \X Tables : space[x[1]].pt.table[x[2]] = f}

\* The count of a frame is the number of page table entries for it, over
\* fork, copy on write, brk, execve and exit; a frame of a page table or one
\* an error path dropped counts once and is nothing else.  So no frame that
\* is in use is handed out again; a frame an error path dropped is never freed,
\* and the property only says that it stays out of use.  Nothing a process has
\* lies in a reserved frame: the kernel image, the boot page table and the heap
\* stay out of reach.
FramesAccounted ==
    \A f \in Frames :
        /\ IsReserved(fa, f) => MappingsOf(f) = {} /\ TablesAt(f) = {}
        /\ ~IsReserved(fa, f) /\ mode # "dangling" =>
                fa.refs[f] = Cardinality(MappingsOf(f)) + Cardinality(TablesAt(f))
                             + (IF f \in leaked THEN 1 ELSE 0)

\* A page a program can write without a fault is its own: no other entry of
\* any process, live or gone, leads to the frame (the promise of copy on
\* write in clone_user_address_space and handle_cow_fault).
WritableIsPrivate ==
    mode # "dangling" =>
        \A p \in Procs, q \in Pages :
            space[p].pt.pte[q].writable =>
                MappingsOf(space[p].pt.pte[q].frame) = {<<p, q>>}

\* Whatever the break of a live process covers is mapped: brk reports success
\* only for memory that is there, and execve starts from an empty heap.
HeapBacked ==
    \A p \in Procs :
        space[p].life = "live" /\ mode = "run" =>
            \A q \in HeapStart .. space[p].heap_end - 1 : IsMapped(space[p].pt, q)

\* A frame given back is in nobody's page table.  deallocate_frame ignores the
\* count, and brk calls it for pages that fork may have shared.
NoDanglingFrame == mode # "dangling"
=============================================================================

----------------------------- MODULE PageTables -----------------------------
(***************************************************************************)
(* The user half of a page table (kernel/src/paging.rs).  The three levels *)
(* below the level-4 table behave alike (a missing table is allocated,     *)
(* which may fail) and are one level here: a table frame for each group of *)
(* PagesPerTable pages.  The kernel half is not in this module.            *)
(*                                                                         *)
(* Code that maps pages one by one works on a record m: the allocator fa,  *)
(* the page table pt, the frames no table and no count will ever give back *)
(* (leaked, bookkeeping only), and res: "ok", "nomem" for an Err, "panic". *)
(***************************************************************************)
EXTENDS FrameAllocator

CONSTANTS
    MaxPage,        \* the last user page
    PagesPerTable

ASSUME PagesAssumption ==
    /\ PagesPerTable \in Nat \ {0}
    /\ MaxPage \in Nat /\ EndFrame <= MaxPage + 1

Pages == 0 .. MaxPage
LastTable == MaxPage \div PagesPerTable
Tables == 0 .. LastTable
TableOf(q) == q \div PagesPerTable

Entry(f, w, c) == [frame |-> f, writable |-> w, cow |-> c]
NoEntry == Entry(NoFrame, FALSE, FALSE)
FrameOrNone == Frames \cup {NoFrame}

PageTableType ==
    [l4 : FrameOrNone, table : [Tables -> FrameOrNone],
     pte : [Pages -> [frame : FrameOrNone, writable : BOOLEAN, cow : BOOLEAN]]]

EmptyTable(f) ==
    [l4 |-> f, table |-> [t \in Tables |-> NoFrame], pte |-> [q \in Pages |-> NoEntry]]

NoTable == EmptyTable(NoFrame)

IsMapped(pt, q) == pt.pte[q].frame # NoFrame

-----------------------------------------------------------------------------
(* Allocating and mapping.                                                 *)

CreateUserPageTable(m) ==
    LET f == NextFree(m.fa)
    IN  IF f = NoFrame THEN [m EXCEPT !.res = "nomem"]
        ELSE [m EXCEPT !.fa = Take(@, f), !.pt = EmptyTable(f)]

\* The table for page q, allocated if it is missing.
EnsureTable(m, t) ==
    LET f == NextFree(m.fa)
    IN  IF m.pt.table[t] # NoFrame THEN m
        ELSE IF f = NoFrame THEN [m EXCEPT !.res = "nomem"]
        ELSE [m EXCEPT !.fa = Take(@, f), !.pt.table[t] = f]

\* A second mapping of the page is a panic unless it is to the same frame.
MapPage(m, q, f, w) ==
    LET n == EnsureTable(m, TableOf(q))
    IN  IF n.res # "ok" THEN n
        ELSE IF IsMapped(n.pt, q) /\ n.pt.pte[q].frame # f
        THEN [n EXCEPT !.res = "panic"]
        ELSE [n EXCEPT !.pt.pte[q] = Entry(f, w, FALSE)]

\* A fresh frame for page q.  When map_page fails nobody gives it back.
MapFresh(m, q, w) ==
    LET f == NextFree(m.fa)
        n == MapPage([m EXCEPT !.fa = Take(@, f)], q, f, w)
    IN  IF f = NoFrame THEN [m EXCEPT !.res = "nomem"]
        ELSE IF n.res = "ok" THEN n
        ELSE [n EXCEPT !.leaked = @ \cup {f}]

\* Page s[1], writable if s[2], unless an earlier page failed.
MapNext(m, s) == IF m.res = "ok" THEN MapFresh(m, s[1], s[2]) ELSE m

MapPages(m, pages) == FoldLeft(MapNext, m, pages)

-----------------------------------------------------------------------------
(* Page faults (kernel/src/interrupts.rs).  Demand paging takes any user   *)
(* address: no process has a vm_region.                                    *)

OrPanic(m) == IF m.res = "nomem" THEN [m EXCEPT !.res = "panic"] ELSE m

DemandPage(m, q) == OrPanic(MapFresh(m, q, TRUE))

\* Mistake: the page is made writable where it is.
CowInPlace(m, q) ==
    [m EXCEPT !.pt.pte[q] = Entry(@.frame, TRUE, FALSE)]

\* Mistake: the reference to the old frame is kept.
CowKeepOld(m, q) ==
    LET f == NextFree(m.fa)
    IN  IF f = NoFrame THEN [m EXCEPT !.res = "panic"]
        ELSE [m EXCEPT !.fa = Take(@, f), !.pt.pte[q] = Entry(f, TRUE, FALSE)]

\* A copy, whoever else still has the old frame.
CowFault(m, q) ==
    LET f == NextFree(m.fa)
    IN  IF ~m.pt.pte[q].cow \/ f = NoFrame THEN [m EXCEPT !.res = "panic"]
        ELSE [m EXCEPT !.fa = DecRefcount(Take(@, f), m.pt.pte[q].frame),
                       !.pt.pte[q] = Entry(f, TRUE, FALSE)]

\* The program reads or writes page q.
UserAccess(m, q, write) ==
    CASE ~IsMapped(m.pt, q) -> DemandPage(m, q)
      [] IsMapped(m.pt, q) /\ write /\ ~m.pt.pte[q].writable -> CowFault(m, q)
      [] OTHER -> m

\* The kernel does, on a pointer of the program: no copy on write here.
KernelAccess(m, q, write) ==
    CASE ~IsMapped(m.pt, q) -> DemandPage(m, q)
      [] IsMapped(m.pt, q) /\ write /\ ~m.pt.pte[q].writable -> [m EXCEPT !.res = "panic"]
      [] OTHER -> m

-----------------------------------------------------------------------------
(* Whole address spaces.                                                   *)

\* A page loses a reference; a table, which nobody shares, is freed, after the
\* last page in it.  x holds their frames.
DropPage(a, f) == IF f = NoFrame THEN a ELSE DecRefcount(a, f)
DropTable(a, f) == IF f = NoFrame THEN a ELSE DeallocateFrame(a, f)
DropNext(a, x) == DropTable(DropPage(a, x[1]), x[2])

LastOfTable(q) == \A r \in Pages : TableOf(r) = TableOf(q) => r <= q

FreeProcessAddressSpace(fa, pt) ==
    LET frames == [i \in 1 .. MaxPage + 1 |->
                      <<pt.pte[i - 1].frame,
                        IF LastOfTable(i - 1) THEN pt.table[TableOf(i - 1)] ELSE NoFrame>>]
    IN  DeallocateFrame(FoldLeft(DropNext, fa, frames), pt.l4)

\* The entry parent and child have after a fork.
SharedEntry(e) ==
    IF e.writable THEN Entry(e.frame, FALSE, TRUE) ELSE e

\* m is of the child, c adds the parent's page table.  The child gets a table
\* for every table of the parent, before the first page in it is shared.
ClonePage(c, q) ==
    LET n == EnsureTable(c.m, TableOf(q))
        e == SharedEntry(c.pt.pte[q])
    IN  IF c.m.res # "ok" \/ c.pt.table[TableOf(q)] = NoFrame THEN c
        ELSE IF n.res # "ok" \/ ~IsMapped(c.pt, q) THEN [c EXCEPT !.m = n]
        ELSE [pt |-> [c.pt EXCEPT !.pte[q] = e],
              m  |-> [n EXCEPT !.pt.pte[q] = e, !.fa = IncRefcount(@, e.frame)]]

\* clone_user_address_space of a parent pt, from the allocator fa.
CloneUserAddressSpace(fa, leaked, pt) ==
    LET m == CreateUserPageTable([fa |-> fa, pt |-> NoTable, leaked |-> leaked, res |-> "ok"])
    IN  FoldLeft(ClonePage, [m |-> m, pt |-> pt], [i \in 1 .. MaxPage + 1 |-> i - 1])
=============================================================================

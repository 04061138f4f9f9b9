---------------------------- MODULE Descriptors ----------------------------
(***************************************************************************)
(* The pipe pool (kernel/src/pipe.rs), the descriptor tables of the        *)
(* processes (kernel/src/fs.rs) and the calls that change either: pipe,    *)
(* dup2, close, open, read, write, fork and exit.  A call is one step, as  *)
(* in module Kernel, and any live process may be the one that runs.        *)
(*                                                                         *)
(* The counts of a pipe are meant to be the number of descriptors for it.  *)
(* `lost' counts, for each end, the opens that no descriptor accounts for  *)
(* any more; it is bookkeeping, no step reads it.                          *)
(*                                                                         *)
(* "File" stands for the eight kinds of descriptor that are no pipe ends.  *)
(* Calls that only return an error are left out.                           *)
(***************************************************************************)
EXTENDS Pipe, FiniteSets

CONSTANTS
    MaxPipes,       \* MAX_PIPES
    MaxFds,         \* MAX_FDS
    FirstFd,        \* FIRST_NONSTD_FD
    MaxProc         \* bound on the processes created

ASSUME DescriptorsAssumption ==
    /\ MaxPipes \in Nat \ {0} /\ MaxProc \in Nat \ {0}
    /\ MaxFds \in Nat /\ FirstFd \in 0 .. MaxFds

Ids == 0 .. MaxPipes - 1
Fds == 0 .. MaxFds - 1
Procs == 1 .. MaxProc

NoFd == [kind |-> "None", id |-> 0]
File == [kind |-> "File", id |-> 0]
ReadEnd(i) == [kind |-> "PipeRead", id |-> i]
WriteEnd(i) == [kind |-> "PipeWrite", id |-> i]
PipeEnds == {ReadEnd(i) : i \in Ids} \cup {WriteEnd(i) : i \in Ids}
Entries == {NoFd, File} \cup PipeEnds

VARIABLES
    pool,           \* PIPE_POOL
    table,          \* fd_table of each process
    life,           \* "unborn", "alive" or "gone"
    lost            \* opens without a descriptor, by pipe end

ioVars == <<pool, table, life, lost>>

EmptyTable == [fd \in Fds |-> NoFd]

LeastOf(S) == CHOOSE x \in S : \A y \in S : x <= y

-----------------------------------------------------------------------------
(* The pool behind a descriptor e.                                         *)

\* PipePool::get finds the pipe; what is no pipe end needs no pipe.
Found(pl, e) == e \in PipeEnds => IsAllocated(pl[e.id])

\* Mistake: a duplicate does not count.
OpenedUncounted(pl, e) == pl

Opened(pl, e) ==
    IF e \notin PipeEnds \/ ~Found(pl, e) THEN pl
    ELSE [pl EXCEPT ![e.id] = IF e = ReadEnd(e.id) THEN OpenRead(@) ELSE OpenWrite(@)]

Closed(pl, e) ==
    IF e \notin PipeEnds \/ ~Found(pl, e) THEN pl
    ELSE [pl EXCEPT ![e.id] = IF e = ReadEnd(e.id) THEN CloseRead(@) ELSE CloseWrite(@)]

FreeFds(p) == {fd \in Fds : fd >= FirstFd /\ table[p][fd] = NoFd}

-----------------------------------------------------------------------------
(* Calls.                                                                  *)

IoInit ==
    /\ pool = [i \in Ids |-> NewPipe]
    /\ table = [p \in Procs |-> EmptyTable]
    /\ life = [p \in Procs |-> IF p = 1 THEN "alive" ELSE "unborn"]
    /\ lost = [e \in PipeEnds |-> 0]

\* The pipe is created before the descriptors: with no free descriptor both
\* ends are lost, with one free descriptor the write end.  The numbers are
\* copied to the program last, a failure there changes nothing.
SysPipe(p) ==
    LET free == {i \in Ids : ~IsAllocated(pool[i])}
        i    == LeastOf(free)
        rfd  == LeastOf(FreeFds(p))
        wfd  == LeastOf(FreeFds(p) \ {rfd})
        n    == Cardinality(FreeFds(p))
    IN  /\ life[p] = "alive"
        /\ free # {}
        /\ pool' = [pool EXCEPT ![i] = Allocate(@)]
        /\ table' = [table EXCEPT ![p] =
                        CASE n = 0 -> @
                          [] n = 1 -> [@ EXCEPT ![rfd] = ReadEnd(i)]
                          [] n > 1 -> [@ EXCEPT ![rfd] = ReadEnd(i), ![wfd] = WriteEnd(i)]]
        /\ lost' = [lost EXCEPT ![ReadEnd(i)] = @ + (IF n = 0 THEN 1 ELSE 0),
                                ![WriteEnd(i)] = @ + (IF n < 2 THEN 1 ELSE 0)]
        /\ UNCHANGED life

\* The target is closed first, unless it is a standard descriptor, which is
\* overwritten as it is; then the old entry's end is opened again.  With
\* oldfd = newfd and one end left, the close ends the pipe and the open fails.
SysDup2(p, oldfd, newfd) ==
    LET e      == table[p][oldfd]
        target == table[p][newfd]
        closes == newfd >= FirstFd /\ target # NoFd
        pool1  == IF closes THEN Closed(pool, target) ELSE pool
        ok     == (closes => Found(pool, target)) /\ Found(pool1, e)
    IN  /\ life[p] = "alive"
        /\ oldfd >= FirstFd
        /\ e # NoFd
        /\ e \in PipeEnds => pool[e.id].readers + pool[e.id].writers < MaxEnds
        /\ pool' = IF ok THEN Opened(pool1, e) ELSE pool1
        /\ table' = [table EXCEPT ![p][newfd] =
                        IF ok THEN e ELSE IF closes THEN NoFd ELSE @]
        /\ lost' = IF ok /\ newfd < FirstFd /\ target \in PipeEnds
                   THEN [lost EXCEPT ![target] = @ + 1] ELSE lost
        /\ UNCHANGED life

\* The entry is taken out before the pipe is looked up.
SysClose(p, fd) ==
    /\ life[p] = "alive"
    /\ fd >= FirstFd
    /\ table[p][fd] # NoFd
    /\ table' = [table EXCEPT ![p][fd] = NoFd]
    /\ pool' = Closed(pool, table[p][fd])
    /\ UNCHANGED <<life, lost>>

SysOpen(p) ==
    /\ life[p] = "alive"
    /\ FreeFds(p) # {}
    /\ table' = [table EXCEPT ![p][LeastOf(FreeFds(p))] = File]
    /\ UNCHANGED <<pool, life, lost>>

\* The bytes leave the ring before they are copied to the program, and are
\* gone when that copy fails.
SysRead(p, fd, n) ==
    LET e == table[p][fd]
    IN  /\ life[p] = "alive"
        /\ fd >= FirstFd
        /\ e \in {ReadEnd(i) : i \in Ids}
        /\ Found(pool, e) /\ ~IsEmpty(pool[e.id])
        /\ pool' = [pool EXCEPT ![e.id] = Read(@, n)]
        /\ UNCHANGED <<table, life, lost>>

SysWrite(p, fd, data) ==
    LET e == table[p][fd]
    IN  /\ life[p] = "alive"
        /\ fd >= FirstFd
        /\ e \in {WriteEnd(i) : i \in Ids}
        /\ Found(pool, e) /\ CanWrite(pool[e.id])
        /\ pool' = [pool EXCEPT ![e.id] = Write(@, data)]
        /\ UNCHANGED <<table, life, lost>>

\* How many descriptors of table t, numbered below fd, are for end e.
CountBelow(t, fd, e) == Cardinality({f \in Fds : f < fd /\ t[f] = e})

\* fork_copy opens the parent's ends one by one, standard descriptors
\* included, and gives up at the first pipe it does not find.
SysFork(p, child) ==
    LET bad   == {fd \in Fds : ~Found(pool, table[p][fd])}
        upTo  == IF bad = {} THEN MaxFds ELSE LeastOf(bad)
    IN  /\ life[p] = "alive"
        /\ life[child] = "unborn"
        /\ pool' = [i \in Ids |->
               [pool[i] EXCEPT !.readers = @ + CountBelow(table[p], upTo, ReadEnd(i)),
                               !.writers = @ + CountBelow(table[p], upTo, WriteEnd(i))]]
        /\ IF bad = {}
           THEN /\ table' = [table EXCEPT ![child] = table[p]]
                /\ life' = [life EXCEPT ![child] = "alive"]
           ELSE UNCHANGED <<table, life>>
        /\ UNCHANGED lost

\* Neither exit nor a fatal signal closes descriptors: the table goes with
\* the process.
SysExit(p) ==
    /\ life[p] = "alive"
    /\ life' = [life EXCEPT ![p] = "gone"]
    /\ table' = [table EXCEPT ![p] = EmptyTable]
    /\ lost' = [e \in PipeEnds |-> lost[e] + CountBelow(table[p], MaxFds, e)]
    /\ UNCHANGED pool

IoNext ==
    \E p \in Procs :
        \/ SysPipe(p)
        \/ \E oldfd, newfd \in Fds : SysDup2(p, oldfd, newfd)
        \/ \E fd \in Fds : SysClose(p, fd)
        \/ SysOpen(p)
        \/ \E fd \in Fds, n \in 1 .. BufferSize : SysRead(p, fd, n)
        \/ \E fd \in Fds, data \in Data : SysWrite(p, fd, data)
        \/ \E child \in Procs : SysFork(p, child)
        \/ SysExit(p)

IoSpec == IoInit /\ [][IoNext]_ioVars

-----------------------------------------------------------------------------

\* Types of the pool, the descriptor tables and what is kept beside them.
IoTypeOK ==
    /\ pool \in [Ids -> PipeType]
    /\ table \in [Procs -> [Fds -> Entries]]
    /\ life \in [Procs -> {"unborn", "alive", "gone"}]
    /\ lost \in [PipeEnds -> Nat]

Holders(e) == {h \in Procs \X Fds : table[h[1]][h[2]] = e}

EndCount(e) ==
    IF e = ReadEnd(e.id) THEN pool[e.id].readers ELSE pool[e.id].writers

\* Every open of a pipe end has its descriptor or is one of the lost: through
\* any sequence of pipe, dup2, close, fork and exit the counts of a pipe are
\* never too low, so that no pipe in use is freed, handed out again, or shows
\* end of file or EPIPE to a process whose peer still holds the other end;
\* and they are too high only by what SysPipe, SysDup2 and SysExit lose.
EndsAccounted ==
    /\ IoTypeOK
    /\ \A e \in PipeEnds : EndCount(e) = Cardinality(Holders(e)) + lost[e]

=============================================================================

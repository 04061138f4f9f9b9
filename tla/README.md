# PandaOS in TLA+

PandaOS is a single-CPU x86-64 kernel in Rust with assembly user programs.
This directory holds its specification: modules translated from the source
under `src/kernel/src` and `src/hal/src`, TLC configurations that check them on
small instances, and TLAPS proofs for every instance. Paths below are relative
to `src/kernel/src` unless they start with `src/`.

## 1. The system

| Part | State | Operations that change it |
|---|---|---|
| Process (`process.rs`) | run state, wait state, pgid, parent, pending signals, image, break, mmap base, descriptors | `send_signal`, `deliver_signals`, `resume`, `wake`, `block`, `set_zombie`, `set_exited`, `fork_from`, `replace_image` |
| Scheduler (`scheduler.rs`) | ready queue, current slot | `add_process`, `schedule_next`, `wake_waiters_for_child`, `find_zombie_child`, `find_stopped_child`, `signal_process_group` |
| Process system calls (`main.rs`, `syscall.rs`) | `SCHEDULER`, `NEXT_PID` | yield, getpid, fork, execve, waitpid, exit, kill, setpgid |
| Trap path (`usermode.rs`, `context.rs`) | registers, CR3, `CURRENT_CONTEXT_PTR` | `syscall_entry`, `check_and_handle_preemption`, `switch_to_user`, `switch_to_user_with_reap` |
| Timer (`timer.rs`, `interrupts.rs`, `main.rs`) | `NEED_RESCHED` | `timer_tick_handler` |
| Paging (`paging.rs`, `page_table_tracker.rs`) | four-level tables, per process | `create_user_page_table`, `map_page`, `unmap_page`, `clone_user_address_space`, `allocate_kernel_stack`, `free_process_address_space` |
| Frames (`memory.rs`, `src/hal/src/memory.rs`) | regions, free list, reference counts | `allocate_frame`, `deallocate_frame`, `inc_refcount`, `dec_refcount`, `reserve_range` |
| Page faults (`interrupts.rs`) | page tables, reference counts | demand paging, copy on write |
| brk, mmap (`main.rs`) | break, mmap base, page tables | the two handlers, page by page |
| Pipes (`pipe.rs`) | 16 slots of buffer, reader and writer count | create, open and close of an end, read, write |
| Descriptors and VFS (`fs.rs`, `main.rs`) | 16 entries a process, writable overlay, modes, owners | open, close, read, write, dup2, fork copy, lseek, getdents64, chdir, chmod, chown, setuid, setgid |
| TTY and keyboard (`tty.rs`, `input/ps2.rs`, `src/hal/src/ringbuffer.rs`) | scancode ring, current line, ready lines | keyboard interrupt, line editing, read |
| tmpfs at /tmp (`mount.rs`, `tmpfs.rs`) | nodes, modes, next inode number | create, mkdir, unlink, rmdir, rename, write, truncate, chmod |
| homefs (`homefs.rs`; so far used by its tests only) | superblock, bitmaps, inodes, blocks, on disk and cached | create, mkdir, write, unlink, rmdir, rename, truncate, chmod |
| Disk file system at /mnt, FAT32 (`diskfs.rs`, `fat32.rs`) | none, read-only | lookup, list, read |
| Program loading (`elf.rs`, `exec_stack.rs`) | none | pure checks and layouts |
| Network (`net/`) | ARP table, DNS state, virtio rings | send, receive, resolve |
| Boot (`boot_*.rs`, `selfcheck.rs`, `invariants.rs`) | phase | one sequential pass |

How they interact. A program traps through `syscall_entry`; the handler in
`main.rs` works on `SCHEDULER` and returns, or leaves through `switch_to_user`
and never returns. SFMASK clears the interrupt flag, so nothing interleaves
with a handler. The timer interrupts user mode only and raises `NEED_RESCHED`;
the end of the next call that returns consumes it by yielding. What makes the
kernel hard is therefore not preemption inside a handler. It is the order in
which whole calls of different processes follow each other, what is true after
a call that left half way, signals that wait for their process to leave the
CPU, and results stored after a switch may have happened.

## 2. Modules

| Module | What it is |
|---|---|
| `Process` | one process control block and its methods |
| `Scheduler` | the scheduler's methods as operators on a record of process table, queue and slot |
| `Kernel` | the handlers as operators to an outcome, the trap that follows, one action per call, the timer |
| `KernelProperties` | the invariants and action properties of `Kernel` |
| `Lifecycle`, `KernelRefinement` | the abstract life cycle, and the mapping under which `Kernel` implements it |
| `Preemption` | `Kernel` with fairness, and the liveness properties |
| `TrapReturn` | `Kernel` with the result register of every process |
| `SchedulerProofs`, `KernelProofs`, `TrapProofs` | the TLAPS proofs of the invariants of `Scheduler`, `Kernel` and `TrapReturn` |
| `StepProofs` | the TLAPS proofs of what a step does to the processes that do not make it: wake-ups, queue order, life cycle |
| `Pipe` | the pipe pool and its ring buffers, as operators on a record |
| `Channel`, `PipeRing` | the bounded first-in first-out channel, and one pipe slot shown to implement it |
| `PipeProofs`, `Induction` | the TLAPS proofs of that for every buffer size, and of the counts of pipe ends for every number of processes |
| `Descriptors` | descriptor tables of processes over the pipe pool: pipe, open, close, dup2, read, write, fork, exit |
| `FrameAllocator` | reserved regions, bitmap, search hint and reference counts of physical frames |
| `PageTables` | the user half of a page table: map, fault, copy on write, clone, free |
| `AddressSpaces` | boot reservations and processes with page tables: accesses, brk, mmap, fork, execve, exit, signal |
| `Paths` | path normalisation, mount points, permission bits |
| `Tmpfs` | the operations of tmpfs as operators on a record |
| `Files` | the file calls of processes over descriptors, built-in files, disk and tmpfs |
| `HomeFs` | the writable disk file system, one step per sector write, with crashes and failing writes |
| `Keyboard` | scancode ring and decoding |
| `Terminal` | keyboard interrupt, line discipline, the polling loop of read |
| `BlockFiles`, `Fat32`, `DiskFs` | sectors and the copy loop; the two read-only disk formats |
| `ExecImage` | ELF segments, argument limits, the first stack, the order of execve |
| `Loaders` | the algorithms of the last five modules run on their inputs, and what they must compute |
| `MCPipes` | `Descriptors` with the ring of one slot watched as `PipeRing` describes it |
| `MCKernel`, `MCAddressSpaces`, `MCFiles`, `MCTerminal`, `MCLoaders` | constants for TLC |

State and code. `sched.proc[p]` is the `Process` value, `sched.queue` the
`VecDeque`, `sched.current` the `Option<Process>` of the slot. Rust moves a
`Process` between the two; the model moves its pid. When the scheduler drops a
process its record keeps how it ended and who its parent was, which no handler
reads. `cpu` says whose registers and CR3 are loaded, which differs from the
slot once the slot is empty. `space` is the life of each page table.

A handler is an operator that yields an outcome: it returned, it called
`yield_handler` which found nobody and came back with the slot emptied, or it
left through `switch_to_user`. `Trap` adds what follows in the same step: the
preemption check and the return. So each action is the whole call.

Descriptors and memory are modelled beside the scheduler, each with its own
processes: which process runs next does not matter to them, so any process may
make the next call. In `Descriptors` a table is a sequence of entries as in
`fs.rs`, and `lost` counts the ends that error paths and exit drop. In
`PageTables` the three levels below the level-4 table are one, since each does
the same (a missing table is allocated, which may fail). Code that maps pages
one by one is a fold that stops at the first failure. `leaked` and the life
"lost" keep the frames nobody will free, so that the accounting can be exact. A
step that frees a frame another entry still maps ends the behaviour (`mode` is
"dangling"), because the frame may then become a page table and be written as a
page.

`Files` is one record of everything the calls share (`world`) and one operator
per handler from a world to an answer, a new world with an errno; an action is
one call of one process. A byte is the number of the process that wrote it, so
that a property can say whose bytes are where. `HomeFs` plans a call as the
sequence of its sector writes, each with the device and the cache after it and
with what the caller gives back should it fail; a step performs the next one,
lets it fail, or stops the machine and opens the device again. In `Terminal` a
waiting read is a step that polls: no interrupt happens between two polls, as in
the code. `Loaders` computes one answer per behaviour, except that files are read
piece by piece through a descriptor. Its properties are written from the
formats, not from the loops: which names of a path survive, what a chain of the
FAT is, what bytes a program must find at which address.

Two places are nondeterministic because the code leaves them open.

* Returning through an emptied slot. `CURRENT_CONTEXT_PTR` points into the
  slot that `Option::take` emptied, and what the bytes then hold is
  unspecified. The model lets the CPU go on with the process that trapped, or
  crash.
* `fork_from`. It clones the address space, maps a kernel stack and copies the
  descriptors, and may succeed, fail or panic in `map_page`. `Kernel` allows
  all three. Read with `paging.rs`, the panic is the rule:
  `create_user_page_table` copies the upper half of the level-4 table of the
  running process, so the child's kernel stack pages are already mapped when
  `allocate_kernel_stack` maps them to other frames. A panicking step ends the
  behaviour, so the successful branch only adds behaviours, and every safety
  result covers the real system. Where a finding needs a successful fork it
  describes the process code as it stands, under that assumption.

## 3. Runs

| Run | Shows |
|---|---|
| `kernel` | three processes, every process call, a tick anywhere: scheduler consistency, the CPU on the current process and its live table, fresh pids, no idle CPU with work, nobody leaves but the ended, nobody is overtaken, wake-ups have a cause, every trap is a step of the life cycle; under fairness a runnable process gets the CPU and SIGINT ends its target |
| `pipes` | two processes whose descriptors share a slot: the ring, wrap-around and reuse of the slot included, implements the channel, and reader and writer counts are the descriptors that hold the ends, plus exactly the ends that pipe, dup2 and exit lose |
| `address_spaces` | the allocator's hint is sound, reserved regions stay apart and untouched, reference counts are the page table entries, writable pages are private, the break is backed |
| `files` | in tmpfs every entry leads to a node and every node but the root has one name, a descriptor never reaches a file made after its own was removed, writes to tmpfs files stay in range and appends keep what is there, a failed call other than open leaves no trace but the offset of a read that could not be copied out, a listing misses nothing unless a name is removed |
| `homefs` | with a crash or failure at any sector write: as long as the root directory has its block, names lead to inodes and no two inodes share a block when only creations and writes were cut short, and without faults each inode in use has one name; the cache equals the disk between calls; the free counts drift only by faults |
| `terminal` | lines are read in order and whole, at most one completed line waits for a reader, the ring keeps the newest scancodes, control follows its key unless a scancode was lost, a serial line reaches the reader |
| `loaders` | each algorithm from path to program equals its definition on every small input, and an execve that fails before the image is replaced changes nothing |

Violation runs, one for each documented statement TLC refutes:

| Run | Statement | What happens |
|---|---|---|
| `brk_frees_shared` | frames are freed when their count reaches 0 | a shrinking break calls `deallocate_frame`, which ignores the count, on pages fork has shared |
| `keyed_line` | the kernel polls serial port and keyboard | read polls with interrupts off, and only the keyboard interrupt moves scancodes to where it looks: a line typed while a process waits is not read |
| `fork_result` | fork returns the child's pid in the parent (`PROCESS_LIFECYCLE.md:22-24`) | a preemption due at the end of the fork switches before the result is stored, and the parent goes on with the 0 in its saved context |
| `zombies` | a process that has ended remains in the scheduler until its parent calls waitpid (`PROCESS_LIFECYCLE.md:8`, `:85`) | the `schedule_next` of exit drops the zombie that exit has just made, so waitpid never finds one |
| `root_block` | the first data block is marked as used, for the root directory (`homefs.rs:166`) | bit 0 is marked and the root has block 35, which the allocator gives to a file once the blocks before it are used |

Bounds. `MaxPid` bounds the pids ever handed out: three is the first number for
which a blocked and a runnable process queue behind a running one, the case the
rotation of `schedule_next` is about. The signals sent are SIGINT and SIGTSTP,
the option words 0 and WUNTRACED, and `setpgid` is called with group 0 only, which
leaves every process in the group `fork` gave it. Other signals, words and groups
are left to the proofs, which cover every set of them. In `pipes` the ring has two
bytes, the smallest in which the positions wrap separately, and three descriptors,
of which one is a standard one, let a pipe call find the table with two, one and no
free entries; `MaxEnds` bounds the ends counted. The machine of `address_spaces` has ten frames, of
which boot takes two or more: a process needs four, a fork two, a copy one, so
each operation runs out of memory at each of its allocations in some behaviour,
and an execve succeeds when nothing else is mapped or the parent has freed its
frames. `Touched`, `MmapHints`, `MmapFloor` and `MaxMmap` bound the addresses.
The two kernel ranges make the boot reservations merge in both ways.
`CHECK_DEADLOCK FALSE` is set in the process and memory runs because the machine
really stops: exit of the last runnable process halts it, and panics end it.

A behaviour of `files` belongs to one of the sessions of `MCFiles`: a set of
calls with the paths, flags and modes they use and a bound on their number.
Sessions keep apart what does not interact (names, bytes, rights, listings) and
reach four to six calls, enough to open, fork, unlink, create again and use the
old descriptor. Two descriptors and a buffer of two bytes let a table fill up
and a call be cut short. `homefs` makes four calls and has one
crash or failed write among them, on a device of three inodes, seven blocks of which
six can be given out, the root's among them as in the code, two blocks to an inode
and two entries to a directory block: directories grow, inodes and direct pointers
run out, and the root's block is given out. `rootTaken` records that it was; what is
in the root directory then is a file's data, and the properties of names and blocks
claim nothing. `root_block` shows the step itself, on a smaller device.
In `terminal` the ring has three slots and a line two characters, so that both
overflow. `loaders` scales the formats down (a sector of a few units, a page of
a few bytes) where the code's arithmetic has the size as a parameter, and keeps
the words of the stack at eight bytes. The two file system runs, `terminal` and
`loaders` check for deadlock; a stuttering step stands for the end of the bound.

Fairness. `Preemption` assumes that the timer keeps ticking (`WF` of the tick)
and that the programs keep making calls (`KeepsCalling`): `NEED_RESCHED` does not
stay up for ever while the scheduler stays as it is. This is an assumption on
programs. The kernel preempts at the end of a call only, as
`PREEMPTIVE_MULTITASKING_IMPLEMENTATION.md:147` says, and a program that only
execs leaves through `switch_to_user` without the preemption check, so it keeps the
CPU; `KeepsCalling` leaves such programs out, not the calls. SIGCONT is left out of
the run: one sent before each delivery is delivered in place of a SIGINT, for ever.
`Terminal` assumes that a read in its loop polls again (`WF` of a poll and of the
return), and that interrupts pending in user mode are taken.

Further disagreements met while modelling. They are behaviours of the model,
and no run checks them: with nobody else runnable, `yield_handler` returns to the
process SIGINT has just ended (`PROCESS_LIFECYCLE.md:4`); stopped and blocked
processes sit in the ready queue (`scheduler.rs:101-107`), which "contains only
Ready processes" by `scheduler.rs:15` and `SCHEDULER.md:39`, so `SchedulerConsistent`
states the other invariants of `scheduler.rs:14-18` and not this one; a child that SIGINT ends wakes no parent and keeps its
page table (`PROCESS_LIFECYCLE.md:137` and `:46`); waitpid may block on a child
that has already ended (`SCHEDULER.md:291`); a child is its own group
(`PROCESS_LIFECYCLE.md:577`); a signal does not wake a process blocked in waitpid
(`:119-121`, `SCHEDULER.md:290`, `scheduler.rs:84`), though `WakeHasCause` would
allow it to, and the retry after the wake is never run (`:120`); the
`unreachable!()` behind the yield of a pipe is reached when a signal takes the
only runnable process off the CPU (`main.rs:930`); a program that only execs is
not time-sliced (`PREEMPTIVE_MULTITASKING_IMPLEMENTATION.md:119`).

Also of the process calls: a stopped process never handles SIGCONT, since signals
are delivered on leaving the slot and it never enters it (`scheduler.rs:126`; `:68`);
results of calls other than fork are lost to a preemption in the same way as fork's
(`fork_result`); once the slot is empty only a program that keeps the CPU goes on,
and its calls find no current process (`main.rs:731`).

Of the pipes: exit closes no descriptor, so a reader never gets end of file after
its writer exits (`main.rs:2340`; `pipe.rs:10`); a new pipe starts with the bytes its slot's last users did not
read; `dup2` over a standard descriptor, and `pipe` with a nearly full table,
lose an end; `dup2(fd, fd)` on the last end closes it; a read drops its bytes if
the copy to the program fails.

Of memory: brk and mmap clear a new page at the virtual address equal to its
physical one (`main.rs:1978`), which in a user page table is another page, so the
new page itself is not cleared; a page touched beyond the break makes a later
brk panic in `map_page`; a failed `map_page` drops the frame it was given; a
failed clone drops the child's tables and references; the address space of every
process that has a parent, or that a signal ends, is never freed
(`PROCESS_LIFECYCLE.md:5`); execve keeps the mmap base; mmap lowers the base
before it may fail; a kernel write to a copy-on-write page panics, as only user
faults are resolved.

Of files: open truncates and creates before it checks permission and looks for a
descriptor (`fs.rs:1101`; `VFS.md:554`); the access mode of a tmpfs descriptor is not
checked on write; tmpfs files belong to root, so a creator who is not cannot open
their file again; chdir knows the built-in directories only, not those of tmpfs;
execute permission on directories is not needed to pass them; getdents64 skips an
entry when an earlier one is removed between two calls; a directory may be renamed
below itself and is then out of reach; what is first written to a built-in file
replaces it whole, and O_APPEND to it starts at 0 (`fs.rs:527-536`; `VFS.md:62`,
`:555`), so `WritesStayInRange` is about tmpfs files; a read whose copy to the program
fails has moved the offset (`main.rs:899`); exec reads the built-in file and
not what was written over it (`fs.rs:1673`); fork and dup2 copy offsets instead of
sharing them.

Of homefs: the root inode names its block by sector and not by block number
(`homefs.rs:186`; `FS_ON_DISK.md:120`), so "." and ".." of the root are in another
block than its entries, and the block that is marked is not the one that is used
(`root_block`); unlink and rmdir free before they take the name out, and allocations
mark before anything names them (`FS_ON_DISK.md:170-182` promises the reverse order),
so a crash in a removal leaves a name on a free inode, which the next creation takes:
the properties leave torn removals out; a write that runs out of space leaves its
blocks allocated; `..` is not updated by a rename (`:143`); the last five blocks and
one inode are counted as free and never given out.

Of the terminal: nothing sets the foreground group (`scheduler.rs:366`), so Ctrl+C
and Ctrl+Z clear the line and signal nobody; both shift keys share a flag; bytes are
lost when the copy to the program fails.

Of disks and programs: FAT32 lookups refuse files in subdirectories
(`fat32.rs:462`; `src/scripts/mkfatimg.py:3`); the image script cuts files at 28
blocks without a word; zero block pointers are dropped, so a hole shifts what
follows; segments that share a page panic in `map_page` (`paging.rs:523`) although
its comment allows for them; the stack pointer is aligned after argc is written, so
argc may be one word above it (`exec_stack.rs:429`; `PROCESS_LIFECYCLE.md:262-264` and
`ABI.md:151-153` put it at the pointer), and `StackAsPassed` is about the layout in
memory; an execve whose arguments do not fit
the stack returns E2BIG into the new image (`ABI.md:61`).

## 4. Proofs

For every `MaxPid`, every set of calls, signals and options:

* `TypeCorrect`, `SchedulerStaysConsistent`, `CpuNotIdleWithWork`,
  `CpuFollowsScheduler`, `PidsStayFresh`: `Spec => []` each invariant;
* `OnlyTheEndedLeave`, `WakesHaveCause`, `NobodyOvertakes`: `Spec =>` the action
  properties `NobodyVanishes`, `WakeHasCause` and `RunnableNotOvertaken`;
* `KernelIsLifecycle`: `Spec => ImplementsLifecycle`, every trap is a step of the
  abstract life cycle or leaves all phases alone;
* `TrapIsKernel`, `ResultsAreOwn`: the kernel with result registers takes only
  steps of the kernel, and `TrapSpec => []NoForeignResult`: a result other than 0 that
  a program sees is its own. That the result arrives is what `fork_result` refutes.

For every buffer size and every set of bytes:

* `PositionsStayAgreed`: `RingSpec => []PositionsAgree`;
* `RingIsChannel`: `RingSpec => ImplementsChannel`, the ring implements the
  bounded first-in first-out channel.

For every number of processes, descriptors and pipes:

* `EndsStayAccounted`: `IoSpec => []EndsAccounted`, the counts of a pipe are its
  descriptors plus the ends the calls are known to lose.

The inductive invariant is `KInv`: typing, `SchedOK` (`Consistent` of `Scheduler`,
from which `SchedulerConsistent` follows),
`WorkConserving`, `CpuMatchesCurrent` and `PidsFresh` together. None of them is
inductive alone. That a dispatched process may be marked Running needs that it
is held once. That the CPU is not idle with work needs that a signal
makes nobody in the queue runnable, because `send_signal` wakes nobody.
That the CPU never has a freed page table needs that waitpid frees zombies
only, and that no zombie is held. The argument goes through `SchedulerProofs`,
lemmas on what each scheduler method preserves (`RequeueOK`, `DispatchOK`,
`ScheduleNextOK`, `WakeWaitersConsistent`, `AddProcessOK`). `KernelProofs` then
shows, handler by handler, that the outcome is settled, and `NextOK` combines
them. The assumptions are those of `Process` and `Kernel` on the constants:
`MaxPid` is a positive natural, the calls are known, signal numbers and option
words are naturals, groups are 0 or pids.

`TrapProofs` adds `OwnResults`, that the register of every process, on the CPU or
not, holds its last answer or 0. The statement about the process on the CPU alone
is not inductive, as a switch brings another register in.

`StepProofs` first relates the scheduler before and after a step for each process that is
not the caller (`Follows`): it keeps its state or is dispatched, it does not become
blocked, and if it is no longer blocked the caller it waited for has ended or
stopped. A handler that returns leaves the others alone (`Quiet`), `schedule_next`
satisfies the relation (`ScheduleNextCause`), and the preemption check after a
handler composes the two (`TrapCause`). Fork is the one exception, for the child
(`Forked`). `StepFollows` collects the calls. A second part reads the abstract phases off
that relation for the others, and off `KernelProofs` for the caller. A third
composes in the same way a handler that keeps the queue or appends to it (`Keeps`)
with `schedule_next`, whose rotation moves only processes that cannot run behind
the others (`DispatchOrder`, `ScheduleNextOrder`).

`PipeProofs` rests on a few facts about remainders that hold for operands less
than one buffer outside it (`ModSmall`, `ModOnce`, `ModBelow`) and on their use:
two moves of a position add up (`SteppedTwice`), and the slot of the i-th oldest
byte is written by a write of n bytes exactly if it is among the n that follow the
count (`AgeOrder`). With them `WriteAppends` and `ReadTakes` say what a write and a
read do to `Contents`, the bytes in order of age, which is the queue of the channel
under the refinement mapping. The counts of pipe ends are proved call by call
(`PipeAccounts`, `Dup2Accounts`, `CloseAccounts`, `OpenAccounts`, `TransferAccounts`,
`ForkAccounts`, `ExitAccounts`) from what opening and closing one end does to count
and table (`OpenedCounts`, `ClosedCounts`, `SetDescriptor`).

Only model-checked: the liveness properties (fairness is out of the prover's
reach), and everything about memory, files, terminal and program loading.

## 5. Plan

1. Kernel stacks in the upper half, and with them the panic of fork.
2. The FAT32 branch of open, once something mounts a FAT volume.
3. The network, once its driver sends and receives.
4. Proofs: the allocator's hint, the frame counts.

## 6. Not modelled

`PROJECT.json` lists every part with the reason. In short: the network driver is
a stub that neither sends nor receives, so the protocol code above it never runs;
the TLB and the contents of pages are left out of the memory modules; boot is one
sequential pass; console, GDT, PIC, ATA and heap set-up are port and register I/O;
`spinlock_irq.rs` is used by nobody; user programs are the environment. Recursive
operators (`BlockFiles`, `Fat32`, `DiskFs`, `Terminal`) and liveness stay with TLC.

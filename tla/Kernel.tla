------------------------------- MODULE Kernel -------------------------------
(***************************************************************************)
(* The process side of the kernel: the system-call handlers of             *)
(* kernel/src/main.rs over the scheduler, and the trap path of             *)
(* kernel/src/usermode.rs that carries their result back to user mode.     *)
(*                                                                         *)
(* There is one CPU and SFMASK clears the interrupt flag on entry, so a    *)
(* system call runs from the trap to the return as one step.  The timer    *)
(* interrupt comes between calls and only raises NEED_RESCHED.             *)
(*                                                                         *)
(* A handler is an operator from the scheduler's state to an outcome:      *)
(*   "return"   it returned its result,                                    *)
(*   "emptied"  it called yield_handler, which found nobody to run and     *)
(*              returned with the current slot empty,                      *)
(*   "switch"   it left through switch_to_user and never returned.         *)
(* Trap(out) is what follows: the preemption check, and the CPU.           *)
(***************************************************************************)
EXTENDS Scheduler

CONSTANTS
    Calls,          \* the system calls the programs make
    KillSignals,    \* the signal numbers they pass to kill
    WaitOptions,    \* the option words they pass to waitpid
    GroupNumbers    \* the groups they pass to setpgid, 0 for their own

AllCalls == {"yield", "getpid", "fork", "waitpid", "exit", "kill",
             "setpgid", "pipe", "execve"}

ASSUME CallsAssumption == Calls \subseteq AllCalls
ASSUME ArgumentsAssumption == KillSignals \subseteq Nat /\ WaitOptions \subseteq Nat
ASSUME GroupsAssumption == GroupNumbers \subseteq {0} \cup Pgids

VARIABLES
    sched,          \* SCHEDULER
    nextPid,        \* NEXT_PID of fork_handler
    needResched,    \* NEED_RESCHED
    cpu,            \* whose registers and page table the CPU has
    mode,           \* "user", or why the machine stopped
    space           \* life of each process's page table

vars == <<sched, nextPid, needResched, cpu, mode, space>>

Modes == {"user", "halted", "panicked", "crashed"}

ESRCH == -3
ENOMEM == -12
EFAULT == -14
EINVAL == -22

WUNTRACED == 2

-----------------------------------------------------------------------------
(* Outcomes of a handler.                                                  *)

Returned(s, r) == [s |-> s, ret |-> r, ends |-> "return"]

\* yield_handler; r is what the handler goes on to return if it comes back.
\* It comes back only when schedule_next found nobody, the slot being empty.
Yielding(s, r) ==
    LET t == ScheduleNext(s)
    IN  [s |-> t, ret |-> r,
         ends |-> IF t.current = NoPid THEN "emptied" ELSE "switch"]

(* The way back to user mode.  syscall_entry restores the registers through *)
(* CURRENT_CONTEXT_PTR, which always points into the current slot.  Once   *)
(* Option::take has emptied the slot, what it holds is unspecified: with   *)
(* the bytes left alone the CPU goes on with the process that trapped,     *)
(* otherwise it returns to garbage.                                        *)
ReturnThroughEmptySlot == cpu' = cpu /\ mode' \in {"user", "crashed"}

\* Mistake: the page table and registers of the next process are not loaded.
LandWithoutSwitch(t) ==
    IF t.current = NoPid
    THEN ReturnThroughEmptySlot
    ELSE cpu' = cpu /\ mode' = "user"

Land(t) ==
    IF t.current = NoPid
    THEN ReturnThroughEmptySlot
    ELSE cpu' = t.current /\ mode' = "user"

\* Mistake: the flag is cleared and nothing rescheduled.
PreemptNobody(s) ==
    /\ sched' = s
    /\ needResched' = FALSE
    /\ UNCHANGED <<cpu, mode>>

Preempt(s) ==
    /\ sched' = ScheduleNext(s)
    /\ needResched' = FALSE
    /\ Land(sched')

Finish(out) ==
    /\ sched' = out.s
    /\ UNCHANGED needResched
    /\ IF out.ends = "return" THEN UNCHANGED <<cpu, mode>>
                              ELSE Land(out.s)

\* switch_to_user skips the preemption check, the flag stays up.
Trap(out) ==
    IF needResched /\ out.ends # "switch" THEN Preempt(out.s) ELSE Finish(out)

-----------------------------------------------------------------------------
(* Handlers.                                                               *)

YieldHandler(s) == Yielding(s, 0)

GetpidHandler(s) == Returned(s, IF s.current = NoPid THEN ESRCH ELSE s.current)

\* child is the pid taken from NEXT_PID, ok the result of fork_from.
ForkHandler(s, child, ok) ==
    IF ok THEN Returned(AddProcess(s, child, NewProcess(child, s.current)), child)
          ELSE Returned(s, ENOMEM)

\* No zombie for the caller: block on pid when there is a child to wait for.
\* When yield_handler comes back the slot is empty, so the retry ends in ESRCH.
WaitForChild(s, pid) ==
    IF HasChildren(s, s.current)
    THEN Yielding(SetCurrent(s, [s.proc[s.current] EXCEPT !.wait = pid]), ESRCH)
    ELSE Returned(s, ESRCH)

\* The zombie found is taken out before its pid is compared with the one
\* asked for, and before the status is written.
WaitpidHandler(s, pid, options, writable) ==
    LET me     == s.current
        zombie == ZombieChild(s, me)
        rest   == RemoveHeld(s, zombie)
    IN  IF options \notin {0, WUNTRACED} THEN Returned(s, EINVAL)
        ELSE IF me = NoPid THEN Returned(s, ESRCH)
        ELSE IF options = WUNTRACED /\ StoppedChild(s, me) # NoPid
             THEN Returned(s, IF writable THEN StoppedChild(s, me) ELSE EFAULT)
        ELSE IF pid = 0 \/ pid < -1 THEN Returned(s, EINVAL)
        ELSE IF zombie = NoPid THEN WaitForChild(s, pid)
        ELSE IF pid \notin {-1, zombie} THEN WaitForChild(rest, pid)
        ELSE Returned(rest, IF writable THEN zombie ELSE EFAULT)

\* The zombie whose address space waitpid frees, if any.
Reaped(s, out) ==
    {p \in Held(s) \ Held(out.s) : out.ends = "return" /\ out.ret = p}

KillHandler(s, pid, sig) ==
    IF sig \notin Signals \/ pid = 0 THEN Returned(s, EINVAL)
    ELSE IF pid > 0
    THEN IF pid = s.current
         THEN Returned(SetCurrent(s, SendSignal(s.proc[pid], sig)), 0)
         ELSE Returned(s, ESRCH)
    ELSE Returned(SignalProcessGroup(s, -pid, sig),
                  IF GroupMembers(s, -pid) = {} THEN ESRCH ELSE 0)

SetpgidHandler(s, pid, pgid) ==
    LET target == IF pid = 0 THEN s.current ELSE pid
    IN  IF s.current = NoPid \/ s.current # target
        THEN Returned(s, ESRCH)
        ELSE Returned(SetCurrent(s, [s.proc[target] EXCEPT !.pgid =
                            IF pgid = 0 THEN target ELSE pgid]), 0)

\* The caller leaves as a zombie when it has a parent, and the waiters wake.
ExitScheduler(s) ==
    LET me   == s.current
        gone == IF s.proc[me].parent = NoPid THEN "Exited" ELSE "Zombie"
    IN  IF me = NoPid
        THEN ScheduleNext(s)
        ELSE ScheduleNext(WakeWaitersForChild(
                SetCurrent(s, [s.proc[me] EXCEPT !.state = gone]), me))

-----------------------------------------------------------------------------
(* Steps.                                                                  *)

Init ==
    /\ sched = ScheduleNext(AddProcess(
                   [proc    |-> [p \in Pids |-> AbsentProcess(p)],
                    queue   |-> <<>>,
                    current |-> NoPid],
                   1, NewProcess(1, NoPid)))
    /\ nextPid = 2
    /\ needResched = FALSE
    /\ cpu = 1
    /\ mode = "user"
    /\ space = [p \in Pids |-> IF p = 1 THEN "live" ELSE "none"]

TimerTick ==
    /\ mode = "user"
    /\ needResched' = TRUE
    /\ UNCHANGED <<sched, nextPid, cpu, mode, space>>

SysCall(call) == mode = "user" /\ call \in Calls

SysYield ==
    /\ SysCall("yield")
    /\ Trap(YieldHandler(sched))
    /\ UNCHANGED <<nextPid, space>>

SysGetpid ==
    /\ SysCall("getpid")
    /\ Trap(GetpidHandler(sched))
    /\ UNCHANGED <<nextPid, space>>

\* With no current process fork fails before it takes a pid.
SysForkNobody ==
    /\ SysCall("fork")
    /\ sched.current = NoPid
    /\ Trap(Returned(sched, ESRCH))
    /\ UNCHANGED <<nextPid, space>>

\* Mistake: NEXT_PID is advanced only when fork_from fails.
SysForkSamePid(ok) ==
    /\ SysCall("fork")
    /\ sched.current # NoPid
    /\ nextPid \in Pids
    /\ Trap(ForkHandler(sched, nextPid, ok))
    /\ nextPid' = IF ok THEN nextPid ELSE nextPid + 1
    /\ space' = IF ok THEN [space EXCEPT ![nextPid] = "live"] ELSE space

\* The pid is taken before fork_from, and not given back when it fails.
SysFork(ok) ==
    /\ SysCall("fork")
    /\ sched.current # NoPid
    /\ nextPid \in Pids
    /\ Trap(ForkHandler(sched, nextPid, ok))
    /\ nextPid' = nextPid + 1
    /\ space' = IF ok THEN [space EXCEPT ![nextPid] = "live"] ELSE space

\* fork_from maps the kernel stack of the child with map_page, which panics
\* on a page mapped to another frame.
SysForkPanic ==
    /\ SysCall("fork")
    /\ sched.current # NoPid
    /\ nextPid \in Pids
    /\ nextPid' = nextPid + 1
    /\ mode' = "panicked"
    /\ UNCHANGED <<sched, needResched, cpu, space>>

SysWaitpid(pid, options, writable) ==
    LET out == WaitpidHandler(sched, pid, options, writable)
    IN  /\ SysCall("waitpid")
        /\ Trap(out)
        /\ space' = [p \in Pids |-> IF p \in Reaped(sched, out)
                                    THEN "freed" ELSE space[p]]
        /\ UNCHANGED nextPid

SysKill(pid, sig) ==
    /\ SysCall("kill")
    /\ Trap(KillHandler(sched, pid, sig))
    /\ UNCHANGED <<nextPid, space>>

SysSetpgid(pid, pgid) ==
    /\ SysCall("setpgid")
    /\ Trap(SetpgidHandler(sched, pid, pgid))
    /\ UNCHANGED <<nextPid, space>>

\* read of an empty pipe or write to a full one: yield_handler, and the
\* unreachable!() behind it.
SysPipeWouldBlock ==
    LET out == Yielding(sched, 0)
    IN  /\ SysCall("pipe")
        /\ sched.current # NoPid
        /\ IF out.ends = "switch"
           THEN Trap(out)
           ELSE /\ sched' = out.s
                /\ mode' = "panicked"
                /\ UNCHANGED <<needResched, cpu>>
        /\ UNCHANGED <<nextPid, space>>

\* A successful execve also leaves through switch_to_user, back to the caller.
SysExecve ==
    /\ SysCall("execve")
    /\ sched.current # NoPid
    /\ UNCHANGED vars

SysExecveFails ==
    /\ SysCall("execve")
    /\ Trap(Returned(sched, ENOMEM))
    /\ UNCHANGED <<nextPid, space>>

\* The page table of a process without a parent is freed after the switch
\* to the next one's, or to the kernel's before the machine halts.
SysExit ==
    LET me   == sched.current
        next == ExitScheduler(sched)
    IN  /\ SysCall("exit")
        /\ sched' = next
        /\ IF next.current = NoPid
           THEN mode' = "halted" /\ cpu' = cpu
           ELSE mode' = "user" /\ cpu' = next.current
        /\ space' = IF me # NoPid /\ sched.proc[me].parent = NoPid
                    THEN [space EXCEPT ![me] = "freed"] ELSE space
        /\ UNCHANGED <<nextPid, needResched>>

Syscall ==
    \/ SysYield
    \/ SysGetpid
    \/ SysForkNobody
    \/ \E ok \in BOOLEAN : SysFork(ok)
    \/ SysForkPanic
    \/ \E pid \in {-2, -1, 0} \cup Pids, options \in WaitOptions,
          writable \in BOOLEAN : SysWaitpid(pid, options, writable)
    \/ \E pid \in -MaxPid .. MaxPid, sig \in KillSignals : SysKill(pid, sig)
    \/ \E pid \in {0} \cup Pids, pgid \in GroupNumbers : SysSetpgid(pid, pgid)
    \/ SysPipeWouldBlock
    \/ SysExecve
    \/ SysExecveFails
    \/ SysExit

Next == TimerTick \/ Syscall

Spec == Init /\ [][Next]_vars

TypeOK ==
    /\ sched \in SchedulerType
    /\ nextPid \in 2 .. MaxPid + 1
    /\ needResched \in BOOLEAN
    /\ cpu \in Pids
    /\ mode \in Modes
    /\ space \in [Pids -> {"none", "live", "freed"}]

=============================================================================

----------------------------- MODULE TrapReturn -----------------------------
(***************************************************************************)
(* The result register.  A handler's result reaches the program through    *)
(* context.rax: syscall_entry stores it there after the handler and the    *)
(* preemption check have returned, and sysretq loads it.  A switch leaves  *)
(* before that, and the process later resumes with what yield_handler put  *)
(* into its context.                                                       *)
(***************************************************************************)
EXTENDS KernelProperties

VARIABLES
    rax,        \* context.rax of each process, in the slot or in the queue
    answer      \* what the last handler each process called computed

trapVars == <<vars, rax, answer>>

\* The handler left without a result: waitpid blocked, a pipe would block.
NoAnswer == -99

\* execve starts an image, it has no result; yield's is 0 whenever it ends.
TrapInit ==
    /\ Init
    /\ rax = [p \in Pids |-> 0]
    /\ answer = [p \in Pids |-> 0]

\* The trap came back to the program that made it.
CameBack(out) ==
    /\ out.ends # "switch"
    /\ needResched => sched'.current = NoPid

\* yield_handler zeroes context.rax of the process it takes from the CPU.
Deliver(out, result) ==
    /\ rax' = [rax EXCEPT ![cpu] = IF CameBack(out) THEN out.ret ELSE 0]
    /\ answer' = [answer EXCEPT ![cpu] = result]

\* The result of a handler that may have left through switch_to_user.
Result(out) == IF out.ends = "switch" THEN NoAnswer ELSE out.ret

TrapYield == SysYield /\ Deliver(YieldHandler(sched), 0)

TrapGetpid == SysGetpid /\ Deliver(GetpidHandler(sched), GetpidHandler(sched).ret)

TrapForkNobody == SysForkNobody /\ Deliver(Returned(sched, ESRCH), ESRCH)

TrapFork(ok) ==
    LET out == ForkHandler(sched, nextPid, ok)
    IN  SysFork(ok) /\ Deliver(out, out.ret)

TrapWaitpid(pid, options, writable) ==
    LET out == WaitpidHandler(sched, pid, options, writable)
    IN  SysWaitpid(pid, options, writable) /\ Deliver(out, Result(out))

TrapKill(pid, sig) ==
    LET out == KillHandler(sched, pid, sig)
    IN  SysKill(pid, sig) /\ Deliver(out, out.ret)

TrapSetpgid(pid, pgid) ==
    LET out == SetpgidHandler(sched, pid, pgid)
    IN  SysSetpgid(pid, pgid) /\ Deliver(out, out.ret)

TrapPipeWouldBlock ==
    LET out == Yielding(sched, 0)
    IN  SysPipeWouldBlock /\ Deliver(out, Result(out))

\* CpuContext::new_user starts the new image with rax 0.
TrapExecve ==
    /\ SysExecve
    /\ rax' = [rax EXCEPT ![cpu] = 0]
    /\ answer' = [answer EXCEPT ![cpu] = 0]

TrapExecveFails == SysExecveFails /\ Deliver(Returned(sched, ENOMEM), ENOMEM)

\* Nothing comes back, neither result nor register changes.
TrapNoReturn == (SysForkPanic \/ SysExit \/ TimerTick) /\ UNCHANGED <<rax, answer>>

TrapNext ==
    \/ TrapYield
    \/ TrapGetpid
    \/ TrapForkNobody
    \/ \E ok \in BOOLEAN : TrapFork(ok)
    \/ \E pid \in {-2, -1, 0} \cup Pids, options \in WaitOptions,
          writable \in BOOLEAN : TrapWaitpid(pid, options, writable)
    \/ \E pid \in -MaxPid .. MaxPid, sig \in KillSignals : TrapKill(pid, sig)
    \/ \E pid \in {0} \cup Pids, pgid \in GroupNumbers : TrapSetpgid(pid, pgid)
    \/ TrapPipeWouldBlock
    \/ TrapExecve
    \/ TrapExecveFails
    \/ TrapNoReturn

TrapSpec == TrapInit /\ [][TrapNext]_trapVars

\* A result that reaches the program on the CPU is that of its own last call:
\* a value other than 0 in rax is neither stale nor computed for another
\* process, since every switch goes through a context whose rax was zeroed and
\* the one store of a result hits the context of the process that trapped.
\* It does not promise that the result arrives: see ForkResultArrives.
NoForeignResult ==
    mode = "user" /\ rax[cpu] # 0 => rax[cpu] = answer[cpu]

\* PROCESS_LIFECYCLE.md:22-23, of fork: "Returns: In parent: child PID".  A
\* positive result is computed before the preemption check and stored after
\* it, so a parent that the check takes from the CPU resumes with 0, which is
\* what the child sees.
ForkResultArrives ==
    mode = "user" /\ answer[cpu] > 0 => rax[cpu] = answer[cpu]

=============================================================================

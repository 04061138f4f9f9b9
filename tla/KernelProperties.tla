------------------------- MODULE KernelProperties -------------------------
(***************************************************************************)
(* What the process side of the kernel keeps, whatever the programs call   *)
(* and whenever the timer ticks.                                           *)
(***************************************************************************)
EXTENDS Kernel

(***************************************************************************)
(* Invariants                                                              *)
(***************************************************************************)

\* What every handler leaves the scheduler in: each process is held once, the
\* one in the slot and no other is Running (scheduler.rs:14), none is held once
\* it is Exited (scheduler.rs:16), every living one is held, and the blocked
\* are in the queue.  It does not say that the queue holds Ready processes only
\* (scheduler.rs:15, SCHEDULER.md:39): schedule_next queues the process it has
\* just stopped (scheduler.rs:101-107), and the blocked wait there too.
SchedulerConsistent ==
    /\ HeldOnce(sched)
    /\ \A p \in Pids : sched.proc[p].state = "Running" <=> p = sched.current
    /\ \A p \in Held(sched) : sched.proc[p].state # "Exited"
    /\ \A p \in Pids : sched.proc[p].state \in {"Ready", "Running", "Stopped"}
                            => p \in Held(sched)
    /\ BlockedIsQueued(sched)

\* The CPU is without a current process only when schedule_next could not
\* have found one: nobody in the queue is runnable, now or after any number
\* of further calls of the process that kept the CPU.
WorkConserving ==
    sched.current = NoPid => \A p \in QueueSet(sched) : ~Runnable(sched, p)

\* The registers and the page table on the CPU are those of the current
\* process, and that page table was not freed (switch_to_user,
\* switch_to_user_with_reap: the reaped table is never the one in CR3).
CpuMatchesCurrent ==
    mode = "user" =>
        /\ sched.current # NoPid => cpu = sched.current
        /\ space[cpu] = "live"

\* Pids are not reused and the parent relation is a forest: NEXT_PID is ahead
\* of every pid handed out, and a parent is older than its child.
PidsFresh ==
    \A p \in Pids :
        /\ p >= nextPid => sched.proc[p].state = "Absent" /\ space[p] = "none"
        /\ sched.proc[p].parent < p
        /\ p \in Held(sched) => space[p] = "live"

(***************************************************************************)
(* Action properties                                                       *)
(***************************************************************************)

\* Nobody is dropped alive: a process that a step takes out of the slot or
\* out of the queue, on whatever path through wake-ups, signals and rotation,
\* has ended.  (When an ended one may go is the matter of ZombiesRemain.)
NobodyVanishes ==
    [][\A p \in Held(sched) \ Held(sched') : IsExited(sched'.proc[p])]_vars

\* PROCESS_LIFECYCLE.md:85, of exit with a parent: "Process remains in
\* scheduler until parent calls waitpid()".  The schedule_next at the end of
\* exit drops every process that is_exited, zombies included.
ZombiesRemain ==
    [][\A p \in Pids : ~IsZombie(sched.proc[p]) /\ IsZombie(sched'.proc[p])
                            => p \in Held(sched')]_vars

\* The processes queued before p.
Ahead(s, p) ==
    {q \in QueueSet(s) : \E i, j \in 1 .. Len(s.queue) :
        i < j /\ s.queue[i] = q /\ s.queue[j] = p}

\* Round robin: once a runnable process is queued, nobody is ever put before
\* it, neither by a fork, nor by a wake, nor by the rotation that skips the
\* blocked and the stopped.
RunnableNotOvertaken ==
    [][\A p \in QueueSet(sched) \cap QueueSet(sched') :
            Runnable(sched, p) => Ahead(sched', p) \subseteq Ahead(sched, p)]_vars

\* The children whose end or stop this step reports.
Reported ==
    {q \in Pids : sched.proc[q].state # sched'.proc[q].state
                    /\ sched'.proc[q].state \in {"Exited", "Zombie", "Stopped"}}

\* No process leaves waitpid without a reason: one that it waits for has ended
\* or stopped in this step (any process at all, when it waits for any child),
\* or a signal is pending for it.  The second is the wake-up by a signal of
\* scheduler.rs:84 and SCHEDULER.md:290, which this allows and the code, whose
\* schedule_next wakes only the process that leaves the slot, does not perform.
WakeHasCause ==
    [][\A p \in Pids :
            IsBlocked(sched.proc[p]) /\ ~IsBlocked(sched'.proc[p]) =>
                \/ \E q \in Reported : sched.proc[p].wait \in {WaitingForAnyChild, q}
                \/ sched'.proc[p].pending # {}]_vars

=============================================================================

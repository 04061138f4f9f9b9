----------------------------- MODULE Preemption -----------------------------
(***************************************************************************)
(* Progress.  The timer keeps ticking, and the program on the CPU keeps    *)
(* making system calls: preemption happens at their end only, so a program *)
(* that makes none is outside what the kernel promises                     *)
(* (PREEMPTIVE_MULTITASKING_IMPLEMENTATION.md:147-149).                    *)
(***************************************************************************)
EXTENDS KernelProperties

\* NEED_RESCHED does not stay up for ever while the scheduler stays as it is:
\* some call returns and is preempted, or changes the scheduler.  Left out are
\* programs that stop calling, and programs alone on the CPU that only execve
\* or yield, which leave through switch_to_user, past the preemption check.
KeepsCalling ==
    []<>(~needResched \/ mode # "user") \/ []<><<TRUE>>_sched

LiveSpec == Spec /\ WF_vars(TimerTick) /\ KeepsCalling

Queued(p) == mode = "user" /\ p \in QueueSet(sched) /\ Runnable(sched, p)

\* Round robin and NEED_RESCHED together starve nobody: a runnable process in
\* the queue gets the CPU (or the machine stops), also when the others never
\* yield.
RunnableEventuallyRuns ==
    \A p \in Pids : Queued(p) ~> (sched.current = p \/ mode # "user")

\* SIGINT sent to a process that is not blocked ends it, unless a SIGTSTP,
\* which deliver_signals takes first, stops it before: the signal stays
\* pending until the process is current and schedule_next delivers it.
SigintEnds ==
    \A p \in Pids :
        (/\ mode = "user" /\ p \in Held(sched) /\ Runnable(sched, p)
         /\ SIGINT \in sched.proc[p].pending)
            ~> (p \notin Held(sched) \/ IsStopped(sched.proc[p]) \/ mode # "user")

=============================================================================

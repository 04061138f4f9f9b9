-------------------------- MODULE KernelRefinement --------------------------
(***************************************************************************)
(* The kernel implements the life cycle: a process is running when it is   *)
(* in the current slot, blocked when it waits for a child, stopped, or     *)
(* gone from the scheduler.                                                *)
(***************************************************************************)
EXTENDS KernelProperties

\* A stopped process may be waiting too: it is stopped first.
PhaseOf(p) ==
    CASE p.state = "Absent" -> "Absent"
      [] p.state = "Running" -> "Running"
      [] p.state = "Stopped" -> "Stopped"
      [] IsExited(p) -> "Dead"
      [] p.state = "Ready" /\ IsBlocked(p) -> "Blocked"
      [] p.state = "Ready" /\ ~IsBlocked(p) -> "Ready"

Life == INSTANCE Lifecycle
            WITH Procs <- Pids, Root <- 1,
                 phase <- [p \in Pids |-> PhaseOf(sched.proc[p])]

\* Every trap of the kernel, with all the wake-ups, signal deliveries and the
\* dispatch it performs, is one step of the documented life cycle.
ImplementsLifecycle == Life!LifeSpec

=============================================================================

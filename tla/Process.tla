------------------------------ MODULE Process ------------------------------
(***************************************************************************)
(* One process control block (kernel/src/process.rs): its run state, its   *)
(* wait state, its process group, its parent and its pending signals, and  *)
(* the methods of Process that read or change them.                        *)
(*                                                                         *)
(* Registers, the address space, descriptors and paths are not fields of   *)
(* the record: TrapReturn adds the result register, Kernel the life of the *)
(* address space.  Exit codes are left out, no property reads them.        *)
(***************************************************************************)
EXTENDS Integers

CONSTANT MaxPid     \* bound on the pids handed out: fork stops after it

ASSUME MaxPidAssumption == MaxPid \in Nat \ {0}

Pids == 1 .. MaxPid

\* Option<Pid>::None, for a parent, for the current slot.
NoPid == 0

SIGINT == 2
SIGCONT == 18
SIGTSTP == 20
Signals == {SIGINT, SIGCONT, SIGTSTP}

\* WaitState: a positive value p stands for WaitingForChild(p).
NotWaiting == 0
WaitingForAnyChild == -1
WaitStates == {NotWaiting, WaitingForAnyChild} \cup Pids

\* ProcessState, and "Absent" for a pid that was not handed out yet.
ProcessStates == {"Absent", "Ready", "Running", "Stopped", "Exited", "Zombie"}

\* setpgid stores any group number it is given, hence also one that is no
\* process.
Pgids == 1 .. MaxPid

ProcessType ==
    [state   : ProcessStates,
     wait    : WaitStates,
     pgid    : Pgids,
     parent  : Pids \cup {NoPid},
     pending : SUBSET Signals]

-----------------------------------------------------------------------------

\* Mistake: a zombie does not count as exited.
IsExitedButNotZombie(p) == p.state = "Exited"

IsExited(p) == p.state \in {"Exited", "Zombie"}
IsZombie(p) == p.state = "Zombie"
IsStopped(p) == p.state = "Stopped"
IsBlocked(p) == p.wait # NotWaiting

\* A process as Process::new leaves init, and as fork_from leaves a child:
\* its own group, no pending signal, not waiting.
NewProcess(pid, parent) ==
    [state |-> "Ready", wait |-> NotWaiting, pgid |-> pid,
     parent |-> parent, pending |-> {}]

AbsentProcess(pid) == [NewProcess(pid, NoPid) EXCEPT !.state = "Absent"]

SendSignal(p, sig) == [p EXCEPT !.pending = @ \cup {sig}]

Resume(p) == IF IsStopped(p) THEN [p EXCEPT !.state = "Ready"] ELSE p

Wake(p) == [p EXCEPT !.wait = NotWaiting]

\* Mistake: the pid waited for is not compared.
WakeOnAnyExit(p, child) == IsBlocked(p)

ShouldWakeOnChildExit(p, child) == p.wait \in {WaitingForAnyChild, child}

\* Mistake: SIGINT is left pending.
DeliverableSignalButSigint(p) ==
    CASE SIGCONT \in p.pending -> SIGCONT
      [] SIGCONT \notin p.pending /\ SIGTSTP \in p.pending -> SIGTSTP
      [] OTHER -> 0

\* One signal per call, SIGCONT before SIGTSTP before SIGINT; the others stay
\* pending.
DeliverableSignal(p) ==
    CASE SIGCONT \in p.pending -> SIGCONT
      [] SIGCONT \notin p.pending /\ SIGTSTP \in p.pending -> SIGTSTP
      [] p.pending = {SIGINT} -> SIGINT
      [] OTHER -> 0

\* The process after deliver_signals: the delivered signal is no longer
\* pending, and SIGCONT has resumed a stopped process.
AfterDelivery(p) ==
    LET sig == DeliverableSignal(p)
        q   == [p EXCEPT !.pending = @ \ {sig}]
    IN  IF sig = SIGCONT THEN Resume(q) ELSE q

=============================================================================

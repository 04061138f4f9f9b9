----------------------------- MODULE Scheduler -----------------------------
(***************************************************************************)
(* The round-robin scheduler (kernel/src/scheduler.rs) as operators on its *)
(* state: a record of the process table, the ready queue and the current   *)
(* slot.  Every syscall handler runs with interrupts off and calls several *)
(* of these methods in a row, so a handler is a composition of them and    *)
(* one atomic step of module Kernel.                                       *)
(*                                                                         *)
(* The queue and the current slot hold pids; `proc' maps a pid to its      *)
(* Process value.  When the scheduler drops a process, `proc' keeps how it *)
(* ended and who its parent was; no scheduler method reads that record.    *)
(***************************************************************************)
EXTENDS Process, Sequences, FiniteSets

SchedulerType ==
    [proc : [Pids -> ProcessType], queue : Seq(Pids), current : Pids \cup {NoPid}]

QueueSet(s) == {s.queue[i] : i \in 1 .. Len(s.queue)}

\* all_processes(): what the scheduler holds.
Held(s) == QueueSet(s) \cup ({s.current} \ {NoPid})

\* Mistake: the wait state is not looked at.
NotStopped(s, p) == ~IsStopped(s.proc[p])

Runnable(s, p) == ~IsBlocked(s.proc[p]) /\ ~IsStopped(s.proc[p])

-----------------------------------------------------------------------------

\* Mistake: push_front for push_back.
AddProcessInFront(s, pid, p) ==
    [s EXCEPT !.proc[pid] = p, !.queue = <<pid>> \o @]

\* add_process asserts Ready; both callers pass a fresh Ready process.
AddProcess(s, pid, p) ==
    [proc    |-> [s.proc EXCEPT ![pid] = p],
     queue   |-> Append(s.queue, pid),
     current |-> s.current]

\* Through current_process_mut, the process in the slot becomes p.
SetCurrent(s, p) == [s EXCEPT !.proc = [@ EXCEPT ![s.current] = p]]

WakeWaitersForChild(s, child) ==
    [s EXCEPT !.proc = [p \in Pids |->
        IF p \in Held(s) /\ ShouldWakeOnChildExit(s.proc[p], child)
        THEN Wake(s.proc[p])
        ELSE s.proc[p]]]

\* The current process leaves the scheduler, and its Process value is freed.
Dropped(s, end) ==
    LET gone == [NewProcess(s.current, s.proc[s.current].parent) EXCEPT !.state = end]
    IN  [proc    |-> [s.proc EXCEPT ![s.current] = gone],
         queue   |-> s.queue,
         current |-> NoPid]

\* The first half of schedule_next.  The current process leaves its slot: an
\* exited one is dropped, a terminated one too, a stopped one goes to the
\* back of the queue and wakes the waiters, any other goes to the back as
\* Ready and is woken when a signal is still pending.
Requeue(s) ==
    LET pid == s.current
        p   == AfterDelivery(s.proc[pid])
        sig == DeliverableSignal(s.proc[pid])
        Back(q) == [proc    |-> [s.proc EXCEPT ![pid] = q],
                    queue   |-> Append(s.queue, pid),
                    current |-> NoPid]
    IN  CASE pid = NoPid -> s
          [] pid # NoPid /\ IsExited(s.proc[pid]) ->
                Dropped(s, s.proc[pid].state)
          [] pid # NoPid /\ ~IsExited(s.proc[pid]) /\ sig = SIGINT ->
                Dropped(s, "Exited")
          [] pid # NoPid /\ ~IsExited(s.proc[pid]) /\ sig = SIGTSTP ->
                WakeWaitersForChild(Back([p EXCEPT !.state = "Stopped"]), pid)
          [] OTHER ->
                LET q == IF p.pending # {} THEN Wake(p) ELSE p
                IN  Back([q EXCEPT !.state = "Ready"])

\* The second half.  Blocked and stopped processes rotate to the back until
\* a runnable one is found; with none the queue has made a full turn.
FirstRunnable(s, i) ==
    /\ i \in 1 .. Len(s.queue)
    /\ Runnable(s, s.queue[i])
    /\ \A j \in 1 .. i - 1 : ~Runnable(s, s.queue[j])

\* Mistake: only the front of the queue is tried.
DispatchFront(s) ==
    IF s.queue = <<>> \/ ~Runnable(s, s.queue[1])
    THEN s
    ELSE [proc    |-> [s.proc EXCEPT ![s.queue[1]].state = "Running"],
          queue   |-> Tail(s.queue),
          current |-> s.queue[1]]

\* Mistake: the skipped processes are not put back.
DispatchForgetting(s) ==
    IF \A p \in QueueSet(s) : ~Runnable(s, p)
    THEN s
    ELSE LET i == CHOOSE i \in 1 .. Len(s.queue) : FirstRunnable(s, i)
         IN  [proc    |-> [s.proc EXCEPT ![s.queue[i]].state = "Running"],
              queue   |-> SubSeq(s.queue, i + 1, Len(s.queue)),
              current |-> s.queue[i]]

Dispatch(s) ==
    IF \A p \in QueueSet(s) : ~Runnable(s, p)
    THEN s
    ELSE LET i == CHOOSE i \in 1 .. Len(s.queue) : FirstRunnable(s, i)
         IN  [proc    |-> [s.proc EXCEPT ![s.queue[i]].state = "Running"],
              queue   |-> SubSeq(s.queue, i + 1, Len(s.queue))
                            \o SubSeq(s.queue, 1, i - 1),
              current |-> s.queue[i]]

ScheduleNext(s) == Dispatch(Requeue(s))

-----------------------------------------------------------------------------

IsChildOf(s, c, parent) == s.proc[c].parent = parent

\* The current slot is looked at before the queue, the queue front to back.
FirstHeld(s, Wanted(_)) ==
    IF s.current # NoPid /\ Wanted(s.current)
    THEN s.current
    ELSE IF \E p \in QueueSet(s) : Wanted(p)
    THEN s.queue[CHOOSE i \in 1 .. Len(s.queue) :
                    /\ Wanted(s.queue[i])
                    /\ \A j \in 1 .. i - 1 : ~Wanted(s.queue[j])]
    ELSE NoPid

ZombieChild(s, parent) ==
    LET Wanted(p) == IsZombie(s.proc[p]) /\ IsChildOf(s, p, parent)
    IN  FirstHeld(s, Wanted)

\* find_zombie_child takes the zombie out of the scheduler.
RemoveHeld(s, pid) ==
    [s EXCEPT !.queue = SelectSeq(@, LAMBDA p : p # pid),
              !.current = IF @ = pid THEN NoPid ELSE @]

StoppedChild(s, parent) ==
    LET Wanted(p) == IsStopped(s.proc[p]) /\ IsChildOf(s, p, parent)
    IN  FirstHeld(s, Wanted)

HasChildren(s, parent) == \E p \in Held(s) : IsChildOf(s, p, parent)

GroupMembers(s, pgid) == {p \in Held(s) : s.proc[p].pgid = pgid}

SignalProcessGroup(s, pgid, sig) ==
    [s EXCEPT !.proc = [p \in Pids |->
        IF p \in GroupMembers(s, pgid) THEN SendSignal(s.proc[p], sig)
                                       ELSE s.proc[p]]]

-----------------------------------------------------------------------------
(* What every handler leaves the scheduler in.                             *)

\* No Process value is in two places: VecDeque and current slot together hold
\* a pid at most once (take, push_back, pop_front, remove of scheduler.rs).
HeldOnce(s) ==
    /\ \A i, j \in 1 .. Len(s.queue) : s.queue[i] = s.queue[j] => i = j
    /\ s.current \notin QueueSet(s)

\* What the state field says agrees with where the value is: the process in
\* the slot, and no other, is Running; the queue holds Ready and Stopped ones;
\* a process outside the scheduler was never created or has ended.
StateAgreesWithPlace(s) ==
    /\ s.current # NoPid => s.proc[s.current].state = "Running"
    /\ \A p \in QueueSet(s) : s.proc[p].state \in {"Ready", "Stopped"}
    /\ \A p \in Pids \ Held(s) : s.proc[p].state \in {"Absent", "Exited", "Zombie"}

\* Only a queued process is blocked: waitpid never leaves the CPU with a
\* caller that it has blocked, and an ended process waits for nobody.
BlockedIsQueued(s) ==
    \A p \in Pids : IsBlocked(s.proc[p]) => p \in QueueSet(s)

Consistent(s) == HeldOnce(s) /\ StateAgreesWithPlace(s) /\ BlockedIsQueued(s)

=============================================================================

----------------------------- MODULE StepProofs -----------------------------
(***************************************************************************)
(* What a step of the kernel does to the processes that do not make it,    *)
(* for every number of processes: who wakes a process blocked in waitpid,  *)
(* who may come before a process in the queue, and which steps of the life *)
(* cycle a process takes.                                                  *)
(***************************************************************************)
EXTENDS KernelProofs, KernelRefinement

-----------------------------------------------------------------------------
(* Wake-ups.  Processes are woken in two places, wake_waiters_for_child and *)
(* the end of schedule_next's first half, which wakes the process that     *)
(* leaves the slot.  The latter is blocked only by the call that makes it  *)
(* leave, so that no wake without a cause can be seen between two steps.   *)

\* What the parent of a process is told of.
Ends == {"Exited", "Zombie", "Stopped"}

\* What happens from s to t to a process p that is not the current one: it is
\* dispatched at most, nobody blocks it, and it is woken only if it waits for
\* the current one, or for any child, and the current one ended or stopped.
Follows(s, t, p) ==
    /\ \/ t.proc[p].state = s.proc[p].state
       \/ s.proc[p].state = "Ready" /\ t.proc[p].state = "Running"
    /\ IsBlocked(t.proc[p]) => IsBlocked(s.proc[p])
    /\ IsBlocked(s.proc[p]) /\ ~IsBlocked(t.proc[p]) =>
            /\ s.current \in Pids
            /\ s.proc[p].wait \in {WaitingForAnyChild, s.current}
            /\ t.proc[s.current].state \in Ends

Caused(s, t) == \A p \in Pids \ {s.current} : Follows(s, t, p)

\* A step that creates a process.
Forked ==
    /\ sched.current # NoPid
    /\ nextPid \in Pids
    /\ sched.proc[nextPid].state = "Absent"
    /\ sched'.proc[nextPid].state \in {"Ready", "Running"}
    /\ ~IsBlocked(sched.proc[nextPid]) /\ ~IsBlocked(sched'.proc[nextPid])
    /\ \A p \in Pids \ {sched.current, nextPid} : Follows(sched, sched', p)

\* The first cause of WakeHasCause, the only one in this kernel.
WakeCaused ==
    \A p \in Pids :
        IsBlocked(sched.proc[p]) /\ ~IsBlocked(sched'.proc[p]) =>
            \E q \in Reported : sched.proc[p].wait \in {WaitingForAnyChild, q}

-----------------------------------------------------------------------------

\* wake_waiters_for_child wakes those that wait for the child or for any.
LEMMA WakeWaitersCause ==
    ASSUME NEW s \in SchedulerType, NEW child \in Pids, NEW p \in Pids
    PROVE  \/ WakeWaitersForChild(s, child).proc[p] = s.proc[p]
           \/ s.proc[p].wait \in {WaitingForAnyChild, child}
<1> DEFINE f == [x \in Pids |-> IF x \in Held(s) /\ ShouldWakeOnChildExit(s.proc[x], child)
                                THEN Wake(s.proc[x]) ELSE s.proc[x]]
<1>1. WakeWaitersForChild(s, child).proc = f
  BY DEF WakeWaitersForChild, SchedulerType
<1>2. f[p] = IF p \in Held(s) /\ ShouldWakeOnChildExit(s.proc[p], child)
             THEN Wake(s.proc[p]) ELSE s.proc[p]
  OBVIOUS
<1> HIDE DEF f
<1> QED
  BY <1>1, <1>2 DEF ShouldWakeOnChildExit

\* The second half of schedule_next wakes nobody; it changes the state of a
\* runnable process of the queue only.
LEMMA DispatchWakesNobody ==
    ASSUME NEW s \in SchedulerType, Consistent(s), s.current = NoPid, NEW p \in Pids
    PROVE  /\ Dispatch(s).proc[p].wait = s.proc[p].wait
           /\ \/ Dispatch(s).proc[p].state = s.proc[p].state
              \/ /\ p \in QueueSet(s) /\ Runnable(s, p)
                 /\ Dispatch(s).proc[p].state = "Running"
<1> DEFINE t == Dispatch(s)
<1>1. CASE NobodyRunnable(s)
  BY <1>1 DEF Dispatch, NobodyRunnable
<1>2. CASE ~NobodyRunnable(s)
  <2> DEFINE i == CHOOSE i \in 1 .. Len(s.queue) : FirstRunnable(s, i)
             next == s.queue[i]
             rest == SubSeq(s.queue, i + 1, Len(s.queue)) \o SubSeq(s.queue, 1, i - 1)
  <2>1. i \in 1 .. Len(s.queue) /\ FirstRunnable(s, i)
    BY <1>2, FirstRunnableExists DEF NobodyRunnable
  <2> HIDE DEF i
  <2>2. t = [proc    |-> [s.proc EXCEPT ![next].state = "Running"],
             queue   |-> rest,
             current |-> next]
    BY <1>2 DEF Dispatch, NobodyRunnable, i
  <2>3. next \in QueueSet(s) /\ Runnable(s, next) /\ next \in Pids
    BY <2>1, HeldArePids DEF FirstRunnable, QueueSet
  <2> HIDE DEF t, next, rest
  <2>4. s.proc \in [Pids -> ProcessType]
    BY DEF SchedulerType
  <2>5. /\ \A x \in Pids \ {next} : t.proc[x] = s.proc[x]
        /\ t.proc[next] = [s.proc[next] EXCEPT !.state = "Running"]
    BY <2>2, <2>3, <2>4 DEF ProcessType
  <2>6. t.proc[next].wait = s.proc[next].wait /\ t.proc[next].state = "Running"
    BY <2>3, <2>4, <2>5 DEF ProcessType
  <2> QED
    BY <2>3, <2>5, <2>6 DEF t
<1> QED
  BY <1>1, <1>2

\* The first half wakes others only when it stops the current process, and
\* nobody when that has ended already.
LEMMA RequeueCause ==
    ASSUME NEW s \in SchedulerType, Schedulable(s)
    PROVE  /\ Caused(s, Requeue(s))
           /\ s.current # NoPid /\ IsExited(s.proc[s.current]) =>
                /\ Requeue(s).proc[s.current].state \in Ends
                /\ \A p \in Pids \ {s.current} : Requeue(s).proc[p] = s.proc[p]
<1> DEFINE me == s.current
           p == AfterDelivery(s.proc[me])
           sig == DeliverableSignal(s.proc[me])
           Back(q) == [proc    |-> [s.proc EXCEPT ![me] = q],
                       queue   |-> Append(s.queue, me),
                       current |-> NoPid]
           t == Requeue(s)
<1>0. s.proc \in [Pids -> ProcessType] /\ me \in Pids \cup {NoPid}
  BY DEF SchedulerType
<1>1. CASE me = NoPid
  <2>1. t = s
    BY <1>1 DEF Requeue
  <2> QED
    BY <1>1, <2>1 DEF Caused, Follows
<1>2. ASSUME me # NoPid, NEW end \in {"Exited", "Zombie"}
      PROVE  /\ Dropped(s, end).proc[me].state \in Ends
             /\ \A x \in Pids \ {me} : Dropped(s, end).proc[x] = s.proc[x]
  <2> DEFINE gone == [NewProcess(me, s.proc[me].parent) EXCEPT !.state = end]
  <2>1. gone.state = end
    BY DEF NewProcess
  <2> HIDE DEF gone
  <2>2. Dropped(s, end).proc = [s.proc EXCEPT ![me] = gone]
    BY DEF Dropped, gone
  <2>3. Dropped(s, end).proc[me] = gone /\ \A x \in Pids \ {me} : Dropped(s, end).proc[x] = s.proc[x]
    BY <1>0, <1>2, <2>2
  <2> QED
    BY <2>1, <2>3 DEF Ends
<1>3. CASE me # NoPid /\ IsExited(s.proc[me])
  <2>1. t = Dropped(s, s.proc[me].state)
    BY <1>3 DEF Requeue
  <2>2. s.proc[me].state \in {"Exited", "Zombie"}
    BY <1>3 DEF IsExited
  <2> QED
    BY <1>2, <1>3, <2>1, <2>2 DEF Caused, Follows
<1>4. CASE me # NoPid /\ ~IsExited(s.proc[me]) /\ sig = SIGINT
  <2>1. t = Dropped(s, "Exited")
    BY <1>4 DEF Requeue, SIGINT, SIGTSTP
  <2> QED
    BY <1>2, <1>4, <2>1 DEF Caused, Follows
<1>5. CASE me # NoPid /\ ~IsExited(s.proc[me]) /\ sig # SIGINT
  <2>0. /\ s.proc[me] \in ProcessType /\ me \in Pids
        /\ s.proc[me].state = "Running"
    BY <1>5 DEF SchedulerType, Schedulable, IsExited
  <2>1. /\ p \in ProcessType /\ p.state = "Running"
        /\ p.parent = s.proc[me].parent
    BY <2>0, AfterDeliveryOK DEF IsStopped
  <2> HIDE DEF p
  <2>2. CASE sig = SIGTSTP
    <3> DEFINE q == [p EXCEPT !.state = "Stopped"]
               u == Back(q)
    <3>1. t = WakeWaitersForChild(u, me)
      BY <1>5, <2>2 DEF Requeue, p
    <3>2. q \in ProcessType /\ q.state = "Stopped" /\ q.parent = s.proc[me].parent
      BY <2>1 DEF ProcessType, ProcessStates
    <3> HIDE DEF q
    <3>3. u \in SchedulerType
      BY <1>5, <3>2, BackOK
    <3>4. u.proc[me] = q /\ \A x \in Pids \ {me} : u.proc[x] = s.proc[x]
      BY <1>0, <2>0
    <3> HIDE DEF u
    <3>5. \A x \in Pids : /\ t.proc[x].state = u.proc[x].state
                          /\ IsBlocked(t.proc[x]) => IsBlocked(u.proc[x])
      BY <2>0, <3>1, <3>3, WakeWaitersOK
    <3>6. \A x \in Pids : t.proc[x] = u.proc[x] \/ u.proc[x].wait \in {WaitingForAnyChild, me}
      BY <2>0, <3>1, <3>3, WakeWaitersCause
    <3> HIDE DEF t
    <3>7. Caused(s, t)
      BY <2>0, <3>2, <3>4, <3>5, <3>6 DEF Caused, Follows, Ends
    <3> QED
      BY <1>5, <3>7 DEF t
  <2>3. CASE sig # SIGTSTP
    <3> DEFINE w == IF p.pending # {} THEN Wake(p) ELSE p
               q == [w EXCEPT !.state = "Ready"]
    <3>1. t = Back(q)
      BY <1>5, <2>3 DEF Requeue, p
    <3> HIDE DEF q
    <3>2. \A x \in Pids \ {me} : t.proc[x] = s.proc[x]
      BY <1>0, <2>0, <3>1
    <3> HIDE DEF t
    <3> QED
      BY <1>5, <3>2 DEF Caused, Follows, t
  <2> QED
    BY <2>2, <2>3
<1> QED
  BY <1>1, <1>3, <1>4, <1>5

\* schedule_next as a whole.
LEMMA ScheduleNextCause ==
    ASSUME NEW s \in SchedulerType, Schedulable(s)
    PROVE  LET t == ScheduleNext(s)
           IN  /\ Caused(s, t)
               /\ s.current # NoPid /\ IsExited(s.proc[s.current]) =>
                    /\ t.proc[s.current].state \in Ends
                    /\ \A p \in Pids \ {s.current} : t.proc[p].wait = s.proc[p].wait
<1> DEFINE u == Requeue(s)
           t == Dispatch(u)
<1>1. u \in SchedulerType /\ Consistent(u) /\ u.current = NoPid
  BY RequeueOK
<1>2. /\ Caused(s, u)
      /\ s.current # NoPid /\ IsExited(s.proc[s.current]) =>
            /\ u.proc[s.current].state \in Ends
            /\ \A p \in Pids \ {s.current} : u.proc[p] = s.proc[p]
  BY RequeueCause
<1> HIDE DEF u
<1>3. \A p \in Pids : /\ t.proc[p].wait = u.proc[p].wait
                      /\ \/ t.proc[p].state = u.proc[p].state
                         \/ /\ p \in QueueSet(u) /\ Runnable(u, p)
                            /\ t.proc[p].state = "Running"
  BY <1>1, DispatchWakesNobody
<1> HIDE DEF t
<1>4. \A p \in Pids : u.proc[p].state \in Ends => t.proc[p].state \in Ends
  <2> SUFFICES ASSUME NEW p \in Pids, u.proc[p].state \in Ends
               PROVE  ~(p \in QueueSet(u) /\ Runnable(u, p))
    BY <1>3
  <2> QED
    BY <1>1 DEF Consistent, StateAgreesWithPlace, Runnable, IsStopped, Ends
<1>5. /\ s.current \in Pids \cup {NoPid}
      /\ \A p \in QueueSet(u) : Runnable(u, p) => u.proc[p].state = "Ready"
  BY <1>1 DEF SchedulerType, Consistent, StateAgreesWithPlace, Runnable, IsStopped
<1>6. Caused(s, t)
  <2> SUFFICES ASSUME NEW p \in Pids \ {s.current}
               PROVE  Follows(s, t, p)
    BY DEF Caused
  <2>1. Follows(s, u, p)
    BY <1>2 DEF Caused
  <2>2. \/ t.proc[p].state = s.proc[p].state
        \/ s.proc[p].state = "Ready" /\ t.proc[p].state = "Running"
    BY <1>3, <1>5, <2>1 DEF Follows
  <2>3. IsBlocked(t.proc[p]) <=> IsBlocked(u.proc[p])
    BY <1>3 DEF IsBlocked
  <2> QED
    BY <1>4, <2>1, <2>2, <2>3 DEF Follows
<1>7. s.current # NoPid /\ IsExited(s.proc[s.current]) =>
            /\ t.proc[s.current].state \in Ends
            /\ \A p \in Pids \ {s.current} : t.proc[p].wait = s.proc[p].wait
  BY <1>2, <1>3, <1>4, <1>5
<1> QED
  BY <1>6, <1>7 DEF ScheduleNext, t, u

-----------------------------------------------------------------------------

SameRun(p, q) == q.state = p.state /\ q.wait = p.wait

\* What a handler hands to the trap path: it returned and woke nobody, or it
\* called schedule_next.
Quiet(out) ==
    /\ out.ends = "return" =>
            \A p \in Pids \ {sched.current} : SameRun(sched.proc[p], out.s.proc[p])
    /\ out.ends # "return" => Caused(sched, out.s)

\* A wake with a cause is the report of an end.
LEMMA FollowsIsReported ==
    ASSUME KInv, NEW p \in Pids, Follows(sched, sched', p),
           IsBlocked(sched.proc[p]), ~IsBlocked(sched'.proc[p])
    PROVE  \E q \in Reported : sched.proc[p].wait \in {WaitingForAnyChild, q}
<1>1. Consistent(sched)
  BY DEF KInv, SchedOK
<1>2. /\ sched.current \in Pids
      /\ sched.proc[p].wait \in {WaitingForAnyChild, sched.current}
      /\ sched'.proc[sched.current].state \in Ends
  BY DEF Follows
<1>3. sched.proc[sched.current].state = "Running"
  BY <1>1, <1>2, PidsAreNotNoPid DEF Consistent, StateAgreesWithPlace
<1>4. sched.current \in Reported
  BY <1>2, <1>3 DEF Reported, Ends
<1> QED
  BY <1>2, <1>4

\* Where the trap path goes from the outcome of a handler.
LEMMA TrapFollows ==
    ASSUME NEW STATE out, Settled(out), Trap(out)
    PROVE  /\ out.ends = "return" => Caused(out.s, sched')
           /\ out.ends # "return" => sched' = out.s
<1>1. out.s \in SchedulerType /\ Consistent(out.s)
  BY DEF Settled
<1>2. sched' = out.s \/ (sched' = ScheduleNext(out.s) /\ out.ends # "switch")
  BY DEF Trap, Preempt, Finish
<1>3. Caused(out.s, out.s)
  BY DEF Caused, Follows
<1>4. Caused(out.s, ScheduleNext(out.s))
  BY <1>1, ScheduleNextCause, ConsistentIsSchedulable
<1>5. out.ends = "emptied" => ScheduleNext(out.s) = out.s
  BY ScheduleNextIdle DEF Settled
<1> QED
  BY <1>2, <1>3, <1>4, <1>5 DEF Settled

\* The preemption check at the end of a call wakes nobody without a cause.
LEMMA TrapCause ==
    ASSUME NEW STATE out, Settled(out), Quiet(out), Trap(out)
    PROVE  Caused(sched, sched')
<1>1. CASE out.ends = "return"
  <2>1. out.s.current = sched.current
    BY <1>1 DEF Settled
  <2>2. \A p \in Pids \ {sched.current} : SameRun(sched.proc[p], out.s.proc[p])
    BY <1>1 DEF Quiet
  <2>3. Caused(out.s, sched')
    BY <1>1, TrapFollows
  <2> QED
    BY <2>1, <2>2, <2>3 DEF Caused, Follows, SameRun, IsBlocked
<1>2. CASE out.ends # "return"
  BY <1>2, TrapFollows DEF Quiet
<1> QED
  BY <1>1, <1>2

\* A handler that returns with the others as they were.
LEMMA ReturnedQuiet ==
    ASSUME NEW STATE s, NEW STATE r,
           \A p \in Pids \ {sched.current} : SameRun(sched.proc[p], s.proc[p])
    PROVE  Quiet(Returned(s, r))
<1>1. Returned(s, r).s = s /\ Returned(s, r).ends = "return"
  BY DEF Returned
<1> QED
  BY <1>1 DEF Quiet

\* A handler that returns an error.
LEMMA ErrorQuiet ==
    ASSUME NEW STATE r
    PROVE  Quiet(Returned(sched, r))
  BY ReturnedQuiet DEF SameRun

\* A handler that yields, having touched the current process only.
LEMMA YieldingQuiet ==
    ASSUME NEW STATE s, s \in SchedulerType, NEW STATE r, Schedulable(s),
           s.current = sched.current,
           \A p \in Pids \ {sched.current} : s.proc[p] = sched.proc[p]
    PROVE  Quiet(Yielding(s, r))
<1> DEFINE t == ScheduleNext(s)
<1>1. Caused(s, t)
  BY ScheduleNextCause
<1> HIDE DEF t
<1>2. Caused(sched, t)
  BY <1>1 DEF Caused, Follows
<1>3. Yielding(s, r).s = t /\ Yielding(s, r).ends # "return"
  BY DEF Yielding, t
<1> QED
  BY <1>2, <1>3 DEF Quiet

\* A write to the process in the slot touches nobody else.
LEMMA SetCurrentQuiet ==
    ASSUME KInv, sched.current # NoPid, NEW STATE q, q \in ProcessType, NEW STATE r
    PROVE  Quiet(Returned(SetCurrent(sched, q), r))
<1> DEFINE t == SetCurrent(sched, q)
<1>1. sched \in SchedulerType
  BY DEF KInv, TypeOK
<1>2. \A p \in Pids \ {sched.current} : t.proc[p] = sched.proc[p]
  BY <1>1, SetCurrentOK
<1> HIDE DEF t
<1>3. Quiet(Returned(t, r))
  BY <1>2, ReturnedQuiet DEF SameRun
<1> QED
  BY <1>3 DEF t

\* kill makes signals pending, and a pending signal wakes nobody.
LEMMA KillQuiet ==
    ASSUME KInv, NEW pid \in Int, NEW sig
    PROVE  Quiet(KillHandler(sched, pid, sig))
<1>1. sched \in SchedulerType /\ Consistent(sched)
  BY DEF KInv, TypeOK, SchedOK
<1>2. CASE sig \notin Signals \/ pid = 0
  BY <1>2, ErrorQuiet DEF KillHandler
<1>3. CASE sig \in Signals /\ pid > 0 /\ pid # sched.current
  BY <1>3, ErrorQuiet DEF KillHandler
<1>4. CASE sig \in Signals /\ pid > 0 /\ pid = sched.current
  <2> DEFINE q == SendSignal(sched.proc[pid], sig)
  <2>1. KillHandler(sched, pid, sig) = Returned(SetCurrent(sched, q), 0)
    BY <1>4 DEF KillHandler
  <2>2. sched.current # NoPid /\ pid \in Pids /\ sched.proc[pid] \in ProcessType
    BY <1>1, <1>4 DEF NoPid, SchedulerType
  <2>3. q \in ProcessType
    BY <1>4, <2>2 DEF SendSignal, ProcessType
  <2> HIDE DEF q
  <2> QED
    BY <2>1, <2>2, <2>3, SetCurrentQuiet
<1>5. CASE sig \in Signals /\ pid < 0
  <2> DEFINE f == [p \in Pids |-> IF p \in GroupMembers(sched, -pid)
                                  THEN SendSignal(sched.proc[p], sig) ELSE sched.proc[p]]
             t == SignalProcessGroup(sched, -pid, sig)
             r == IF GroupMembers(sched, -pid) = {} THEN ESRCH ELSE 0
  <2>1. KillHandler(sched, pid, sig) = Returned(t, r)
    BY <1>5 DEF KillHandler
  <2>2. t.proc = f
    BY <1>1 DEF SignalProcessGroup, SchedulerType
  <2>3. \A p \in Pids : f[p] = IF p \in GroupMembers(sched, -pid)
                               THEN SendSignal(sched.proc[p], sig) ELSE sched.proc[p]
    OBVIOUS
  <2> HIDE DEF f, t, r
  <2>4. \A p \in Pids : SameRun(sched.proc[p], SendSignal(sched.proc[p], sig))
    BY <1>1 DEF SameRun, SendSignal, SchedulerType, ProcessType
  <2>5. \A p \in Pids : SameRun(sched.proc[p], t.proc[p])
    BY <2>2, <2>3, <2>4 DEF SameRun
  <2> QED
    BY <2>1, <2>5, ReturnedQuiet
<1> QED
  BY <1>2, <1>3, <1>4, <1>5

\* setpgid writes to the current process.
LEMMA SetpgidQuiet ==
    ASSUME KInv, NEW pid \in {0} \cup Pids, NEW pgid \in {0} \cup Pgids
    PROVE  Quiet(SetpgidHandler(sched, pid, pgid))
<1> DEFINE me == sched.current
           target == IF pid = 0 THEN me ELSE pid
<1>1. sched \in SchedulerType
  BY DEF KInv, TypeOK
<1>2. CASE me = NoPid \/ me # target
  BY <1>2, ErrorQuiet DEF SetpgidHandler
<1>3. CASE me # NoPid /\ me = target
  <2> DEFINE g == IF pgid = 0 THEN me ELSE pgid
             q == [sched.proc[me] EXCEPT !.pgid = g]
  <2>1. SetpgidHandler(sched, pid, pgid) = Returned(SetCurrent(sched, q), 0)
    BY <1>3 DEF SetpgidHandler
  <2>2. me \in Pids /\ sched.proc[me] \in ProcessType /\ g \in Pgids
    BY <1>1, <1>3 DEF SchedulerType, Pids, Pgids
  <2> HIDE DEF g
  <2>3. q \in ProcessType
    BY <2>2 DEF ProcessType
  <2> HIDE DEF q
  <2> QED
    BY <1>3, <2>1, <2>3, SetCurrentQuiet
<1> QED
  BY <1>2, <1>3

\* waitpid blocks the current process and leaves the others alone.
LEMMA BlockedOK ==
    ASSUME KInv, sched.current # NoPid, NEW pid \in {-1} \cup Pids
    PROVE  LET t == SetCurrent(sched, [sched.proc[sched.current] EXCEPT !.wait = pid])
           IN  /\ t \in SchedulerType /\ Schedulable(t)
               /\ t.queue = sched.queue /\ t.current = sched.current
               /\ \A p \in Pids \ {sched.current} : t.proc[p] = sched.proc[p]
<1> DEFINE me == sched.current
           q == [sched.proc[me] EXCEPT !.wait = pid]
           t == SetCurrent(sched, q)
<1>1. sched \in SchedulerType /\ Consistent(sched)
  BY DEF KInv, TypeOK, SchedOK
<1>2. me \in Pids /\ sched.proc[me] \in ProcessType
  BY <1>1 DEF SchedulerType
<1>3. q \in ProcessType /\ q.state = sched.proc[me].state
  BY <1>2 DEF ProcessType, WaitStates, WaitingForAnyChild
<1> HIDE DEF q
<1>4. /\ t \in SchedulerType /\ t.queue = sched.queue /\ t.current = me
      /\ QueueSet(t) = QueueSet(sched) /\ Held(t) = Held(sched)
      /\ t.proc[me] = q /\ \A p \in Pids \ {me} : t.proc[p] = sched.proc[p]
  BY <1>1, <1>3, SetCurrentOK
<1> HIDE DEF t
<1>5. /\ HeldOnce(t)
      /\ t.proc[t.current].state \in {"Running", "Exited", "Zombie"}
  BY <1>1, <1>3, <1>4 DEF Consistent, HeldOnce, StateAgreesWithPlace
<1>6. /\ \A p \in QueueSet(t) : t.proc[p].state \in {"Ready", "Stopped"}
      /\ \A p \in Pids \ Held(t) : t.proc[p].state \in {"Absent", "Exited", "Zombie"}
  BY <1>1, <1>3, <1>4, HeldArePids DEF Consistent, StateAgreesWithPlace
<1>7. \A p \in Pids : IsBlocked(t.proc[p]) => p \in Held(t)
  BY <1>1, <1>2, <1>4 DEF Consistent, BlockedIsQueued, Held
<1>8. Schedulable(t)
  BY <1>5, <1>6, <1>7 DEF Schedulable
<1> QED
  BY <1>4, <1>8 DEF t, q

\* waitpid returns with the scheduler as it was, or blocks and yields.
LEMMA WaitpidOutcome ==
    ASSUME KInv, NEW pid \in {-2, -1, 0} \cup Pids, NEW options, NEW writable \in BOOLEAN
    PROVE  LET out == WaitpidHandler(sched, pid, options, writable)
               t == SetCurrent(sched, [sched.proc[sched.current] EXCEPT !.wait = pid])
           IN  \/ \E r : out = Returned(sched, r)
               \/ sched.current # NoPid /\ pid \in {-1} \cup Pids /\ out = Yielding(t, ESRCH)
<1> DEFINE out == WaitpidHandler(sched, pid, options, writable)
           me == sched.current
<1>1. ZombieChild(sched, me) = NoPid
  BY NoZombieHeld DEF KInv, TypeOK, SchedOK
<1>2. \/ \E r : out = Returned(sched, r)
      \/ me # NoPid /\ pid # 0 /\ ~(pid < -1) /\ out = WaitForChild(sched, pid)
  BY <1>1 DEF WaitpidHandler
<1> QED
  BY <1>2 DEF WaitForChild

\* waitpid wakes nobody by itself.
LEMMA WaitpidQuiet ==
    ASSUME KInv, NEW pid \in {-2, -1, 0} \cup Pids, NEW options, NEW writable \in BOOLEAN
    PROVE  Quiet(WaitpidHandler(sched, pid, options, writable))
<1> DEFINE out == WaitpidHandler(sched, pid, options, writable)
           t == SetCurrent(sched, [sched.proc[sched.current] EXCEPT !.wait = pid])
<1>1. \/ \E r : out = Returned(sched, r)
      \/ sched.current # NoPid /\ pid \in {-1} \cup Pids /\ out = Yielding(t, ESRCH)
  BY WaitpidOutcome
<1> HIDE DEF out
<1>2. CASE \E r : out = Returned(sched, r)
  BY <1>2, ErrorQuiet DEF out
<1>3. CASE sched.current # NoPid /\ pid \in {-1} \cup Pids /\ out = Yielding(t, ESRCH)
  <2>1. /\ t \in SchedulerType /\ Schedulable(t) /\ t.current = sched.current
        /\ \A p \in Pids \ {sched.current} : t.proc[p] = sched.proc[p]
    BY <1>3, BlockedOK
  <2> HIDE DEF t
  <2> QED
    BY <1>3, <2>1, YieldingQuiet DEF out
<1> QED
  BY <1>1, <1>2, <1>3

\* The child of a successful fork was not there before, and waits for nobody.
LEMMA ForkCause ==
    ASSUME KInv, SysFork(TRUE)
    PROVE  Forked
<1> DEFINE me == sched.current
           child == nextPid
           s == AddProcess(sched, child, NewProcess(child, me))
           out == Returned(s, child)
<1>1. /\ sched \in SchedulerType /\ Consistent(sched)
      /\ me \in Pids \cup {NoPid} /\ child \in Pids
  BY DEF KInv, TypeOK, SchedOK, SchedulerType, SysFork
<1>2. Trap(out)
  BY DEF SysFork, ForkHandler
<1>3. sched.proc[child].state = "Absent" /\ child \in Nat
  BY <1>1, PidsAreNotNoPid DEF KInv, PidsFresh
<1>4. /\ s \in SchedulerType /\ Consistent(s) /\ s.current = me
      /\ \A p \in Pids \ {child} : s.proc[p] = sched.proc[p]
      /\ s.proc[child].state = "Ready" /\ ~IsBlocked(s.proc[child])
  <2>1. \A c \in Pids, m \in Pids \cup {NoPid} :
          sched.proc[c].state = "Absent" =>
            LET t == AddProcess(sched, c, NewProcess(c, m))
            IN  /\ t \in SchedulerType /\ Consistent(t)
                /\ t.current = sched.current
                /\ \A p \in Pids \ {c} : t.proc[p] = sched.proc[p]
                /\ t.proc[c].state = "Ready"
    BY <1>1, AddProcessOK
  <2>2. s.proc[child] = NewProcess(child, me)
    BY <1>1 DEF AddProcess, SchedulerType
  <2>3. ~IsBlocked(NewProcess(child, me))
    BY DEF NewProcess, IsBlocked
  <2> QED
    BY <1>1, <1>3, <2>1, <2>2, <2>3
<1> HIDE DEF s
<1>5. me # NoPid
  BY DEF SysFork
<1>6. out.s = s /\ out.ends = "return"
  BY DEF Returned
<1>7. Settled(out)
  BY <1>4, <1>5, <1>6 DEF Settled
<1>8. ~IsBlocked(sched.proc[child])
  BY <1>1, <1>3 DEF Consistent, StateAgreesWithPlace, BlockedIsQueued
<1>9. Caused(s, sched')
  BY <1>2, <1>6, <1>7, TrapFollows
<1>10. Follows(s, sched', child)
  BY <1>1, <1>3, <1>4, <1>9, PidsAreNotNoPid DEF Caused, Consistent, StateAgreesWithPlace
<1>11. sched'.proc[child].state \in {"Ready", "Running"} /\ ~IsBlocked(sched'.proc[child])
  BY <1>4, <1>10 DEF Follows
<1>12. \A p \in Pids \ {me, child} : Follows(sched, sched', p)
  BY <1>4, <1>9 DEF Caused, Follows
<1> QED
  BY <1>1, <1>3, <1>5, <1>8, <1>11, <1>12 DEF Forked

\* What exit hands to schedule_next: the current process ended, its waiters
\* awake.
ExitedAndWoken ==
    LET me   == sched.current
        gone == IF sched.proc[me].parent = NoPid THEN "Exited" ELSE "Zombie"
    IN  WakeWaitersForChild(SetCurrent(sched, [sched.proc[me] EXCEPT !.state = gone]), me)

\* The scheduler exit leaves to schedule_next, and what became of the others.
LEMMA ExitedOK ==
    ASSUME KInv, sched.current # NoPid
    PROVE  LET w == ExitedAndWoken
           IN  /\ w \in SchedulerType /\ Schedulable(w)
               /\ w.queue = sched.queue /\ w.current = sched.current
               /\ IsExited(w.proc[sched.current])
               /\ \A p \in Pids \ {sched.current} :
                    /\ w.proc[p].state = sched.proc[p].state
                    /\ IsBlocked(w.proc[p]) => IsBlocked(sched.proc[p])
                    /\ \/ w.proc[p] = sched.proc[p]
                       \/ sched.proc[p].wait \in {WaitingForAnyChild, sched.current}
<1> DEFINE me == sched.current
           gone == IF sched.proc[me].parent = NoPid THEN "Exited" ELSE "Zombie"
           q == [sched.proc[me] EXCEPT !.state = gone]
           u == SetCurrent(sched, q)
           w == WakeWaitersForChild(u, me)
<1>1. sched \in SchedulerType /\ Consistent(sched)
  BY DEF KInv, TypeOK, SchedOK
<1>2. me \in Pids /\ sched.proc[me] \in ProcessType /\ gone \in {"Exited", "Zombie"}
  BY <1>1 DEF SchedulerType
<1> HIDE DEF gone
<1>3. q \in ProcessType /\ q.state = gone /\ q.wait = sched.proc[me].wait
  BY <1>2 DEF ProcessType, ProcessStates
<1> HIDE DEF q
<1>4. /\ u \in SchedulerType /\ u.queue = sched.queue /\ u.current = me
      /\ QueueSet(u) = QueueSet(sched) /\ Held(u) = Held(sched)
      /\ u.proc[me] = q /\ \A p \in Pids \ {me} : u.proc[p] = sched.proc[p]
  BY <1>1, <1>3, SetCurrentOK
<1> HIDE DEF u
<1>5. /\ w \in SchedulerType /\ w.queue = u.queue /\ w.current = u.current
      /\ QueueSet(w) = QueueSet(u) /\ Held(w) = Held(u)
      /\ \A p \in Pids : /\ w.proc[p].state = u.proc[p].state
                         /\ IsBlocked(w.proc[p]) => IsBlocked(u.proc[p])
  BY <1>2, <1>4, WakeWaitersOK
<1>6. \A p \in Pids : w.proc[p] = u.proc[p] \/ u.proc[p].wait \in {WaitingForAnyChild, me}
  BY <1>2, <1>4, WakeWaitersCause
<1> HIDE DEF w
<1>7. /\ w.current = me /\ QueueSet(w) = QueueSet(sched) /\ Held(w) = Held(sched)
      /\ w.proc[me].state = gone
      /\ \A p \in Pids \ {me} : w.proc[p].state = sched.proc[p].state
      /\ \A p \in Pids : IsBlocked(w.proc[p]) => IsBlocked(sched.proc[p])
  BY <1>2, <1>3, <1>4, <1>5 DEF IsBlocked
<1>8. me \in Held(sched) /\ me \notin QueueSet(sched)
  BY <1>1 DEF Held, Consistent, HeldOnce
<1>9. Schedulable(w)
  <2>1. HeldOnce(w)
    BY <1>1, <1>4, <1>5, <1>7 DEF Consistent, HeldOnce
  <2>2. w.proc[w.current].state \in {"Running", "Exited", "Zombie"}
    BY <1>2, <1>7
  <2>3. /\ \A p \in QueueSet(w) : w.proc[p].state \in {"Ready", "Stopped"}
        /\ \A p \in Pids \ Held(w) : w.proc[p].state \in {"Absent", "Exited", "Zombie"}
    BY <1>1, <1>7, <1>8, HeldArePids DEF Consistent, StateAgreesWithPlace
  <2>4. \A p \in Pids : IsBlocked(w.proc[p]) => p \in Held(w)
    BY <1>1, <1>7 DEF Consistent, BlockedIsQueued, Held
  <2> QED
    BY <2>1, <2>2, <2>3, <2>4 DEF Schedulable
<1>10. IsExited(w.proc[me])
  BY <1>2, <1>7 DEF IsExited
<1>11. \A p \in Pids \ {me} : \/ w.proc[p] = sched.proc[p]
                              \/ sched.proc[p].wait \in {WaitingForAnyChild, me}
  BY <1>4, <1>6
<1>12. w = ExitedAndWoken
  BY DEF ExitedAndWoken, w, u, q, gone
<1> QED
  BY <1>4, <1>5, <1>7, <1>9, <1>10, <1>11, <1>12

\* exit either finds no current process and nobody to run, or schedules.
LEMMA ExitOutcome ==
    ASSUME KInv, SysExit
    PROVE  IF sched.current = NoPid THEN sched' = sched
                                    ELSE sched' = ScheduleNext(ExitedAndWoken)
<1>1. sched' = ExitScheduler(sched)
  BY DEF SysExit
<1>2. CASE sched.current = NoPid
  <2>1. NobodyRunnable(sched)
    BY <1>2 DEF KInv, WorkConserving, NobodyRunnable
  <2> QED
    BY <1>1, <1>2, <2>1, ScheduleNextIdle DEF ExitScheduler
<1>3. CASE sched.current # NoPid
  BY <1>1, <1>3 DEF ExitScheduler, ExitedAndWoken
<1> QED
  BY <1>2, <1>3

\* exit wakes the waiters of the caller, which has ended.
LEMMA ExitCause ==
    ASSUME KInv, SysExit
    PROVE  Caused(sched, sched')
<1> DEFINE me == sched.current
           w == ExitedAndWoken
           next == ScheduleNext(w)
<1>1. CASE me = NoPid
  BY <1>1, ExitOutcome DEF Caused, Follows
<1>2. CASE me # NoPid
  <2>1. sched' = next
    BY <1>2, ExitOutcome
  <2>2. /\ w \in SchedulerType /\ Schedulable(w) /\ w.current = me /\ IsExited(w.proc[me])
        /\ \A p \in Pids \ {me} :
                /\ w.proc[p].state = sched.proc[p].state
                /\ IsBlocked(w.proc[p]) => IsBlocked(sched.proc[p])
                /\ \/ w.proc[p] = sched.proc[p]
                   \/ sched.proc[p].wait \in {WaitingForAnyChild, me}
    BY <1>2, ExitedOK
  <2> HIDE DEF w
  <2>3. /\ Caused(w, next)
        /\ next.proc[me].state \in Ends
        /\ \A p \in Pids \ {me} : next.proc[p].wait = w.proc[p].wait
    BY <1>2, <2>2, ScheduleNextCause
  <2> HIDE DEF next
  <2>4. me \in Pids
    BY <1>2 DEF KInv, TypeOK, SchedulerType
  <2>5. Caused(sched, next)
    <3> SUFFICES ASSUME NEW p \in Pids \ {me}
                 PROVE  Follows(sched, next, p)
      BY DEF Caused
    <3>1. Follows(w, next, p) /\ next.proc[p].wait = w.proc[p].wait
      BY <2>2, <2>3 DEF Caused
    <3>2. /\ w.proc[p].state = sched.proc[p].state
          /\ IsBlocked(next.proc[p]) => IsBlocked(sched.proc[p])
      BY <2>2, <3>1 DEF IsBlocked
    <3>3. IsBlocked(sched.proc[p]) /\ ~IsBlocked(next.proc[p]) =>
            sched.proc[p].wait \in {WaitingForAnyChild, me}
      BY <2>2, <3>1 DEF IsBlocked
    <3> QED
      BY <2>3, <2>4, <3>1, <3>2, <3>3 DEF Follows
  <2> QED
    BY <2>1, <2>5
<1> QED
  BY <1>1, <1>2

-----------------------------------------------------------------------------

\* What a step does to the processes that do not make it.
LEMMA StepFollows == KInv /\ [Next]_vars => Caused(sched, sched') \/ Forked
<1> SUFFICES ASSUME KInv, [Next]_vars PROVE Caused(sched, sched') \/ Forked
  OBVIOUS
<1>0. sched \in SchedulerType /\ Consistent(sched)
  BY DEF KInv, TypeOK, SchedOK
<1>1. ASSUME sched' = sched PROVE Caused(sched, sched')
  BY <1>1 DEF Caused, Follows
<1>2. CASE UNCHANGED vars \/ TimerTick \/ SysForkPanic \/ SysExecve
  BY <1>1, <1>2 DEF vars, TimerTick, SysForkPanic, SysExecve
<1>3. SameFamily(sched, sched) /\ Schedulable(sched)
  BY <1>0, ConsistentIsSchedulable DEF SameFamily
<1>4. ASSUME NEW STATE r
      PROVE  /\ Settled(Yielding(sched, r)) /\ Quiet(Yielding(sched, r))
             /\ Settled(Returned(sched, r)) /\ Quiet(Returned(sched, r))
  BY <1>0, <1>3, YieldingOK, YieldingQuiet, ErrorOK, ErrorQuiet
<1>5. CASE SysYield
  BY <1>4, <1>5, TrapCause DEF SysYield, YieldHandler
<1>6. CASE SysGetpid \/ SysForkNobody \/ SysExecveFails
  BY <1>4, <1>6, TrapCause DEF SysGetpid, GetpidHandler, SysForkNobody, SysExecveFails
<1>7. ASSUME NEW ok \in BOOLEAN, SysFork(ok) PROVE Caused(sched, sched') \/ Forked
  <2>1. CASE ok = TRUE
    BY <1>7, <2>1, ForkCause
  <2>2. CASE ok = FALSE
    BY <1>4, <1>7, <2>2, TrapCause DEF SysFork, ForkHandler
  <2> QED
    BY <2>1, <2>2
<1>8. ASSUME NEW pid \in {-2, -1, 0} \cup Pids, NEW options \in WaitOptions,
             NEW writable \in BOOLEAN, SysWaitpid(pid, options, writable)
      PROVE  Caused(sched, sched')
  BY <1>8, WaitpidOK, WaitpidQuiet, TrapCause DEF SysWaitpid
<1>9. ASSUME NEW pid \in -MaxPid .. MaxPid, NEW sig \in KillSignals, SysKill(pid, sig)
      PROVE  Caused(sched, sched')
  <2>1. pid \in Int
    BY MaxPidAssumption
  <2> QED
    BY <1>9, <2>1, KillOK, KillQuiet, TrapCause DEF SysKill
<1>10. ASSUME NEW pid \in {0} \cup Pids, NEW pgid \in GroupNumbers, SysSetpgid(pid, pgid)
       PROVE  Caused(sched, sched')
  BY <1>10, GroupsAssumption, SetpgidOK, SetpgidQuiet, TrapCause DEF SysSetpgid
<1>11. CASE SysPipeWouldBlock
  <2> DEFINE out == Yielding(sched, 0)
  <2>1. Settled(out) /\ Quiet(out)
    BY <1>4
  <2>2. Trap(out) \/ sched' = out.s
    BY <1>11 DEF SysPipeWouldBlock
  <2>3. out.ends # "return"
    BY DEF Yielding
  <2> HIDE DEF out
  <2>4. CASE Trap(out)
    BY <2>1, <2>4, TrapCause
  <2>5. CASE sched' = out.s
    BY <2>1, <2>3, <2>5 DEF Quiet
  <2> QED
    BY <2>2, <2>4, <2>5
<1>12. CASE SysExit
  BY <1>12, ExitCause
<1> QED
  BY <1>2, <1>5, <1>6, <1>7, <1>8, <1>9, <1>10, <1>11, <1>12 DEF Next, Syscall

\* Every step that wakes a process has a cause.
LEMMA StepWakes == KInv /\ [Next]_vars => WakeCaused
<1> SUFFICES ASSUME KInv, [Next]_vars, NEW p \in Pids,
                    IsBlocked(sched.proc[p]), ~IsBlocked(sched'.proc[p])
             PROVE  \E q \in Reported : sched.proc[p].wait \in {WaitingForAnyChild, q}
  BY DEF WakeCaused
<1>1. Consistent(sched)
  BY DEF KInv, SchedOK
<1>2. p # sched.current
  BY <1>1 DEF Consistent, BlockedIsQueued, HeldOnce
<1>3. Follows(sched, sched', p)
  BY <1>2, StepFollows DEF Caused, Forked
<1> QED
  BY <1>3, FollowsIsReported

\* A process blocked in waitpid goes on only with a cause, whatever the others
\* do in the meantime: no fork, preemption or reschedule wakes it.  In this
\* kernel the cause is always the end or the stop of one it waits for.
THEOREM WakesHaveCause == Spec => WakeHasCause
<1>1. KInv /\ [Next]_vars =>
        [\A p \in Pids :
            IsBlocked(sched.proc[p]) /\ ~IsBlocked(sched'.proc[p]) =>
                \/ \E q \in Reported : sched.proc[p].wait \in {WaitingForAnyChild, q}
                \/ sched'.proc[p].pending # {}]_vars
  BY StepWakes DEF WakeCaused
<1> QED
  BY KernelInvariant, <1>1, PTL DEF Spec, WakeHasCause

-----------------------------------------------------------------------------
(* The queue.  A handler leaves it alone or appends to it, and schedule_next *)
(* turns it only as far as the first runnable process, so that none behind *)
(* is overtaken.                                                           *)

\* From s to t nobody is put before a runnable process that stays queued.
NotOvertaken(s, t) ==
    \A p \in QueueSet(s) \cap QueueSet(t) :
        Runnable(s, p) => Ahead(t, p) \subseteq Ahead(s, p)

\* What a handler does to the queue before it calls schedule_next, if it does.
Keeps(s, u) ==
    \A p \in QueueSet(s) :
        Runnable(s, p) => /\ p \in QueueSet(u) /\ Runnable(u, p)
                          /\ Ahead(u, p) \subseteq Ahead(s, p)

\* The queue is the same, and the runnable in it are still runnable.
LEMMA SameQueueKeeps ==
    ASSUME NEW s, NEW u, u.queue = s.queue,
           \A p \in QueueSet(s) : Runnable(s, p) => Runnable(u, p)
    PROVE  Keeps(s, u)
  BY DEF Keeps, QueueSet, Ahead

\* push_back puts a process behind all the others.
LEMMA PushBackKeeps ==
    ASSUME NEW s \in SchedulerType, NEW u, NEW x \in Pids,
           HeldOnce(s), x \notin QueueSet(s), u.queue = Append(s.queue, x),
           \A p \in QueueSet(s) : Runnable(s, p) => Runnable(u, p)
    PROVE  Keeps(s, u)
<1> DEFINE n == Len(s.queue)
<1>1. /\ s.queue \in Seq(Pids) /\ n \in Nat /\ Len(u.queue) = n + 1
      /\ \A i \in 1 .. n : u.queue[i] = s.queue[i]
      /\ u.queue[n + 1] = x
  BY DEF SchedulerType
<1>2. QueueSet(s) \subseteq QueueSet(u)
  <2> SUFFICES ASSUME NEW i \in 1 .. n
               PROVE  s.queue[i] \in QueueSet(u)
    BY DEF QueueSet
  <2>1. i \in 1 .. Len(u.queue) /\ u.queue[i] = s.queue[i]
    BY <1>1
  <2> QED
    BY <2>1 DEF QueueSet
<1>3. ASSUME NEW p \in QueueSet(s)
      PROVE  Ahead(u, p) \subseteq Ahead(s, p)
  <2> SUFFICES ASSUME NEW i \in 1 .. Len(u.queue), NEW j \in 1 .. Len(u.queue),
                      i < j, u.queue[j] = p
               PROVE  u.queue[i] \in Ahead(s, p)
    BY DEF Ahead
  <2>1. p # x
    BY <1>3
  <2>2. j # n + 1
    BY <1>1, <2>1
  <2> HIDE DEF n
  <2>3. i \in 1 .. n /\ j \in 1 .. n
    BY <1>1, <2>2
  <2>4. s.queue[i] = u.queue[i] /\ s.queue[j] = p
    BY <1>1, <2>3
  <2> QED
    BY <2>3, <2>4 DEF Ahead, QueueSet, n
<1> QED
  BY <1>2, <1>3 DEF Keeps

\* Where the rotation around the i-th process puts the others.
LEMMA RotationPlaces ==
    ASSUME NEW q \in Seq(Pids), NEW i \in 1 .. Len(q), NEW n \in Nat, n = Len(q) - i
    PROVE  LET r == SubSeq(q, i + 1, Len(q)) \o SubSeq(q, 1, i - 1)
           IN  /\ Len(r) = n + (i - 1)
               /\ \A k \in 1 .. n : r[k] = q[k + i]
               /\ \A k \in n + 1 .. n + (i - 1) : r[k] = q[k - n]
<1> DEFINE a == SubSeq(q, i + 1, Len(q))
           b == SubSeq(q, 1, i - 1)
           r == a \o b
<1>1. a \in Seq(Pids) /\ Len(a) = n /\ \A k \in 1 .. n : a[k] = q[k + i]
  <2>1. \A k \in i + 1 .. Len(q) : q[k] \in Pids
    OBVIOUS
  <2> QED
    BY <2>1, SubSeqProperties
<1>2. b \in Seq(Pids) /\ Len(b) = i - 1 /\ \A k \in 1 .. i - 1 : b[k] = q[k]
  <2>1. \A k \in 1 .. i - 1 : q[k] \in Pids
    OBVIOUS
  <2> QED
    BY <2>1, SubSeqProperties
<1> HIDE DEF a, b
<1>3. /\ Len(r) = Len(a) + Len(b)
      /\ \A k \in 1 .. Len(a) + Len(b) : r[k] = IF k <= Len(a) THEN a[k] ELSE b[k - Len(a)]
  BY <1>1, <1>2, ConcatProperties
<1> HIDE DEF r
<1>4. ASSUME NEW k \in 1 .. n
      PROVE  r[k] = q[k + i]
  <2>1. k \in 1 .. n + (i - 1) /\ k <= n
    OBVIOUS
  <2> QED
    BY <1>1, <1>2, <1>3, <2>1
<1>5. ASSUME NEW k \in n + 1 .. n + (i - 1)
      PROVE  r[k] = q[k - n]
  <2>1. k \in 1 .. n + (i - 1) /\ ~(k <= n) /\ k - n \in 1 .. i - 1
    OBVIOUS
  <2> QED
    BY <1>1, <1>2, <1>3, <2>1
<1>6. Len(r) = n + (i - 1)
  BY <1>1, <1>2, <1>3
<1> QED
  BY <1>4, <1>5, <1>6 DEF r, a, b

\* The rotation moves behind p only what is skipped, which is not runnable.
LEMMA DispatchOrder ==
    ASSUME NEW s \in SchedulerType, Consistent(s), s.current = NoPid
    PROVE  NotOvertaken(s, Dispatch(s))
<1> DEFINE t == Dispatch(s)
<1>1. CASE NobodyRunnable(s)
  <2>1. t = s
    BY <1>1 DEF Dispatch, NobodyRunnable
  <2> QED
    BY <2>1 DEF NotOvertaken
<1>2. CASE ~NobodyRunnable(s)
  <2> DEFINE i == CHOOSE i \in 1 .. Len(s.queue) : FirstRunnable(s, i)
             q == s.queue
             n == Len(q) - i
             r == SubSeq(q, i + 1, Len(q)) \o SubSeq(q, 1, i - 1)
  <2>1. i \in 1 .. Len(q) /\ FirstRunnable(s, i)
    BY <1>2, FirstRunnableExists DEF NobodyRunnable
  <2> HIDE DEF i
  <2>2. t.queue = r
    BY <1>2 DEF Dispatch, NobodyRunnable, i
  <2>3. q \in Seq(Pids) /\ Len(q) \in Nat /\ n \in Nat /\ i \in Nat /\ n = Len(q) - i
    BY <2>1 DEF SchedulerType
  <2> HIDE DEF t, q, n
  <2>4. /\ Len(r) = n + (i - 1)
        /\ \A k \in 1 .. n : r[k] = q[k + i]
        /\ \A k \in n + 1 .. n + (i - 1) : r[k] = q[k - n]
    BY <2>1, <2>3, RotationPlaces
  <2> HIDE DEF r
  <2>5. \A k \in 1 .. i - 1 : ~Runnable(s, q[k])
    BY <2>1 DEF FirstRunnable, q
  <2> SUFFICES ASSUME NEW p \in QueueSet(s), Runnable(s, p),
                      NEW k \in 1 .. Len(r), NEW l \in 1 .. Len(r), k < l, r[l] = p
               PROVE  r[k] \in Ahead(s, p)
    BY <2>2 DEF NotOvertaken, Ahead, t
  <2>6. l \in 1 .. n
    <3> SUFFICES ASSUME l > n PROVE FALSE
      BY <2>3, <2>4
    <3>1. l \in n + 1 .. n + (i - 1) /\ l - n \in 1 .. i - 1
      BY <2>3, <2>4
    <3> QED
      BY <2>4, <2>5, <3>1
  <2>7. k \in 1 .. n
    BY <2>3, <2>4, <2>6
  <2>8. r[k] = q[k + i] /\ q[l + i] = p
    BY <2>4, <2>6, <2>7
  <2>9. k + i \in 1 .. Len(q) /\ l + i \in 1 .. Len(q) /\ k + i < l + i
    BY <2>3, <2>6, <2>7
  <2> QED
    BY <2>8, <2>9 DEF Ahead, QueueSet, q
<1> QED
  BY <1>1, <1>2

\* The process that leaves the slot goes behind the others, or is dropped.
LEMMA RequeueQueue ==
    ASSUME NEW s \in SchedulerType, s.current # NoPid
    PROVE  Requeue(s).queue \in {s.queue, Append(s.queue, s.current)}
<1> DEFINE me == s.current
           p == AfterDelivery(s.proc[me])
           sig == DeliverableSignal(s.proc[me])
           Back(x) == [proc    |-> [s.proc EXCEPT ![me] = x],
                       queue   |-> Append(s.queue, me),
                       current |-> NoPid]
           t == Requeue(s)
<1>1. CASE IsExited(s.proc[me])
  <2>1. t = Dropped(s, s.proc[me].state)
    BY <1>1 DEF Requeue
  <2> QED
    BY <2>1 DEF Dropped
<1>2. CASE ~IsExited(s.proc[me]) /\ sig = SIGINT
  <2>1. t = Dropped(s, "Exited")
    BY <1>2 DEF Requeue, SIGINT, SIGTSTP
  <2> QED
    BY <2>1 DEF Dropped
<1>3. CASE ~IsExited(s.proc[me]) /\ sig # SIGINT /\ sig = SIGTSTP
  <2> DEFINE u == Back([p EXCEPT !.state = "Stopped"])
  <2>1. t = WakeWaitersForChild(u, me)
    BY <1>3 DEF Requeue
  <2>2. t.queue = u.queue
    BY <2>1 DEF WakeWaitersForChild
  <2> QED
    BY <2>2
<1>4. CASE ~IsExited(s.proc[me]) /\ sig # SIGINT /\ sig # SIGTSTP
  <2> DEFINE w == IF p.pending # {} THEN Wake(p) ELSE p
  <2>1. t = Back([w EXCEPT !.state = "Ready"])
    BY <1>4 DEF Requeue
  <2> QED
    BY <2>1
<1> QED
  BY <1>1, <1>2, <1>3, <1>4

\* schedule_next lets nobody overtake.
LEMMA ScheduleNextOrder ==
    ASSUME NEW s \in SchedulerType, Schedulable(s)
    PROVE  NotOvertaken(s, ScheduleNext(s))
<1> DEFINE u == Requeue(s)
           t == Dispatch(u)
<1>1. u \in SchedulerType /\ Consistent(u) /\ u.current = NoPid
  BY RequeueOK
<1>2. NotOvertaken(u, t)
  BY <1>1, DispatchOrder
<1>3. Caused(s, u)
  BY RequeueCause
<1>4. Keeps(s, u)
  <2>1. CASE s.current = NoPid
    <3>1. u = s
      BY <2>1 DEF Requeue
    <3> QED
      BY <3>1, SameQueueKeeps
  <2>2. CASE s.current # NoPid
    <3>1. u.queue \in {s.queue, Append(s.queue, s.current)}
      BY <2>2, RequeueQueue
    <3>2. s.current \in Pids /\ s.current \notin QueueSet(s) /\ HeldOnce(s)
      BY <2>2 DEF SchedulerType, Schedulable, HeldOnce
    <3> HIDE DEF u
    <3>3. ASSUME NEW p \in QueueSet(s), Runnable(s, p)
          PROVE  Runnable(u, p)
      <4>1. p \in Pids \ {s.current} /\ s.proc[p].state \in {"Ready", "Stopped"}
        BY <3>2, HeldArePids DEF Schedulable
      <4>2. Follows(s, u, p)
        BY <1>3, <4>1 DEF Caused
      <4> QED
        BY <3>3, <4>1, <4>2 DEF Follows, Runnable, IsStopped
    <3> QED
      BY <3>1, <3>2, <3>3, SameQueueKeeps, PushBackKeeps
  <2> QED
    BY <2>1, <2>2
<1> HIDE DEF u, t
<1>5. NotOvertaken(s, t)
  BY <1>2, <1>4 DEF NotOvertaken, Keeps
<1> QED
  BY <1>5 DEF ScheduleNext, t, u

-----------------------------------------------------------------------------

\* What a handler's outcome does to the order of the queue.
Orderly(out) ==
    IF out.ends = "return" THEN Keeps(sched, out.s) ELSE NotOvertaken(sched, out.s)

\* A queue kept by a handler, then turned by schedule_next.
LEMMA KeepsThenOrder ==
    ASSUME NEW s, NEW u, NEW t, Keeps(s, u), NotOvertaken(u, t)
    PROVE  NotOvertaken(s, t)
  BY DEF Keeps, NotOvertaken

\* The preemption check keeps the order as well.
LEMMA TrapOrder ==
    ASSUME NEW STATE out, Settled(out), Orderly(out), Trap(out)
    PROVE  NotOvertaken(sched, sched')
<1>1. CASE out.ends = "return"
  <2>1. out.s \in SchedulerType /\ Schedulable(out.s)
    BY ConsistentIsSchedulable DEF Settled
  <2>2. sched' = out.s \/ sched' = ScheduleNext(out.s)
    BY DEF Trap, Preempt, Finish
  <2>3. NotOvertaken(out.s, out.s) /\ NotOvertaken(out.s, ScheduleNext(out.s))
    BY <2>1, ScheduleNextOrder DEF NotOvertaken
  <2>4. NotOvertaken(out.s, sched')
    BY <2>2, <2>3
  <2> QED
    BY <1>1, <2>4, KeepsThenOrder DEF Orderly
<1>2. CASE out.ends # "return"
  BY <1>2, TrapFollows DEF Orderly
<1> QED
  BY <1>1, <1>2

\* A handler that yields after it kept the queue.
LEMMA YieldingOrderly ==
    ASSUME NEW STATE s, s \in SchedulerType, Schedulable(s), Keeps(sched, s), NEW STATE r
    PROVE  Orderly(Yielding(s, r))
<1>1. Yielding(s, r).s = ScheduleNext(s) /\ Yielding(s, r).ends # "return"
  BY DEF Yielding
<1>2. NotOvertaken(sched, ScheduleNext(s))
  BY ScheduleNextOrder, KeepsThenOrder
<1> QED
  BY <1>1, <1>2 DEF Orderly

\* A handler that returns, leaving the queue and who can run alone.
LEMMA QuietIsOrderly ==
    ASSUME KInv, NEW STATE out, Quiet(out), out.ends = "return", out.s.queue = sched.queue
    PROVE  Orderly(out)
<1>1. sched \in SchedulerType /\ HeldOnce(sched)
  BY DEF KInv, TypeOK, SchedOK, Consistent
<1>2. ASSUME NEW p \in QueueSet(sched), Runnable(sched, p)
      PROVE  Runnable(out.s, p)
  <2>1. p \in Pids \ {sched.current}
    BY <1>1, HeldArePids DEF HeldOnce
  <2> QED
    BY <1>2, <2>1 DEF Quiet, SameRun, Runnable, IsStopped, IsBlocked
<1> QED
  BY <1>2, SameQueueKeeps DEF Orderly

\* kill sends signals; it does not touch the queue.
LEMMA KillOrderly ==
    ASSUME KInv, NEW pid \in Int, NEW sig
    PROVE  Orderly(KillHandler(sched, pid, sig))
<1> DEFINE out == KillHandler(sched, pid, sig)
<1>1. out.ends = "return" /\ out.s.queue = sched.queue
  BY DEF KillHandler, Returned, SetCurrent, SignalProcessGroup
<1>2. Quiet(out)
  BY KillQuiet
<1> HIDE DEF out
<1>3. Orderly(out)
  BY <1>1, <1>2, QuietIsOrderly
<1> QED
  BY <1>3 DEF out

\* setpgid writes to the current process, which is not in the queue.
LEMMA SetpgidOrderly ==
    ASSUME KInv, NEW pid \in {0} \cup Pids, NEW pgid \in {0} \cup Pgids
    PROVE  Orderly(SetpgidHandler(sched, pid, pgid))
<1> DEFINE out == SetpgidHandler(sched, pid, pgid)
<1>1. out.ends = "return" /\ out.s.queue = sched.queue
  BY DEF SetpgidHandler, Returned, SetCurrent
<1>2. Quiet(out)
  BY SetpgidQuiet
<1> HIDE DEF out
<1>3. Orderly(out)
  BY <1>1, <1>2, QuietIsOrderly
<1> QED
  BY <1>3 DEF out

\* waitpid returns, or blocks the current process and yields.
LEMMA WaitpidOrderly ==
    ASSUME KInv, NEW pid \in {-2, -1, 0} \cup Pids, NEW options, NEW writable \in BOOLEAN
    PROVE  Orderly(WaitpidHandler(sched, pid, options, writable))
<1> DEFINE out == WaitpidHandler(sched, pid, options, writable)
           t == SetCurrent(sched, [sched.proc[sched.current] EXCEPT !.wait = pid])
<1>1. \/ \E r : out = Returned(sched, r)
      \/ sched.current # NoPid /\ pid \in {-1} \cup Pids /\ out = Yielding(t, ESRCH)
  BY WaitpidOutcome
<1>2. Quiet(out)
  BY WaitpidQuiet
<1> HIDE DEF out
<1>3. CASE \E r : out = Returned(sched, r)
  <2>1. out.ends = "return" /\ out.s.queue = sched.queue
    BY <1>3 DEF Returned
  <2> QED
    BY <1>2, <2>1, QuietIsOrderly DEF out
<1>4. CASE sched.current # NoPid /\ pid \in {-1} \cup Pids /\ out = Yielding(t, ESRCH)
  <2>1. /\ t \in SchedulerType /\ Schedulable(t) /\ t.queue = sched.queue
        /\ \A p \in Pids \ {sched.current} : t.proc[p] = sched.proc[p]
    BY <1>4, BlockedOK
  <2> HIDE DEF t
  <2>2. QueueSet(sched) \subseteq Pids \ {sched.current}
    BY HeldArePids DEF KInv, TypeOK, SchedOK, Consistent, HeldOnce
  <2>3. Keeps(sched, t)
    BY <2>1, <2>2, SameQueueKeeps DEF Runnable
  <2> QED
    BY <1>4, <2>1, <2>3, YieldingOrderly DEF out
<1> QED
  BY <1>1, <1>3, <1>4

\* fork puts the child at the end of the queue.
LEMMA ForkOrder ==
    ASSUME KInv, SysFork(TRUE)
    PROVE  NotOvertaken(sched, sched')
<1> DEFINE me == sched.current
           child == nextPid
           s == AddProcess(sched, child, NewProcess(child, me))
           out == Returned(s, child)
<1>1. /\ sched \in SchedulerType /\ Consistent(sched)
      /\ me \in Pids \cup {NoPid} /\ child \in Pids /\ me # NoPid
  BY DEF KInv, TypeOK, SchedOK, SchedulerType, SysFork
<1>2. Trap(out)
  BY DEF SysFork, ForkHandler
<1>3. sched.proc[child].state = "Absent" /\ child \in Nat
  BY <1>1, PidsAreNotNoPid DEF KInv, PidsFresh
<1>4. /\ s \in SchedulerType /\ Consistent(s) /\ s.current = me
      /\ \A p \in Pids \ {child} : s.proc[p] = sched.proc[p]
  <2>1. \A c \in Pids, m \in Pids \cup {NoPid} :
          sched.proc[c].state = "Absent" =>
            LET t == AddProcess(sched, c, NewProcess(c, m))
            IN  /\ t \in SchedulerType /\ Consistent(t)
                /\ t.current = sched.current
                /\ \A p \in Pids \ {c} : t.proc[p] = sched.proc[p]
    BY <1>1, AddProcessOK
  <2> QED
    BY <1>1, <1>3, <2>1
<1>5. s.queue = Append(sched.queue, child)
  BY DEF AddProcess
<1> HIDE DEF s
<1>6. HeldOnce(sched) /\ child \notin QueueSet(sched) /\ QueueSet(sched) \subseteq Pids
  BY <1>1, <1>3, HeldArePids DEF Consistent, StateAgreesWithPlace
<1>7. \A p \in QueueSet(sched) : Runnable(sched, p) => Runnable(s, p)
  BY <1>4, <1>6 DEF Runnable
<1>8. Keeps(sched, s)
  BY <1>1, <1>5, <1>6, <1>7, PushBackKeeps
<1>9. out.s = s /\ out.ends = "return"
  BY DEF Returned
<1>10. Settled(out) /\ Orderly(out)
  BY <1>1, <1>4, <1>8, <1>9 DEF Settled, Orderly
<1> QED
  BY <1>2, <1>10, TrapOrder

\* exit wakes the waiters where they are, and schedules.
LEMMA ExitOrder ==
    ASSUME KInv, SysExit
    PROVE  NotOvertaken(sched, sched')
<1> DEFINE w == ExitedAndWoken
<1>1. CASE sched.current = NoPid
  BY <1>1, ExitOutcome DEF NotOvertaken
<1>2. CASE sched.current # NoPid
  <2>1. sched' = ScheduleNext(w)
    BY <1>2, ExitOutcome
  <2>2. /\ w \in SchedulerType /\ Schedulable(w) /\ w.queue = sched.queue
        /\ \A p \in Pids \ {sched.current} :
                /\ w.proc[p].state = sched.proc[p].state
                /\ IsBlocked(w.proc[p]) => IsBlocked(sched.proc[p])
    BY <1>2, ExitedOK
  <2> HIDE DEF w
  <2>3. QueueSet(sched) \subseteq Pids \ {sched.current}
    BY HeldArePids DEF KInv, TypeOK, SchedOK, Consistent, HeldOnce
  <2>4. \A p \in QueueSet(sched) : Runnable(sched, p) => Runnable(w, p)
    BY <2>2, <2>3 DEF Runnable, IsStopped
  <2>5. Keeps(sched, w)
    BY <2>2, <2>4, SameQueueKeeps
  <2>6. NotOvertaken(w, ScheduleNext(w))
    BY <2>2, ScheduleNextOrder
  <2> QED
    BY <2>1, <2>5, <2>6, KeepsThenOrder
<1> QED
  BY <1>1, <1>2

\* No step lets a process overtake a runnable one.
LEMMA StepOrder == KInv /\ [Next]_vars => NotOvertaken(sched, sched')
<1> SUFFICES ASSUME KInv, [Next]_vars PROVE NotOvertaken(sched, sched')
  OBVIOUS
<1>1. sched \in SchedulerType /\ Schedulable(sched) /\ SameFamily(sched, sched)
  BY ConsistentIsSchedulable DEF KInv, TypeOK, SchedOK, SameFamily
<1>2. CASE UNCHANGED vars \/ TimerTick \/ SysForkPanic \/ SysExecve
  <2>1. sched' = sched
    BY <1>2 DEF vars, TimerTick, SysForkPanic, SysExecve
  <2> QED
    BY <2>1 DEF NotOvertaken
<1>3. Keeps(sched, sched)
  BY SameQueueKeeps
<1>4. ASSUME NEW STATE r
      PROVE  /\ Settled(Yielding(sched, r)) /\ Orderly(Yielding(sched, r))
             /\ Settled(Returned(sched, r)) /\ Orderly(Returned(sched, r))
  <2>1. Returned(sched, r).s = sched /\ Returned(sched, r).ends = "return"
    BY DEF Returned
  <2>2. Orderly(Returned(sched, r))
    BY <1>3, <2>1 DEF Orderly
  <2> QED
    BY <1>1, <1>3, <2>2, YieldingOK, YieldingOrderly, ErrorOK
<1>5. CASE SysYield
  BY <1>4, <1>5, TrapOrder DEF SysYield, YieldHandler
<1>6. CASE SysGetpid \/ SysForkNobody \/ SysExecveFails
  BY <1>4, <1>6, TrapOrder DEF SysGetpid, GetpidHandler, SysForkNobody, SysExecveFails
<1>7. ASSUME NEW ok \in BOOLEAN, SysFork(ok) PROVE NotOvertaken(sched, sched')
  <2>1. CASE ok = TRUE
    BY <1>7, <2>1, ForkOrder
  <2>2. CASE ok = FALSE
    BY <1>4, <1>7, <2>2, TrapOrder DEF SysFork, ForkHandler
  <2> QED
    BY <2>1, <2>2
<1>8. ASSUME NEW pid \in {-2, -1, 0} \cup Pids, NEW options \in WaitOptions,
             NEW writable \in BOOLEAN, SysWaitpid(pid, options, writable)
      PROVE  NotOvertaken(sched, sched')
  BY <1>8, WaitpidOK, WaitpidOrderly, TrapOrder DEF SysWaitpid
<1>9. ASSUME NEW pid \in -MaxPid .. MaxPid, NEW sig \in KillSignals, SysKill(pid, sig)
      PROVE  NotOvertaken(sched, sched')
  <2>1. pid \in Int
    BY MaxPidAssumption
  <2> QED
    BY <1>9, <2>1, KillOK, KillOrderly, TrapOrder DEF SysKill
<1>10. ASSUME NEW pid \in {0} \cup Pids, NEW pgid \in GroupNumbers, SysSetpgid(pid, pgid)
       PROVE  NotOvertaken(sched, sched')
  BY <1>10, GroupsAssumption, SetpgidOK, SetpgidOrderly, TrapOrder DEF SysSetpgid
<1>11. CASE SysPipeWouldBlock
  <2> DEFINE out == Yielding(sched, 0)
  <2>1. Settled(out) /\ Orderly(out) /\ out.ends # "return"
    BY <1>4 DEF Yielding
  <2>2. Trap(out) \/ sched' = out.s
    BY <1>11 DEF SysPipeWouldBlock
  <2> HIDE DEF out
  <2> QED
    BY <2>1, <2>2, TrapOrder DEF Orderly
<1>12. CASE SysExit
  BY <1>12, ExitOrder
<1> QED
  BY <1>2, <1>5, <1>6, <1>7, <1>8, <1>9, <1>10, <1>11, <1>12 DEF Next, Syscall

\* A runnable process in the queue is passed by nobody: as long as it waits
\* its turn, the processes before it were before it already.
THEOREM NobodyOvertakes == Spec => RunnableNotOvertaken
<1>1. KInv /\ [Next]_vars =>
        [\A p \in QueueSet(sched) \cap QueueSet(sched') :
            Runnable(sched, p) => Ahead(sched', p) \subseteq Ahead(sched, p)]_vars
  BY StepOrder DEF NotOvertaken
<1> QED
  BY KernelInvariant, <1>1, PTL DEF Spec, RunnableNotOvertaken

-----------------------------------------------------------------------------
(* The life cycle.  The process that makes a step goes where its call takes *)
(* it; what the step does to the others is Follows and Forked; that one    *)
(* process runs, and none is ready when none runs, is KInv after the step. *)

Phase == [p \in Pids |-> PhaseOf(sched.proc[p])]

\* Every process has a phase, and which is said by its state and its wait.
LEMMA PhaseOK ==
    ASSUME NEW p \in ProcessType
    PROVE  /\ PhaseOf(p) \in Life!Phases
           /\ PhaseOf(p) = "Absent" <=> p.state = "Absent"
           /\ PhaseOf(p) = "Running" <=> p.state = "Running"
           /\ PhaseOf(p) = "Stopped" <=> p.state = "Stopped"
           /\ PhaseOf(p) = "Dead" <=> p.state \in {"Exited", "Zombie"}
           /\ PhaseOf(p) = "Blocked" <=> p.state = "Ready" /\ IsBlocked(p)
           /\ PhaseOf(p) = "Ready" <=> p.state = "Ready" /\ ~IsBlocked(p)
<1>1. p.state \in ProcessStates
  BY DEF ProcessType
<1>2. CASE p.state \in {"Absent", "Running", "Stopped"}
  <2>1. PhaseOf(p) = p.state
    BY <1>2 DEF PhaseOf, IsExited
  <2> QED
    BY <1>2, <2>1 DEF Life!Phases
<1>3. CASE p.state \in {"Exited", "Zombie"}
  <2>1. PhaseOf(p) = "Dead"
    BY <1>3 DEF PhaseOf, IsExited
  <2> QED
    BY <1>3, <2>1 DEF Life!Phases
<1>4. CASE p.state = "Ready" /\ IsBlocked(p)
  <2>1. PhaseOf(p) = "Blocked"
    BY <1>4 DEF PhaseOf, IsExited
  <2> QED
    BY <1>4, <2>1 DEF Life!Phases
<1>5. CASE p.state = "Ready" /\ ~IsBlocked(p)
  <2>1. PhaseOf(p) = "Ready"
    BY <1>5 DEF PhaseOf, IsExited
  <2> QED
    BY <1>5, <2>1 DEF Life!Phases
<1> QED
  BY <1>1, <1>2, <1>3, <1>4, <1>5 DEF ProcessStates

\* After init_scheduler_and_start the first process runs, the others are not
\* there yet.
LEMMA InitPhase == Init => Phase = [p \in Pids |-> IF p = 1 THEN "Running" ELSE "Absent"]
<1> SUFFICES ASSUME Init
             PROVE  Phase = [p \in Pids |-> IF p = 1 THEN "Running" ELSE "Absent"]
  OBVIOUS
<1>0. KInv
  BY InitOK
<1>1. sched \in SchedulerType /\ Consistent(sched) /\ sched.proc \in [Pids -> ProcessType]
  BY <1>0 DEF KInv, TypeOK, SchedOK, SchedulerType
<1>2. nextPid = 2 /\ cpu = 1 /\ 1 \in Pids
  BY MaxPidAssumption DEF Init, Pids
<1>3. \A p \in Pids \ {1} : sched.proc[p].state = "Absent"
  <2>1. \A p \in Pids \ {1} : p >= 2
    BY DEF Pids
  <2> QED
    BY <1>0, <1>2, <2>1 DEF KInv, PidsFresh
<1>4. sched.proc[1].state = "Running"
  <2> DEFINE e == [proc    |-> [p \in Pids |-> AbsentProcess(p)],
                   queue   |-> <<>>,
                   current |-> NoPid]
             a == AddProcess(e, 1, NewProcess(1, NoPid))
  <2>1. sched = Dispatch(a)
    BY DEF Init, ScheduleNext, Requeue, AddProcess
  <2>2. a.queue = <<1>> /\ a.proc[1] = NewProcess(1, NoPid)
    BY <1>2 DEF AddProcess
  <2> HIDE DEF a, e
  <2>3. Runnable(a, 1)
    BY <2>2 DEF Runnable, NewProcess, IsBlocked, IsStopped
  <2>4. 1 \in QueueSet(a)
    BY <2>2 DEF QueueSet
  <2> DEFINE i == CHOOSE i \in 1 .. Len(a.queue) : FirstRunnable(a, i)
  <2>5. sched.current = a.queue[i]
    BY <2>1, <2>3, <2>4 DEF Dispatch
  <2>6. Len(a.queue) = 1 /\ FirstRunnable(a, 1)
    BY <2>2, <2>3 DEF FirstRunnable
  <2>7. i = 1
    BY <2>6
  <2> HIDE DEF i
  <2>8. sched.current = 1
    BY <2>2, <2>5, <2>7
  <2> QED
    BY <1>1, <2>8 DEF Consistent, StateAgreesWithPlace, NoPid
<1> QED
  BY <1>1, <1>2, <1>3, <1>4, PhaseOK DEF Phase

\* What a step does to the phase of each process.
LEMMA StepEdge ==
    ASSUME KInv, KInv', StepOK, Caused(sched, sched') \/ Forked, NEW p \in Pids,
           Phase'[p] # Phase[p]
    PROVE  <<Phase[p], Phase'[p]>> \in Life!Edges
<1>1. /\ sched \in SchedulerType /\ Consistent(sched)
      /\ sched' \in SchedulerType /\ Consistent(sched')
  BY DEF KInv, TypeOK, SchedOK
<1>2. sched.proc[p] \in ProcessType /\ sched'.proc[p] \in ProcessType
  BY <1>1 DEF SchedulerType
<1> DEFINE x == sched.proc[p]
           y == sched'.proc[p]
<1>3. Phase[p] = PhaseOf(x) /\ Phase'[p] = PhaseOf(y)
  BY DEF Phase
<1>4. x.state \in ProcessStates /\ y.state \in ProcessStates
  BY <1>2 DEF ProcessType
<1>5. CASE p = sched.current
  <2>1. x.state = "Running"
    BY <1>1, <1>5, PidsAreNotNoPid DEF Consistent, StateAgreesWithPlace
  <2>2. y.state # "Absent"
    <3>1. CASE p \in Held(sched')
      BY <1>1, <3>1, PidsAreNotNoPid DEF Consistent, StateAgreesWithPlace, Held
    <3>2. CASE p \notin Held(sched')
      BY <1>5, <3>2, PidsAreNotNoPid DEF StepOK, Held, IsExited
    <3> QED
      BY <3>1, <3>2
  <2> QED
    BY <1>2, <1>3, <2>1, <2>2, PhaseOK DEF Life!Edges, Life!Phases
<1>6. CASE p # sched.current /\ Follows(sched, sched', p)
  <2>1. x.state # "Running"
    BY <1>1, <1>6 DEF Consistent, StateAgreesWithPlace, Held
  <2>2. /\ y.state = x.state \/ (x.state = "Ready" /\ y.state = "Running")
        /\ IsBlocked(y) => IsBlocked(x)
    BY <1>6 DEF Follows
  <2>3. CASE y.state = "Running"
    BY <1>2, <1>3, <2>1, <2>2, <2>3, PhaseOK DEF Life!Edges
  <2>4. CASE y.state = "Ready" /\ x.state = "Ready"
    BY <1>2, <1>3, <2>2, <2>4, PhaseOK DEF Life!Edges
  <2>5. CASE y.state = x.state /\ x.state \in {"Absent", "Stopped", "Exited", "Zombie"}
    BY <1>2, <1>3, <2>5, PhaseOK
  <2> QED
    BY <1>4, <2>1, <2>2, <2>3, <2>4, <2>5 DEF ProcessStates
<1>7. CASE Forked /\ p = nextPid
  BY <1>2, <1>3, <1>7, PhaseOK DEF Forked, Life!Edges
<1> QED
  BY <1>5, <1>6, <1>7 DEF Caused, Forked

\* Every step of the kernel is a step of the life cycle.
LEMMA StepLeads ==
    ASSUME KInv, KInv', StepOK, Caused(sched, sched') \/ Forked
    PROVE  Life!Leads(Phase, Phase')
<1> DEFINE from == Phase
           to == Phase'
           me == sched.current
           ran == Life!In(from, "Running")
           runs == Life!In(to, "Running")
           created == Life!In(from, "Absent") \ Life!In(to, "Absent")
           woken == Life!In(from, "Blocked") \ Life!In(to, "Blocked")
<1>1. /\ sched \in SchedulerType /\ Consistent(sched)
      /\ sched' \in SchedulerType /\ Consistent(sched')
  BY DEF KInv, TypeOK, SchedOK
<1>2. /\ sched.proc \in [Pids -> ProcessType] /\ sched'.proc \in [Pids -> ProcessType]
      /\ me \in Pids \cup {NoPid} /\ sched'.current \in Pids \cup {NoPid}
  BY <1>1 DEF SchedulerType
<1>3. \A p \in Pids : from[p] = PhaseOf(sched.proc[p]) /\ to[p] = PhaseOf(sched'.proc[p])
  BY DEF Phase
<1>4. to \in [Pids -> Life!Phases]
  BY <1>2, PhaseOK DEF Phase
<1>5. \A p \in Pids : to[p] # from[p] => <<from[p], to[p]>> \in Life!Edges
  BY StepEdge
<1> HIDE DEF from, to
<1>6. /\ \A p \in Pids : p \in ran <=> sched.proc[p].state = "Running"
      /\ \A p \in Pids : p \in runs <=> sched'.proc[p].state = "Running"
      /\ ran \subseteq Pids /\ runs \subseteq Pids
  BY <1>2, <1>3, PhaseOK DEF Life!In
<1>7. /\ \A p \in Pids : sched.proc[p].state = "Running" <=> p = me
      /\ \A p \in Pids : sched'.proc[p].state = "Running" <=> p = sched'.current
  BY <1>1, PidsAreNotNoPid DEF Consistent, StateAgreesWithPlace, Held
<1>8. \A p, q \in runs : p = q
  BY <1>6, <1>7
<1>9. /\ \A p \in created : Forked /\ p = nextPid
      /\ created # {} => ran # {}
  <2>1. ASSUME NEW p \in created
        PROVE  Forked /\ p = nextPid /\ me \in ran
    <3>1. /\ p \in Pids /\ sched.proc[p].state = "Absent"
          /\ sched'.proc[p].state # "Absent"
      BY <1>2, <1>3, PhaseOK DEF Life!In
    <3>2. p # me
      BY <1>7, <3>1
    <3>3. ~Follows(sched, sched', p)
      BY <3>1 DEF Follows
    <3>4. Forked /\ p = nextPid
      BY <3>1, <3>2, <3>3 DEF Caused, Forked
    <3> QED
      BY <1>2, <1>6, <1>7, <3>4 DEF Forked
  <2> QED
    BY <2>1
<1>10. woken # {} => ran \cap (Life!In(to, "Dead") \cup Life!In(to, "Stopped")) # {}
  <2> SUFFICES ASSUME NEW p \in woken
               PROVE  me \in ran /\ me \in Life!In(to, "Dead") \cup Life!In(to, "Stopped")
    OBVIOUS
  <2>1. /\ p \in Pids /\ sched.proc[p].state = "Ready" /\ IsBlocked(sched.proc[p])
        /\ ~(sched'.proc[p].state = "Ready" /\ IsBlocked(sched'.proc[p]))
    BY <1>2, <1>3, PhaseOK DEF Life!In
  <2>2. p # me
    BY <1>7, <2>1
  <2>3. Follows(sched, sched', p)
    BY <2>1, <2>2 DEF Caused, Forked
  <2>4. ~IsBlocked(sched'.proc[p])
    <3> SUFFICES ASSUME IsBlocked(sched'.proc[p]) PROVE FALSE
      OBVIOUS
    <3>1. sched'.proc[p].state = "Running"
      BY <2>1, <2>3 DEF Follows
    <3>2. p = sched'.current /\ p \in QueueSet(sched')
      BY <1>1, <1>7, <2>1, <3>1 DEF Consistent, BlockedIsQueued
    <3> QED
      BY <1>1, <3>2 DEF Consistent, HeldOnce
  <2>5. me \in Pids /\ sched'.proc[me].state \in Ends
    BY <2>1, <2>3, <2>4 DEF Follows
  <2>6. to[me] \in {"Dead", "Stopped"}
    BY <1>2, <1>3, <2>5, PhaseOK DEF Ends
  <2> QED
    BY <1>6, <1>7, <2>5, <2>6 DEF Life!In
<1>11. runs = {} => Life!In(to, "Ready") = {}
  <2> SUFFICES ASSUME runs = {}, NEW p \in Life!In(to, "Ready")
               PROVE  FALSE
    OBVIOUS
  <2>1. sched'.current = NoPid
    BY <1>2, <1>6, <1>7
  <2>2. p \in Pids /\ sched'.proc[p].state = "Ready" /\ ~IsBlocked(sched'.proc[p])
    BY <1>2, <1>3, PhaseOK DEF Life!In
  <2>3. p \in QueueSet(sched')
    BY <1>1, <2>1, <2>2, PidsAreNotNoPid DEF Consistent, StateAgreesWithPlace, Held
  <2>4. Runnable(sched', p)
    BY <2>2 DEF Runnable, IsStopped
  <2> QED
    BY <2>1, <2>3, <2>4 DEF KInv, WorkConserving
<1> QED
  BY <1>4, <1>5, <1>8, <1>9, <1>10, <1>11 DEF Life!Leads, from, to

\* Every trap, with all the wake-ups, signal deliveries and the dispatch it
\* performs, is one step of the documented life cycle, or changes no phase.
THEOREM KernelIsLifecycle == Spec => ImplementsLifecycle
<1>1. Init => Life!LifeInit
  BY InitPhase DEF Life!LifeInit, Phase
<1>2. KInv /\ KInv' /\ [Next]_vars => [Life!Step]_Phase
  BY NextOK, StepFollows, StepLeads DEF Life!Step, Phase
<1> QED
  BY KernelInvariant, <1>1, <1>2, PTL DEF Spec, ImplementsLifecycle, Life!LifeSpec, Phase

=============================================================================

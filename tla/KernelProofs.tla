---------------------------- MODULE KernelProofs ----------------------------
(***************************************************************************)
(* The invariants of KernelProperties, and the action properties that      *)
(* follow from them, for every number of processes and every set of calls. *)
(*                                                                         *)
(* KInv is inductive.  Consistent is not inductive without PidsFresh (a    *)
(* fork must not reuse the pid of a held process), PidsFresh not without   *)
(* Consistent (a parent has a pid already handed out because it is in the  *)
(* current slot), CpuMatchesCurrent not without both (the table loaded is  *)
(* one of a held process, and those are live).                             *)
(***************************************************************************)
EXTENDS KernelProperties, SchedulerProofs

\* The inductive form of SchedulerConsistent: every state field against the
\* place of the process.
SchedOK == Consistent(sched)

KInv ==
    /\ TypeOK
    /\ SchedOK
    /\ WorkConserving
    /\ CpuMatchesCurrent
    /\ PidsFresh

\* What every handler hands to the trap path.
Settled(out) ==
    /\ out.s \in SchedulerType
    /\ Consistent(out.s)
    /\ out.s.current = NoPid => NobodyRunnable(out.s)
    /\ out.ends \in {"return", "emptied", "switch"}
    /\ out.ends = "return" => out.s.current = sched.current
    /\ out.ends = "emptied" => out.s.current = NoPid

\* And what all but a successful fork keep.
Evolves(out) ==
    /\ SameFamily(sched, out.s)
    /\ OnlyCurrentLeaves(sched, out.s)
    /\ out.ends = "return" => Held(out.s) = Held(sched)
    /\ sched.current = NoPid => out.s.current = NoPid /\ out.s.queue = sched.queue

\* The trap path ends where the handler ended, or one schedule_next further,
\* with the CPU on the current process if there is one.
LEMMA TrapStep ==
    ASSUME KInv, mode = "user", NEW STATE out, Settled(out), Trap(out)
    PROVE  /\ sched' \in SchedulerType
           /\ Consistent(sched')
           /\ sched'.current = NoPid => NobodyRunnable(sched')
           /\ SameFamily(out.s, sched')
           /\ OnlyCurrentLeaves(out.s, sched')
           /\ out.ends = "return" \/ sched' = out.s
           /\ out.s.current = NoPid => sched' = out.s
           /\ needResched' \in BOOLEAN
           /\ mode' \in Modes
           /\ cpu' = cpu \/ (cpu' = sched'.current /\ cpu' \in Held(sched'))
           /\ sched'.current # NoPid => cpu' = sched'.current
<1>1. /\ out.s \in SchedulerType /\ Consistent(out.s)
      /\ out.s.current = NoPid => NobodyRunnable(out.s)
  BY DEF Settled
<1>2. SameFamily(out.s, out.s) /\ OnlyCurrentLeaves(out.s, out.s)
  BY DEF SameFamily, OnlyCurrentLeaves
<1>3. CASE needResched /\ out.ends # "switch"
  <2>1. Preempt(out.s)
    BY <1>3 DEF Trap
  <2>2. sched' = ScheduleNext(out.s) /\ needResched' = FALSE /\ Land(sched')
    BY <2>1 DEF Preempt
  <2>3. /\ sched' \in SchedulerType /\ Consistent(sched')
        /\ sched'.current = NoPid => NobodyRunnable(sched')
        /\ OnlyCurrentLeaves(out.s, sched') /\ SameFamily(out.s, sched')
    BY <1>1, <2>2, ScheduleNextOK, ConsistentIsSchedulable
  <2>4. out.s.current = NoPid => sched' = out.s
    BY <1>1, <2>2, ScheduleNextIdle
  <2>5. out.ends = "return" \/ sched' = out.s
    BY <1>3, <2>4 DEF Settled
  <2> QED
    BY <2>2, <2>3, <2>4, <2>5 DEF Land, ReturnThroughEmptySlot, Modes, Held
<1>4. CASE ~(needResched /\ out.ends # "switch")
  <2>1. Finish(out)
    BY <1>4 DEF Trap
  <2>2. sched' = out.s /\ needResched' = needResched /\ needResched' \in BOOLEAN
    BY <2>1 DEF Finish, KInv, TypeOK
  <2>3. CASE out.ends = "return"
    <3>1. cpu' = cpu /\ mode' = mode /\ sched'.current = sched.current
      BY <2>1, <2>2, <2>3 DEF Finish, Settled
    <3>2. sched'.current # NoPid => cpu' = sched'.current
      BY <3>1 DEF KInv, CpuMatchesCurrent
    <3> QED
      BY <1>1, <1>2, <2>2, <2>3, <3>1, <3>2 DEF Modes
  <2>4. CASE out.ends # "return"
    <3>1. Land(sched')
      BY <2>1, <2>2, <2>4 DEF Finish
    <3> QED
      BY <1>1, <1>2, <2>2, <3>1 DEF Land, ReturnThroughEmptySlot, Modes, Held
  <2> QED
    BY <2>3, <2>4
<1> QED
  BY <1>3, <1>4

-----------------------------------------------------------------------------
(* What a step does, beyond keeping KInv.                                  *)

\* Who leaves the scheduler in this step, and that a machine without a
\* current process stays so.
StepOK ==
    /\ \A p \in Held(sched) \ Held(sched') : p = sched.current /\ IsExited(sched'.proc[p])
    /\ sched.current = NoPid =>
            sched'.current = NoPid /\ sched'.queue = sched.queue /\ cpu' = cpu

\* A call that creates nobody and frees nothing.
LEMMA OrdinaryCall ==
    ASSUME KInv, mode = "user", NEW STATE out, Settled(out), Evolves(out), Trap(out),
           space' = space, nextPid' \in {nextPid, nextPid + 1},
           nextPid' \in 2 .. MaxPid + 1
    PROVE  KInv' /\ StepOK
<1>1. /\ sched' \in SchedulerType
      /\ Consistent(sched')
      /\ sched'.current = NoPid => NobodyRunnable(sched')
      /\ SameFamily(out.s, sched')
      /\ OnlyCurrentLeaves(out.s, sched')
      /\ out.ends = "return" \/ sched' = out.s
      /\ out.s.current = NoPid => sched' = out.s
      /\ needResched' \in BOOLEAN
      /\ mode' \in Modes
      /\ cpu' = cpu \/ (cpu' = sched'.current /\ cpu' \in Held(sched'))
      /\ sched'.current # NoPid => cpu' = sched'.current
  BY TrapStep
<1>2. /\ sched \in SchedulerType /\ out.s \in SchedulerType
      /\ cpu \in Pids /\ nextPid \in 2 .. MaxPid + 1
      /\ space \in [Pids -> {"none", "live", "freed"}]
  BY DEF KInv, TypeOK, Settled
<1>3. /\ Held(sched) \subseteq Pids /\ Held(sched') \subseteq Pids
      /\ Held(out.s) \subseteq Pids
  BY <1>1, <1>2, HeldArePids
<1>4. /\ Held(out.s) \subseteq Held(sched) /\ Held(sched') \subseteq Held(sched)
  BY <1>1 DEF Evolves, OnlyCurrentLeaves
<1>5. SameFamily(sched, sched')
  BY <1>1, <1>4 DEF Evolves, SameFamily
<1>6. OnlyCurrentLeaves(sched, sched')
  <2>1. CASE sched' = out.s
    BY <2>1 DEF Evolves
  <2>2. CASE out.ends = "return"
    BY <1>1, <2>2 DEF Evolves, Settled, OnlyCurrentLeaves
  <2> QED
    BY <1>1, <2>1, <2>2
<1>7. PidsFresh'
  <2> SUFFICES ASSUME NEW p \in Pids
               PROVE  /\ p >= nextPid' => sched'.proc[p].state = "Absent" /\ space'[p] = "none"
                      /\ sched'.proc[p].parent < p
                      /\ p \in Held(sched') => space'[p] = "live"
    BY DEF PidsFresh
  <2>1. /\ p >= nextPid => sched.proc[p].state = "Absent" /\ space[p] = "none"
        /\ sched.proc[p].parent < p
        /\ p \in Held(sched) => space[p] = "live"
    BY DEF KInv, PidsFresh
  <2>2. p >= nextPid' => p >= nextPid
    BY <1>2, PidsAreNotNoPid
  <2> QED
    BY <1>4, <1>5, <2>1, <2>2 DEF SameFamily
<1>8. TypeOK'
  BY <1>1, <1>2, <1>3 DEF TypeOK
<1>9. CpuMatchesCurrent'
  <2>1. space[cpu'] = "live"
    BY <1>1, <1>3, <1>4 DEF KInv, CpuMatchesCurrent, PidsFresh
  <2> QED
    BY <1>1, <2>1 DEF CpuMatchesCurrent
<1>10. SchedOK' /\ WorkConserving'
  BY <1>1 DEF SchedOK, WorkConserving, NobodyRunnable
<1>11. StepOK
  BY <1>1, <1>3, <1>6, PidsAreNotNoPid DEF StepOK, Evolves, OnlyCurrentLeaves
<1> QED
  BY <1>7, <1>8, <1>9, <1>10, <1>11 DEF KInv

\* A handler that returns, having changed nothing the scheduler looks at.
LEMMA ReturnedOK ==
    ASSUME KInv, NEW STATE s, s \in SchedulerType, NEW STATE r,
           Consistent(s), SameFamily(sched, s), Held(s) = Held(sched),
           s.current = sched.current, s.queue = sched.queue,
           NobodyRunnable(sched) => NobodyRunnable(s)
    PROVE  Settled(Returned(s, r)) /\ Evolves(Returned(s, r))
<1>1. Returned(s, r).s = s /\ Returned(s, r).ends = "return"
  BY DEF Returned
<1>2. sched.current = NoPid => NobodyRunnable(sched)
  BY DEF KInv, WorkConserving, NobodyRunnable
<1> QED
  BY <1>1, <1>2 DEF Settled, Evolves, OnlyCurrentLeaves

\* A handler that returns an error.
LEMMA ErrorOK ==
    ASSUME KInv, NEW STATE r
    PROVE  Settled(Returned(sched, r)) /\ Evolves(Returned(sched, r))
<1>1. sched \in SchedulerType /\ Consistent(sched)
  BY DEF KInv, TypeOK, SchedOK
<1>2. SameFamily(sched, sched)
  BY DEF SameFamily
<1> QED
  BY <1>1, <1>2, ReturnedOK

\* A handler that yields, having at most blocked the current process.
LEMMA YieldingOK ==
    ASSUME KInv, NEW STATE s, s \in SchedulerType, NEW STATE r,
           Schedulable(s), SameFamily(sched, s), Held(s) = Held(sched),
           s.current = sched.current, sched.current = NoPid => s = sched
    PROVE  Settled(Yielding(s, r)) /\ Evolves(Yielding(s, r))
<1> DEFINE t == ScheduleNext(s)
           out == Yielding(s, r)
<1>1. /\ t \in SchedulerType /\ Consistent(t)
      /\ t.current = NoPid => NobodyRunnable(t)
      /\ OnlyCurrentLeaves(s, t) /\ SameFamily(s, t)
  BY ScheduleNextOK
<1>2. sched.current = NoPid => t = sched
  BY ScheduleNextIdle DEF KInv, WorkConserving, NobodyRunnable
<1> HIDE DEF t
<1>3. /\ out.s = t
      /\ out.ends = IF t.current = NoPid THEN "emptied" ELSE "switch"
  BY DEF Yielding, t
<1>4. /\ out.ends \in {"emptied", "switch"}
      /\ out.ends = "emptied" => t.current = NoPid
  BY <1>3
<1> HIDE DEF out
<1>5. SameFamily(sched, t) /\ OnlyCurrentLeaves(sched, t)
  BY <1>1 DEF SameFamily, OnlyCurrentLeaves
<1>6. Settled(out)
  BY <1>1, <1>3, <1>4 DEF Settled
<1>7. Evolves(out)
  BY <1>2, <1>3, <1>4, <1>5 DEF Evolves
<1> QED
  BY <1>6, <1>7 DEF out

\* kill: SIGINT, SIGTSTP and SIGCONT become pending, nothing else changes.
LEMMA KillOK ==
    ASSUME KInv, NEW pid \in Int, NEW sig
    PROVE  Settled(KillHandler(sched, pid, sig)) /\ Evolves(KillHandler(sched, pid, sig))
<1>1. sched \in SchedulerType /\ Consistent(sched)
  BY DEF KInv, TypeOK, SchedOK
<1>2. CASE sig \notin Signals \/ pid = 0
  BY <1>2, ErrorOK DEF KillHandler
<1>3. CASE sig \in Signals /\ pid > 0 /\ pid # sched.current
  BY <1>3, ErrorOK DEF KillHandler
<1>4. CASE sig \in Signals /\ pid > 0 /\ pid = sched.current
  <2> DEFINE q == SendSignal(sched.proc[pid], sig)
             t == SetCurrent(sched, q)
  <2>1. KillHandler(sched, pid, sig) = Returned(t, 0)
    BY <1>4 DEF KillHandler
  <2>2. sched.current # NoPid /\ pid \in Pids /\ sched.proc[pid] \in ProcessType
    BY <1>1, <1>4 DEF NoPid, SchedulerType
  <2>3. /\ q \in ProcessType /\ q.state = sched.proc[pid].state
        /\ q.wait = sched.proc[pid].wait /\ q.parent = sched.proc[pid].parent
    BY <1>4, <2>2 DEF SendSignal, ProcessType
  <2> HIDE DEF q
  <2>4. /\ t \in SchedulerType /\ t.queue = sched.queue /\ t.current = sched.current
        /\ t.proc[pid] = q /\ \A p \in Pids \ {pid} : t.proc[p] = sched.proc[p]
    BY <1>1, <1>4, <2>2, <2>3, SetCurrentOK
  <2> HIDE DEF t
  <2>5. /\ Consistent(t) /\ SameFamily(sched, t) /\ Held(t) = Held(sched)
        /\ NobodyRunnable(sched) => NobodyRunnable(t)
    BY <1>1, <2>3, <2>4, SameToScheduler
  <2> QED
    BY <2>1, <2>4, <2>5, ReturnedOK
<1>5. CASE sig \in Signals /\ pid < 0
  <2> DEFINE t == SignalProcessGroup(sched, -pid, sig)
             r == IF GroupMembers(sched, -pid) = {} THEN ESRCH ELSE 0
  <2>1. KillHandler(sched, pid, sig) = Returned(t, r)
    BY <1>5 DEF KillHandler
  <2>2. /\ t \in SchedulerType /\ Consistent(t) /\ SameFamily(sched, t)
        /\ Held(t) = Held(sched) /\ t.current = sched.current /\ t.queue = sched.queue
        /\ NobodyRunnable(sched) => NobodyRunnable(t)
    BY <1>1, <1>5, SignalProcessGroupOK
  <2> HIDE DEF t, r
  <2> QED
    BY <2>1, <2>2, ReturnedOK
<1> QED
  BY <1>2, <1>3, <1>4, <1>5

\* setpgid: the caller's group changes, nothing else.
LEMMA SetpgidOK ==
    ASSUME KInv, NEW pid \in {0} \cup Pids, NEW pgid \in {0} \cup Pgids
    PROVE  /\ Settled(SetpgidHandler(sched, pid, pgid))
           /\ Evolves(SetpgidHandler(sched, pid, pgid))
<1> DEFINE me == sched.current
           target == IF pid = 0 THEN me ELSE pid
<1>1. sched \in SchedulerType /\ Consistent(sched)
  BY DEF KInv, TypeOK, SchedOK
<1>2. CASE me = NoPid \/ me # target
  BY <1>2, ErrorOK DEF SetpgidHandler
<1>3. CASE me # NoPid /\ me = target
  <2> DEFINE g == IF pgid = 0 THEN me ELSE pgid
             q == [sched.proc[me] EXCEPT !.pgid = g]
             t == SetCurrent(sched, q)
  <2>1. SetpgidHandler(sched, pid, pgid) = Returned(t, 0)
    BY <1>3 DEF SetpgidHandler
  <2>2. me \in Pids /\ sched.proc[me] \in ProcessType /\ g \in Pgids
    BY <1>1, <1>3 DEF SchedulerType, Pids, Pgids
  <2> HIDE DEF g
  <2>3. /\ q \in ProcessType /\ q.state = sched.proc[me].state
        /\ q.wait = sched.proc[me].wait /\ q.parent = sched.proc[me].parent
    BY <2>2 DEF ProcessType
  <2> HIDE DEF q
  <2>4. /\ t \in SchedulerType /\ t.queue = sched.queue /\ t.current = sched.current
        /\ t.proc[me] = q /\ \A p \in Pids \ {me} : t.proc[p] = sched.proc[p]
    BY <1>1, <1>3, <2>3, SetCurrentOK
  <2> HIDE DEF t
  <2>5. /\ Consistent(t) /\ SameFamily(sched, t) /\ Held(t) = Held(sched)
        /\ NobodyRunnable(sched) => NobodyRunnable(t)
    BY <1>1, <2>3, <2>4, SameToScheduler
  <2> QED
    BY <2>1, <2>4, <2>5, ReturnedOK
<1> QED
  BY <1>2, <1>3

\* waitpid that finds no zombie blocks the caller, or fails.
LEMMA WaitForChildOK ==
    ASSUME KInv, sched.current # NoPid, NEW pid \in {-1} \cup Pids
    PROVE  LET out == WaitForChild(sched, pid)
           IN  /\ Settled(out) /\ Evolves(out)
               /\ out.ends = "return" => out.s = sched
<1> DEFINE me == sched.current
<1>1. sched \in SchedulerType /\ Consistent(sched)
  BY DEF KInv, TypeOK, SchedOK
<1>2. CASE ~HasChildren(sched, me)
  <2>1. WaitForChild(sched, pid) = Returned(sched, ESRCH)
    BY <1>2 DEF WaitForChild
  <2> QED
    BY <2>1, ErrorOK DEF Returned
<1>3. CASE HasChildren(sched, me)
  <2> DEFINE q == [sched.proc[me] EXCEPT !.wait = pid]
             t == SetCurrent(sched, q)
  <2>1. WaitForChild(sched, pid) = Yielding(t, ESRCH)
    BY <1>3 DEF WaitForChild
  <2>2. me \in Pids /\ sched.proc[me] \in ProcessType
    BY <1>1 DEF SchedulerType
  <2>3. /\ q \in ProcessType /\ q.state = sched.proc[me].state
        /\ q.parent = sched.proc[me].parent
    BY <2>2 DEF ProcessType, WaitStates, WaitingForAnyChild
  <2> HIDE DEF q
  <2>4. /\ t \in SchedulerType /\ t.queue = sched.queue /\ t.current = sched.current
        /\ QueueSet(t) = QueueSet(sched) /\ Held(t) = Held(sched)
        /\ t.proc[me] = q /\ \A p \in Pids \ {me} : t.proc[p] = sched.proc[p]
    BY <1>1, <2>3, SetCurrentOK
  <2> HIDE DEF t
  <2>5. SameFamily(sched, t)
    BY <2>2, <2>3, <2>4 DEF SameFamily
  <2>6. /\ HeldOnce(t)
        /\ t.proc[t.current].state \in {"Running", "Exited", "Zombie"}
    BY <1>1, <2>3, <2>4 DEF Consistent, HeldOnce, StateAgreesWithPlace
  <2>7. /\ \A p \in QueueSet(t) : t.proc[p].state \in {"Ready", "Stopped"}
        /\ \A p \in Pids \ Held(t) : t.proc[p].state \in {"Absent", "Exited", "Zombie"}
    BY <1>1, <2>3, <2>4, HeldArePids DEF Consistent, StateAgreesWithPlace
  <2>8. \A p \in Pids : IsBlocked(t.proc[p]) => p \in Held(t)
    BY <1>1, <2>2, <2>4 DEF Consistent, BlockedIsQueued, Held
  <2>9. Schedulable(t)
    BY <2>6, <2>7, <2>8 DEF Schedulable
  <2>10. Settled(Yielding(t, ESRCH)) /\ Evolves(Yielding(t, ESRCH))
    BY <2>4, <2>5, <2>9, YieldingOK
  <2>11. Yielding(t, ESRCH).ends # "return"
    BY DEF Yielding
  <2> QED
    BY <2>1, <2>10, <2>11
<1> QED
  BY <1>2, <1>3

\* waitpid never returns with a zombie: there is none to find.
LEMMA WaitpidOK ==
    ASSUME KInv, NEW pid \in {-2, -1, 0} \cup Pids, NEW options, NEW writable \in BOOLEAN
    PROVE  LET out == WaitpidHandler(sched, pid, options, writable)
           IN  Settled(out) /\ Evolves(out) /\ Reaped(sched, out) = {}
<1> DEFINE out == WaitpidHandler(sched, pid, options, writable)
           me == sched.current
<1>1. sched \in SchedulerType /\ Consistent(sched)
  BY DEF KInv, TypeOK, SchedOK
<1>2. ZombieChild(sched, me) = NoPid
  BY <1>1, NoZombieHeld
<1>3. /\ Settled(out) /\ Evolves(out)
      /\ out.ends = "return" => out.s = sched
  <2>1. CASE \E r : out = Returned(sched, r)
    <3>1. PICK r : out = Returned(sched, r)
      BY <2>1
    <3>2. Settled(Returned(sched, r)) /\ Evolves(Returned(sched, r))
      BY ErrorOK
    <3>3. Returned(sched, r).s = sched
      BY DEF Returned
    <3> HIDE DEF out
    <3> QED
      BY <3>1, <3>2, <3>3
  <2>2. CASE me # NoPid /\ pid # 0 /\ ~(pid < -1) /\ out = WaitForChild(sched, pid)
    <3>1. pid \in {-1} \cup Pids
      BY <2>2
    <3> HIDE DEF out
    <3> QED
      BY <2>2, <3>1, WaitForChildOK
  <2>3. \/ \E r : out = Returned(sched, r)
        \/ me # NoPid /\ pid # 0 /\ ~(pid < -1) /\ out = WaitForChild(sched, pid)
    BY <1>2 DEF WaitpidHandler
  <2> QED
    BY <2>1, <2>2, <2>3
<1> HIDE DEF out
<1>4. Reaped(sched, out) = {}
  BY <1>3 DEF Reaped
<1> QED
  BY <1>3, <1>4 DEF out

\* A successful fork: the child has a pid nobody had, and the current process
\* for its parent, which has an older one.
LEMMA ForkOK ==
    ASSUME KInv, SysFork(TRUE)
    PROVE  KInv' /\ StepOK
<1> DEFINE me == sched.current
           child == nextPid
           s == AddProcess(sched, child, NewProcess(child, me))
           out == Returned(s, child)
<1>1. /\ sched \in SchedulerType /\ Consistent(sched) /\ cpu \in Pids
      /\ me \in Pids /\ me # NoPid /\ child \in Pids /\ mode = "user"
      /\ space \in [Pids -> {"none", "live", "freed"}]
  BY DEF KInv, TypeOK, SchedOK, SchedulerType, SysFork, SysCall
<1>2. Trap(out) /\ nextPid' = child + 1 /\ space' = [space EXCEPT ![child] = "live"]
  BY DEF SysFork, ForkHandler
<1>3. sched.proc[child].state = "Absent" /\ child \in Nat
  BY <1>1, PidsAreNotNoPid DEF KInv, PidsFresh
<1>4. /\ s \in SchedulerType /\ Consistent(s) /\ s.current = me
      /\ Held(s) = Held(sched) \cup {child}
      /\ \A p \in Pids \ {child} : s.proc[p] = sched.proc[p]
      /\ s.proc[child].parent = me /\ s.proc[child].state = "Ready"
  <2>1. /\ sched \in SchedulerType /\ Consistent(sched)
        /\ child \in Pids /\ sched.proc[child].state = "Absent"
        /\ me \in Pids \cup {NoPid}
    BY <1>1, <1>3
  <2>2. \A c \in Pids, m \in Pids \cup {NoPid} :
          sched.proc[c].state = "Absent" =>
            LET t == AddProcess(sched, c, NewProcess(c, m))
            IN  /\ t \in SchedulerType /\ Consistent(t)
                /\ t.current = sched.current
                /\ Held(t) = Held(sched) \cup {c}
                /\ \A p \in Pids \ {c} : t.proc[p] = sched.proc[p]
                /\ t.proc[c].parent = m /\ t.proc[c].state = "Ready"
    BY <2>1, AddProcessOK
  <2> QED
    BY <2>1, <2>2
<1> HIDE DEF s
<1>5. out.s = s /\ out.ends = "return"
  BY DEF Returned
<1> HIDE DEF out
<1>6. Settled(out)
  BY <1>1, <1>4, <1>5 DEF Settled
<1>7. /\ sched' \in SchedulerType /\ Consistent(sched')
      /\ sched'.current = NoPid => NobodyRunnable(sched')
      /\ SameFamily(s, sched') /\ OnlyCurrentLeaves(s, sched')
      /\ needResched' \in BOOLEAN /\ mode' \in Modes
      /\ cpu' = cpu \/ (cpu' = sched'.current /\ cpu' \in Held(sched'))
      /\ sched'.current # NoPid => cpu' = sched'.current
  BY <1>1, <1>2, <1>5, <1>6, TrapStep
<1>8. Held(sched') \subseteq Pids /\ Held(sched') \subseteq Held(sched) \cup {child}
  BY <1>4, <1>7, HeldArePids DEF OnlyCurrentLeaves
<1>9. me < child
  <2>1. sched.proc[me].state # "Absent"
    BY <1>1 DEF Consistent, StateAgreesWithPlace
  <2>2. ~(me >= child)
    BY <1>1, <2>1 DEF KInv, PidsFresh
  <2>3. me \in Nat
    BY <1>1, PidsAreNotNoPid
  <2> HIDE DEF me, child
  <2> QED
    BY <1>3, <2>2, <2>3
<1>10. PidsFresh'
  <2> SUFFICES ASSUME NEW p \in Pids
               PROVE  /\ p >= nextPid' => sched'.proc[p].state = "Absent" /\ space'[p] = "none"
                      /\ sched'.proc[p].parent < p
                      /\ p \in Held(sched') => space'[p] = "live"
    BY DEF PidsFresh
  <2>1. CASE p = child
    BY <1>1, <1>2, <1>3, <1>4, <1>7, <1>9, <2>1 DEF SameFamily
  <2>2. CASE p # child
    <3>1. /\ p >= nextPid => sched.proc[p].state = "Absent" /\ space[p] = "none"
          /\ sched.proc[p].parent < p
          /\ p \in Held(sched) => space[p] = "live"
      BY DEF KInv, PidsFresh
    <3>2. p >= nextPid' => p >= nextPid
      BY <1>2, <1>3, PidsAreNotNoPid
    <3>3. /\ sched'.proc[p].parent = sched.proc[p].parent
          /\ sched.proc[p].state = "Absent" => sched'.proc[p].state = "Absent"
      BY <1>4, <1>7, <2>2 DEF SameFamily
    <3>4. space'[p] = space[p]
      BY <1>1, <1>2, <2>2
    <3> QED
      BY <1>8, <2>2, <3>1, <3>2, <3>3, <3>4
  <2> QED
    BY <2>1, <2>2
<1>11. TypeOK'
  <2>1. nextPid' \in 2 .. MaxPid + 1
    BY <1>1, <1>2, MaxPidAssumption DEF Pids, KInv, TypeOK
  <2> QED
    BY <1>1, <1>2, <1>7, <1>8, <2>1 DEF TypeOK
<1>12. CpuMatchesCurrent'
  <2>1. space'[cpu] = "live"
    BY <1>1, <1>2 DEF KInv, CpuMatchesCurrent
  <2>2. cpu' \in Held(sched') => space'[cpu'] = "live"
    BY <1>8, <1>10 DEF PidsFresh
  <2> QED
    BY <1>7, <2>1, <2>2 DEF CpuMatchesCurrent
<1>13. SchedOK' /\ WorkConserving'
  BY <1>7 DEF SchedOK, WorkConserving, NobodyRunnable
<1>14. StepOK
  BY <1>1, <1>4, <1>7 DEF StepOK, OnlyCurrentLeaves
<1> QED
  BY <1>10, <1>11, <1>12, <1>13, <1>14 DEF KInv

\* exit: the caller leaves the scheduler before its page table is freed, and
\* the CPU gets the table of a process still held, or stops.
LEMMA ExitOK ==
    ASSUME KInv, SysExit
    PROVE  KInv' /\ StepOK
<1> DEFINE me == sched.current
           next == ExitScheduler(sched)
<1>1. /\ sched \in SchedulerType /\ Consistent(sched) /\ cpu \in Pids
      /\ me \in Pids \cup {NoPid} /\ nextPid \in 2 .. MaxPid + 1
      /\ space \in [Pids -> {"none", "live", "freed"}]
      /\ needResched \in BOOLEAN
  BY DEF KInv, TypeOK, SchedOK, SchedulerType
<1>2. /\ sched' = next
      /\ IF next.current = NoPid THEN mode' = "halted" /\ cpu' = cpu
                                 ELSE mode' = "user" /\ cpu' = next.current
      /\ space' = IF me # NoPid /\ sched.proc[me].parent = NoPid
                  THEN [space EXCEPT ![me] = "freed"] ELSE space
      /\ nextPid' = nextPid /\ needResched' = needResched
  BY DEF SysExit
<1>3. /\ next \in SchedulerType /\ Consistent(next)
      /\ next.current = NoPid => NobodyRunnable(next)
      /\ SameFamily(sched, next) /\ OnlyCurrentLeaves(sched, next)
      /\ me # NoPid => me \notin Held(next)
      /\ me = NoPid => next = sched
  <2>1. CASE me = NoPid
    <3>1. NobodyRunnable(sched)
      BY <2>1 DEF KInv, WorkConserving, NobodyRunnable
    <3>2. next = sched
      BY <2>1, <3>1, ScheduleNextIdle DEF ExitScheduler
    <3> QED
      BY <1>1, <2>1, <3>1, <3>2 DEF SameFamily, OnlyCurrentLeaves
  <2>2. CASE me # NoPid
    <3> DEFINE gone == IF sched.proc[me].parent = NoPid THEN "Exited" ELSE "Zombie"
               q == [sched.proc[me] EXCEPT !.state = gone]
               u == SetCurrent(sched, q)
               w == WakeWaitersForChild(u, me)
    <3>1. next = ScheduleNext(w)
      BY <2>2 DEF ExitScheduler
    <3>2. me \in Pids /\ sched.proc[me] \in ProcessType /\ gone \in {"Exited", "Zombie"}
      BY <1>1, <2>2 DEF SchedulerType
    <3> HIDE DEF gone
    <3>3. /\ q \in ProcessType /\ q.state = gone /\ q.wait = sched.proc[me].wait
          /\ q.parent = sched.proc[me].parent
      BY <3>2 DEF ProcessType, ProcessStates
    <3> HIDE DEF q
    <3>4. /\ u \in SchedulerType /\ u.queue = sched.queue /\ u.current = me
          /\ QueueSet(u) = QueueSet(sched) /\ Held(u) = Held(sched)
          /\ u.proc[me] = q /\ \A p \in Pids \ {me} : u.proc[p] = sched.proc[p]
      BY <1>1, <2>2, <3>3, SetCurrentOK
    <3> HIDE DEF u
    <3>5. /\ w \in SchedulerType /\ w.queue = u.queue /\ w.current = u.current
          /\ QueueSet(w) = QueueSet(u) /\ Held(w) = Held(u)
          /\ \A p \in Pids : /\ w.proc[p].state = u.proc[p].state
                             /\ w.proc[p].parent = u.proc[p].parent
                             /\ IsBlocked(w.proc[p]) => IsBlocked(u.proc[p])
      BY <3>2, <3>4, WakeWaitersOK
    <3> HIDE DEF w
    <3>6. /\ w.current = me /\ QueueSet(w) = QueueSet(sched) /\ Held(w) = Held(sched)
          /\ w.proc[me].state = gone /\ w.proc[me].parent = sched.proc[me].parent
          /\ \A p \in Pids \ {me} : /\ w.proc[p].state = sched.proc[p].state
                                    /\ w.proc[p].parent = sched.proc[p].parent
          /\ \A p \in Pids : IsBlocked(w.proc[p]) => IsBlocked(sched.proc[p])
      BY <3>2, <3>3, <3>4, <3>5 DEF IsBlocked
    <3>7. me \in Held(sched) /\ me \notin QueueSet(sched)
      BY <1>1, <2>2 DEF Held, Consistent, HeldOnce
    <3>8. Schedulable(w)
      <4>1. HeldOnce(w)
        BY <1>1, <3>4, <3>5, <3>6 DEF Consistent, HeldOnce
      <4>2. w.proc[w.current].state \in {"Running", "Exited", "Zombie"}
        BY <3>2, <3>6
      <4>3. /\ \A p \in QueueSet(w) : w.proc[p].state \in {"Ready", "Stopped"}
            /\ \A p \in Pids \ Held(w) : w.proc[p].state \in {"Absent", "Exited", "Zombie"}
        BY <1>1, <3>6, <3>7, HeldArePids DEF Consistent, StateAgreesWithPlace
      <4>4. \A p \in Pids : IsBlocked(w.proc[p]) => p \in Held(w)
        BY <1>1, <3>6 DEF Consistent, BlockedIsQueued, Held
      <4> QED
        BY <4>1, <4>2, <4>3, <4>4 DEF Schedulable
    <3>9. SameFamily(sched, w)
      BY <1>1, <2>2, <3>2, <3>6, <3>7 DEF SameFamily, Consistent, StateAgreesWithPlace
    <3> HIDE DEF next
    <3>10. /\ next \in SchedulerType /\ Consistent(next)
           /\ next.current = NoPid => NobodyRunnable(next)
           /\ OnlyCurrentLeaves(w, next) /\ SameFamily(w, next)
           /\ w.current # NoPid /\ IsExited(w.proc[w.current]) =>
                  w.current \notin Held(next)
      BY <3>1, <3>5, <3>8, ScheduleNextOK
    <3>11. me \notin Held(next)
      BY <2>2, <3>2, <3>6, <3>10 DEF IsExited
    <3>12. SameFamily(sched, next) /\ OnlyCurrentLeaves(sched, next)
      BY <3>6, <3>9, <3>10 DEF SameFamily, OnlyCurrentLeaves
    <3> QED
      BY <2>2, <3>10, <3>11, <3>12
  <2> QED
    BY <2>1, <2>2
<1> HIDE DEF next
<1>4. Held(next) \subseteq Held(sched) /\ Held(sched) \subseteq Pids
  BY <1>1, <1>3, HeldArePids DEF OnlyCurrentLeaves
<1>5. space' \in [Pids -> {"none", "live", "freed"}]
      /\ \A p \in Pids : p # me \/ me = NoPid => space'[p] = space[p]
  BY <1>1, <1>2
<1>6. PidsFresh'
  <2> SUFFICES ASSUME NEW p \in Pids
               PROVE  /\ p >= nextPid => next.proc[p].state = "Absent" /\ space'[p] = "none"
                      /\ next.proc[p].parent < p
                      /\ p \in Held(next) => space'[p] = "live"
    BY <1>2 DEF PidsFresh
  <2>1. /\ p >= nextPid => sched.proc[p].state = "Absent" /\ space[p] = "none"
        /\ sched.proc[p].parent < p
        /\ p \in Held(sched) => space[p] = "live"
    BY DEF KInv, PidsFresh
  <2>2. p = me => sched.proc[p].state # "Absent"
    BY <1>1, PidsAreNotNoPid DEF Consistent, StateAgreesWithPlace
  <2>3. p >= nextPid => space'[p] = "none"
    BY <1>5, <2>1, <2>2
  <2>4. p \in Held(next) => space'[p] = "live"
    BY <1>3, <1>4, <1>5, <2>1
  <2> QED
    BY <1>3, <2>1, <2>3, <2>4 DEF SameFamily
<1>7. next.current # NoPid => next.current \in Pids /\ space'[next.current] = "live"
  BY <1>2, <1>3, <1>4, <1>6 DEF PidsFresh, Held
<1>8. TypeOK'
  BY <1>1, <1>2, <1>3, <1>5, <1>7 DEF TypeOK, Modes
<1>9. CpuMatchesCurrent'
  BY <1>2, <1>7 DEF CpuMatchesCurrent
<1>10. SchedOK' /\ WorkConserving'
  BY <1>2, <1>3 DEF SchedOK, WorkConserving, NobodyRunnable
<1>11. StepOK
  BY <1>2, <1>3 DEF StepOK, OnlyCurrentLeaves
<1> QED
  BY <1>6, <1>8, <1>9, <1>10, <1>11 DEF KInv

-----------------------------------------------------------------------------

\* init_scheduler_and_start: the first process is the only one, and runs.
LEMMA InitOK == Init => KInv
<1> SUFFICES ASSUME Init PROVE KInv
  OBVIOUS
<1> DEFINE e == [proc    |-> [p \in Pids |-> AbsentProcess(p)],
                 queue   |-> <<>>,
                 current |-> NoPid]
           a == AddProcess(e, 1, NewProcess(1, NoPid))
<1>1. 1 \in Pids /\ NoPid \in Pids \cup {NoPid}
  BY MaxPidAssumption DEF Pids
<1>2. ASSUME NEW p \in Pids
      PROVE  /\ AbsentProcess(p) \in ProcessType /\ AbsentProcess(p).state = "Absent"
             /\ AbsentProcess(p).wait = NotWaiting /\ AbsentProcess(p).parent = NoPid
  BY DEF AbsentProcess, NewProcess, ProcessType, ProcessStates, WaitStates, Pgids, Pids
<1>3. e \in SchedulerType
  BY <1>1, <1>2 DEF SchedulerType
<1>4. \A p \in Pids : e.proc[p] = AbsentProcess(p)
  OBVIOUS
<1>5. QueueSet(e) = {} /\ Held(e) = {} /\ e.current = NoPid
  BY DEF QueueSet, Held
<1>6. e.queue = <<>>
  OBVIOUS
<1> HIDE DEF e
<1>7. HeldOnce(e)
  BY <1>5, <1>6 DEF HeldOnce
<1>8. Consistent(e)
  BY <1>2, <1>4, <1>5, <1>7 DEF Consistent, StateAgreesWithPlace, BlockedIsQueued, IsBlocked
<1>9. /\ a \in SchedulerType /\ Consistent(a) /\ Held(a) = {1}
      /\ \A p \in Pids \ {1} : a.proc[p] = e.proc[p]
      /\ a.proc[1].parent = NoPid /\ a.proc[1].state = "Ready"
  <2>1. e.proc[1].state = "Absent"
    BY <1>1, <1>2, <1>4
  <2>2. LET t == AddProcess(e, 1, NewProcess(1, NoPid))
        IN  /\ t \in SchedulerType
            /\ Consistent(t)
            /\ t.current = e.current
            /\ Held(t) = Held(e) \cup {1}
            /\ \A p \in Pids \ {1} : t.proc[p] = e.proc[p]
            /\ t.proc[1].parent = NoPid /\ t.proc[1].state = "Ready"
    BY <1>1, <1>3, <1>8, <2>1, AddProcessOK, SMTT(30)
  <2> QED
    BY <1>5, <2>2
<1> HIDE DEF a
<1>10. /\ sched = ScheduleNext(a) /\ nextPid = 2 /\ needResched = FALSE
       /\ cpu = 1 /\ mode = "user"
       /\ space = [p \in Pids |-> IF p = 1 THEN "live" ELSE "none"]
  BY DEF Init, a, e
<1>11. /\ sched \in SchedulerType /\ Consistent(sched)
       /\ sched.current = NoPid => NobodyRunnable(sched)
       /\ OnlyCurrentLeaves(a, sched) /\ SameFamily(a, sched)
  BY <1>9, <1>10, ConsistentIsSchedulable, ScheduleNextOK
<1>12. TypeOK
  <2>1. 2 \in 2 .. MaxPid + 1
    BY MaxPidAssumption
  <2>2. space \in [Pids -> {"none", "live", "freed"}]
    BY <1>10
  <2> QED
    BY <1>1, <1>10, <1>11, <2>1, <2>2 DEF TypeOK, Modes
<1>13. CpuMatchesCurrent
  BY <1>1, <1>9, <1>10, <1>11 DEF CpuMatchesCurrent, OnlyCurrentLeaves, Held
<1>14. PidsFresh
  <2> SUFFICES ASSUME NEW p \in Pids
               PROVE  /\ p >= 2 => sched.proc[p].state = "Absent" /\ space[p] = "none"
                      /\ sched.proc[p].parent < p
                      /\ p \in Held(sched) => space[p] = "live"
    BY <1>10 DEF PidsFresh
  <2>1. p \in Nat /\ p > 0
    BY DEF Pids
  <2>2. sched.proc[p].parent = NoPid
    BY <1>2, <1>4, <1>9, <1>11 DEF SameFamily
  <2>3. p # 1 => sched.proc[p].state = "Absent"
    BY <1>2, <1>4, <1>9, <1>11 DEF SameFamily
  <2>4. p \in Held(sched) => p = 1
    BY <1>9, <1>11 DEF OnlyCurrentLeaves
  <2> QED
    BY <1>10, <2>1, <2>2, <2>3, <2>4 DEF NoPid
<1> QED
  BY <1>11, <1>12, <1>13, <1>14
     DEF KInv, SchedOK, WorkConserving, NobodyRunnable

\* Every step keeps KInv, and nobody vanishes in it.
LEMMA NextOK == KInv /\ [Next]_vars => KInv' /\ StepOK
<1> SUFFICES ASSUME KInv, [Next]_vars PROVE KInv' /\ StepOK
  OBVIOUS
<1>0. /\ sched \in SchedulerType /\ Consistent(sched) /\ nextPid \in 2 .. MaxPid + 1
  BY DEF KInv, TypeOK, SchedOK
<1>1. ASSUME sched' = sched, cpu' = cpu, nextPid' = nextPid, space' = space,
             needResched' \in BOOLEAN, mode' \in {mode, "panicked"}
      PROVE  KInv' /\ StepOK
  <2>1. TypeOK' /\ SchedOK' /\ WorkConserving' /\ PidsFresh'
    BY <1>1 DEF KInv, TypeOK, SchedOK, WorkConserving, PidsFresh, Modes
  <2>2. CpuMatchesCurrent'
    BY <1>1 DEF KInv, CpuMatchesCurrent
  <2>3. StepOK
    BY <1>1 DEF StepOK
  <2> QED
    BY <2>1, <2>2, <2>3 DEF KInv
<1>2. CASE UNCHANGED vars
  BY <1>1, <1>2 DEF vars, KInv, TypeOK
<1>3. CASE TimerTick
  BY <1>1, <1>3 DEF TimerTick
<1>4. CASE SysYield
  <2>1. SameFamily(sched, sched) /\ Schedulable(sched)
    BY <1>0, ConsistentIsSchedulable DEF SameFamily
  <2>2. Settled(YieldHandler(sched)) /\ Evolves(YieldHandler(sched))
    BY <1>0, <2>1, YieldingOK DEF YieldHandler
  <2> QED
    BY <1>0, <1>4, <2>2, OrdinaryCall DEF SysYield, SysCall
<1>5. CASE SysGetpid
  <2>1. Settled(GetpidHandler(sched)) /\ Evolves(GetpidHandler(sched))
    BY ErrorOK DEF GetpidHandler
  <2> QED
    BY <1>0, <1>5, <2>1, OrdinaryCall DEF SysGetpid, SysCall
<1>6. CASE SysForkNobody
  BY <1>0, <1>6, ErrorOK, OrdinaryCall DEF SysForkNobody, SysCall
<1>7. ASSUME NEW ok \in BOOLEAN, SysFork(ok) PROVE KInv' /\ StepOK
  <2>1. CASE ok = TRUE
    BY <1>7, <2>1, ForkOK
  <2>2. CASE ok = FALSE
    <3>1. /\ Trap(Returned(sched, ENOMEM)) /\ mode = "user"
          /\ nextPid' = nextPid + 1 /\ space' = space /\ nextPid \in Pids
      BY <1>7, <2>2 DEF SysFork, SysCall, ForkHandler
    <3>2. nextPid' \in 2 .. MaxPid + 1
      BY <1>0, <3>1, MaxPidAssumption DEF Pids
    <3> QED
      BY <3>1, <3>2, ErrorOK, OrdinaryCall
  <2> QED
    BY <2>1, <2>2
<1>8. CASE SysForkPanic
  <2>1. nextPid' = nextPid + 1 /\ mode' = "panicked" /\ nextPid \in Pids
        /\ UNCHANGED <<sched, needResched, cpu, space>>
    BY <1>8 DEF SysForkPanic
  <2>2. nextPid' \in 2 .. MaxPid + 1
    BY <1>0, <2>1, MaxPidAssumption DEF Pids
  <2>3. \A p \in Pids : p >= nextPid' => p >= nextPid
    BY <1>0, <2>1, PidsAreNotNoPid
  <2>4. PidsFresh'
    BY <2>1, <2>3 DEF KInv, PidsFresh
  <2>5. TypeOK' /\ SchedOK' /\ WorkConserving' /\ CpuMatchesCurrent'
    BY <2>1, <2>2 DEF KInv, TypeOK, SchedOK, WorkConserving,
          CpuMatchesCurrent, Modes
  <2> QED
    BY <2>1, <2>4, <2>5 DEF KInv, StepOK
<1>9. ASSUME NEW pid \in {-2, -1, 0} \cup Pids, NEW options \in WaitOptions,
             NEW writable \in BOOLEAN, SysWaitpid(pid, options, writable)
      PROVE  KInv' /\ StepOK
  <2> DEFINE out == WaitpidHandler(sched, pid, options, writable)
  <2>1. Settled(out) /\ Evolves(out) /\ Reaped(sched, out) = {}
    BY WaitpidOK
  <2>2. /\ Trap(out) /\ mode = "user" /\ nextPid' = nextPid
        /\ space' = [p \in Pids |-> IF p \in Reaped(sched, out) THEN "freed" ELSE space[p]]
    BY <1>9 DEF SysWaitpid, SysCall
  <2> HIDE DEF out
  <2>3. space' = space
    BY <2>1, <2>2 DEF KInv, TypeOK
  <2> QED
    BY <1>0, <2>1, <2>2, <2>3, OrdinaryCall
<1>10. ASSUME NEW pid \in -MaxPid .. MaxPid, NEW sig \in KillSignals, SysKill(pid, sig)
       PROVE  KInv' /\ StepOK
  <2>1. pid \in Int
    BY MaxPidAssumption
  <2>2. Settled(KillHandler(sched, pid, sig)) /\ Evolves(KillHandler(sched, pid, sig))
    BY <2>1, KillOK
  <2> QED
    BY <1>0, <1>10, <2>2, OrdinaryCall DEF SysKill, SysCall
<1>11. ASSUME NEW pid \in {0} \cup Pids, NEW pgid \in GroupNumbers, SysSetpgid(pid, pgid)
       PROVE  KInv' /\ StepOK
  BY <1>0, <1>11, SetpgidOK, OrdinaryCall, GroupsAssumption DEF SysSetpgid, SysCall
<1>12. CASE SysPipeWouldBlock
  <2> DEFINE out == Yielding(sched, 0)
  <2>1. SameFamily(sched, sched) /\ Schedulable(sched)
    BY <1>0, ConsistentIsSchedulable DEF SameFamily
  <2>2. Settled(out) /\ Evolves(out)
    BY <1>0, <2>1, YieldingOK
  <2>3. /\ mode = "user" /\ nextPid' = nextPid /\ space' = space /\ sched.current # NoPid
        /\ IF out.ends = "switch"
           THEN Trap(out)
           ELSE sched' = out.s /\ mode' = "panicked" /\ UNCHANGED <<needResched, cpu>>
    BY <1>12 DEF SysPipeWouldBlock, SysCall
  <2> HIDE DEF out
  <2>4. CASE out.ends = "switch"
    BY <1>0, <2>2, <2>3, <2>4, OrdinaryCall
  <2>5. CASE out.ends # "switch"
    <3>1. /\ sched' = out.s /\ mode' = "panicked" /\ needResched' = needResched
          /\ cpu' = cpu
      BY <2>3, <2>5
    <3>2. TypeOK' /\ SchedOK' /\ WorkConserving' /\ CpuMatchesCurrent'
      BY <2>2, <2>3, <3>1 DEF KInv, TypeOK, SchedOK, WorkConserving,
            CpuMatchesCurrent, Modes, Settled, NobodyRunnable
    <3>3. PidsFresh'
      BY <2>2, <2>3, <3>1 DEF KInv, PidsFresh, Evolves, SameFamily, OnlyCurrentLeaves
    <3>4. StepOK
      BY <2>2, <2>3, <3>1 DEF StepOK, Evolves, OnlyCurrentLeaves
    <3> QED
      BY <3>2, <3>3, <3>4 DEF KInv
  <2> QED
    BY <2>4, <2>5
<1>13. CASE SysExecve
  BY <1>2, <1>13 DEF SysExecve
<1>14. CASE SysExecveFails
  BY <1>0, <1>14, ErrorOK, OrdinaryCall DEF SysExecveFails, SysCall
<1>15. CASE SysExit
  BY <1>15, ExitOK
<1> QED
  BY <1>2, <1>3, <1>4, <1>5, <1>6, <1>7, <1>8, <1>9, <1>10, <1>11, <1>12, <1>13,
     <1>14, <1>15 DEF Next, Syscall

-----------------------------------------------------------------------------
(* Theorems.                                                               *)

\* The inductive invariant holds in every reachable state, for every number
\* of processes, set of calls and order of timer ticks.
THEOREM KernelInvariant == Spec => []KInv
<1>1. KInv /\ [Next]_vars => KInv'
  BY NextOK
<1> QED
  BY InitOK, <1>1, PTL DEF Spec

\* The handlers keep every field of the scheduler and of the CPU in its type.
THEOREM TypeCorrect == Spec => []TypeOK
<1>1. KInv => TypeOK
  BY DEF KInv
<1> QED
  BY KernelInvariant, <1>1, PTL

\* Through every sequence of system calls and timer ticks, each process is
\* held once, exactly the current one is Running, the living are held and the
\* blocked queued (scheduler.rs:14-18, but for the queue that "contains only
\* Ready processes").
THEOREM SchedulerStaysConsistent == Spec => []SchedulerConsistent
<1>1. SchedOK /\ TypeOK => SchedulerConsistent
  <2> SUFFICES ASSUME SchedOK, TypeOK PROVE SchedulerConsistent
    OBVIOUS
  <2>1. HeldOnce(sched) /\ BlockedIsQueued(sched) /\ StateAgreesWithPlace(sched)
    BY DEF SchedOK, Consistent
  <2>2. \A p \in Pids : sched.proc[p].state = "Running" <=> p = sched.current
    BY <2>1, MaxPidAssumption DEF StateAgreesWithPlace, Held, NoPid, Pids
  <2>3. \A p \in Held(sched) : sched.proc[p].state # "Exited"
    BY <2>1 DEF StateAgreesWithPlace, Held
  <2>4. \A p \in Pids : sched.proc[p].state \in {"Ready", "Running", "Stopped"}
                            => p \in Held(sched)
    BY <2>1 DEF StateAgreesWithPlace
  <2> QED
    BY <2>1, <2>2, <2>3, <2>4 DEF SchedulerConsistent
<1>2. KInv => SchedOK /\ TypeOK
  BY DEF KInv
<1> QED
  BY KernelInvariant, <1>1, <1>2, PTL

\* The current slot is empty only when nobody in the queue can run.
THEOREM CpuNotIdleWithWork == Spec => []WorkConserving
<1>1. KInv => WorkConserving
  BY DEF KInv
<1> QED
  BY KernelInvariant, <1>1, PTL

\* The CPU runs the current process, on a page table that was not freed.
THEOREM CpuFollowsScheduler == Spec => []CpuMatchesCurrent
<1>1. KInv => CpuMatchesCurrent
  BY DEF KInv
<1> QED
  BY KernelInvariant, <1>1, PTL

\* fork never hands out a pid twice, and the parent relation has no cycle.
THEOREM PidsStayFresh == Spec => []PidsFresh
<1>1. KInv => PidsFresh
  BY DEF KInv
<1> QED
  BY KernelInvariant, <1>1, PTL

\* No step of the kernel loses a living process: who leaves the scheduler has
\* ended.
THEOREM OnlyTheEndedLeave == Spec => NobodyVanishes
<1>1. KInv /\ [Next]_vars =>
        [\A p \in Held(sched) \ Held(sched') : IsExited(sched'.proc[p])]_vars
  BY NextOK DEF StepOK
<1> QED
  BY KernelInvariant, <1>1, PTL DEF Spec, NobodyVanishes

=============================================================================

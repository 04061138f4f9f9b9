-------------------------- MODULE SchedulerProofs --------------------------
(***************************************************************************)
(* What each scheduler method does to a consistent scheduler, for every    *)
(* number of processes.                                                    *)
(***************************************************************************)
EXTENDS Scheduler, TLAPS, SequenceTheorems, WellFoundedInduction

Distinct(q) == \A i, j \in 1 .. Len(q) : q[i] = q[j] => i = j
Elements(q) == {q[i] : i \in 1 .. Len(q)}

\* No pid is the None of the current slot.
LEMMA PidsAreNotNoPid == NoPid \notin Pids /\ Pids \subseteq Nat
  BY MaxPidAssumption DEF NoPid, Pids

\* all_processes() yields pids.
LEMMA HeldArePids ==
    ASSUME NEW s \in SchedulerType
    PROVE  QueueSet(s) \subseteq Pids /\ Held(s) \subseteq Pids
  BY DEF SchedulerType, QueueSet, Held

\* push_back of a value that is not in the queue.
LEMMA PushBack ==
    ASSUME NEW q \in Seq(Pids), NEW x \in Pids, Distinct(q), x \notin Elements(q)
    PROVE  /\ Append(q, x) \in Seq(Pids)
           /\ Distinct(Append(q, x))
           /\ Elements(Append(q, x)) = Elements(q) \cup {x}
  BY DEF Distinct, Elements

\* schedule_next's rotation: the i-th process leaves, those behind it come to
\* the front, those before it to the back.
LEMMA Rotation ==
    ASSUME NEW q \in Seq(Pids), NEW i \in 1 .. Len(q), Distinct(q)
    PROVE  LET r == SubSeq(q, i + 1, Len(q)) \o SubSeq(q, 1, i - 1)
           IN  /\ r \in Seq(Pids)
               /\ Distinct(r)
               /\ Elements(r) = Elements(q) \ {q[i]}
<1> DEFINE n == Len(q) - i
           a == SubSeq(q, i + 1, Len(q))
           b == SubSeq(q, 1, i - 1)
           r == a \o b
<1>1. /\ a \in Seq(Pids) /\ Len(a) = n
      /\ \A k \in 1 .. n : a[k] = q[k + i]
  <2>1. \A k \in i + 1 .. Len(q) : q[k] \in Pids
    OBVIOUS
  <2> QED
    BY <2>1, SubSeqProperties
<1>2. /\ b \in Seq(Pids) /\ Len(b) = i - 1
      /\ \A k \in 1 .. i - 1 : b[k] = q[k]
  <2>1. \A k \in 1 .. i - 1 : q[k] \in Pids
    OBVIOUS
  <2> QED
    BY <2>1, SubSeqProperties
<1> HIDE DEF a, b
<1>3. /\ r \in Seq(Pids)
      /\ Len(r) = Len(a) + Len(b)
      /\ \A k \in 1 .. Len(a) + Len(b) : r[k] = IF k <= Len(a) THEN a[k] ELSE b[k - Len(a)]
  BY <1>1, <1>2, ConcatProperties
<1> HIDE DEF r
<1>n. n \in Nat /\ Len(q) \in Nat /\ i \in Nat /\ n = Len(q) - i
  OBVIOUS
<1> HIDE DEF n
<1>r. Len(r) = Len(q) - 1
  BY <1>1, <1>2, <1>3, <1>n
<1>front. \A k \in 1 .. n : k \in 1 .. Len(r) /\ r[k] = q[k + i]
  BY <1>1, <1>2, <1>3, <1>n
<1>back. \A k \in 1 .. i - 1 : k + n \in 1 .. Len(r) /\ r[k + n] = q[k]
  <2> SUFFICES ASSUME NEW k \in 1 .. i - 1
               PROVE  k + n \in 1 .. Len(r) /\ r[k + n] = q[k]
    OBVIOUS
  <2>1. k + n \in 1 .. Len(r) /\ ~(k + n <= Len(a)) /\ (k + n) - Len(a) = k
    BY <1>1, <1>n, <1>r
  <2> QED
    BY <2>1, <1>1, <1>2, <1>3
\* Every position of r comes from one of q, never from the i-th.
<1> DEFINE from(k) == IF k <= n THEN k + i ELSE k - n
<1>4. \A k \in 1 .. Len(r) : from(k) \in 1 .. Len(q) /\ from(k) # i /\ r[k] = q[from(k)]
  <2> SUFFICES ASSUME NEW k \in 1 .. Len(r)
               PROVE  from(k) \in 1 .. Len(q) /\ from(k) # i /\ r[k] = q[from(k)]
    OBVIOUS
  <2>1. CASE k <= n
    BY <2>1, <1>front, <1>n
  <2>2. CASE ~(k <= n)
    <3>1. k - n \in 1 .. i - 1 /\ (k - n) + n = k
      BY <2>2, <1>n, <1>r
    <3> QED
      BY <2>2, <3>1, <1>back, <1>n
  <2> QED
    BY <2>1, <2>2
<1>5. Distinct(r)
  <2> SUFFICES ASSUME NEW k \in 1 .. Len(r), NEW l \in 1 .. Len(r), r[k] = r[l]
               PROVE  k = l
    BY DEF Distinct
  <2>1. from(k) = from(l)
    BY <1>4 DEF Distinct
  <2> QED
    BY <2>1, <1>n, <1>r
<1>e. Elements(r) \subseteq Elements(q) \ {q[i]}
  BY <1>4 DEF Distinct, Elements
<1>6. Elements(q) \ {q[i]} \subseteq Elements(r)
  <2> SUFFICES ASSUME NEW k \in 1 .. Len(q), k # i
               PROVE  q[k] \in Elements(r)
    BY DEF Elements
  <2>1. CASE k > i
    <3>1. k - i \in 1 .. n /\ (k - i) + i = k
      BY <2>1, <1>n
    <3> QED
      BY <3>1, <1>front DEF Elements
  <2>2. CASE k < i
    <3>1. k \in 1 .. i - 1
      BY <2>2
    <3> QED
      BY <3>1, <1>back DEF Elements
  <2> QED
    BY <2>1, <2>2
<1> QED
  BY <1>3, <1>5, <1>e, <1>6 DEF r, a, b

-----------------------------------------------------------------------------

\* The loop of schedule_next stops at the first runnable process, if any.
LEMMA FirstRunnableExists ==
    ASSUME NEW s \in SchedulerType, NEW p \in QueueSet(s), Runnable(s, p)
    PROVE  \E i \in 1 .. Len(s.queue) : FirstRunnable(s, i)
<1> DEFINE T == {i \in 1 .. Len(s.queue) : Runnable(s, s.queue[i])}
<1>1. T \subseteq Nat /\ T # {}
  BY DEF QueueSet, SchedulerType
<1> HIDE DEF T
<1>2. PICK i \in T : \A j \in T : <<j, i>> \notin OpToRel(<, Nat)
  BY <1>1, NatLessThanWellFounded, WFMin
<1>3. \A j \in T : ~(j < i)
  BY <1>1, <1>2 DEF OpToRel
<1>4. \A j \in 1 .. i - 1 : ~Runnable(s, s.queue[j])
  <2> SUFFICES ASSUME NEW j \in 1 .. i - 1, Runnable(s, s.queue[j])
               PROVE  FALSE
    OBVIOUS
  <2>1. i \in 1 .. Len(s.queue) /\ Len(s.queue) \in Nat
    BY DEF T, SchedulerType
  <2>2. j \in T /\ j < i
    BY <2>1 DEF T
  <2> QED
    BY <2>2, <1>3
<1> QED
  BY <1>4 DEF T, FirstRunnable

\* What a step of the scheduler leaves alone: it creates nobody, nobody gets
\* another parent, and what it does not hold stays as it is.
SameFamily(s, t) ==
    \A p \in Pids : /\ t.proc[p].parent = s.proc[p].parent
                    /\ t.proc[p].state = "Absent" <=> s.proc[p].state = "Absent"
                    /\ p \notin Held(s) => t.proc[p].state = s.proc[p].state

\* Only the current process leaves the scheduler, and it leaves ended.
OnlyCurrentLeaves(s, t) ==
    /\ Held(t) \subseteq Held(s)
    /\ \A p \in Held(s) \ Held(t) : p = s.current /\ IsExited(t.proc[p])

NobodyRunnable(s) == \A p \in QueueSet(s) : ~Runnable(s, p)

\* The second half of schedule_next keeps a consistent scheduler consistent,
\* and leaves the slot empty only when nobody in the queue is runnable.
LEMMA DispatchOK ==
    ASSUME NEW s \in SchedulerType, Consistent(s), s.current = NoPid
    PROVE  LET t == Dispatch(s)
           IN  /\ t \in SchedulerType
               /\ Consistent(t)
               /\ t.current = NoPid => NobodyRunnable(t)
               /\ Held(t) = Held(s)
               /\ SameFamily(s, t)
<1> DEFINE t == Dispatch(s)
<1>1. CASE NobodyRunnable(s)
  <2>1. t = s
    BY <1>1 DEF Dispatch, NobodyRunnable
  <2> QED
    BY <2>1, <1>1 DEF SameFamily
<1>2. CASE ~NobodyRunnable(s)
  <2> DEFINE i == CHOOSE i \in 1 .. Len(s.queue) : FirstRunnable(s, i)
             next == s.queue[i]
             rest == SubSeq(s.queue, i + 1, Len(s.queue)) \o SubSeq(s.queue, 1, i - 1)
  <2>1. i \in 1 .. Len(s.queue) /\ FirstRunnable(s, i)
    BY <1>2, FirstRunnableExists DEF NobodyRunnable
  <2> HIDE DEF i
  <2>2. /\ t = [proc    |-> [s.proc EXCEPT ![next].state = "Running"],
                queue   |-> rest,
                current |-> next]
    BY <1>2 DEF Dispatch, NobodyRunnable, i
  <2>3. s.queue \in Seq(Pids) /\ Distinct(s.queue) /\ QueueSet(s) = Elements(s.queue)
    BY DEF SchedulerType, Consistent, HeldOnce, Distinct, QueueSet, Elements
  <2>4. /\ rest \in Seq(Pids) /\ Distinct(rest)
        /\ Elements(rest) = Elements(s.queue) \ {next}
    BY <2>1, <2>3, Rotation
  <2>5. next \in Pids /\ next \in QueueSet(s) /\ Runnable(s, next) /\ next # NoPid
    BY <2>1, <2>3, PidsAreNotNoPid DEF FirstRunnable, Elements
  <2> HIDE DEF t, next, rest
  <2>6. QueueSet(t) = QueueSet(s) \ {next} /\ t.current = next
    BY <2>2, <2>3, <2>4 DEF QueueSet, Elements
  <2>7. Held(s) = QueueSet(s) /\ Held(t) = QueueSet(s)
    BY <2>5, <2>6 DEF Held
  <2>8. s.proc \in [Pids -> ProcessType]
    BY DEF SchedulerType
  <2>9. /\ t.proc \in [Pids -> ProcessType]
        /\ \A p \in Pids \ {next} : t.proc[p] = s.proc[p]
        /\ t.proc[next] = [s.proc[next] EXCEPT !.state = "Running"]
    BY <2>2, <2>5, <2>8 DEF ProcessType, ProcessStates
  <2>10. t \in SchedulerType
    BY <2>2, <2>4, <2>5, <2>9 DEF SchedulerType
  <2>11. HeldOnce(t)
    BY <2>2, <2>4, <2>6 DEF HeldOnce, Distinct
  <2>12. /\ t.proc[next].state = "Running"
         /\ t.proc[next].wait = s.proc[next].wait
         /\ t.proc[next].parent = s.proc[next].parent
    BY <2>5, <2>8, <2>9 DEF ProcessType
  <2>13. StateAgreesWithPlace(t)
    BY <2>5, <2>6, <2>7, <2>9, <2>12, HeldArePids DEF Consistent, StateAgreesWithPlace
  <2>14. BlockedIsQueued(t)
    <3> SUFFICES ASSUME NEW p \in Pids, IsBlocked(t.proc[p])
                 PROVE  p \in QueueSet(t)
      BY DEF BlockedIsQueued
    <3>1. ~IsBlocked(s.proc[next])
      BY <2>5 DEF Runnable
    <3>2. p # next
      BY <3>1, <2>12 DEF IsBlocked
    <3> QED
      BY <3>2, <2>6, <2>9 DEF Consistent, BlockedIsQueued
  <2>15. SameFamily(s, t)
    BY <2>5, <2>7, <2>9, <2>12 DEF SameFamily, Consistent, StateAgreesWithPlace
  <2> QED
    BY <2>5, <2>6, <2>7, <2>10, <2>11, <2>13, <2>14, <2>15 DEF Consistent, t
<1> QED
  BY <1>1, <1>2

\* What a handler may have made of a consistent scheduler when it calls
\* schedule_next: the current process may have ended or be blocked.
Schedulable(s) ==
    /\ HeldOnce(s)
    /\ s.current # NoPid => s.proc[s.current].state \in {"Running", "Exited", "Zombie"}
    /\ \A p \in QueueSet(s) : s.proc[p].state \in {"Ready", "Stopped"}
    /\ \A p \in Pids \ Held(s) : s.proc[p].state \in {"Absent", "Exited", "Zombie"}
    /\ \A p \in Pids : IsBlocked(s.proc[p]) => p \in Held(s)

\* A consistent scheduler may be given to schedule_next as it is.
LEMMA ConsistentIsSchedulable ==
    ASSUME NEW s \in SchedulerType, Consistent(s)
    PROVE  Schedulable(s)
  BY DEF Consistent, Schedulable, StateAgreesWithPlace, BlockedIsQueued, Held

\* wake_waiters_for_child changes wait states only, and only to NotWaiting.
LEMMA WakeWaitersOK ==
    ASSUME NEW s \in SchedulerType, NEW child \in Pids
    PROVE  LET t == WakeWaitersForChild(s, child)
           IN  /\ t \in SchedulerType
               /\ t.queue = s.queue /\ t.current = s.current
               /\ QueueSet(t) = QueueSet(s) /\ Held(t) = Held(s)
               /\ \A p \in Pids : /\ t.proc[p].state = s.proc[p].state
                                  /\ t.proc[p].parent = s.proc[p].parent
                                  /\ IsBlocked(t.proc[p]) => IsBlocked(s.proc[p])
<1> DEFINE t == WakeWaitersForChild(s, child)
<1>1. /\ s = [proc |-> s.proc, queue |-> s.queue, current |-> s.current]
      /\ s.proc \in [Pids -> ProcessType] /\ s.queue \in Seq(Pids)
      /\ s.current \in Pids \cup {NoPid}
  BY DEF SchedulerType
<1>2. /\ t.queue = s.queue /\ t.current = s.current
      /\ t.proc = [p \in Pids |->
            IF p \in Held(s) /\ ShouldWakeOnChildExit(s.proc[p], child)
            THEN Wake(s.proc[p]) ELSE s.proc[p]]
      /\ t = [proc |-> t.proc, queue |-> t.queue, current |-> t.current]
  BY <1>1 DEF WakeWaitersForChild
<1> HIDE DEF t
<1>3. ASSUME NEW p \in Pids
      PROVE  /\ t.proc[p] \in ProcessType
             /\ t.proc[p].state = s.proc[p].state
             /\ t.proc[p].parent = s.proc[p].parent
             /\ IsBlocked(t.proc[p]) => IsBlocked(s.proc[p])
  <2>1. CASE t.proc[p] = s.proc[p]
    BY <2>1, <1>1
  <2>2. CASE t.proc[p] = Wake(s.proc[p])
    BY <2>2, <1>1 DEF Wake, ProcessType, WaitStates, NotWaiting, IsBlocked
  <2> QED
    BY <2>1, <2>2, <1>2
<1>4. t \in SchedulerType
  BY <1>1, <1>2, <1>3 DEF SchedulerType
<1> QED
  BY <1>2, <1>3, <1>4 DEF QueueSet, Held, t

\* deliver_signals leaves a process that is not stopped as it was, but for
\* its pending signals.
LEMMA AfterDeliveryOK ==
    ASSUME NEW p \in ProcessType, ~IsStopped(p)
    PROVE  /\ AfterDelivery(p) \in ProcessType
           /\ AfterDelivery(p).state = p.state
           /\ AfterDelivery(p).wait = p.wait
           /\ AfterDelivery(p).parent = p.parent
<1> DEFINE q == [p EXCEPT !.pending = @ \ {DeliverableSignal(p)}]
<1>1. /\ q \in ProcessType /\ q.state = p.state /\ q.wait = p.wait
      /\ q.parent = p.parent
  BY DEF ProcessType
<1> HIDE DEF q
<1>2. AfterDelivery(p) = q
  BY <1>1 DEF AfterDelivery, Resume, IsStopped, q
<1> QED
  BY <1>1, <1>2

\* The current process goes to the back of the queue as q: what results is
\* consistent if q is Ready or Stopped.
LEMMA BackOK ==
    ASSUME NEW s \in SchedulerType, Schedulable(s), s.current # NoPid,
           ~IsExited(s.proc[s.current]),
           NEW q \in ProcessType, q.state \in {"Ready", "Stopped"},
           q.parent = s.proc[s.current].parent
    PROVE  LET t == [proc    |-> [s.proc EXCEPT ![s.current] = q],
                     queue   |-> Append(s.queue, s.current),
                     current |-> NoPid]
           IN  /\ t \in SchedulerType
               /\ Consistent(t)
               /\ t.current = NoPid
               /\ Held(t) = Held(s)
               /\ SameFamily(s, t)
<1> DEFINE me == s.current
           t == [proc    |-> [s.proc EXCEPT ![me] = q],
                 queue   |-> Append(s.queue, me),
                 current |-> NoPid]
<1>1. /\ me \in Pids /\ s.queue \in Seq(Pids) /\ s.proc \in [Pids -> ProcessType]
      /\ Distinct(s.queue) /\ QueueSet(s) = Elements(s.queue)
      /\ me \notin Elements(s.queue)
  BY DEF SchedulerType, Schedulable, HeldOnce, Distinct, QueueSet, Elements
<1>2. /\ t.queue \in Seq(Pids) /\ Distinct(t.queue)
      /\ Elements(t.queue) = Elements(s.queue) \cup {me}
  BY <1>1, PushBack
<1>3. /\ t.proc \in [Pids -> ProcessType] /\ t.current = NoPid
      /\ \A p \in Pids \ {me} : t.proc[p] = s.proc[p]
      /\ t.proc[me] = q
      /\ t = [proc |-> t.proc, queue |-> t.queue, current |-> t.current]
  BY <1>1
<1> HIDE DEF t
<1>4. t \in SchedulerType
  BY <1>2, <1>3 DEF SchedulerType
<1>5. QueueSet(t) = QueueSet(s) \cup {me} /\ Held(t) = Held(s)
  BY <1>1, <1>2, <1>3 DEF Held, QueueSet, Elements
<1>6. HeldOnce(t)
  BY <1>2, <1>3, <1>4, PidsAreNotNoPid, HeldArePids DEF HeldOnce, Distinct
<1>7. StateAgreesWithPlace(t)
  BY <1>1, <1>3, <1>5, HeldArePids DEF StateAgreesWithPlace, Schedulable, Held
<1>8. BlockedIsQueued(t)
  BY <1>1, <1>3, <1>5 DEF BlockedIsQueued, Schedulable, Held
<1>9. SameFamily(s, t)
  BY <1>1, <1>3 DEF SameFamily, Schedulable, Held
<1> QED
  BY <1>3, <1>4, <1>5, <1>6, <1>7, <1>8, <1>9 DEF Consistent, t

\* The current process leaves the scheduler.
LEMMA DroppedOK ==
    ASSUME NEW s \in SchedulerType, Schedulable(s), s.current # NoPid,
           NEW end \in {"Exited", "Zombie"}
    PROVE  LET t == Dropped(s, end)
           IN  /\ t \in SchedulerType
               /\ Consistent(t)
               /\ t.current = NoPid
               /\ Held(t) = Held(s) \ {s.current}
               /\ OnlyCurrentLeaves(s, t)
               /\ SameFamily(s, t)
<1> DEFINE me == s.current
           t == Dropped(s, end)
<1>1. /\ me \in Pids /\ s.proc \in [Pids -> ProcessType] /\ s.queue \in Seq(Pids)
      /\ s = [proc |-> s.proc, queue |-> s.queue, current |-> s.current]
  BY DEF SchedulerType
<1> DEFINE gone == [NewProcess(me, s.proc[me].parent) EXCEPT !.state = end]
<1>g. /\ gone \in ProcessType /\ gone.state = end /\ gone.wait = NotWaiting
      /\ gone.parent = s.proc[me].parent
  <2>1. s.proc[me].parent \in Pids \cup {NoPid}
    BY <1>1 DEF ProcessType
  <2> QED
    BY <1>1, <2>1 DEF NewProcess, ProcessType, ProcessStates, WaitStates, Pgids, Pids
<1>2. t = [proc |-> [s.proc EXCEPT ![me] = gone], queue |-> s.queue, current |-> NoPid]
  BY DEF Dropped
<1> HIDE DEF t, gone
<1>3. /\ t.proc \in [Pids -> ProcessType]
      /\ t.proc[me].state = end /\ ~IsBlocked(t.proc[me])
      /\ t.proc[me].parent = s.proc[me].parent
      /\ \A p \in Pids \ {me} : t.proc[p] = s.proc[p]
  BY <1>1, <1>2, <1>g DEF IsBlocked
<1>4. t \in SchedulerType
  BY <1>1, <1>2, <1>3 DEF SchedulerType
<1>5. QueueSet(t) = QueueSet(s) /\ Held(t) = QueueSet(s) /\ me \notin QueueSet(s)
  BY <1>2 DEF QueueSet, Held, Schedulable, HeldOnce
<1>6. HeldOnce(t)
  BY <1>2, <1>4, <1>5, PidsAreNotNoPid, HeldArePids DEF HeldOnce, Schedulable
<1>7. StateAgreesWithPlace(t)
  BY <1>2, <1>3, <1>5, HeldArePids DEF StateAgreesWithPlace, Schedulable, Held
<1>8. BlockedIsQueued(t)
  BY <1>3, <1>5 DEF BlockedIsQueued, Schedulable, Held
<1>9. SameFamily(s, t)
  BY <1>1, <1>3 DEF SameFamily, Schedulable, Held
<1>10. Held(t) = Held(s) \ {me} /\ OnlyCurrentLeaves(s, t)
  BY <1>3, <1>5 DEF Held, OnlyCurrentLeaves, IsExited
<1> QED
  BY <1>2, <1>4, <1>6, <1>7, <1>8, <1>9, <1>10 DEF Consistent, t

\* Waking waiters keeps a scheduler consistent.
LEMMA WakeWaitersConsistent ==
    ASSUME NEW s \in SchedulerType, Consistent(s), NEW child \in Pids
    PROVE  LET t == WakeWaitersForChild(s, child)
           IN  Consistent(t) /\ SameFamily(s, t)
<1> DEFINE t == WakeWaitersForChild(s, child)
<1>1. /\ t \in SchedulerType
      /\ t.queue = s.queue /\ t.current = s.current
      /\ QueueSet(t) = QueueSet(s) /\ Held(t) = Held(s)
      /\ \A p \in Pids : /\ t.proc[p].state = s.proc[p].state
                         /\ t.proc[p].parent = s.proc[p].parent
                         /\ IsBlocked(t.proc[p]) => IsBlocked(s.proc[p])
  BY WakeWaitersOK
<1>2. s.current \in Pids \cup {NoPid}
  BY DEF SchedulerType
<1> HIDE DEF t
<1>3. HeldOnce(t)
  BY <1>1 DEF Consistent, HeldOnce
<1>4. StateAgreesWithPlace(t)
  BY <1>1, <1>2, HeldArePids DEF Consistent, StateAgreesWithPlace
<1>5. BlockedIsQueued(t)
  BY <1>1 DEF Consistent, BlockedIsQueued
<1>6. SameFamily(s, t)
  BY <1>1 DEF SameFamily
<1> QED
  BY <1>3, <1>4, <1>5, <1>6 DEF Consistent, t

\* The first half of schedule_next empties the slot and leaves a consistent
\* scheduler, whatever became of the current process.
LEMMA RequeueOK ==
    ASSUME NEW s \in SchedulerType, Schedulable(s)
    PROVE  LET t == Requeue(s)
           IN  /\ t \in SchedulerType
               /\ Consistent(t)
               /\ t.current = NoPid
               /\ OnlyCurrentLeaves(s, t)
               /\ SameFamily(s, t)
               /\ s.current # NoPid /\ IsExited(s.proc[s.current]) =>
                      s.current \notin Held(t)
<1> DEFINE me == s.current
           p == AfterDelivery(s.proc[me])
           sig == DeliverableSignal(s.proc[me])
           Back(q) == [proc    |-> [s.proc EXCEPT ![me] = q],
                       queue   |-> Append(s.queue, me),
                       current |-> NoPid]
           t == Requeue(s)
<1>1. CASE me = NoPid
  <2>1. t = s
    BY <1>1 DEF Requeue
  <2> QED
    BY <2>1, <1>1 DEF SameFamily, Schedulable, Consistent, StateAgreesWithPlace,
          BlockedIsQueued, Held, OnlyCurrentLeaves
<1>2. CASE me # NoPid /\ IsExited(s.proc[me])
  <2>1. t = Dropped(s, s.proc[me].state)
    BY <1>2 DEF Requeue
  <2>2. s.proc[me].state \in {"Exited", "Zombie"}
    BY <1>2 DEF IsExited
  <2> QED
    BY <1>2, <2>1, <2>2, DroppedOK
<1>3. CASE me # NoPid /\ ~IsExited(s.proc[me]) /\ sig = SIGINT
  <2>1. t = Dropped(s, "Exited")
    BY <1>3 DEF Requeue, SIGINT, SIGTSTP
  <2> QED
    BY <1>3, <2>1, DroppedOK
<1>4. CASE me # NoPid /\ ~IsExited(s.proc[me]) /\ sig # SIGINT
  <2>0. /\ s.proc[me] \in ProcessType /\ me \in Pids
        /\ s.proc[me].state = "Running"
    BY <1>4 DEF SchedulerType, Schedulable, IsExited
  <2>1. /\ p \in ProcessType /\ p.state = "Running"
        /\ p.parent = s.proc[me].parent
    BY <2>0, AfterDeliveryOK DEF IsStopped
  <2> HIDE DEF p
  <2>2. CASE sig = SIGTSTP
    <3> DEFINE q == [p EXCEPT !.state = "Stopped"]
               u == Back(q)
    <3>1. t = WakeWaitersForChild(u, me)
      BY <1>4, <2>2 DEF Requeue, p
    <3>2. q \in ProcessType /\ q.state = "Stopped" /\ q.parent = s.proc[me].parent
      BY <2>1 DEF ProcessType, ProcessStates
    <3> HIDE DEF q
    <3>3. /\ u \in SchedulerType /\ Consistent(u) /\ u.current = NoPid
          /\ Held(u) = Held(s) /\ SameFamily(s, u)
      BY <1>4, <3>2, BackOK
    <3> HIDE DEF u
    <3>4. /\ t \in SchedulerType /\ Consistent(t) /\ t.current = NoPid
          /\ Held(t) = Held(u) /\ SameFamily(u, t)
      BY <2>0, <3>1, <3>3, WakeWaitersOK, WakeWaitersConsistent
    <3> HIDE DEF t
    <3>5. SameFamily(s, t)
      BY <3>3, <3>4 DEF SameFamily
    <3> QED
      BY <1>4, <3>3, <3>4, <3>5 DEF OnlyCurrentLeaves, t
  <2>3. CASE sig # SIGTSTP
    <3> DEFINE w == IF p.pending # {} THEN Wake(p) ELSE p
               q == [w EXCEPT !.state = "Ready"]
    <3>1. t = Back(q)
      BY <1>4, <2>3 DEF Requeue, p
    <3>2. w \in ProcessType /\ w.parent = p.parent
      BY <2>1 DEF Wake, ProcessType, WaitStates
    <3> HIDE DEF w
    <3>3. q \in ProcessType /\ q.state = "Ready" /\ q.parent = s.proc[me].parent
      BY <2>1, <3>2 DEF ProcessType, ProcessStates
    <3> HIDE DEF q
    <3> QED
      BY <1>4, <3>1, <3>3, BackOK DEF OnlyCurrentLeaves
  <2> QED
    BY <2>2, <2>3
<1> QED
  BY <1>1, <1>2, <1>3, <1>4

\* schedule_next: a consistent scheduler, and no current process only when
\* nobody it holds is runnable.
LEMMA ScheduleNextOK ==
    ASSUME NEW s \in SchedulerType, Schedulable(s)
    PROVE  LET t == ScheduleNext(s)
           IN  /\ t \in SchedulerType
               /\ Consistent(t)
               /\ t.current = NoPid => NobodyRunnable(t)
               /\ OnlyCurrentLeaves(s, t)
               /\ SameFamily(s, t)
               /\ s.current # NoPid /\ IsExited(s.proc[s.current]) =>
                      s.current \notin Held(t)
<1> DEFINE u == Requeue(s)
           t == Dispatch(u)
<1>1. /\ u \in SchedulerType /\ Consistent(u) /\ u.current = NoPid
      /\ OnlyCurrentLeaves(s, u) /\ SameFamily(s, u)
      /\ s.current # NoPid /\ IsExited(s.proc[s.current]) => s.current \notin Held(u)
  BY RequeueOK
<1> HIDE DEF u
<1>2. /\ t \in SchedulerType /\ Consistent(t)
      /\ t.current = NoPid => NobodyRunnable(t)
      /\ Held(t) = Held(u) /\ SameFamily(u, t)
  BY <1>1, DispatchOK
<1> HIDE DEF t
<1>3. SameFamily(s, t)
  BY <1>1, <1>2 DEF SameFamily, OnlyCurrentLeaves
<1>4. OnlyCurrentLeaves(s, t)
  BY <1>1, <1>2, HeldArePids DEF SameFamily, OnlyCurrentLeaves, IsExited
<1> QED
  BY <1>1, <1>2, <1>3, <1>4 DEF ScheduleNext, t, u

\* Without a current process, and with nobody runnable, schedule_next turns
\* the queue once and changes nothing.
LEMMA ScheduleNextIdle ==
    ASSUME NEW s, s.current = NoPid, NobodyRunnable(s)
    PROVE  ScheduleNext(s) = s
<1>1. Requeue(s) = s
  BY DEF Requeue
<1> QED
  BY <1>1 DEF ScheduleNext, Dispatch, NobodyRunnable

\* What a handler changes of a process besides state, wait state and parent
\* does not matter to the scheduler.
LEMMA SameToScheduler ==
    ASSUME NEW s \in SchedulerType, NEW t \in SchedulerType, Consistent(s),
           t.queue = s.queue, t.current = s.current,
           \A p \in Pids : /\ t.proc[p].state = s.proc[p].state
                          /\ t.proc[p].wait = s.proc[p].wait
                          /\ t.proc[p].parent = s.proc[p].parent
    PROVE  /\ Consistent(t) /\ SameFamily(s, t) /\ Held(t) = Held(s)
           /\ NobodyRunnable(s) => NobodyRunnable(t)
<1>1. QueueSet(t) = QueueSet(s) /\ Held(t) = Held(s)
  BY DEF QueueSet, Held
<1>2. s.current \in Pids \cup {NoPid}
  BY DEF SchedulerType
<1>3. HeldOnce(t)
  BY <1>1 DEF Consistent, HeldOnce
<1>4. StateAgreesWithPlace(t)
  BY <1>1, <1>2, HeldArePids DEF Consistent, StateAgreesWithPlace
<1>5. BlockedIsQueued(t)
  BY <1>1 DEF Consistent, BlockedIsQueued, IsBlocked
<1>6. NobodyRunnable(s) => NobodyRunnable(t)
  BY <1>1, HeldArePids DEF NobodyRunnable, Runnable, IsBlocked, IsStopped
<1> QED
  BY <1>1, <1>3, <1>4, <1>5, <1>6 DEF Consistent, SameFamily

\* signal_process_group only adds to the pending signals.
LEMMA SignalProcessGroupOK ==
    ASSUME NEW s \in SchedulerType, Consistent(s), NEW pgid, NEW sig \in Signals
    PROVE  LET t == SignalProcessGroup(s, pgid, sig)
           IN  /\ t \in SchedulerType /\ Consistent(t) /\ SameFamily(s, t)
               /\ Held(t) = Held(s) /\ t.current = s.current /\ t.queue = s.queue
               /\ NobodyRunnable(s) => NobodyRunnable(t)
<1> DEFINE t == SignalProcessGroup(s, pgid, sig)
<1>1. /\ s = [proc |-> s.proc, queue |-> s.queue, current |-> s.current]
      /\ s.proc \in [Pids -> ProcessType] /\ s.queue \in Seq(Pids)
      /\ s.current \in Pids \cup {NoPid}
  BY DEF SchedulerType
<1>2. t = [proc |-> [p \in Pids |->
                        IF p \in GroupMembers(s, pgid) THEN SendSignal(s.proc[p], sig)
                                                       ELSE s.proc[p]],
           queue |-> s.queue, current |-> s.current]
  BY <1>1 DEF SignalProcessGroup
<1> HIDE DEF t
<1>3. ASSUME NEW p \in Pids
      PROVE  /\ t.proc[p] \in ProcessType
             /\ t.proc[p].state = s.proc[p].state
             /\ t.proc[p].wait = s.proc[p].wait
             /\ t.proc[p].parent = s.proc[p].parent
  <2>1. CASE t.proc[p] = s.proc[p]
    BY <2>1, <1>1
  <2>2. CASE t.proc[p] = SendSignal(s.proc[p], sig)
    BY <2>2, <1>1 DEF SendSignal, ProcessType
  <2> QED
    BY <2>1, <2>2, <1>2
<1>4. t \in SchedulerType
  BY <1>1, <1>2, <1>3 DEF SchedulerType
<1>5. t.queue = s.queue /\ t.current = s.current
  BY <1>2
<1> QED
  BY <1>3, <1>4, <1>5, SameToScheduler DEF t

\* add_process of a pid that was never handed out.
LEMMA AddProcessOK ==
    ASSUME NEW s \in SchedulerType, Consistent(s),
           NEW pid \in Pids, s.proc[pid].state = "Absent",
           NEW parent \in Pids \cup {NoPid}
    PROVE  LET t == AddProcess(s, pid, NewProcess(pid, parent))
           IN  /\ t \in SchedulerType
               /\ Consistent(t)
               /\ t.current = s.current
               /\ Held(t) = Held(s) \cup {pid}
               /\ \A p \in Pids \ {pid} : t.proc[p] = s.proc[p]
               /\ t.proc[pid].parent = parent /\ t.proc[pid].state = "Ready"
<1> DEFINE new == NewProcess(pid, parent)
           t == AddProcess(s, pid, new)
<1>1. /\ s = [proc |-> s.proc, queue |-> s.queue, current |-> s.current]
      /\ s.proc \in [Pids -> ProcessType] /\ s.queue \in Seq(Pids)
      /\ s.current \in Pids \cup {NoPid}
      /\ Distinct(s.queue) /\ QueueSet(s) = Elements(s.queue)
  BY DEF SchedulerType, Consistent, HeldOnce, Distinct, QueueSet, Elements
<1>2. pid \notin Held(s) /\ pid \notin QueueSet(s) /\ pid # s.current
  BY PidsAreNotNoPid DEF Consistent, StateAgreesWithPlace, Held
<1>3. /\ new \in ProcessType /\ new.state = "Ready" /\ new.wait = NotWaiting
      /\ new.parent = parent
  BY DEF NewProcess, ProcessType, ProcessStates, WaitStates, Pgids, Pids
<1> HIDE DEF new
<1>4. t = [proc |-> [s.proc EXCEPT ![pid] = new], queue |-> Append(s.queue, pid),
           current |-> s.current]
  BY DEF AddProcess
<1> HIDE DEF t
<1>5. /\ t.queue \in Seq(Pids) /\ Distinct(t.queue)
      /\ Elements(t.queue) = QueueSet(s) \cup {pid}
  BY <1>1, <1>2, <1>4, PushBack
<1>6. /\ t.proc \in [Pids -> ProcessType] /\ t.current = s.current
      /\ \A p \in Pids \ {pid} : t.proc[p] = s.proc[p]
      /\ t.proc[pid] = new
  BY <1>1, <1>3, <1>4
<1>7. t \in SchedulerType
  BY <1>1, <1>4, <1>5, <1>6 DEF SchedulerType
<1>8. QueueSet(t) = QueueSet(s) \cup {pid} /\ Held(t) = Held(s) \cup {pid}
  BY <1>2, <1>5, <1>6 DEF QueueSet, Elements, Held
<1>9. HeldOnce(t)
  BY <1>2, <1>5, <1>6, <1>8 DEF Consistent, HeldOnce, Distinct
<1>10. StateAgreesWithPlace(t)
  BY <1>1, <1>2, <1>3, <1>6, <1>8, HeldArePids DEF Consistent, StateAgreesWithPlace
<1>11. BlockedIsQueued(t)
  BY <1>3, <1>6, <1>8 DEF Consistent, BlockedIsQueued, IsBlocked
<1> QED
  BY <1>3, <1>6, <1>7, <1>8, <1>9, <1>10, <1>11 DEF Consistent, t, new

\* A consistent scheduler holds no zombie for waitpid to find: schedule_next
\* has dropped it.
LEMMA NoZombieHeld ==
    ASSUME NEW s \in SchedulerType, Consistent(s), NEW parent
    PROVE  ZombieChild(s, parent) = NoPid
<1>1. \A p \in Held(s) : ~IsZombie(s.proc[p])
  BY DEF Consistent, StateAgreesWithPlace, Held, IsZombie
<1> QED
  BY <1>1 DEF ZombieChild, FirstHeld, Held

\* A write through current_process_mut.
LEMMA SetCurrentOK ==
    ASSUME NEW s \in SchedulerType, s.current # NoPid, NEW q \in ProcessType
    PROVE  LET t == SetCurrent(s, q)
           IN  /\ t \in SchedulerType
               /\ t.queue = s.queue /\ t.current = s.current
               /\ QueueSet(t) = QueueSet(s) /\ Held(t) = Held(s)
               /\ t.proc[s.current] = q
               /\ \A p \in Pids \ {s.current} : t.proc[p] = s.proc[p]
<1> DEFINE f == [s.proc EXCEPT ![s.current] = q]
           t == SetCurrent(s, q)
<1>1. f \in [Pids -> ProcessType] /\ f[s.current] = q
      /\ \A p \in Pids \ {s.current} : f[p] = s.proc[p]
  BY DEF SchedulerType
<1>2. t = [s EXCEPT !.proc = f]
  BY DEF SetCurrent
<1> HIDE DEF f
<1>3. /\ t \in SchedulerType /\ t.proc = f
      /\ t.queue = s.queue /\ t.current = s.current
  BY <1>1, <1>2 DEF SchedulerType
<1> HIDE DEF t
<1> QED
  BY <1>1, <1>3 DEF QueueSet, Held, t

=============================================================================

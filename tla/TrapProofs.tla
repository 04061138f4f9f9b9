----------------------------- MODULE TrapProofs -----------------------------
(***************************************************************************)
(* The result register for every number of processes and every set of      *)
(* calls.  TrapSpec implements Spec, so that what KernelProofs says of the *)
(* scheduler and the CPU holds here, and the invariant is about every      *)
(* process and not only the one on the CPU: a process waits in the queue   *)
(* with its register, and is on the CPU again after any number of steps.   *)
(***************************************************************************)
EXTENDS TrapReturn, KernelProofs

\* Every process, on the CPU or not, has its own last result or 0.
OwnResults ==
    /\ rax = [p \in Pids |-> rax[p]]
    /\ answer = [p \in Pids |-> answer[p]]
    /\ \A p \in Pids : rax[p] \in {answer[p], 0}

\* The store of syscall_entry, and the zero of yield_handler, keep that.
LEMMA DeliverOwn ==
    ASSUME OwnResults, NEW STATE out, NEW STATE result, Deliver(out, result),
           out.ends # "switch" => result = out.ret
    PROVE  OwnResults'
<1>1. /\ rax' = [rax EXCEPT ![cpu] = IF CameBack(out) THEN out.ret ELSE 0]
      /\ answer' = [answer EXCEPT ![cpu] = result]
  BY DEF Deliver
<1>2. CameBack(out) => result = out.ret
  BY DEF CameBack
<1> DEFINE r == IF CameBack(out) THEN out.ret ELSE 0
<1>3. r \in {result, 0}
  BY <1>2
<1> HIDE DEF r
<1>4. /\ rax' = [p \in Pids |-> IF p = cpu THEN r ELSE rax[p]]
      /\ answer' = [p \in Pids |-> IF p = cpu THEN result ELSE answer[p]]
  BY <1>1 DEF OwnResults, r
<1> QED
  BY <1>3, <1>4 DEF OwnResults

\* One step of the machine with its registers.
LEMMA TrapNextOK ==
    ASSUME OwnResults, [TrapNext]_trapVars
    PROVE  OwnResults' /\ [Next]_vars
<1>1. CASE TrapYield
  BY <1>1, DeliverOwn DEF TrapYield, YieldHandler, Yielding, Next, Syscall
<1>2. CASE TrapGetpid
  BY <1>2, DeliverOwn DEF TrapGetpid, Next, Syscall
<1>3. CASE TrapForkNobody
  BY <1>3, DeliverOwn DEF TrapForkNobody, Returned, Next, Syscall
<1>4. ASSUME NEW ok \in BOOLEAN, TrapFork(ok)
      PROVE  OwnResults' /\ Next
  BY <1>4, DeliverOwn DEF TrapFork, Next, Syscall
<1>5. ASSUME NEW pid \in {-2, -1, 0} \cup Pids, NEW options \in WaitOptions,
             NEW writable \in BOOLEAN, TrapWaitpid(pid, options, writable)
      PROVE  OwnResults' /\ Next
  BY <1>5, DeliverOwn DEF TrapWaitpid, Result, Next, Syscall
<1>6. ASSUME NEW pid \in -MaxPid .. MaxPid, NEW sig \in KillSignals, TrapKill(pid, sig)
      PROVE  OwnResults' /\ Next
  BY <1>6, DeliverOwn DEF TrapKill, Next, Syscall
<1>7. ASSUME NEW pid \in {0} \cup Pids, NEW pgid \in GroupNumbers, TrapSetpgid(pid, pgid)
      PROVE  OwnResults' /\ Next
  BY <1>7, DeliverOwn DEF TrapSetpgid, Next, Syscall
<1>8. CASE TrapPipeWouldBlock
  BY <1>8, DeliverOwn DEF TrapPipeWouldBlock, Result, Next, Syscall
<1>9. CASE TrapExecve
  <2>1. /\ rax' = [p \in Pids |-> IF p = cpu THEN 0 ELSE rax[p]]
        /\ answer' = [p \in Pids |-> IF p = cpu THEN 0 ELSE answer[p]]
    BY <1>9 DEF TrapExecve, OwnResults
  <2>2. OwnResults'
    BY <2>1 DEF OwnResults
  <2> QED
    BY <1>9, <2>2 DEF TrapExecve, Next, Syscall
<1>10. CASE TrapExecveFails
  BY <1>10, DeliverOwn DEF TrapExecveFails, Returned, Next, Syscall
<1>11. CASE TrapNoReturn
  BY <1>11 DEF TrapNoReturn, OwnResults, Next, Syscall
<1>12. CASE UNCHANGED trapVars
  BY <1>12 DEF trapVars, OwnResults
<1> QED
  BY <1>1, <1>2, <1>3, <1>4, <1>5, <1>6, <1>7, <1>8, <1>9, <1>10, <1>11, <1>12
  DEF TrapNext

\* The machine with its result registers is the machine of module Kernel, so
\* every property of Spec is one of TrapSpec.
THEOREM TrapIsKernel == TrapSpec => Spec
<1>1. TrapInit => Init /\ OwnResults
  BY DEF TrapInit, OwnResults
<1>2. OwnResults /\ [TrapNext]_trapVars => OwnResults' /\ [Next]_vars
  BY TrapNextOK
<1> QED
  BY <1>1, <1>2, PTL DEF TrapSpec, Spec

\* A result other than 0 that the program on the CPU sees is its own, however
\* many processes there are and wherever they were preempted (usermode.rs).
\* A result may still be lost to the 0 of yield_handler.
THEOREM ResultsAreOwn == TrapSpec => []NoForeignResult
<1>1. TrapInit => OwnResults
  BY DEF TrapInit, OwnResults
<1>2. OwnResults /\ [TrapNext]_trapVars => OwnResults'
  BY TrapNextOK
<1>3. OwnResults /\ TypeOK => NoForeignResult
  BY DEF OwnResults, TypeOK, NoForeignResult
<1> QED
  BY <1>1, <1>2, <1>3, TrapIsKernel, TypeCorrect, PTL DEF TrapSpec

=============================================================================

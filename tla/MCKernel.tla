------------------------------ MODULE MCKernel ------------------------------
(***************************************************************************)
(* Instances of the kernel for TLC: what the programs pass to their calls, *)
(* with the life cycle and progress to check on them.                      *)
(***************************************************************************)
EXTENDS KernelRefinement, Preemption

EndOrStop == {SIGINT, SIGTSTP}

ZeroOrUntraced == {0, WUNTRACED}

\* setpgid(pid, 0): every process stays the leader of its own group.
OwnGroup == {0}
=============================================================================

------------------------------ MODULE MCPipes ------------------------------
(***************************************************************************)
(* The pool and the descriptor tables under the calls of the processes,    *)
(* with the ring of slot 0 watched as module PipeRing describes it: every  *)
(* byte goes through write and read of some descriptor, whoever holds it.  *)
(***************************************************************************)
EXTENDS PipeRing, Descriptors

PipesInit == IoInit /\ RingInit

\* What a step takes out of slot 0 is what its read returned; it is negative
\* for a write.
Taken == pool[0].count - pool'[0].count

PipesNext ==
    /\ IoNext
    /\ pipe' = pool'[0]
    /\ delivered' = IF Taken = 0 THEN delivered ELSE ReadBytes(pool[0], Taken)

PipesSpec == PipesInit /\ [][PipesNext]_<<ioVars, ringVars>>
=============================================================================

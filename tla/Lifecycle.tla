----------------------------- MODULE Lifecycle -----------------------------
(***************************************************************************)
(* The process life cycle as the kernel promises it: the state diagram of  *)
(* PROCESS_LIFECYCLE.md, one CPU, and a scheduler that never leaves the    *)
(* CPU to nobody while a process is ready.  One step is one trap: the      *)
(* running process may be left, others woken and the next one dispatched   *)
(* together, so a created or woken process may be running at its end.      *)
(***************************************************************************)
CONSTANTS Procs, Root

VARIABLE phase

Phases == {"Absent", "Ready", "Running", "Blocked", "Stopped", "Dead"}

\* The edges of the diagram.
Edges == {<<"Absent", "Ready">>, <<"Absent", "Running">>, <<"Ready", "Running">>,
          <<"Running", "Ready">>, <<"Running", "Blocked">>,
          <<"Running", "Stopped">>, <<"Running", "Dead">>,
          <<"Blocked", "Ready">>, <<"Blocked", "Running">>,
          <<"Stopped", "Ready">>, <<"Stopped", "Running">>}

In(f, ph) == {p \in Procs : f[p] = ph}

LifeInit == phase = [p \in Procs |-> IF p = Root THEN "Running" ELSE "Absent"]

\* Creating, ending and stopping are done by the running process, one a step,
\* and the blocked wait for one that ends or stops.
Leads(from, to) ==
    LET ran == In(from, "Running")
        runs == In(to, "Running")
        created == In(from, "Absent") \ In(to, "Absent")
        woken == In(from, "Blocked") \ In(to, "Blocked")
    IN  /\ to \in [Procs -> Phases]
        /\ \A p \in Procs : to[p] # from[p] => <<from[p], to[p]>> \in Edges
        /\ \A p, q \in runs : p = q
        /\ \A p, q \in created : p = q
        /\ created # {} => ran # {}
        /\ woken # {} => ran \cap (In(to, "Dead") \cup In(to, "Stopped")) # {}
        /\ ran # {} /\ runs = {} => In(to, "Ready") = {}

Step == phase' # phase /\ Leads(phase, phase')

LifeSpec == LifeInit /\ [][Step]_phase

=============================================================================

----------------------------- MODULE CoreAccess -----------------------------
(***************************************************************************)
(* What the thread layer promises about a virtual core: the thread that    *)
(* executes guest instructions and the thread that inspects the core (the  *)
(* debugger stub reading registers, a hart_start resetting the core) never *)
(* use it at once.  A core is "running" while its thread is inside         *)
(* vcore_run, and "parked" while its published state invites others in.    *)
(***************************************************************************)
CONSTANT Cores

VARIABLES running, parked

vars == <<running, parked>>

TypeOK == /\ running \subseteq Cores
          /\ parked \subseteq Cores

Init == running = {} /\ parked = Cores

\* The core's thread enters guest execution: never while the core is parked.
Enter(i) == /\ i \notin running \cup parked
            /\ running' = running \cup {i}
            /\ UNCHANGED parked

Leave(i) == /\ i \in running
            /\ running' = running \ {i}
            /\ UNCHANGED parked

\* The core is published as parked: never while its thread still executes.
Park(i) == /\ i \notin running \cup parked
           /\ parked' = parked \cup {i}
           /\ UNCHANGED running

Unpark(i) == /\ i \in parked
             /\ parked' = parked \ {i}
             /\ UNCHANGED running

Next == \E i \in Cores : Enter(i) \/ Leave(i) \/ Park(i) \/ Unpark(i)

Spec == Init /\ [][Next]_vars

\* Nobody else is invited to a core that is executing.
Exclusive == running \cap parked = {}
=============================================================================

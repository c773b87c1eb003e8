-------------------------- MODULE CriticalSection --------------------------
(***************************************************************************)
(* What critical.rs promises its callers: at any moment at most one core   *)
(* runs inside a critical section, and the section passes from one core    *)
(* to another only through a moment at which no core is inside.            *)
(* KernelLock implements this specification; every other module of the     *)
(* project relies on it when it takes a `without_interrupts` closure as    *)
(* one atomic step.                                                        *)
(***************************************************************************)
CONSTANT CPUS

VARIABLE inside      \* the set of cores inside a critical section

Init == inside = {}

Enter(c) == inside = {} /\ inside' = {c}

Leave(c) == inside = {c} /\ inside' = {}

Next == \E c \in CPUS : Enter(c) \/ Leave(c)

Spec == Init /\ [][Next]_inside
=============================================================================

--------------------------- MODULE MCKernelLock ---------------------------
(* The kernel lock: two cores with three nested frames each, counters that *)
(* wrap at 4.  The boot loader that starts the kernel: ten pages, a        *)
(* kernel of two segments, volumes with a good, an unsigned, an altered    *)
(* and a malformed kernel, and two map changes of the firmware.  The parts *)
(* share no state; part says which one a behaviour exercises.              *)
EXTENDS KernelLock, BootLoader

VARIABLE part

MCCpus == {0, 1}
MCSegments == <<{1}, {2}>>
MCBootMaps == {[p \in BootPages |-> IF p = busy THEN "firmware" ELSE "free"] : busy \in {0, 2}}
MCImages == {[entry |-> 1, signed |-> TRUE, agrees |-> TRUE], [entry |-> 1, signed |-> FALSE, agrees |-> FALSE],
             [entry |-> 1, signed |-> TRUE, agrees |-> FALSE], [entry |-> 3, signed |-> FALSE, agrees |-> FALSE]}

mcvars == <<part, vars, bootVars>>

MCInit ==
  /\ part \in {"lock", "boot"}
  /\ Init /\ BootInit
  /\ part # "lock" => iflag = [c \in CPUS |-> TRUE]
  /\ part # "boot" => image.entry = 3 /\ fwMap[0] = "free"

MCNext ==
  \/ part = "lock" /\ Next /\ UNCHANGED <<part, bootVars>>
  \/ part = "boot" /\ BootNext /\ UNCHANGED <<part, vars>>

MCSpec == MCInit /\ [][MCNext]_mcvars /\ Fairness
=============================================================================

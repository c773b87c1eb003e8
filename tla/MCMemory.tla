------------------------------ MODULE MCMemory ------------------------------
(* Memory: a small memory map with one hole, two address-space slots, two    *)
(* drivers whose BARs lie inside and past the map.  The heap: a page of 16   *)
(* units, a header of 4, and requests below a header, with an alignment      *)
(* above it, and above a page.  Ring 3: every pair of the kernel's programs, *)
(* set up and run by two threads of one core.  Processors: three that may be *)
(* started and a boot core, two shootdowns.  The parts share no state; part  *)
(* says which one a behaviour exercises.                                     *)
EXTENDS Memory, Heap, Ring3, Smp

CONSTANTS s1, s2, ahci, netstack

VARIABLE part

MCUsable == (1 .. Span - 1) \ {3}
MCReserved == {0, 1}
\* One BAR lies in a hole of the memory map, the other beyond it.
MCMmio == (ahci :> 3) @@ (netstack :> Span)
MCMmioHigh == (ahci :> Span + 1) @@ (netstack :> Span)
MCGraph == 1 .. 2
MCSymmetry == Permutations(Slots)
MCLayouts == {[size |-> 1, align |-> 1], [size |-> 5, align |-> 8], [size |-> 20, align |-> 4]}
MCPrograms == DOMAIN Script

mcvars == <<part, mvars, heapVars, ring3Vars, smpVars>>

MCInit ==
  /\ part \in {"memory", "heap", "ring3", "processors"}
  /\ MemInit /\ HeapInit /\ Ring3Init /\ SmpInit
  /\ part # "ring3" => \A t \in Threads : prog[t] = "init"
  /\ part # "processors" => enabled = {}

Only(p, A) == part = p /\ A /\ UNCHANGED part

MCNext ==
  \/ Only("memory", MemNext) /\ UNCHANGED <<heapVars, ring3Vars, smpVars>>
  \/ Only("heap", HeapNext) /\ UNCHANGED <<mvars, ring3Vars, smpVars>>
  \/ Only("ring3", Ring3Next) /\ UNCHANGED <<mvars, heapVars, smpVars>>
  \/ Only("processors", SmpNext) /\ UNCHANGED <<mvars, heapVars, ring3Vars>>

MCSpec == MCInit /\ [][MCNext]_mcvars
=============================================================================

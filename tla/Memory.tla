------------------------------- MODULE Memory -------------------------------
(***************************************************************************)
(* Address spaces and DMA domains over the page allocator: vmm.rs, the     *)
(* ELF loader, the driver threads that build their own address space, the  *)
(* reaping of dead threads, authority.rs and iommu.rs.                     *)
(*                                                                         *)
(* `mem` is the contents of page-table frames: a root maps regions of the  *)
(* lower half to table frames, a table maps slots to leaf frames.  The     *)
(* PDPT, PD and PT of a region are one frame here, and so is a slot's run  *)
(* of pages.  A frame number at or above Span is device memory beyond RAM. *)
(***************************************************************************)
EXTENDS Pmm, TLC

CONSTANTS
    Slots,          \* address spaces alive at a time
    Drivers,        \* supervised PCI devices
    Mmio,           \* [Drivers -> frame of the BAR]
    Direct,         \* the drivers that call iommu::assign_device themselves
    TestDevice,     \* the device of the boot-time revocation self-check
    GraphSlots,     \* MAX_GRANTS
    MaxRestarts,    \* bounds the restarts of drivers
    MaxSpawns,      \* bounds the processes spawned
    MaxHeap         \* bounds the pages the kernel heap grows by

ASSUME DeviceMap ==
    /\ Mmio \in [Drivers -> Nat \ {0}]
    /\ \A d \in Drivers : Mmio[d] \notin Usable \cup Reserved
    /\ Direct \subseteq Drivers
    /\ TestDevice \notin Drivers
    /\ GraphSlots \subseteq Nat

VARIABLES
    mem,        \* [Pages -> partial function], the page-table frames
    space,      \* [Slots -> the address space of a thread]
    heap,       \* frames of the kernel heap
    kept,       \* frames the kernel holds for good: domain tables, its DMA pages
    graph,      \* GRAPH: grants of frames to devices, by slot
    ctx,        \* the context entry of each device
    phase,      \* how far kernel_main is
    left,       \* spawns, restarts and heap growth still to come
    exhausted,  \* ghost: alloc_page has returned 0
    hurt        \* ghost: a reaped address space mapped frames it did not own

mvars == <<pmm, mem, space, heap, kept, graph, ctx, phase, left, exhausted, hurt>>

Devices == Drivers \cup {TestDevice}
Blank == <<>>
NoGrant == <<>>
NoSpace == [st |-> "none"]
Absent == [present |-> FALSE]

Region(slot) ==
    CASE slot = "mmio" -> "mmio"
      [] slot = "surface" -> "surface"
      [] OTHER -> "low"
-----------------------------------------------------------------------------
(* The page tables.  A machine state m has fields pmm and mem; `out` says  *)
(* that alloc_page has returned 0, `ok` that zeroed_table has not panicked.*)

Machine == [pmm |-> pmm, mem |-> mem, out |-> FALSE, ok |-> TRUE]

\* alloc_page zeroes the page it returns.
Grab(m) ==
    LET f == NextPage(m.pmm)
    IN  IF f = OutOfMemory
        THEN [m EXCEPT !.pmm = Allocated(m.pmm), !.out = TRUE]
        ELSE [m EXCEPT !.pmm = Allocated(m.pmm), !.mem[f] = Blank]

Panicked(m) == [m EXCEPT !.ok = FALSE]

\* One entry of one table is written.
Entered(t, entry, frame) == [e \in {entry} \cup DOMAIN t |-> IF e = entry THEN frame ELSE t[e]]
Write(m, table, entry, frame) == [m EXCEPT !.mem[table] = Entered(@, entry, frame)]

\* map_page: the tables of the region are made on demand; the leaf entry is
\* overwritten whatever it was.
MapPage(m, root, slot, leaf) ==
    LET reg == Region(slot)
        t   == NextPage(m.pmm)
    IN  CASE reg \in DOMAIN m.mem[root] -> Write(m, m.mem[root][reg], slot, leaf)
          [] reg \notin DOMAIN m.mem[root] /\ t = OutOfMemory -> Panicked(Grab(m))
          [] OTHER -> Write(Write(Grab(m), root, reg, t), t, slot, leaf)

\* The frames destroy_address_space meets on its walk of the lower half.
Leaves(mm, t) == {mm[t][s] : s \in DOMAIN mm[t]}
Tables(mm, root) == {mm[root][r] : r \in DOMAIN mm[root]}
Walk(mm, root) ==
    {root} \cup Tables(mm, root) \cup UNION {Leaves(mm, t) : t \in Tables(mm, root)}

\* A page from alloc_page is mapped; page 0 if there is none: no caller looks.
MapOwn(m, root, slot) == MapPage(Grab(m), root, slot, NextPage(m.pmm))

\* destroy_address_space.
Destroyed(m, root) ==
    IF root = OutOfMemory THEN m
    ELSE [m EXCEPT !.pmm = Freed(@, Walk(m.mem, root))]

Commit(m) ==
    /\ pmm' = m.pmm
    /\ mem' = m.mem
    /\ phase' = IF m.ok THEN phase ELSE "panic"
    /\ exhausted' = (exhausted \/ m.out)

\* The page the first alloc_page of a step returns.
Fresh == NextPage(pmm)
-----------------------------------------------------------------------------
(* The authority graph and the IOMMU. *)

FreeSlots(g) == {i \in GraphSlots : g[i] = NoGrant}
Projection(g, d) == {g[i][2] : i \in {j \in GraphSlots : g[j] # NoGrant /\ g[j][1] = d}}

\* authority_graph::grant, into the first empty slot.
Granted(g, d, f) == [g EXCEPT ![Least(FreeSlots(g))] = <<d, f>>]

\* authority_graph::revoke, all grants of this device at this base.
Revoked(g, d, f) == [i \in GraphSlots |-> IF g[i] = <<d, f>> THEN NoGrant ELSE g[i]]

Domain(pages, via) == [present |-> TRUE, pages |-> pages, via |-> via]

\* authority::grant_device: the ranges come from the projection.
GrantedDomain(g, d) == Domain(Projection(g, d), "graph")

\* iommu::assign_device takes a page for the tables of the domain and never
\* gives it back.
AssignDirect(d, f) ==
    /\ ctx' = [ctx EXCEPT ![d] = Domain({f}, "direct")]
    /\ UNCHANGED graph

GrantDevice(d, f) ==
    IF FreeSlots(graph) = {} THEN AssignDirect(d, f)
    ELSE /\ graph' = Granted(graph, d, f)
         /\ ctx' = [ctx EXCEPT ![d] = GrantedDomain(graph', d)]

\* iommu::revoke_device clears the whole context entry.
HwRevoked_Kept(c, d) == c

HwRevoked(c, d) == [c EXCEPT ![d] = Absent]
-----------------------------------------------------------------------------
MemInit ==
    /\ PmmInit
    /\ mem = [f \in Pages |-> Blank]
    /\ space = [s \in Slots |-> NoSpace]
    /\ heap = {}
    /\ kept = {}
    /\ graph = [i \in GraphSlots |-> NoGrant]
    /\ ctx = [d \in Devices |-> Absent]
    /\ phase = "iommu"
    /\ left = [due      |-> [d \in Drivers |-> 1],
               restarts |-> MaxRestarts,
               spawns   |-> MaxSpawns,
               grow     |-> MaxHeap]
    /\ exhausted = FALSE
    /\ hurt = FALSE

\* A kernel page that a device may reach, and the tables of its domain.
DmaPage(next) ==
    /\ LET m == Grab(Grab(Machine))
       IN  pmm' = m.pmm /\ mem' = m.mem
    /\ kept' = kept \cup {Fresh, NextPage(Allocated(pmm))}
    /\ phase' = next
    /\ UNCHANGED <<space, heap, left, exhausted, hurt>>

\* kernel_main gives the AHCI controller one page when the IOMMU comes up.
BootAssign ==
    /\ phase = "iommu"
    /\ \E d \in Drivers \ Direct : AssignDirect(d, Fresh)
    /\ DmaPage("check")

\* The self-check grants a page to a test device or to the controller.
CheckGrant ==
    /\ phase = "check"
    /\ \E d \in Devices \ Direct : GrantDevice(d, Fresh)
    /\ DmaPage("granted")

\* authority::revoke_device.
CheckRevoke ==
    /\ phase = "granted"
    /\ \E i \in GraphSlots :
          /\ graph[i] # NoGrant
          /\ graph' = Revoked(graph, graph[i][1], graph[i][2])
          /\ ctx' = HwRevoked(ctx, graph[i][1])
    /\ phase' = "up"
    /\ UNCHANGED <<pmm, mem, space, heap, kept, left, exhausted, hurt>>

\* The self-check is a build option; the envelope test leaves its grants.
BootDone ==
    /\ phase \in {"check", "granted"}
    /\ phase' = "up"
    /\ UNCHANGED <<pmm, mem, space, heap, kept, graph, ctx, left, exhausted, hurt>>

\* alloc() finds no block and grows the heap; without a page it panics.
GrowHeap ==
    /\ phase = "up" /\ left.grow > 0
    /\ LET m == Grab(Machine)
       IN  Commit(IF m.out THEN Panicked(m) ELSE m)
    /\ heap' = heap \cup ({Fresh} \ {OutOfMemory})
    /\ left' = [left EXCEPT !.grow = @ - 1]
    /\ UNCHANGED <<space, kept, graph, ctx, hurt>>
-----------------------------------------------------------------------------
(* Address spaces.  A driver thread and SYS_PROCESS_SPAWN build theirs in  *)
(* two steps between which anything may run.                               *)

Driver(s) == space[s].owner \in Drivers
InState(s, st) == phase = "up" /\ space[s].st = st
Enter(s, st) == space' = [space EXCEPT ![s].st = st]
Drop(s) == space' = [space EXCEPT ![s] = NoSpace]

\* new_address_space and elf::load.
Loaded == MapOwn(Grab(Machine), Fresh, "image")

NewSpace(s, owner, m) ==
    /\ InState(s, "none")
    /\ Commit(m)
    /\ space' = [space EXCEPT ![s] = [st |-> "build", owner |-> owner, root |-> Fresh]]
    /\ UNCHANGED <<heap, kept, graph, ctx, hurt>>

\* The driver thread loads its program (its stack and info pages are mapped
\* like the image) and maps the BAR of its device with driver::map_mmio.
StartDriver(s) ==
    \E d \in Drivers :
       /\ left.due[d] > 0
       /\ left' = [left EXCEPT !.due[d] = @ - 1]
       /\ NewSpace(s, d, MapPage(Loaded, Fresh, "mmio", Mmio[d]))

SpawnProcess(s) ==
    /\ left.spawns > 0
    /\ left' = [left EXCEPT !.spawns = @ - 1]
    /\ NewSpace(s, "process", Loaded)

\* The user stack is mapped and the process is ready to run.
MapStack(s) ==
    /\ InState(s, "build") /\ ~Driver(s)
    /\ Commit(MapOwn(Machine, space[s].root, "stack"))
    /\ Enter(s, "run")
    /\ UNCHANGED <<heap, kept, graph, ctx, left, hurt>>

LoadFails_Forgets(s) ==
    /\ InState(s, "build") /\ ~Driver(s)
    /\ Commit(Machine)
    /\ Drop(s)
    /\ UNCHANGED <<heap, kept, graph, ctx, left, hurt>>

\* elf::load met a bad segment: the half-built space is destroyed.
LoadFails(s) ==
    /\ InState(s, "build") /\ ~Driver(s)
    /\ Commit(Destroyed(Machine, space[s].root))
    /\ Drop(s)
    /\ UNCHANGED <<heap, kept, graph, ctx, left, hurt>>

\* The driver thread maps a DMA page, hands it to the device and enters
\* ring 3.
HandToDevice(s) ==
    /\ InState(s, "build") /\ Driver(s)
    /\ LET d == space[s].owner
           m == MapOwn(Machine, space[s].root, "dma")
       IN  /\ IF d \in Direct THEN AssignDirect(d, Fresh) ELSE GrantDevice(d, Fresh)
           /\ Commit(Grab(m))
           /\ kept' = kept \cup ({NextPage(m.pmm)} \ {OutOfMemory})
    /\ Enter(s, "run")
    /\ UNCHANGED <<heap, left, hurt>>

\* map_window_buffer_to_user: a page of the kernel heap in a user space.
MapSurface(s) ==
    /\ InState(s, "run") /\ ~Driver(s)
    /\ \E f \in heap : Commit(MapPage(Machine, space[s].root, "surface", f))
    /\ UNCHANGED <<space, heap, kept, graph, ctx, left, hurt>>

\* The thread exits or faults; a supervised driver is respawned first.
Die(s) ==
    /\ InState(s, "run")
    /\ Enter(s, "zombie")
    /\ left' = IF Driver(s) /\ left.restarts > 0
               THEN [left EXCEPT !.due[space[s].owner] = @ + 1, !.restarts = @ - 1]
               ELSE left
    /\ UNCHANGED <<pmm, mem, heap, kept, graph, ctx, phase, exhausted, hurt>>

\* Leaf frames in the walk that the space does not own.
Borrowed(root) ==
    UNION {{mem[t][sl] : sl \in DOMAIN mem[t] \cap {"mmio", "surface"}} : t \in Tables(mem, root)}

\* schedule_locked reaps the zombie and destroys its address space.
Reap(s) ==
    /\ InState(s, "zombie")
    /\ Commit(Destroyed(Machine, space[s].root))
    /\ Drop(s)
    /\ hurt' = (hurt \/ Borrowed(space[s].root) \cap Pages # {})
    /\ UNCHANGED <<heap, kept, graph, ctx, left>>

MemNext ==
    \/ BootAssign \/ CheckGrant \/ CheckRevoke \/ BootDone \/ GrowHeap
    \/ \E s \in Slots :
          \/ StartDriver(s) \/ SpawnProcess(s)
          \/ MapStack(s) \/ LoadFails(s) \/ HandToDevice(s)
          \/ MapSurface(s) \/ Die(s) \/ Reap(s)

MemSpec == MemInit /\ [][MemNext]_mvars
-----------------------------------------------------------------------------
(* What holds. *)

Live == {s \in Slots : space[s].st # "none"}
Roots == {space[s].root : s \in Live} \cup {0}

\* Who holds which frame: <<kind, holder, slot, frame>>.
HeapHolds == {<<"heap", 0, "", f>> : f \in heap}
KeptHolds == {<<"kept", 0, "", f>> : f \in kept}
RootHolds == {<<"root", s, "", space[s].root>> : s \in Live}
TableHolds == UNION {{<<"table", r, g, mem[r][g]>> : g \in DOMAIN mem[r]} : r \in Roots}
LeafHolds ==
    UNION {{<<"leaf", t, sl, mem[t][sl]>> : sl \in DOMAIN mem[t] \ {"mmio", "surface"}} :
              t \in UNION {Tables(mem, r) : r \in Roots}}
Holds == HeapHolds \cup KeptHolds \cup RootHolds \cup TableHolds \cup LeafHolds

Held == {h[4] : h \in Holds} \ {OutOfMemory}

\* The allocator's books are right, no page has two owners, no page in use is
\* free in the bitmap, and until memory first runs out no page is lost: through
\* spawns that fail half way, driver restarts and reaping, the used pages are
\* exactly the ones the heap, the DMA domains and the live address spaces hold.
\* Claimed until destroy_address_space meets a leaf the space does not own (`hurt`).
FramesPartition ==
    /\ PmmInv
    /\ ~hurt => /\ \A h, k \in Holds : h[4] = k[4] /\ h[4] # OutOfMemory => h = k
                /\ Held \subseteq pmm.used \cap (Usable \ Reserved)
                /\ ~exhausted => pmm.used \cap (Usable \ Reserved) \subseteq Held

\* A device whose domain was derived from the authority graph reaches exactly
\* the pages the graph grants it, over grants, revocations, restarts that add
\* to earlier grants, and a graph that is full.
HardwareIsProjection ==
    \A d \in Devices :
       ctx[d].present /\ ctx[d].via = "graph" => ctx[d].pages = Projection(graph, d)

\* docs/ROADMAP.md:579: "A driver's device can DMA only into that driver's own
\* buffers."  What a device can reach is held by a space of its driver, or by
\* the kernel pages of the boot-time checks, or by nobody.
DmaContained ==
    \A s \in Slots : \A d \in Drivers :
       space[s].st # "none" /\ space[s].owner # d /\ ctx[d].present =>
          ctx[d].pages \cap Walk(mem, space[s].root) \cap (Usable \ Reserved) = {}
=============================================================================

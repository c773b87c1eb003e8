----------------------------- MODULE FrameProofs -----------------------------
(***************************************************************************)
(* The steps of Memory, for any memory map, devices and bounds, over an    *)
(* allocator that keeps its books (MemoryProofs shows that Pmm does).      *)
(*                                                                         *)
(* Who holds each frame: an address space is a tree of frames that no      *)
(* other tree and no kernel list shares, before and after every step, so a *)
(* frame is freed by the one that holds it.  FramesInv is the inductive    *)
(* invariant: FramesPartition counts holders and says nothing of the shape *)
(* of the tables, of which the next map_page and the walk of               *)
(* destroy_address_space make their decisions.                             *)
(*                                                                         *)
(* And what a device reaches: the context entries follow the authority     *)
(* graph through grants, revocations and restarts.                         *)
(***************************************************************************)
EXTENDS Memory, TLAPS

-----------------------------------------------------------------------------
(* What the steps of Memory rest on of the allocator: the books of pmm.rs  *)
(* survive alloc_page and free_page, and a page that is given out is free. *)
AllocatorKeeps ==
    /\ Books(BootPmm)
    /\ \A p : Books(p) => Books(Allocated(p))
    /\ \A p : Books(p) /\ FreePages(p) # {} => NextPage(p) \in FreePages(p)
    /\ \A p, F : Books(p) => Books(Freed(p, F))
    /\ \A S \in SUBSET Nat : S # {} => Least(S) \in S

\* A machine state with consistent books.
Sound(m) ==
    /\ m = [pmm |-> m.pmm, mem |-> m.mem, out |-> m.out, ok |-> m.ok]
    /\ Books(m.pmm)
    /\ AllocatorKeeps

\* The machine at the start of a step.
LEMMA MachineSound == ASSUME AllocatorKeeps, PmmInv PROVE Sound(Machine)
  BY Zenon DEF Sound, Machine, PmmInv

\* alloc_page, with and without a page left.
LEMMA GrabSound == ASSUME NEW m, Sound(m) PROVE Sound(Grab(m))
<1>1. Books(Allocated(m.pmm))
  BY Zenon DEF Sound, AllocatorKeeps
<1>2. PICK a : a = Allocated(m.pmm)
  BY Zenon
<1>3. PICK b : b = [m.mem EXCEPT ![NextPage(m.pmm)] = Blank]
  BY Zenon
<1>4. Grab(m) \in {[pmm |-> a, mem |-> m.mem, out |-> TRUE, ok |-> m.ok],
                   [pmm |-> a, mem |-> b, out |-> m.out, ok |-> m.ok]}
  BY Zenon, <1>2, <1>3 DEF Sound, Grab
<1> QED BY <1>1, <1>2, <1>4 DEF Sound

\* A panic and a write to a page table leave the books alone.
LEMMA PanickedSound == ASSUME NEW m, Sound(m) PROVE Sound(Panicked(m))
<1>1. PICK k : k = FALSE
  BY Zenon
<1>2. Panicked(m) = [m EXCEPT !.ok = k]
  BY Zenon, <1>1 DEF Panicked
<1>3. Panicked(m) = [pmm |-> m.pmm, mem |-> m.mem, out |-> m.out, ok |-> k]
  BY Zenon, <1>2 DEF Sound
<1> QED BY <1>3 DEF Sound

LEMMA WriteSound ==
    ASSUME NEW m, Sound(m), NEW t, NEW e, NEW f
    PROVE  Sound(Write(m, t, e, f))
<1>1. PICK v : v = Entered(m.mem[t], e, f)
  BY Zenon
<1>2. Write(m, t, e, f) = [m EXCEPT !.mem[t] = v]
  BY Zenon, <1>1 DEF Write
<1>3. PICK b : b = [m.mem EXCEPT ![t] = v]
  BY Zenon
<1>4. Write(m, t, e, f) = [pmm |-> m.pmm, mem |-> b, out |-> m.out, ok |-> m.ok]
  BY Zenon, <1>2, <1>3 DEF Sound
<1> QED BY <1>4 DEF Sound

\* map_page takes at most one page for a table.
LEMMA MapPageSound ==
    ASSUME NEW m, Sound(m), NEW root, NEW slot, NEW leaf
    PROVE  Sound(MapPage(m, root, slot, leaf))
<1>1. Sound(Grab(m))
  BY Zenon, GrabSound
<1> QED BY Zenon, <1>1, PanickedSound, WriteSound DEF MapPage

LEMMA MapOwnSound ==
    ASSUME NEW m, Sound(m), NEW root, NEW slot
    PROVE  Sound(MapOwn(m, root, slot))
  BY Zenon, GrabSound, MapPageSound DEF MapOwn

\* destroy_address_space frees whatever its walk meets.
LEMMA DestroyedSound == ASSUME NEW m, Sound(m), NEW root PROVE Sound(Destroyed(m, root))
<1>1. PICK a : a = Freed(m.pmm, Walk(m.mem, root)) /\ Books(a)
  BY Zenon DEF Sound, AllocatorKeeps
<1>2. Destroyed(m, root) \in {m, [pmm |-> a, mem |-> m.mem, out |-> m.out, ok |-> m.ok]}
  BY Zenon, <1>1 DEF Sound, Destroyed
<1> QED BY <1>1, <1>2 DEF Sound

\* What a step commits has consistent books.
LEMMA CommitBooks == ASSUME NEW m, Sound(m), Commit(m) PROVE PmmInv'
  BY Zenon DEF Sound, Commit, PmmInv

LEMMA LoadedSound == ASSUME AllocatorKeeps, PmmInv PROVE Sound(Loaded)
  BY Zenon, MachineSound, GrabSound, MapOwnSound DEF Loaded
-----------------------------------------------------------------------------
\* The steps of kernel_main before the first driver.
LEMMA DmaPageBooks ==
    ASSUME AllocatorKeeps, PmmInv, pmm' = Grab(Grab(Machine)).pmm
    PROVE  PmmInv'
  BY Zenon, MachineSound, GrabSound DEF Sound, PmmInv

LEMMA BootBooksKept ==
    ASSUME AllocatorKeeps, PmmInv, BootAssign \/ CheckGrant \/ CheckRevoke \/ BootDone
    PROVE  PmmInv'
<1>1. pmm' = Grab(Grab(Machine)).pmm \/ pmm' = pmm
  BY Zenon DEF BootAssign, CheckGrant, CheckRevoke, BootDone, DmaPage
<1> QED BY Zenon, <1>1, DmaPageBooks DEF PmmInv

\* The heap takes a page or the kernel panics.
LEMMA GrowHeapBooks == ASSUME AllocatorKeeps, PmmInv, GrowHeap PROVE PmmInv'
<1>1. Sound(Grab(Machine)) /\ Sound(Panicked(Grab(Machine)))
  BY SMTT(40), MachineSound, GrabSound, PanickedSound
<1>2. Commit(Grab(Machine)) \/ Commit(Panicked(Grab(Machine)))
  BY Zenon DEF GrowHeap
<1> QED BY Zenon, <1>1, <1>2, CommitBooks

\* The life of an address space.
LEMMA SpaceBooks ==
    ASSUME AllocatorKeeps, PmmInv, NEW s \in Slots,
           \/ StartDriver(s) \/ SpawnProcess(s) \/ MapStack(s) \/ LoadFails(s)
           \/ HandToDevice(s) \/ MapSurface(s) \/ Die(s) \/ Reap(s)
    PROVE  PmmInv'
<1>1. Sound(Machine) /\ Sound(Loaded)
  BY Zenon, MachineSound, LoadedSound
<1>2. CASE StartDriver(s)
  <2>1. PICK d \in Drivers : Commit(MapPage(Loaded, Fresh, "mmio", Mmio[d]))
    BY Zenon, <1>2 DEF StartDriver, NewSpace
  <2> QED BY Zenon, <1>1, <2>1, MapPageSound, CommitBooks
<1>3. CASE SpawnProcess(s)
  BY SMTT(40), <1>1, <1>3, CommitBooks DEF SpawnProcess, NewSpace
<1>4. CASE MapStack(s)
  BY Zenon, <1>1, <1>4, MapOwnSound, CommitBooks DEF MapStack
<1>5. CASE LoadFails(s)
  BY Zenon, <1>1, <1>5, DestroyedSound, CommitBooks DEF LoadFails
<1>6. CASE HandToDevice(s)
  <2>1. Commit(Grab(MapOwn(Machine, space[s].root, "dma")))
    BY Zenon, <1>6 DEF HandToDevice
  <2> QED BY SMTT(40), <1>1, <2>1, MapOwnSound, GrabSound, CommitBooks
<1>7. CASE MapSurface(s)
  <2>1. PICK f \in heap : Commit(MapPage(Machine, space[s].root, "surface", f))
    BY Zenon, <1>7 DEF MapSurface
  <2> QED BY Zenon, <1>1, <2>1, MapPageSound, CommitBooks
<1>8. CASE Die(s)
  BY Zenon, <1>8 DEF Die, PmmInv
<1>9. CASE Reap(s)
  BY Zenon, <1>1, <1>9, DestroyedSound, CommitBooks DEF Reap
<1> QED BY Zenon, <1>2, <1>3, <1>4, <1>5, <1>6, <1>7, <1>8, <1>9
LEMMA BooksStep == ASSUME AllocatorKeeps, PmmInv, [MemNext]_mvars PROVE PmmInv'
<1>1. CASE UNCHANGED mvars
  BY Zenon, <1>1 DEF mvars, PmmInv
<1>2. CASE MemNext
  BY Zenon, <1>2, BootBooksKept, GrowHeapBooks, SpaceBooks DEF MemNext
<1> QED BY Zenon, <1>1, <1>2

LEMMA FreshIsFrame == ASSUME AllocatorKeeps, PmmInv PROVE Fresh \in Nat
<1>1. Pages \subseteq Nat /\ FreePages(pmm) \subseteq Pages
  BY MemoryMap DEF Pages, FreePages
<1>2. CASE FreePages(pmm) = {}
  BY SMTT(40), <1>2 DEF Fresh, NextPage, OutOfMemory
<1>3. CASE FreePages(pmm) # {}
  BY Zenon, <1>1, <1>3 DEF Fresh, PmmInv, AllocatorKeeps
<1> QED BY Zenon, <1>2, <1>3

-----------------------------------------------------------------------------
(* Who owns which frame.  An address space is a tree: the root, a table    *)
(* for each region, and the frames its tables map, except that what a      *)
(* device or the kernel lends it ("mmio", "surface") is not its own.       *)
Frames == Usable \ Reserved
Regions == {"low", "mmio", "surface"}
SlotsOf(g) == IF g = "low" THEN {"image", "stack", "dma"} ELSE {g}

\* The frames the low table maps; page 0 stands for one that was not to be had.
OwnLeaves(mm, r) ==
    IF "low" \in DOMAIN mm[r] THEN Leaves(mm, mm[r]["low"]) \ {OutOfMemory} ELSE {}

OwnedBy(mm, r) == {r} \cup Tables(mm, r) \cup OwnLeaves(mm, r)

Tree(mm, r) ==
    /\ r \in Frames
    /\ DOMAIN mm[r] \subseteq Regions
    /\ \A g \in DOMAIN mm[r] :
          /\ mm[r][g] \in Frames \ {r}
          /\ DOMAIN mm[mm[r][g]] \subseteq SlotsOf(g)
    /\ \A g, k \in DOMAIN mm[r] : mm[r][g] = mm[r][k] => g = k
    /\ OwnLeaves(mm, r) \subseteq Frames \ ({r} \cup Tables(mm, r))
    /\ "low" \in DOMAIN mm[r] =>
          LET t == mm[mm[r]["low"]]
          IN  \A a, b \in DOMAIN t : t[a] = t[b] /\ t[a] # OutOfMemory => a = b

\* The used frames are those of the trees at R and those in X; none is in two
\* places and, unless some have been given up for lost, none is in no place.
Accounted(p, mm, gone, R, X) ==
    /\ DOMAIN mm = Pages /\ mm[OutOfMemory] = Blank
    /\ FreePages(p) \subseteq Frames
    /\ X \subseteq p.used \cap Frames
    /\ \A r \in R : Tree(mm, r) /\ OwnedBy(mm, r) \subseteq p.used \ X
    /\ \A r, q \in R : r # q => OwnedBy(mm, r) \cap OwnedBy(mm, q) = {}
    /\ ~gone => p.used \cap Frames \subseteq X \cup UNION {OwnedBy(mm, r) : r \in R}

\* What an address space maps in its low region.
LowSlots(mm, r) == IF "low" \in DOMAIN mm[r] THEN DOMAIN mm[mm[r]["low"]] ELSE {}

\* A space being built maps its image at most; a process's, nothing else.
Staged(mm, r, st, owner) ==
    st = "build" =>
       /\ owner \notin Drivers => DOMAIN mm[r] \subseteq {"low"}
       /\ LowSlots(mm, r) \subseteq {"image"}

LiveRoots == {space[s].root : s \in Live} \ {OutOfMemory}
Elsewhere == (heap \cup kept) \ {OutOfMemory}

SpaceTypeOK ==
    space \in [Slots -> {NoSpace} \cup [st : {"build", "run", "zombie"}, owner : Drivers \cup {"process"}, root : Nat]]

SpacesApart ==
    /\ \A s, u \in Live : space[s].root = space[u].root /\ space[s].root # OutOfMemory => s = u
    /\ \A s \in Live : Staged(mem, space[s].root, space[s].st, space[s].owner)
    /\ phase # "panic" => \A s \in Live : space[s].root # OutOfMemory

FramesInv ==
    /\ PmmInv
    /\ SpaceTypeOK
    /\ OutOfMemory \notin heap
    /\ ~hurt =>
         /\ Accounted(pmm, mem, exhausted, LiveRoots, Elsewhere)
         /\ heap \cap kept = {}
         /\ SpacesApart

LEMMA FramesAre == Frames \subseteq Pages /\ OutOfMemory \notin Frames /\ OutOfMemory \in Pages
  BY MemoryMap DEF Frames, OutOfMemory, Pages

LEMMA BlankIs == DOMAIN Blank = {}
  BY DEF Blank

LEMMA LowIsTable ==
    ASSUME NEW mm, NEW r, NEW g \in DOMAIN mm[r]
    PROVE  mm[r][g] \in Tables(mm, r)
  BY Zenon DEF Tables

LEMMA OwnedArePages ==
    ASSUME NEW p, NEW mm, NEW gone, NEW R, NEW X, Accounted(p, mm, gone, R, X), NEW r \in R
    PROVE  /\ OwnedBy(mm, r) \subseteq Frames /\ OwnedBy(mm, r) \subseteq Pages
           /\ OutOfMemory \notin OwnedBy(mm, r) /\ r \in OwnedBy(mm, r)
           /\ Tables(mm, r) \subseteq OwnedBy(mm, r)
<1>1. Tree(mm, r)
  BY Zenon DEF Accounted
<1>2. OwnedBy(mm, r) \subseteq Frames
  <2>1. OwnLeaves(mm, r) \subseteq Frames /\ r \in Frames
    BY Zenon, <1>1 DEF Tree
  <2>2. Tables(mm, r) \subseteq Frames
    BY Zenon, <1>1 DEF Tree, Tables
  <2> QED BY Zenon, <2>1, <2>2 DEF OwnedBy
<1> QED BY Zenon, <1>2, FramesAre DEF OwnedBy

\* The holder of a frame, one of five.
HolderIs(h, i) ==
    \/ i \in heap /\ h = <<"heap", 0, "", i>>
    \/ i \in kept /\ h = <<"kept", 0, "", i>>
    \/ \E s \in Live : i = space[s].root /\ h = <<"root", s, "", i>>
    \/ \E r \in LiveRoots : \E g \in DOMAIN mem[r] : i = mem[r][g] /\ h = <<"table", r, g, i>>
    \/ \E r \in LiveRoots : /\ "low" \in DOMAIN mem[r]
                            /\ \E sl \in LowSlots(mem, r) : /\ i = mem[mem[r]["low"]][sl]
                                                            /\ h = <<"leaf", mem[r]["low"], sl, i>>

LEMMA Fourth == \A a, b, c, d : <<a, b, c, d>>[4] = d
  OBVIOUS

LEMMA HoldersAre ==
    ASSUME FramesInv, ~hurt, NEW h \in Holds, h[4] # OutOfMemory
    PROVE  HolderIs(h, h[4])
<1>1. Roots = {space[s].root : s \in Live} \cup {OutOfMemory}
  BY Zenon DEF Roots, Live, OutOfMemory
<1>2. /\ mem[OutOfMemory] = Blank /\ \A r \in LiveRoots : Tree(mem, r)
  BY Zenon DEF FramesInv, Accounted
<1>3. \A r \in Roots : DOMAIN mem[r] # {} => r \in LiveRoots
  BY Zenon, <1>1, <1>2, BlankIs DEF LiveRoots
<1>4. CASE h \in HeapHolds
  <2>1. PICK f \in heap : h = <<"heap", 0, "", f>>
    BY Zenon, <1>4 DEF HeapHolds
  <2>2. h[4] = f
    BY Zenon, <2>1, Fourth
  <2> QED BY Zenon, <2>1, <2>2 DEF HolderIs
<1>5. CASE h \in KeptHolds
  <2>1. PICK f \in kept : h = <<"kept", 0, "", f>>
    BY Zenon, <1>5 DEF KeptHolds
  <2>2. h[4] = f
    BY Zenon, <2>1, Fourth
  <2> QED BY Zenon, <2>1, <2>2 DEF HolderIs
<1>6. CASE h \in RootHolds
  <2>1. PICK s \in Live : h = <<"root", s, "", space[s].root>>
    BY Zenon, <1>6 DEF RootHolds
  <2>2. h[4] = space[s].root
    BY Zenon, <2>1, Fourth
  <2> QED BY Zenon, <2>1, <2>2 DEF HolderIs
<1>7. CASE h \in TableHolds
  <2>1. PICK r \in Roots : h \in {<<"table", r, g, mem[r][g]>> : g \in DOMAIN mem[r]}
    BY <1>7 DEF TableHolds
  <2>2. PICK g \in DOMAIN mem[r] : h = <<"table", r, g, mem[r][g]>>
    BY Zenon, <2>1
  <2>3. h[4] = mem[r][g] /\ r \in LiveRoots
    BY Zenon, <1>3, <2>2, Fourth
  <2> QED BY Zenon, <2>2, <2>3 DEF HolderIs
<1>8. CASE h \in LeafHolds
  <2>1. PICK t \in UNION {Tables(mem, r) : r \in Roots} :
           h \in {<<"leaf", t, sl, mem[t][sl]>> : sl \in DOMAIN mem[t] \ {"mmio", "surface"}}
    BY <1>8 DEF LeafHolds
  <2>2. PICK r \in Roots : t \in Tables(mem, r)
    BY <2>1
  <2>3. PICK sl \in DOMAIN mem[t] \ {"mmio", "surface"} : h = <<"leaf", t, sl, mem[t][sl]>>
    BY Zenon, <2>1
  <2>4. PICK g \in DOMAIN mem[r] : t = mem[r][g]
    BY Zenon, <2>2 DEF Tables
  <2>5. r \in LiveRoots /\ Tree(mem, r)
    BY Zenon, <1>2, <1>3, <2>4
  <2>6. DOMAIN mem[t] \subseteq SlotsOf(g) /\ g \in Regions
    BY Zenon, <2>4, <2>5 DEF Tree
  <2>7. g = "low"
    BY Zenon, <2>3, <2>6 DEF SlotsOf, Regions
  <2>8. sl \in LowSlots(mem, r) /\ "low" \in DOMAIN mem[r] /\ t = mem[r]["low"]
    BY Zenon, <2>3, <2>4, <2>7 DEF LowSlots
  <2>9. h[4] = mem[t][sl]
    BY Zenon, <2>3, Fourth
  <2> QED BY Zenon, <2>3, <2>5, <2>8, <2>9 DEF HolderIs
<1>9. h \in HeapHolds \/ h \in KeptHolds \/ h \in RootHolds \/ h \in TableHolds \/ h \in LeafHolds
  BY Zenon DEF Holds
<1> QED BY Zenon, <1>4, <1>5, <1>6, <1>7, <1>8, <1>9

\* Where the holder of a frame puts it.
LEMMA HolderPlace ==
    ASSUME FramesInv, ~hurt, NEW i, i # OutOfMemory, NEW h, HolderIs(h, i)
    PROVE  \/ i \in Elsewhere /\ i \in heap /\ h = <<"heap", 0, "", i>>
           \/ i \in Elsewhere /\ i \in kept /\ h = <<"kept", 0, "", i>>
           \/ \E r \in LiveRoots : /\ i \in OwnedBy(mem, r) /\ i = r
                                   /\ \E s \in Live : i = space[s].root /\ h = <<"root", s, "", i>>
           \/ \E r \in LiveRoots : /\ i \in OwnedBy(mem, r) /\ i \in Tables(mem, r)
                                   /\ \E g \in DOMAIN mem[r] : i = mem[r][g] /\ h = <<"table", r, g, i>>
           \/ \E r \in LiveRoots : /\ i \in OwnedBy(mem, r) /\ i \in OwnLeaves(mem, r)
                                   /\ \E sl \in LowSlots(mem, r) : /\ i = mem[mem[r]["low"]][sl]
                                                                   /\ h = <<"leaf", mem[r]["low"], sl, i>>
<1>1. CASE i \in heap /\ h = <<"heap", 0, "", i>>
  BY Zenon, <1>1 DEF Elsewhere
<1>2. CASE i \in kept /\ h = <<"kept", 0, "", i>>
  BY Zenon, <1>2 DEF Elsewhere
<1>3. ASSUME NEW s \in Live, i = space[s].root, h = <<"root", s, "", i>>
      PROVE  \E r \in LiveRoots : /\ i \in OwnedBy(mem, r) /\ i = r
                                  /\ \E u \in Live : i = space[u].root /\ h = <<"root", u, "", i>>
  <2>1. i \in LiveRoots
    BY Zenon, <1>3 DEF LiveRoots
  <2>2. i \in OwnedBy(mem, i)
    BY Zenon DEF OwnedBy
  <2> QED BY Zenon, <1>3, <2>1, <2>2
<1>4. ASSUME NEW r \in LiveRoots, NEW g \in DOMAIN mem[r], i = mem[r][g], h = <<"table", r, g, i>>
      PROVE  i \in OwnedBy(mem, r) /\ i \in Tables(mem, r)
  BY Zenon, <1>4, LowIsTable DEF OwnedBy
<1>5. ASSUME NEW r \in LiveRoots, "low" \in DOMAIN mem[r], NEW sl \in LowSlots(mem, r), i = mem[mem[r]["low"]][sl]
      PROVE  i \in OwnedBy(mem, r) /\ i \in OwnLeaves(mem, r)
  <2>1. i \in Leaves(mem, mem[r]["low"])
    BY Zenon, <1>5 DEF Leaves, LowSlots
  <2>2. i \in OwnLeaves(mem, r)
    BY Zenon, <1>5, <2>1 DEF OwnLeaves
  <2> QED BY Zenon, <2>2 DEF OwnedBy
<1> QED BY Zenon, <1>1, <1>2, <1>3, <1>4, <1>5 DEF HolderIs

LEMMA PlacesApart ==
    ASSUME FramesInv, ~hurt
    PROVE  /\ heap \cap kept = {}
           /\ \A i \in Elsewhere : \A r \in LiveRoots : i \notin OwnedBy(mem, r)
           /\ \A r, q \in LiveRoots : \A i : i \in OwnedBy(mem, r) /\ i \in OwnedBy(mem, q) => r = q
           /\ \A r \in LiveRoots : r \notin Tables(mem, r) /\ r \notin OwnLeaves(mem, r)
           /\ \A r \in LiveRoots : Tables(mem, r) \cap OwnLeaves(mem, r) = {}
           /\ \A s, u \in Live : space[s].root = space[u].root /\ space[s].root # OutOfMemory => s = u
           /\ \A r \in LiveRoots : Tree(mem, r)
<1>1. Accounted(pmm, mem, exhausted, LiveRoots, Elsewhere) /\ heap \cap kept = {} /\ SpacesApart
  BY Zenon DEF FramesInv
<1>2. \A i \in Elsewhere : \A r \in LiveRoots : i \notin OwnedBy(mem, r)
  BY Zenon, <1>1 DEF Accounted
<1>3. \A r, q \in LiveRoots : \A i : i \in OwnedBy(mem, r) /\ i \in OwnedBy(mem, q) => r = q
  BY Zenon, <1>1 DEF Accounted
<1>4. \A r \in LiveRoots : Tree(mem, r)
  BY Zenon, <1>1 DEF Accounted
<1>5. ASSUME NEW r \in LiveRoots
      PROVE  r \notin Tables(mem, r) /\ r \notin OwnLeaves(mem, r) /\ Tables(mem, r) \cap OwnLeaves(mem, r) = {}
  <2>1. r \notin Tables(mem, r)
    BY Zenon, <1>4 DEF Tree, Tables
  <2>2. OwnLeaves(mem, r) \subseteq Frames \ ({r} \cup Tables(mem, r))
    BY Zenon, <1>4 DEF Tree
  <2> QED BY Zenon, <2>1, <2>2
<1>6. \A s, u \in Live : space[s].root = space[u].root /\ space[s].root # OutOfMemory => s = u
  BY Zenon, <1>1 DEF SpacesApart
<1> QED BY Zenon, <1>1, <1>2, <1>3, <1>4, <1>5, <1>6

LEMMA OneHolder ==
    ASSUME FramesInv, ~hurt, NEW i, i # OutOfMemory, NEW h, NEW k, HolderIs(h, i), HolderIs(k, i)
    PROVE  h = k
<1> DEFINE Rooted(x) == \E r \in LiveRoots : /\ i \in OwnedBy(mem, r) /\ i = r
                                             /\ \E s \in Live : i = space[s].root /\ x = <<"root", s, "", i>>
           Tabled(x) == \E r \in LiveRoots : /\ i \in OwnedBy(mem, r) /\ i \in Tables(mem, r)
                                             /\ \E g \in DOMAIN mem[r] : i = mem[r][g] /\ x = <<"table", r, g, i>>
           Leaf(x) == \E r \in LiveRoots : /\ i \in OwnedBy(mem, r) /\ i \in OwnLeaves(mem, r)
                                           /\ \E sl \in LowSlots(mem, r) : /\ i = mem[mem[r]["low"]][sl]
                                                                           /\ x = <<"leaf", mem[r]["low"], sl, i>>
           Heaped(x) == i \in Elsewhere /\ i \in heap /\ x = <<"heap", 0, "", i>>
           Kept(x) == i \in Elsewhere /\ i \in kept /\ x = <<"kept", 0, "", i>>
<1>1. Heaped(h) \/ Kept(h) \/ Rooted(h) \/ Tabled(h) \/ Leaf(h)
  BY Zenon, HolderPlace
<1>2. Heaped(k) \/ Kept(k) \/ Rooted(k) \/ Tabled(k) \/ Leaf(k)
  BY Zenon, HolderPlace
<1>3. ASSUME NEW x, NEW y, Heaped(x) \/ Kept(x), Heaped(y) \/ Kept(y) PROVE x = y
  <2>1. heap \cap kept = {}
    BY Zenon, PlacesApart
  <2>2. ~(i \in heap /\ i \in kept)
    BY Zenon, <2>1
  <2>3. CASE Heaped(x) /\ Heaped(y)
    BY Zenon, <2>3
  <2>4. CASE Kept(x) /\ Kept(y)
    BY Zenon, <2>4
  <2>5. CASE Heaped(x) /\ Kept(y)
    BY Zenon, <2>2, <2>5
  <2>6. CASE Kept(x) /\ Heaped(y)
    BY Zenon, <2>2, <2>6
  <2> HIDE DEF Heaped, Kept
  <2> QED BY Zenon, <1>3, <2>3, <2>4, <2>5, <2>6
<1>4. ASSUME NEW x, NEW y, Heaped(x) \/ Kept(x), Rooted(y) \/ Tabled(y) \/ Leaf(y) PROVE FALSE
  BY Zenon, <1>4, PlacesApart
<1>5. ASSUME NEW x, NEW y, Rooted(x), Rooted(y) PROVE x = y
  BY Zenon, <1>5, PlacesApart
<1>6. ASSUME NEW x, NEW y, Tabled(x), Tabled(y) PROVE x = y
  <2>1. PICK r \in LiveRoots : i \in OwnedBy(mem, r) /\ \E g \in DOMAIN mem[r] : i = mem[r][g] /\ x = <<"table", r, g, i>>
    BY Zenon, <1>6
  <2>2. PICK q \in LiveRoots : i \in OwnedBy(mem, q) /\ \E g \in DOMAIN mem[q] : i = mem[q][g] /\ y = <<"table", q, g, i>>
    BY Zenon, <1>6
  <2>3. q = r
    BY Zenon, <2>1, <2>2, PlacesApart
  <2>4. PICK a \in DOMAIN mem[r] : i = mem[r][a] /\ x = <<"table", r, a, i>>
    BY Zenon, <2>1
  <2>5. PICK b \in DOMAIN mem[r] : i = mem[r][b] /\ y = <<"table", r, b, i>>
    BY Zenon, <2>2, <2>3
  <2>6. a = b
    BY Zenon, <2>4, <2>5, PlacesApart DEF Tree
  <2> QED BY Zenon, <2>4, <2>5, <2>6
<1>7. ASSUME NEW x, NEW y, Leaf(x), Leaf(y) PROVE x = y
  <2>1. PICK r \in LiveRoots : /\ i \in OwnedBy(mem, r)
                               /\ \E sl \in LowSlots(mem, r) : i = mem[mem[r]["low"]][sl] /\ x = <<"leaf", mem[r]["low"], sl, i>>
    BY Zenon, <1>7
  <2>2. PICK q \in LiveRoots : /\ i \in OwnedBy(mem, q)
                               /\ \E sl \in LowSlots(mem, q) : i = mem[mem[q]["low"]][sl] /\ y = <<"leaf", mem[q]["low"], sl, i>>
    BY Zenon, <1>7
  <2>3. q = r
    BY Zenon, <2>1, <2>2, PlacesApart
  <2>4. PICK t : t = mem[r]["low"]
    BY Zenon
  <2>5. PICK a \in LowSlots(mem, r) : i = mem[t][a] /\ x = <<"leaf", t, a, i>>
    BY Zenon, <2>1, <2>4
  <2>6. PICK b \in LowSlots(mem, r) : i = mem[t][b] /\ y = <<"leaf", t, b, i>>
    BY Zenon, <2>2, <2>3, <2>4
  <2>7. "low" \in DOMAIN mem[r] /\ a \in DOMAIN mem[t] /\ b \in DOMAIN mem[t]
    BY Zenon, <2>4, <2>5, <2>6 DEF LowSlots
  <2>8. a = b
    BY Zenon, <2>4, <2>5, <2>6, <2>7, PlacesApart DEF Tree
  <2> QED BY Zenon, <2>5, <2>6, <2>8
<1>8. ASSUME NEW x, NEW y, Rooted(x), Tabled(y) \/ Leaf(y) PROVE FALSE
  BY Zenon, <1>8, PlacesApart
<1>9. ASSUME NEW x, NEW y, Tabled(x), Leaf(y) PROVE FALSE
  BY Zenon, <1>9, PlacesApart
<1> HIDE DEF Rooted, Tabled, Leaf, Heaped, Kept
<1> QED BY Zenon, <1>1, <1>2, <1>3, <1>4, <1>5, <1>6, <1>7, <1>8, <1>9

\* A frame in its place has a holder.
LEMMA HolderFound ==
    ASSUME FramesInv, ~hurt, NEW i, i # OutOfMemory,
           i \in Elsewhere \/ \E r \in LiveRoots : i \in OwnedBy(mem, r)
    PROVE  \E h \in Holds : h[4] = i
<1>1. CASE i \in heap
  <2>1. <<"heap", 0, "", i>> \in HeapHolds
    BY Zenon, <1>1 DEF HeapHolds
  <2>2. <<"heap", 0, "", i>> \in Holds
    BY Zenon, <2>1 DEF Holds
  <2> QED BY Zenon, <2>2, Fourth
<1>2. CASE i \in kept
  <2>1. <<"kept", 0, "", i>> \in KeptHolds
    BY Zenon, <1>2 DEF KeptHolds
  <2>2. <<"kept", 0, "", i>> \in Holds
    BY Zenon, <2>1 DEF Holds
  <2> QED BY Zenon, <2>2, Fourth
<1>3. ASSUME NEW r \in LiveRoots, i \in OwnedBy(mem, r) PROVE \E h \in Holds : h[4] = i
  <2>1. PICK s \in Live : r = space[s].root
    BY Zenon DEF LiveRoots
  <2>2. r \in Roots
    BY Zenon, <2>1 DEF Roots, Live
  <2>3. CASE i = r
    <3>1. <<"root", s, "", space[s].root>> \in RootHolds
      BY Zenon DEF RootHolds
    <3>2. <<"root", s, "", space[s].root>> \in Holds
      BY Zenon, <3>1 DEF Holds
    <3> QED BY Zenon, <2>1, <2>3, <3>2, Fourth
  <2>4. CASE i \in Tables(mem, r)
    <3>1. PICK g \in DOMAIN mem[r] : i = mem[r][g]
      BY Zenon, <2>4 DEF Tables
    <3>2. PICK B : B = {<<"table", r, e, mem[r][e]>> : e \in DOMAIN mem[r]}
      BY Zenon
    <3>3. <<"table", r, g, i>> \in B
      BY Zenon, <3>1, <3>2
    <3>4. B \in {{<<"table", q, e, mem[q][e]>> : e \in DOMAIN mem[q]} : q \in Roots}
      BY Zenon, <2>2, <3>2
    <3>5. <<"table", r, g, i>> \in TableHolds
      BY Zenon, <3>3, <3>4 DEF TableHolds
    <3>6. <<"table", r, g, i>> \in Holds
      BY Zenon, <3>5 DEF Holds
    <3> QED BY Zenon, <3>6, Fourth
  <2>5. CASE i \in OwnLeaves(mem, r)
    <3>1. PICK t : t = mem[r]["low"]
      BY Zenon
    <3>2. "low" \in DOMAIN mem[r] /\ i \in Leaves(mem, t)
      BY Zenon, <2>5, <3>1 DEF OwnLeaves
    <3>3. PICK sl \in DOMAIN mem[t] : i = mem[t][sl]
      BY Zenon, <3>2 DEF Leaves
    <3>4. sl \notin {"mmio", "surface"}
      <4>1. sl \in SlotsOf("low")
        BY Zenon, <3>1, <3>2, <3>3, PlacesApart DEF Tree
      <4> QED BY <4>1 DEF SlotsOf
    <3>5. t \in UNION {Tables(mem, q) : q \in Roots}
      <4>1. t \in Tables(mem, r)
        BY Zenon, <3>1, <3>2, LowIsTable
      <4>2. Tables(mem, r) \in {Tables(mem, q) : q \in Roots}
        BY Zenon, <2>2
      <4> QED BY Zenon, <4>1, <4>2
    <3>6. PICK B : B = {<<"leaf", t, e, mem[t][e]>> : e \in DOMAIN mem[t] \ {"mmio", "surface"}}
      BY Zenon
    <3>7. <<"leaf", t, sl, i>> \in B
      BY Zenon, <3>3, <3>4, <3>6
    <3>8. B \in {{<<"leaf", u, e, mem[u][e]>> : e \in DOMAIN mem[u] \ {"mmio", "surface"}} :
                    u \in UNION {Tables(mem, q) : q \in Roots}}
      BY Zenon, <3>5, <3>6
    <3>9. <<"leaf", t, sl, i>> \in UNION {{<<"leaf", u, e, mem[u][e]>> : e \in DOMAIN mem[u] \ {"mmio", "surface"}} :
                    u \in UNION {Tables(mem, q) : q \in Roots}}
      BY Zenon, <3>7, <3>8
    <3>10. <<"leaf", t, sl, i>> \in Holds
      BY Zenon, <3>9 DEF Holds, LeafHolds
    <3> QED BY Zenon, <3>10, Fourth
  <2> QED BY Zenon, <1>3, <2>3, <2>4, <2>5 DEF OwnedBy
<1> QED BY Zenon, <1>1, <1>2, <1>3 DEF Elsewhere

LEMMA FramesArePartitioned == ASSUME FramesInv PROVE FramesPartition
<1>1. ASSUME ~hurt, NEW h \in Holds, NEW k \in Holds, h[4] = k[4], h[4] # OutOfMemory PROVE h = k
  <2>1. PICK i : i = h[4] /\ i = k[4] /\ i # OutOfMemory
    BY Zenon, <1>1
  <2>2. HolderIs(h, i) /\ HolderIs(k, i)
    BY Zenon, <1>1, <2>1, HoldersAre
  <2> QED BY Zenon, <1>1, <2>1, <2>2, OneHolder
<1>2. ASSUME ~hurt, NEW i \in Held PROVE i \in pmm.used \cap (Usable \ Reserved)
  <2>1. PICK h \in Holds : i = h[4] /\ i # OutOfMemory
    BY Zenon DEF Held
  <2>2. HolderIs(h, i)
    BY Zenon, <1>2, <2>1, HoldersAre
  <2>3. i \in Elsewhere \/ \E r \in LiveRoots : i \in OwnedBy(mem, r)
    BY Zenon, <1>2, <2>1, <2>2, HolderPlace
  <2>4. Accounted(pmm, mem, exhausted, LiveRoots, Elsewhere)
    BY Zenon, <1>2 DEF FramesInv
  <2>5. \A r \in LiveRoots : OwnedBy(mem, r) \subseteq Frames /\ OwnedBy(mem, r) \subseteq pmm.used \ Elsewhere
    <3>1. \A r \in LiveRoots : OwnedBy(mem, r) \subseteq Frames
      BY Zenon, <2>4, OwnedArePages
    <3>2. \A r \in LiveRoots : OwnedBy(mem, r) \subseteq pmm.used \ Elsewhere
      BY Zenon, <2>4 DEF Accounted
    <3> QED BY Zenon, <3>1, <3>2
  <2>6. Elsewhere \subseteq pmm.used \cap Frames
    BY Zenon, <2>4 DEF Accounted
  <2>7. i \in pmm.used /\ i \in Frames
    BY Zenon, <2>3, <2>5, <2>6
  <2> QED BY Zenon, <2>7 DEF Frames
<1>3. ASSUME ~hurt, ~exhausted, NEW i \in pmm.used \cap (Usable \ Reserved) PROVE i \in Held
  <2>1. Accounted(pmm, mem, exhausted, LiveRoots, Elsewhere)
    BY Zenon, <1>3 DEF FramesInv
  <2>2. i \in Elsewhere \cup UNION {OwnedBy(mem, r) : r \in LiveRoots}
    BY Zenon, <1>3, <2>1 DEF Accounted, Frames
  <2>3. i \in Elsewhere \/ \E r \in LiveRoots : i \in OwnedBy(mem, r)
    BY <2>2
  <2>4. i # OutOfMemory
    BY Zenon, FramesAre DEF Frames
  <2>5. PICK h \in Holds : h[4] = i
    BY Zenon, <1>3, <2>3, <2>4, HolderFound
  <2> QED BY Zenon, <2>4, <2>5 DEF Held
<1>4. PmmInv
  BY Zenon DEF FramesInv
<1> QED BY Zenon, <1>1, <1>2, <1>3, <1>4 DEF FramesPartition
\* What writing an entry of a table does.
Extends(e, t, entry, frame) ==
    /\ DOMAIN e = {entry} \cup DOMAIN t
    /\ e[entry] = frame
    /\ \A k \in DOMAIN t : k # entry => e[k] = t[k]

LEMMA EnteredIs ==
    ASSUME NEW t, NEW entry, NEW frame
    PROVE  Extends(Entered(t, entry, frame), t, entry, frame)
  BY Zenon DEF Entered, Extends

\* Two memories with the same tables at a root have the same tree there.
Same(mm, nn, r) == nn[r] = mm[r] /\ \A t \in Tables(mm, r) : nn[t] = mm[t]

LEMMA SameTree ==
    ASSUME NEW mm, NEW nn, NEW r, Same(mm, nn, r)
    PROVE  /\ Tables(nn, r) = Tables(mm, r)
           /\ OwnedBy(nn, r) = OwnedBy(mm, r)
           /\ Tree(mm, r) => Tree(nn, r)
           /\ \A st, owner : Staged(mm, r, st, owner) => Staged(nn, r, st, owner)
           /\ LowSlots(nn, r) = LowSlots(mm, r)
<1>1. nn[r] = mm[r] /\ \A g \in DOMAIN mm[r] : nn[mm[r][g]] = mm[mm[r][g]]
  BY Zenon, LowIsTable DEF Same
<1>2. Tables(nn, r) = Tables(mm, r)
  BY Zenon, <1>1 DEF Tables
<1>3. OwnLeaves(nn, r) = OwnLeaves(mm, r)
  <2>1. CASE "low" \in DOMAIN mm[r]
    <3>1. PICK t : t = mm[r]["low"] /\ t = nn[r]["low"] /\ nn[t] = mm[t]
      BY Zenon, <1>1, <2>1
    <3>2. Leaves(nn, t) = Leaves(mm, t)
      BY Zenon, <3>1 DEF Leaves
    <3>3. "low" \in DOMAIN nn[r]
      BY Zenon, <1>1, <2>1
    <3> QED BY Zenon, <2>1, <3>1, <3>2, <3>3 DEF OwnLeaves
  <2>2. CASE "low" \notin DOMAIN mm[r]
    BY Zenon, <1>1, <2>2 DEF OwnLeaves
  <2> QED BY Zenon, <2>1, <2>2
<1>4. OwnedBy(nn, r) = OwnedBy(mm, r)
  BY Zenon, <1>2, <1>3 DEF OwnedBy
<1>5. Tree(mm, r) => Tree(nn, r)
  BY Zenon, <1>1, <1>2, <1>3 DEF Tree
<1>6. \A st, owner : Staged(mm, r, st, owner) => Staged(nn, r, st, owner)
  BY Zenon, <1>1 DEF Staged, LowSlots
<1>7. LowSlots(nn, r) = LowSlots(mm, r)
  BY Zenon, <1>1 DEF LowSlots
<1> QED BY Zenon, <1>2, <1>4, <1>5, <1>6, <1>7

LEMMA SameAgain ==
    ASSUME NEW mm, NEW nn, NEW oo, NEW r, Same(mm, nn, r), Same(nn, oo, r)
    PROVE  Same(mm, oo, r)
<1>1. Tables(nn, r) = Tables(mm, r)
  BY Zenon, SameTree
<1> QED BY Zenon, <1>1 DEF Same

\* A write outside a tree leaves it alone.
LEMMA WriteElsewhere ==
    ASSUME NEW mm, NEW r, DOMAIN mm = Pages, NEW f, NEW v,
           f \notin OwnedBy(mm, r), OwnedBy(mm, r) \subseteq Pages
    PROVE  Same(mm, [mm EXCEPT ![f] = v], r)
<1>1. r \in Pages /\ r # f /\ \A t \in Tables(mm, r) : t \in Pages /\ t # f
  BY Zenon DEF OwnedBy
<1> QED BY Zenon, <1>1 DEF Same

\* One tree grows by a frame that was elsewhere, or by none.
LEMMA TreeGrows ==
    ASSUME NEW p, NEW mm, NEW nn, NEW gone, NEW R, NEW X, Accounted(p, mm, gone, R, X),
           NEW r \in R, NEW f \in X \cup {OutOfMemory},
           DOMAIN nn = Pages, nn[OutOfMemory] = Blank, Tree(nn, r),
           OwnedBy(nn, r) = OwnedBy(mm, r) \cup ({f} \ {OutOfMemory}),
           \A q \in R \ {r} : Same(mm, nn, q)
    PROVE  Accounted(p, nn, gone, R, X \ {f})
<1>1. \A q \in R \ {r} : OwnedBy(nn, q) = OwnedBy(mm, q) /\ Tree(nn, q)
  BY Zenon, SameTree DEF Accounted
<1>2. OutOfMemory \notin X /\ X \subseteq p.used
  BY Zenon, FramesAre DEF Accounted
<1>3. X \ {f} \subseteq p.used \cap Frames /\ FreePages(p) \subseteq Frames
  BY Zenon DEF Accounted
<1>4. ASSUME NEW q \in R PROVE Tree(nn, q) /\ OwnedBy(nn, q) \subseteq p.used \ (X \ {f})
  <2>1. OwnedBy(mm, q) \subseteq p.used \ X
    BY Zenon DEF Accounted
  <2>2. CASE q = r
    BY Zenon, <1>2, <2>1, <2>2
  <2>3. CASE q # r
    BY Zenon, <1>1, <2>1, <2>3
  <2> QED BY Zenon, <2>2, <2>3
<1>5. ASSUME NEW q \in R, NEW o \in R, q # o PROVE OwnedBy(nn, q) \cap OwnedBy(nn, o) = {}
  <2>1. OwnedBy(mm, q) \cap OwnedBy(mm, o) = {}
    BY Zenon, <1>5 DEF Accounted
  <2>2. f # OutOfMemory => f \notin OwnedBy(mm, q) /\ f \notin OwnedBy(mm, o)
    BY Zenon DEF Accounted
  <2>3. CASE q = r
    BY Zenon, <1>1, <1>5, <2>1, <2>2, <2>3
  <2>4. CASE o = r
    BY Zenon, <1>1, <1>5, <2>1, <2>2, <2>4
  <2>5. CASE q # r /\ o # r
    BY Zenon, <1>1, <2>1, <2>5
  <2> QED BY Zenon, <2>3, <2>4, <2>5
<1>6. ASSUME ~gone, NEW i \in p.used \cap Frames PROVE i \in (X \ {f}) \cup UNION {OwnedBy(nn, q) : q \in R}
  <2>1. i \in X \/ \E q \in R : i \in OwnedBy(mm, q)
    <3>1. i \in X \cup UNION {OwnedBy(mm, q) : q \in R}
      BY Zenon, <1>6 DEF Accounted
    <3> QED BY <3>1
  <2>2. \A q \in R : OwnedBy(mm, q) \subseteq OwnedBy(nn, q)
    BY Zenon, <1>1
  <2>3. f # OutOfMemory => f \in OwnedBy(nn, r)
    BY Zenon
  <2> QED BY Zenon, <1>2, <2>1, <2>2, <2>3
<1> QED BY Zenon, <1>3, <1>4, <1>5, <1>6 DEF Accounted

\* A blank frame becomes the root of an address space.
LEMMA RootAdds ==
    ASSUME NEW p, NEW mm, NEW gone, NEW R, NEW X, Accounted(p, mm, gone, R, X),
           NEW f \in X, mm[f] = Blank
    PROVE  Accounted(p, mm, gone, R \cup {f}, X \ {f})
<1>1. Tables(mm, f) = {} /\ OwnLeaves(mm, f) = {} /\ OwnedBy(mm, f) = {f}
  BY Zenon, BlankIs DEF Tables, OwnLeaves, OwnedBy
<1>2. f \in Frames /\ X \subseteq p.used /\ f \in p.used
  BY Zenon DEF Accounted
<1>3. Tree(mm, f)
  BY Zenon, <1>1, <1>2, BlankIs DEF Tree
<1>4. ASSUME NEW q \in R \cup {f} PROVE Tree(mm, q) /\ OwnedBy(mm, q) \subseteq p.used \ (X \ {f})
  BY Zenon, <1>1, <1>2, <1>3 DEF Accounted
<1>5. ASSUME NEW q \in R \cup {f}, NEW o \in R \cup {f}, q # o PROVE OwnedBy(mm, q) \cap OwnedBy(mm, o) = {}
  <2>1. \A x \in R : f \notin OwnedBy(mm, x)
    BY Zenon DEF Accounted
  <2>2. CASE q \in R /\ o \in R
    BY Zenon, <1>5, <2>2 DEF Accounted
  <2>3. CASE q = f /\ o \in R
    BY Zenon, <1>1, <2>1, <2>3
  <2>4. CASE o = f /\ q \in R
    BY Zenon, <1>1, <2>1, <2>4
  <2>5. ~(q = f /\ o = f)
    BY Zenon, <1>5
  <2> QED BY Zenon, <2>2, <2>3, <2>4, <2>5
<1>6. ASSUME ~gone, NEW i \in p.used \cap Frames
      PROVE  i \in (X \ {f}) \cup UNION {OwnedBy(mm, q) : q \in R \cup {f}}
  <2>1. i \in X \cup UNION {OwnedBy(mm, q) : q \in R}
    BY Zenon, <1>6 DEF Accounted
  <2>2. i \in X \/ \E q \in R : i \in OwnedBy(mm, q)
    BY <2>1
  <2> QED BY Zenon, <1>1, <2>2
<1> QED BY Zenon, <1>4, <1>5, <1>6 DEF Accounted

\* A blank frame becomes the table of a region.
AddsTable(p, mm, gone, R, X, r, g, t, nn) ==
    /\ Accounted(p, mm, gone, R, X) /\ r \in R /\ t \in X /\ mm[t] = Blank
    /\ g \in Regions /\ g \notin DOMAIN mm[r] /\ nn = [mm EXCEPT ![r] = Entered(mm[r], g, t)]

\* A step has given a frame it held to the tree at r.
Given(p, mm, gone, R, X, r, f, nn) ==
    /\ Accounted(p, nn, gone, R, X \ {f})
    /\ \A q \in R \ {r} : Same(mm, nn, q)

LEMMA TableAdds ==
    ASSUME NEW p, NEW mm, NEW gone, NEW R, NEW X, NEW r, NEW g, NEW t, NEW nn,
           AddsTable(p, mm, gone, R, X, r, g, t, nn)
    PROVE  Given(p, mm, gone, R, X, r, t, nn)
<1> SUFFICES ASSUME Accounted(p, mm, gone, R, X), r \in R, t \in X, mm[t] = Blank,
                    g \in Regions, g \notin DOMAIN mm[r], nn = [mm EXCEPT ![r] = Entered(mm[r], g, t)]
             PROVE  /\ Accounted(p, nn, gone, R, X \ {t})
                    /\ \A q \in R \ {r} : Same(mm, nn, q)
  BY Zenon DEF AddsTable, Given
<1>1. /\ Tree(mm, r) /\ OwnedBy(mm, r) \subseteq p.used \ X /\ t \in Frames
      /\ DOMAIN mm = Pages /\ mm[OutOfMemory] = Blank
  BY Zenon DEF Accounted
<1>2. /\ r \in OwnedBy(mm, r) /\ OwnedBy(mm, r) \subseteq Frames /\ OwnedBy(mm, r) \subseteq Pages
      /\ OutOfMemory \notin OwnedBy(mm, r) /\ Tables(mm, r) \subseteq OwnedBy(mm, r)
  BY Zenon, OwnedArePages
<1>3. t # r /\ t \notin OwnedBy(mm, r) /\ t # OutOfMemory /\ t \in Pages
  BY Zenon, <1>1, <1>2, FramesAre
<1>4. PICK e : e = Entered(mm[r], g, t)
  BY Zenon
<1>a. \A k \in DOMAIN mm[r] : k # g
  BY Zenon
<1>5. /\ DOMAIN e = {g} \cup DOMAIN mm[r] /\ e[g] = t
      /\ \A k \in DOMAIN mm[r] : e[k] = mm[r][k]
  <2>1. Extends(e, mm[r], g, t)
    BY Zenon, <1>4, EnteredIs
  <2> QED BY Zenon, <1>a, <2>1 DEF Extends
<1>6. nn[r] = e /\ (\A x \in Pages \ {r} : nn[x] = mm[x]) /\ DOMAIN nn = Pages
  BY Zenon, <1>1, <1>2, <1>4
<1>7. Tables(nn, r) = Tables(mm, r) \cup {t}
  <2>1. ASSUME NEW x \in Tables(nn, r) PROVE x \in Tables(mm, r) \cup {t}
    <3>1. PICK k \in DOMAIN e : x = e[k]
      BY Zenon, <1>6 DEF Tables
    <3>2. CASE k = g
      BY Zenon, <1>5, <3>1, <3>2
    <3>3. CASE k \in DOMAIN mm[r]
      BY Zenon, <1>5, <3>1, <3>3, LowIsTable
    <3> QED BY Zenon, <1>5, <3>2, <3>3
  <2>2. ASSUME NEW x \in Tables(mm, r) PROVE x \in Tables(nn, r)
    <3>1. PICK k \in DOMAIN mm[r] : x = mm[r][k]
      BY Zenon DEF Tables
    <3>2. k \in DOMAIN nn[r] /\ nn[r][k] = x
      BY Zenon, <1>5, <1>6, <3>1
    <3> QED BY Zenon, <3>2, LowIsTable
  <2>3. t \in Tables(nn, r)
    <3>1. g \in DOMAIN nn[r] /\ nn[r][g] = t
      BY Zenon, <1>5, <1>6
    <3> QED BY Zenon, <3>1, LowIsTable
  <2> QED BY Zenon, <2>1, <2>2, <2>3
<1>8. \A k \in DOMAIN mm[r] : nn[mm[r][k]] = mm[mm[r][k]]
  <2>1. \A k \in DOMAIN mm[r] : mm[r][k] \in Pages \ {r}
    BY Zenon, <1>1, <1>2, LowIsTable DEF Tree
  <2> QED BY Zenon, <1>6, <2>1
<1>9. nn[t] = Blank
  BY Zenon, <1>3, <1>6
<1>10. OwnLeaves(nn, r) = OwnLeaves(mm, r)
  <2>1. CASE "low" \in DOMAIN mm[r]
    <3>0. nn[r]["low"] = mm[r]["low"] /\ "low" \in DOMAIN nn[r]
      BY Zenon, <1>5, <1>6, <2>1
    <3>1. PICK l : l = mm[r]["low"] /\ nn[r]["low"] = l /\ nn[l] = mm[l] /\ "low" \in DOMAIN nn[r]
      BY Zenon, <1>8, <2>1, <3>0
    <3>2. Leaves(nn, l) = Leaves(mm, l)
      BY Zenon, <3>1 DEF Leaves
    <3> QED BY Zenon, <2>1, <3>1, <3>2 DEF OwnLeaves
  <2>2. CASE "low" \notin DOMAIN mm[r] /\ g = "low"
    <3>1. nn[r]["low"] = t /\ "low" \in DOMAIN nn[r] /\ Leaves(nn, t) = {}
      BY Zenon, <1>5, <1>6, <1>9, <2>2, BlankIs DEF Leaves
    <3> QED BY Zenon, <2>2, <3>1 DEF OwnLeaves
  <2>3. CASE "low" \notin DOMAIN mm[r] /\ g # "low"
    BY Zenon, <1>5, <1>6, <2>3 DEF OwnLeaves
  <2> QED BY Zenon, <2>1, <2>2, <2>3
<1>11. OwnedBy(nn, r) = OwnedBy(mm, r) \cup ({t} \ {OutOfMemory})
  BY Zenon, <1>3, <1>7, <1>10 DEF OwnedBy
<1>12. Tree(nn, r)
  <2>1. r \in Frames /\ DOMAIN nn[r] \subseteq Regions
    BY Zenon, <1>1, <1>5, <1>6 DEF Tree
  <2>2. ASSUME NEW k \in DOMAIN nn[r]
        PROVE  nn[r][k] \in Frames \ {r} /\ DOMAIN nn[nn[r][k]] \subseteq SlotsOf(k)
    <3>1. CASE k = g
      <4>1. nn[r][k] = t
        BY Zenon, <1>5, <1>6, <3>1
      <4> QED BY Zenon, <1>1, <1>3, <1>9, <4>1, BlankIs
    <3>2. CASE k \in DOMAIN mm[r]
      <4>1. nn[r][k] = mm[r][k] /\ nn[mm[r][k]] = mm[mm[r][k]]
        BY Zenon, <1>5, <1>6, <1>8, <3>2
      <4> QED BY Zenon, <1>1, <3>2, <4>1 DEF Tree
    <3> QED BY Zenon, <1>5, <1>6, <3>1, <3>2
  <2>3. \A k \in DOMAIN mm[r] : mm[r][k] # t
    BY Zenon, <1>2, <1>3, LowIsTable
  <2>a. nn[r][g] = t /\ \A k \in DOMAIN mm[r] : nn[r][k] = mm[r][k]
    BY Zenon, <1>5, <1>6
  <2>b. \A k \in DOMAIN nn[r] : k = g \/ k \in DOMAIN mm[r]
    BY Zenon, <1>5, <1>6
  <2>4. ASSUME NEW h \in DOMAIN nn[r], NEW k \in DOMAIN nn[r], nn[r][h] = nn[r][k] PROVE h = k
    <3>1. CASE h \in DOMAIN mm[r] /\ k \in DOMAIN mm[r]
      BY Zenon, <1>1, <2>a, <2>4, <3>1 DEF Tree
    <3>2. CASE h = g /\ k \in DOMAIN mm[r]
      BY Zenon, <2>3, <2>a, <2>4, <3>2
    <3>3. CASE h \in DOMAIN mm[r] /\ k = g
      BY Zenon, <2>3, <2>a, <2>4, <3>3
    <3> QED BY Zenon, <2>b, <3>1, <3>2, <3>3
  <2>5. OwnLeaves(nn, r) \subseteq Frames \ ({r} \cup Tables(nn, r))
    BY Zenon, <1>1, <1>3, <1>7, <1>10 DEF Tree, OwnedBy
  <2>6. ASSUME "low" \in DOMAIN nn[r], NEW a \in DOMAIN nn[nn[r]["low"]], NEW b \in DOMAIN nn[nn[r]["low"]],
               nn[nn[r]["low"]][a] = nn[nn[r]["low"]][b], nn[nn[r]["low"]][a] # OutOfMemory
        PROVE  a = b
    <3>1. CASE g = "low"
      BY Zenon, <1>5, <1>6, <1>9, <2>6, <3>1, BlankIs
    <3>2. CASE g # "low"
      <4>1. "low" \in DOMAIN mm[r] /\ nn[nn[r]["low"]] = mm[mm[r]["low"]]
        BY Zenon, <1>5, <1>6, <1>8, <2>6, <3>2
      <4> QED BY Zenon, <1>1, <2>6, <4>1 DEF Tree
    <3> QED BY Zenon, <3>1, <3>2
  <2> QED BY Zenon, <2>1, <2>2, <2>4, <2>5, <2>6 DEF Tree
<1>13. ASSUME NEW q \in R \ {r} PROVE Same(mm, nn, q)
  <2>1. r \notin OwnedBy(mm, q) /\ OwnedBy(mm, q) \subseteq Pages
    <3>1. OwnedBy(mm, r) \cap OwnedBy(mm, q) = {}
      BY Zenon DEF Accounted
    <3>2. OwnedBy(mm, q) \subseteq Pages
      BY Zenon, OwnedArePages
    <3> QED BY Zenon, <1>2, <3>1, <3>2
  <2> QED BY Zenon, <1>1, <2>1, WriteElsewhere
<1>14. nn[OutOfMemory] = Blank
  BY Zenon, <1>1, <1>2, <1>6, FramesAre
<1>15. Accounted(p, nn, gone, R, X \ {t})
  BY Zenon, <1>6, <1>11, <1>12, <1>13, <1>14, TreeGrows
<1> QED BY Zenon, <1>13, <1>15

\* A frame is mapped in the low table of an address space.
AddsLeaf(p, mm, gone, R, X, r, t, sl, f, nn) ==
    /\ Accounted(p, mm, gone, R, X) /\ r \in R /\ "low" \in DOMAIN mm[r] /\ t = mm[r]["low"]
    /\ sl \in SlotsOf("low") /\ sl \notin DOMAIN mm[t] /\ f \in X \cup {OutOfMemory}
    /\ nn = [mm EXCEPT ![t] = Entered(mm[t], sl, f)]

LEMMA LeafAdds ==
    ASSUME NEW p, NEW mm, NEW gone, NEW R, NEW X, NEW r, NEW t, NEW sl, NEW f, NEW nn,
           AddsLeaf(p, mm, gone, R, X, r, t, sl, f, nn)
    PROVE  Given(p, mm, gone, R, X, r, f, nn)
<1> SUFFICES ASSUME Accounted(p, mm, gone, R, X), r \in R, "low" \in DOMAIN mm[r], t = mm[r]["low"],
                    sl \in SlotsOf("low"), sl \notin DOMAIN mm[t], f \in X \cup {OutOfMemory},
                    nn = [mm EXCEPT ![t] = Entered(mm[t], sl, f)]
             PROVE  /\ Accounted(p, nn, gone, R, X \ {f})
                    /\ \A q \in R \ {r} : Same(mm, nn, q)
  BY Zenon DEF AddsLeaf, Given
<1>1. /\ Tree(mm, r) /\ OwnedBy(mm, r) \subseteq p.used \ X /\ f \in Frames \cup {OutOfMemory}
      /\ DOMAIN mm = Pages /\ mm[OutOfMemory] = Blank
  BY Zenon DEF Accounted
<1>2. /\ r \in OwnedBy(mm, r) /\ OwnedBy(mm, r) \subseteq Frames /\ OwnedBy(mm, r) \subseteq Pages
      /\ OutOfMemory \notin OwnedBy(mm, r) /\ Tables(mm, r) \subseteq OwnedBy(mm, r)
  BY Zenon, OwnedArePages
<1>3. f # OutOfMemory => f \notin OwnedBy(mm, r) /\ f \in X
  BY Zenon, <1>1
<1>4. t \in Tables(mm, r) /\ t # r /\ t \in Pages
  BY Zenon, <1>1, <1>2, LowIsTable DEF Tree
<1>5. PICK e : e = Entered(mm[t], sl, f) /\ Extends(e, mm[t], sl, f)
  BY Zenon, EnteredIs
<1>6. \A k \in DOMAIN mm[t] : k # sl
  BY Zenon
<1>7. /\ DOMAIN e = {sl} \cup DOMAIN mm[t] /\ e[sl] = f
      /\ \A k \in DOMAIN mm[t] : e[k] = mm[t][k]
  BY Zenon, <1>5, <1>6 DEF Extends
<1>8. nn[t] = e /\ (\A x \in Pages \ {t} : nn[x] = mm[x]) /\ DOMAIN nn = Pages
  BY Zenon, <1>1, <1>4, <1>5
<1>9. nn[r] = mm[r] /\ Tables(nn, r) = Tables(mm, r)
  <2>1. nn[r] = mm[r]
    BY Zenon, <1>2, <1>4, <1>8
  <2> QED BY Zenon, <2>1 DEF Tables
<1>10. Leaves(nn, t) = Leaves(mm, t) \cup {f}
  <2>1. ASSUME NEW x \in Leaves(nn, t) PROVE x \in Leaves(mm, t) \cup {f}
    <3>1. PICK k \in DOMAIN e : x = e[k]
      BY Zenon, <1>8 DEF Leaves
    <3>2. CASE k = sl
      BY Zenon, <1>7, <3>1, <3>2
    <3>3. CASE k \in DOMAIN mm[t]
      BY Zenon, <1>7, <3>1, <3>3 DEF Leaves
    <3> QED BY Zenon, <1>7, <3>2, <3>3
  <2>2. ASSUME NEW x \in Leaves(mm, t) PROVE x \in Leaves(nn, t)
    <3>1. PICK k \in DOMAIN mm[t] : x = mm[t][k]
      BY Zenon DEF Leaves
    <3>2. k \in DOMAIN nn[t] /\ nn[t][k] = x
      BY Zenon, <1>7, <1>8, <3>1
    <3> QED BY Zenon, <3>2 DEF Leaves
  <2>3. f \in Leaves(nn, t)
    <3>1. sl \in DOMAIN nn[t] /\ nn[t][sl] = f
      BY Zenon, <1>7, <1>8
    <3> QED BY Zenon, <3>1 DEF Leaves
  <2> QED BY Zenon, <2>1, <2>2, <2>3
<1>11. OwnLeaves(mm, r) = Leaves(mm, t) \ {OutOfMemory} /\ OwnLeaves(nn, r) = Leaves(nn, t) \ {OutOfMemory}
  BY Zenon, <1>9 DEF OwnLeaves
<1>12. OwnLeaves(nn, r) = OwnLeaves(mm, r) \cup ({f} \ {OutOfMemory})
  BY Zenon, <1>10, <1>11
<1>13. OwnedBy(nn, r) = OwnedBy(mm, r) \cup ({f} \ {OutOfMemory})
  BY Zenon, <1>9, <1>12 DEF OwnedBy
<1>14. Tree(nn, r)
  <2>1. r \in Frames /\ DOMAIN nn[r] \subseteq Regions
    BY Zenon, <1>1, <1>9 DEF Tree
  <2>2. ASSUME NEW k \in DOMAIN nn[r]
        PROVE  nn[r][k] \in Frames \ {r} /\ DOMAIN nn[nn[r][k]] \subseteq SlotsOf(k)
    <3>0. mm[r][k] \in Frames \ {r} /\ DOMAIN mm[mm[r][k]] \subseteq SlotsOf(k) /\ nn[r][k] = mm[r][k]
      BY Zenon, <1>1, <1>9 DEF Tree
    <3>1. CASE k = "low"
      BY Zenon, <1>7, <1>8, <3>0, <3>1
    <3>2. CASE k # "low"
      <4>1. mm[r][k] # t
        BY Zenon, <1>1, <1>9, <3>2 DEF Tree
      <4>2. nn[mm[r][k]] = mm[mm[r][k]]
        BY Zenon, <1>8, <3>0, <4>1, FramesAre
      <4> QED BY Zenon, <3>0, <4>2
    <3> QED BY Zenon, <3>1, <3>2
  <2>3. \A h, k \in DOMAIN nn[r] : nn[r][h] = nn[r][k] => h = k
    BY Zenon, <1>1, <1>9 DEF Tree
  <2>4. OwnLeaves(nn, r) \subseteq Frames \ ({r} \cup Tables(nn, r))
    <3>1. f # OutOfMemory => f \in Frames \ ({r} \cup Tables(mm, r))
      BY Zenon, <1>1, <1>2, <1>3
    <3>2. OwnLeaves(mm, r) \subseteq Frames \ ({r} \cup Tables(mm, r))
      BY Zenon, <1>1 DEF Tree
    <3> QED BY Zenon, <1>9, <1>12, <3>1, <3>2
  <2>5. ASSUME NEW a \in DOMAIN e, NEW b \in DOMAIN e, e[a] = e[b], e[a] # OutOfMemory PROVE a = b
    <3>1. \A k \in DOMAIN mm[t] : mm[t][k] # OutOfMemory => mm[t][k] \in OwnedBy(mm, r)
      BY Zenon, <1>11 DEF Leaves, OwnedBy
    <3>2. CASE a \in DOMAIN mm[t] /\ b \in DOMAIN mm[t]
      BY Zenon, <1>1, <1>7, <2>5, <3>2 DEF Tree
    <3>3. CASE a = sl /\ b \in DOMAIN mm[t]
      BY Zenon, <1>3, <1>7, <2>5, <3>1, <3>3
    <3>4. CASE a \in DOMAIN mm[t] /\ b = sl
      BY Zenon, <1>3, <1>7, <2>5, <3>1, <3>4
    <3> QED BY Zenon, <1>7, <3>2, <3>3, <3>4
  <2>6. nn[nn[r]["low"]] = e
    BY Zenon, <1>8, <1>9
  <2> QED BY Zenon, <2>1, <2>2, <2>3, <2>4, <2>5, <2>6 DEF Tree
<1>15. ASSUME NEW q \in R \ {r} PROVE Same(mm, nn, q)
  <2>1. OwnedBy(mm, r) \cap OwnedBy(mm, q) = {} /\ t \in OwnedBy(mm, r)
    BY Zenon, <1>2, <1>4 DEF Accounted
  <2>2. t \notin OwnedBy(mm, q) /\ OwnedBy(mm, q) \subseteq Pages
    BY Zenon, <2>1, OwnedArePages
  <2> QED BY Zenon, <1>1, <2>2, WriteElsewhere
<1>16. nn[OutOfMemory] = Blank
  BY Zenon, <1>1, <1>2, <1>4, <1>8, FramesAre
<1>17. Accounted(p, nn, gone, R, X \ {f})
  BY Zenon, <1>8, <1>13, <1>14, <1>15, <1>16, TreeGrows
<1> QED BY Zenon, <1>15, <1>17

\* A frame that is lent is mapped in a table of its own region.
LEMMA LeafLent ==
    ASSUME NEW p, NEW mm, NEW gone, NEW R, NEW X, Accounted(p, mm, gone, R, X),
           NEW r \in R, NEW g \in DOMAIN mm[r], g # "low", NEW t, t = mm[r][g], NEW f,
           NEW nn, nn = [mm EXCEPT ![t] = Entered(mm[t], g, f)]
    PROVE  /\ Accounted(p, nn, gone, R, X)
           /\ \A q \in R \ {r} : Same(mm, nn, q)
           /\ nn[r] = mm[r] /\ ("low" \in DOMAIN mm[r] => nn[mm[r]["low"]] = mm[mm[r]["low"]])
<1>1. Tree(mm, r) /\ DOMAIN mm = Pages /\ mm[OutOfMemory] = Blank
  BY Zenon DEF Accounted
<1>2. /\ r \in OwnedBy(mm, r) /\ OwnedBy(mm, r) \subseteq Frames /\ OwnedBy(mm, r) \subseteq Pages
      /\ OutOfMemory \notin OwnedBy(mm, r) /\ Tables(mm, r) \subseteq OwnedBy(mm, r)
  BY Zenon, OwnedArePages
<1>4. t \in Tables(mm, r) /\ t # r /\ t \in Pages
  BY Zenon, <1>1, <1>2, LowIsTable DEF Tree
<1>5. PICK e : e = Entered(mm[t], g, f) /\ Extends(e, mm[t], g, f)
  BY Zenon, EnteredIs
<1>6. DOMAIN e = {g} \cup DOMAIN mm[t]
  BY Zenon, <1>5 DEF Extends
<1>7. nn[t] = e /\ (\A x \in Pages \ {t} : nn[x] = mm[x]) /\ DOMAIN nn = Pages
  BY Zenon, <1>1, <1>4, <1>5
<1>8. nn[r] = mm[r] /\ Tables(nn, r) = Tables(mm, r)
  <2>1. nn[r] = mm[r]
    BY Zenon, <1>2, <1>4, <1>7
  <2> QED BY Zenon, <2>1 DEF Tables
<1>9. ASSUME NEW k \in DOMAIN mm[r], k # g PROVE nn[mm[r][k]] = mm[mm[r][k]]
  <2>1. mm[r][k] # t
    BY Zenon, <1>1, <1>9 DEF Tree
  <2>2. mm[r][k] \in Pages
    BY Zenon, <1>2, LowIsTable
  <2> QED BY Zenon, <1>7, <2>1, <2>2
<1>10. OwnLeaves(nn, r) = OwnLeaves(mm, r)
  <2>1. CASE "low" \in DOMAIN mm[r]
    <3>1. PICK l : l = mm[r]["low"] /\ nn[r]["low"] = l /\ nn[l] = mm[l] /\ "low" \in DOMAIN nn[r]
      BY Zenon, <1>8, <1>9, <2>1
    <3>2. Leaves(nn, l) = Leaves(mm, l)
      BY Zenon, <3>1 DEF Leaves
    <3> QED BY Zenon, <2>1, <3>1, <3>2 DEF OwnLeaves
  <2>2. CASE "low" \notin DOMAIN mm[r]
    BY Zenon, <1>8, <2>2 DEF OwnLeaves
  <2> QED BY Zenon, <2>1, <2>2
<1>11. OwnedBy(nn, r) = OwnedBy(mm, r) \cup ({OutOfMemory} \ {OutOfMemory})
  BY Zenon, <1>8, <1>10 DEF OwnedBy
<1>12. Tree(nn, r)
  <2>1. r \in Frames /\ DOMAIN nn[r] \subseteq Regions
    BY Zenon, <1>1, <1>8 DEF Tree
  <2>2. ASSUME NEW k \in DOMAIN nn[r]
        PROVE  nn[r][k] \in Frames \ {r} /\ DOMAIN nn[nn[r][k]] \subseteq SlotsOf(k)
    <3>0. mm[r][k] \in Frames \ {r} /\ DOMAIN mm[mm[r][k]] \subseteq SlotsOf(k) /\ nn[r][k] = mm[r][k]
      BY Zenon, <1>1, <1>8 DEF Tree
    <3>1. CASE k = g
      <4>1. g \in SlotsOf(g)
        BY Zenon DEF SlotsOf
      <4> QED BY Zenon, <1>6, <1>7, <3>0, <3>1, <4>1
    <3>2. CASE k # g
      BY Zenon, <1>8, <1>9, <3>0, <3>2
    <3> QED BY Zenon, <3>1, <3>2
  <2>3. \A h, k \in DOMAIN nn[r] : nn[r][h] = nn[r][k] => h = k
    BY Zenon, <1>1, <1>8 DEF Tree
  <2>4. OwnLeaves(nn, r) \subseteq Frames \ ({r} \cup Tables(nn, r))
    BY Zenon, <1>1, <1>8, <1>10 DEF Tree
  <2>5. "low" \in DOMAIN nn[r] => nn[nn[r]["low"]] = mm[mm[r]["low"]]
    BY Zenon, <1>8, <1>9
  <2>6. ASSUME "low" \in DOMAIN nn[r], NEW a \in DOMAIN nn[nn[r]["low"]], NEW b \in DOMAIN nn[nn[r]["low"]],
               nn[nn[r]["low"]][a] = nn[nn[r]["low"]][b], nn[nn[r]["low"]][a] # OutOfMemory
        PROVE  a = b
    BY Zenon, <1>1, <1>8, <2>5, <2>6 DEF Tree
  <2> QED BY Zenon, <2>1, <2>2, <2>3, <2>4, <2>6 DEF Tree
<1>13. ASSUME NEW q \in R \ {r} PROVE Same(mm, nn, q)
  <2>1. OwnedBy(mm, r) \cap OwnedBy(mm, q) = {} /\ t \in OwnedBy(mm, r)
    BY Zenon, <1>2, <1>4 DEF Accounted
  <2>2. t \notin OwnedBy(mm, q) /\ OwnedBy(mm, q) \subseteq Pages
    BY Zenon, <2>1, OwnedArePages
  <2> QED BY Zenon, <1>1, <2>2, WriteElsewhere
<1>14. nn[OutOfMemory] = Blank
  BY Zenon, <1>1, <1>2, <1>4, <1>7, FramesAre
<1>15. Accounted(p, nn, gone, R, X \ {OutOfMemory})
  BY Zenon, <1>7, <1>11, <1>12, <1>13, <1>14, TreeGrows
<1>16. X \ {OutOfMemory} = X
  BY Zenon, FramesAre DEF Accounted
<1> QED BY Zenon, <1>8, <1>9, <1>13, <1>15, <1>16

\* Once memory has run out, frames may be lost.
LEMMA FramesLost ==
    ASSUME NEW p, NEW mm, NEW gone, NEW R, NEW X, Accounted(p, mm, gone, R, X), NEW Y, Y \subseteq X
    PROVE  Accounted(p, mm, TRUE, R, Y)
<1>1. ASSUME NEW r \in R PROVE Tree(mm, r) /\ OwnedBy(mm, r) \subseteq p.used \ Y
  BY Zenon DEF Accounted
<1> QED BY Zenon, <1>1 DEF Accounted

\* alloc_page finds a page: it belongs to nobody, so blanking it harms nobody.
TakesPage(p, mm, gone, R, X, f, nn) ==
    /\ AllocatorKeeps
    /\ Accounted(p, mm, gone, R, X) /\ Books(p)
    /\ f = NextPage(p) /\ FreePages(p) # {} /\ nn = [mm EXCEPT ![f] = Blank]

HoldsPage(p, mm, gone, R, X, f, nn) ==
    /\ Accounted(Allocated(p), nn, gone, R, X \cup {f})
    /\ \A q \in R : Same(mm, nn, q)
    /\ f \in Frames /\ f \notin X /\ nn[f] = Blank /\ f \notin p.used

LEMMA PageTaken ==
    ASSUME NEW p, NEW mm, NEW gone, NEW R, NEW X, NEW f, NEW nn, TakesPage(p, mm, gone, R, X, f, nn)
    PROVE  HoldsPage(p, mm, gone, R, X, f, nn)
<1> SUFFICES ASSUME AllocatorKeeps, Accounted(p, mm, gone, R, X), Books(p), f = NextPage(p), FreePages(p) # {},
                    nn = [mm EXCEPT ![f] = Blank]
             PROVE  /\ Accounted(Allocated(p), nn, gone, R, X \cup {f})
                    /\ \A q \in R : Same(mm, nn, q)
                    /\ f \in Frames /\ f \notin X /\ nn[f] = Blank /\ f \notin p.used
  BY Zenon DEF TakesPage, HoldsPage
<1>1. f \in FreePages(p) /\ f \in Pages /\ f \notin p.used /\ f \in Frames
  BY Zenon DEF FreePages, Accounted, AllocatorKeeps
<1>2. PICK n : n = Allocated(p)
  BY Zenon
<1>3. n.used = p.used \cup {f}
  BY Zenon, <1>2 DEF Allocated, Take
<1>4. DOMAIN mm = Pages /\ mm[OutOfMemory] = Blank /\ X \subseteq p.used /\ X \subseteq Frames /\ X \subseteq Pages
  BY Zenon, FramesAre DEF Accounted
<1>5. DOMAIN nn = Pages /\ nn[f] = Blank /\ \A x \in Pages \ {f} : nn[x] = mm[x]
  BY Zenon, <1>1, <1>4
<1>6. nn[OutOfMemory] = Blank /\ FreePages(n) \subseteq Frames
  BY Zenon, <1>1, <1>3, <1>4, <1>5, FramesAre DEF Accounted, FreePages
<1>7. ASSUME NEW q \in R PROVE Same(mm, nn, q)
  <2>1. OwnedBy(mm, q) \subseteq p.used
    BY Zenon DEF Accounted
  <2>2. f \notin OwnedBy(mm, q) /\ OwnedBy(mm, q) \subseteq Pages
    BY Zenon, <1>1, <2>1, OwnedArePages
  <2> QED BY Zenon, <1>4, <2>2, WriteElsewhere
<1>8. \A q \in R : OwnedBy(nn, q) = OwnedBy(mm, q)
  BY Zenon, <1>7, SameTree
<1>9. ASSUME NEW q \in R PROVE Tree(nn, q) /\ OwnedBy(nn, q) \subseteq n.used \ (X \cup {f})
  <2>1. Tree(mm, q) /\ OwnedBy(mm, q) \subseteq p.used \ X
    BY Zenon DEF Accounted
  <2>2. Tree(nn, q)
    BY Zenon, <1>7, <2>1, SameTree
  <2> QED BY Zenon, <1>1, <1>3, <1>8, <2>1, <2>2
<1>10. \A q, o \in R : q # o => OwnedBy(nn, q) \cap OwnedBy(nn, o) = {}
  BY Zenon, <1>8 DEF Accounted
<1>11. ASSUME ~gone, NEW i \in n.used \cap Frames
       PROVE  i \in (X \cup {f}) \cup UNION {OwnedBy(nn, q) : q \in R}
  <2>1. CASE i = f
    BY Zenon, <2>1
  <2>2. CASE i # f
    <3>1. i \in p.used \cap Frames
      BY Zenon, <1>3, <1>11, <2>2
    <3>2. i \in X \cup UNION {OwnedBy(mm, q) : q \in R}
      BY Zenon, <1>11, <3>1 DEF Accounted
    <3>3. i \in X \/ \E q \in R : i \in OwnedBy(mm, q)
      BY <3>2
    <3> QED BY Zenon, <1>8, <3>3
  <2> QED BY Zenon, <2>1, <2>2
<1>12. X \cup {f} \subseteq n.used \cap Frames
  BY Zenon, <1>1, <1>3, <1>4
<1>13. Accounted(n, nn, gone, R, X \cup {f})
  BY Zenon, <1>5, <1>6, <1>9, <1>10, <1>11, <1>12 DEF Accounted
<1> QED BY Zenon, <1>1, <1>2, <1>4, <1>5, <1>7, <1>13

\* alloc_page finds none.
LEMMA NoPage ==
    ASSUME NEW p, Books(p), FreePages(p) = {}
    PROVE  Allocated(p).used = p.used /\ FreePages(Allocated(p)) = {} /\ NextPage(p) = OutOfMemory
<1>1. Allocated(p) = [p EXCEPT !.last = 0]
  BY Zenon DEF Allocated
<1>2. Allocated(p).used = p.used
  BY Zenon, <1>1 DEF Books, PmmStates
<1> QED BY Zenon, <1>2 DEF FreePages, NextPage

LEMMA NoPageTaken ==
    ASSUME NEW p, NEW mm, NEW gone, NEW R, NEW X, Accounted(p, mm, gone, R, X), Books(p),
           FreePages(p) = {}
    PROVE  Accounted(Allocated(p), mm, gone, R, X)
<1>1. Allocated(p).used = p.used /\ FreePages(Allocated(p)) = FreePages(p)
  BY Zenon, NoPage
<1> QED BY Zenon, <1>1 DEF Accounted

\* destroy_address_space gives back exactly the frames of one tree, when it
\* meets no page of RAM that was only lent.
LEMMA TreeFreed ==
    ASSUME NEW p, NEW mm, NEW gone, NEW R, NEW X, Accounted(p, mm, gone, R, X), Books(p),
           NEW r \in R, NEW n, n = Freed(p, Walk(mm, r)),
           \A g \in DOMAIN mm[r] : \A sl \in DOMAIN mm[mm[r][g]] :
              g # "low" => mm[mm[r][g]][sl] \notin Pages
    PROVE  Accounted(n, mm, gone, R \ {r}, X)
<1>1. Tree(mm, r) /\ OwnedBy(mm, r) \subseteq p.used \ X
  BY Zenon DEF Accounted
<1>2. OwnedBy(mm, r) \subseteq Frames /\ OwnedBy(mm, r) \subseteq Pages /\ OutOfMemory \notin OwnedBy(mm, r)
  BY Zenon, OwnedArePages
<1>3. PICK ok : ok = {i \in Walk(mm, r) : Freeable(p, i)}
  BY Zenon
<1>4. ok = OwnedBy(mm, r)
  <2>1. ASSUME NEW i \in OwnedBy(mm, r) PROVE i \in Walk(mm, r)
    <3>1. CASE i \in {r} \cup Tables(mm, r)
      BY Zenon, <3>1 DEF Walk
    <3>2. CASE i \in OwnLeaves(mm, r)
      <4>1. "low" \in DOMAIN mm[r] /\ i \in Leaves(mm, mm[r]["low"])
        BY Zenon, <3>2 DEF OwnLeaves
      <4>2. mm[r]["low"] \in Tables(mm, r)
        BY Zenon, <4>1, LowIsTable
      <4> QED BY Zenon, <4>1, <4>2 DEF Walk
    <3> QED BY Zenon, <3>1, <3>2 DEF OwnedBy
  <2>2. ASSUME NEW i \in OwnedBy(mm, r) PROVE Freeable(p, i)
    <3>1. i \in Frames /\ i \in Pages /\ i # OutOfMemory /\ i \in p.used
      BY Zenon, <1>1, <1>2
    <3> QED BY Zenon, <3>1 DEF Freeable, Frames, OutOfMemory
  <2>3. ASSUME NEW i \in Walk(mm, r), i \in Pages, i # OutOfMemory PROVE i \in OwnedBy(mm, r)
    <3>1. CASE i \in {r} \cup Tables(mm, r)
      BY Zenon, <3>1 DEF OwnedBy
    <3>2. CASE i \notin {r} \cup Tables(mm, r)
      <4>1. i \in UNION {Leaves(mm, t) : t \in Tables(mm, r)}
        BY Zenon, <3>2 DEF Walk
      <4>2. PICK t \in Tables(mm, r) : i \in Leaves(mm, t)
        BY <4>1
      <4>3. PICK g \in DOMAIN mm[r] : t = mm[r][g]
        BY Zenon DEF Tables
      <4>4. PICK sl \in DOMAIN mm[t] : i = mm[t][sl]
        BY Zenon, <4>2 DEF Leaves
      <4>5. g = "low"
        BY Zenon, <2>3, <4>3, <4>4
      <4>6. i \in OwnLeaves(mm, r)
        BY Zenon, <2>3, <4>2, <4>3, <4>5 DEF OwnLeaves
      <4> QED BY Zenon, <4>6 DEF OwnedBy
    <3> QED BY Zenon, <3>1, <3>2
  <2>4. \A i : Freeable(p, i) => i \in Pages /\ i # OutOfMemory
    BY Zenon DEF Freeable, OutOfMemory
  <2> QED BY Zenon, <1>3, <2>1, <2>2, <2>3, <2>4
<1>5. n.used = p.used \ OwnedBy(mm, r)
  <2>1. ok # {}
    BY Zenon, <1>4 DEF OwnedBy
  <2>2. n = [used  |-> p.used \ ok, free  |-> p.free + Cardinality(ok), taken |-> p.taken - Cardinality(ok),
             last  |-> IF Least(ok) < p.last THEN Least(ok) ELSE p.last]
    BY Zenon, <1>3, <2>1 DEF Freed
  <2>3. n.used = p.used \ ok
    BY <2>2
  <2> QED BY Zenon, <1>4, <2>3
<1>6. FreePages(n) \subseteq Frames
  BY Zenon, <1>2, <1>5 DEF Accounted, FreePages
<1>7. X \subseteq n.used \cap Frames
  BY Zenon, <1>1, <1>5 DEF Accounted
<1>8. ASSUME NEW q \in R \ {r} PROVE Tree(mm, q) /\ OwnedBy(mm, q) \subseteq n.used \ X
  <2>1. OwnedBy(mm, r) \cap OwnedBy(mm, q) = {} /\ Tree(mm, q) /\ OwnedBy(mm, q) \subseteq p.used \ X
    BY Zenon DEF Accounted
  <2> QED BY Zenon, <1>5, <2>1
<1>9. ASSUME ~gone, NEW i \in n.used \cap Frames
      PROVE  i \in X \cup UNION {OwnedBy(mm, q) : q \in R \ {r}}
  <2>1. i \in X \cup UNION {OwnedBy(mm, q) : q \in R} /\ i \notin OwnedBy(mm, r)
    BY Zenon, <1>5, <1>9 DEF Accounted
  <2>2. i \in X \/ \E q \in R : i \in OwnedBy(mm, q)
    BY <2>1
  <2> QED BY Zenon, <2>1, <2>2
<1>10. \A q, o \in R \ {r} : q # o => OwnedBy(mm, q) \cap OwnedBy(mm, o) = {}
  BY Zenon DEF Accounted
<1> QED BY Zenon, <1>6, <1>7, <1>8, <1>9, <1>10 DEF Accounted
-----------------------------------------------------------------------------
(* The same of a machine state in the middle of a step. *)
Settled(m, R, X) == Sound(m) /\ Accounted(m.pmm, m.mem, exhausted \/ m.out, R, X)

LEMMA GrabIs ==
    ASSUME NEW m, Sound(m)
    PROVE  /\ Grab(m).pmm = Allocated(m.pmm) /\ Grab(m).ok = m.ok
           /\ FreePages(m.pmm) = {} => Grab(m).mem = m.mem /\ Grab(m).out
           /\ FreePages(m.pmm) # {} => /\ Grab(m).mem = [m.mem EXCEPT ![NextPage(m.pmm)] = Blank]
                                       /\ Grab(m).out = m.out
<1>1. PICK a : a = Allocated(m.pmm)
  BY Zenon
<1>2. CASE FreePages(m.pmm) = {}
  <2>1. Grab(m) = [m EXCEPT !.pmm = a, !.out = TRUE]
    BY Zenon, <1>1, <1>2, NoPage DEF Grab, Sound
  <2>2. Grab(m) = [pmm |-> a, mem |-> m.mem, out |-> TRUE, ok |-> m.ok]
    BY Zenon, <2>1 DEF Sound
  <2>3. PICK n : n = Grab(m)
    BY Zenon
  <2>4. n = [pmm |-> a, mem |-> m.mem, out |-> TRUE, ok |-> m.ok]
    BY Zenon, <2>2, <2>3
  <2>5. n.pmm = a /\ n.mem = m.mem /\ n.out /\ n.ok = m.ok
    BY Zenon, <2>4
  <2> QED BY Zenon, <1>1, <1>2, <2>3, <2>5
<1>3. CASE FreePages(m.pmm) # {}
  <2>0. NextPage(m.pmm) # OutOfMemory
    BY Zenon, <1>3, MemoryMap DEF Sound, Books, FreePages, OutOfMemory, AllocatorKeeps
  <2>1. Grab(m) = [m EXCEPT !.pmm = a, !.mem[NextPage(m.pmm)] = Blank]
    BY Zenon, <1>1, <2>0 DEF Grab
  <2>2. PICK b : b = [m.mem EXCEPT ![NextPage(m.pmm)] = Blank]
    BY Zenon
  <2>3. Grab(m) = [pmm |-> a, mem |-> b, out |-> m.out, ok |-> m.ok]
    BY Zenon, <2>1, <2>2 DEF Sound
  <2>4. PICK n : n = Grab(m)
    BY Zenon
  <2>5. n = [pmm |-> a, mem |-> b, out |-> m.out, ok |-> m.ok]
    BY Zenon, <2>3, <2>4
  <2>6. n.pmm = a /\ n.mem = b /\ n.out = m.out /\ n.ok = m.ok
    BY Zenon, <2>5
  <2> QED BY Zenon, <1>1, <1>3, <2>2, <2>4, <2>6
<1> QED BY Zenon, <1>2, <1>3

\* What a write to the table t makes of a machine whose memory is mm.
Wrote(m, mm, t, e, f, n) ==
    /\ n.mem = [mm EXCEPT ![t] = Entered(mm[t], e, f)]
    /\ n.pmm = m.pmm /\ n.out = m.out /\ n.ok = m.ok

LEMMA WriteIs ==
    ASSUME NEW m, Sound(m), NEW t, NEW e, NEW f
    PROVE  Wrote(m, m.mem, t, e, f, Write(m, t, e, f))
<1>1. PICK v : v = Entered(m.mem[t], e, f)
  BY Zenon
<1>2. Write(m, t, e, f) = [m EXCEPT !.mem[t] = v]
  BY Zenon, <1>1 DEF Write
<1>3. PICK b : b = [m.mem EXCEPT ![t] = v]
  BY Zenon
<1>4. Write(m, t, e, f) = [pmm |-> m.pmm, mem |-> b, out |-> m.out, ok |-> m.ok]
  BY Zenon, <1>2, <1>3 DEF Sound
<1>5. PICK n : n = Write(m, t, e, f)
  BY Zenon
<1>6. n = [pmm |-> m.pmm, mem |-> b, out |-> m.out, ok |-> m.ok]
  BY Zenon, <1>4, <1>5
<1>7. n.pmm = m.pmm /\ n.mem = b /\ n.out = m.out /\ n.ok = m.ok
  BY Zenon, <1>6
<1>8. Wrote(m, m.mem, t, e, f, n)
  BY Zenon, <1>1, <1>3, <1>7 DEF Wrote
<1> QED BY Zenon, <1>5, <1>8

LEMMA PanickedIs ==
    ASSUME NEW m, Sound(m)
    PROVE  /\ Panicked(m).mem = m.mem /\ Panicked(m).pmm = m.pmm
           /\ Panicked(m).out = m.out /\ ~Panicked(m).ok
<1>1. PICK k : k = FALSE
  BY Zenon
<1>2. Panicked(m) = [m EXCEPT !.ok = k]
  BY Zenon, <1>1 DEF Panicked
<1>3. Panicked(m) = [pmm |-> m.pmm, mem |-> m.mem, out |-> m.out, ok |-> k]
  BY Zenon, <1>2 DEF Sound
<1>4. PICK n : n = Panicked(m)
  BY Zenon
<1>5. n = [pmm |-> m.pmm, mem |-> m.mem, out |-> m.out, ok |-> k]
  BY Zenon, <1>3, <1>4
<1>6. n.pmm = m.pmm /\ n.mem = m.mem /\ n.out = m.out /\ n.ok = k
  BY Zenon, <1>5
<1> QED BY Zenon, <1>1, <1>4, <1>6

\* alloc_page in the middle of a step: the page is held by the step.
LEMMA GrabFits ==
    ASSUME NEW m, NEW R, NEW X, Settled(m, R, X), NEW f, f = NextPage(m.pmm), NEW n, n = Grab(m)
    PROVE  /\ Settled(n, R, X \cup ({f} \ {OutOfMemory})) /\ f \notin X
           /\ \A q \in R : Same(m.mem, n.mem, q)
           /\ f # OutOfMemory => n.mem[f] = Blank /\ f \notin m.pmm.used
           /\ f = OutOfMemory => n.mem = m.mem /\ FreePages(m.pmm) = {} /\ FreePages(n.pmm) = {} /\ n.out
<1>1. /\ Sound(m) /\ AllocatorKeeps /\ Books(m.pmm)
      /\ Accounted(m.pmm, m.mem, exhausted \/ m.out, R, X) /\ Sound(n)
  BY Zenon, GrabSound DEF Settled, Sound
<1>2. PICK p, mm, g : p = m.pmm /\ mm = m.mem /\ g = (exhausted \/ m.out)
  BY Zenon
<1>3. n.pmm = Allocated(p)
  BY Zenon, <1>1, <1>2, GrabIs
<1>4. CASE FreePages(p) = {}
  <2>1. n.mem = mm /\ n.out
    BY Zenon, <1>1, <1>2, <1>4, GrabIs
  <2>2. f = OutOfMemory /\ FreePages(n.pmm) = {}
    BY Zenon, <1>1, <1>2, <1>3, <1>4, NoPage
  <2>3. Accounted(n.pmm, mm, g, R, X)
    BY Zenon, <1>1, <1>2, <1>3, <1>4, NoPageTaken
  <2>4. Accounted(n.pmm, mm, TRUE, R, X)
    BY Zenon, <2>3, FramesLost
  <2>5. Accounted(n.pmm, n.mem, exhausted \/ n.out, R, X)
    BY Zenon, <2>1, <2>4
  <2>6. X \cup ({f} \ {OutOfMemory}) = X /\ f \notin X
    BY Zenon, <1>1, <2>2, FramesAre DEF Accounted
  <2>7. Settled(n, R, X \cup ({f} \ {OutOfMemory}))
    BY Zenon, <1>1, <2>5, <2>6 DEF Settled
  <2>8. \A q \in R : Same(m.mem, n.mem, q)
    BY Zenon, <1>2, <2>1 DEF Same
  <2> QED BY Zenon, <1>2, <1>4, <2>1, <2>2, <2>6, <2>7, <2>8
<1>5. CASE FreePages(p) # {}
  <2>1. n.mem = [mm EXCEPT ![f] = Blank] /\ n.out = m.out
    BY Zenon, <1>1, <1>2, <1>5, GrabIs
  <2>2. /\ Accounted(Allocated(p), n.mem, g, R, X \cup {f})
        /\ \A q \in R : Same(mm, n.mem, q)
        /\ f \in Frames /\ f \notin X /\ n.mem[f] = Blank /\ f \notin p.used
    <3>1. TakesPage(p, mm, g, R, X, f, n.mem)
      BY Zenon, <1>1, <1>2, <1>5, <2>1 DEF TakesPage
    <3>2. HoldsPage(p, mm, g, R, X, f, n.mem)
      BY Zenon, <3>1, PageTaken
    <3> QED BY Zenon, <3>2 DEF HoldsPage
  <2>3. f # OutOfMemory
    BY Zenon, <2>2, FramesAre
  <2>4. X \cup ({f} \ {OutOfMemory}) = X \cup {f}
    BY Zenon, <2>3
  <2>5. Settled(n, R, X \cup ({f} \ {OutOfMemory}))
    BY Zenon, <1>1, <1>2, <1>3, <2>1, <2>2, <2>4 DEF Settled
  <2> QED BY Zenon, <1>2, <2>2, <2>3, <2>5
<1> QED BY Zenon, <1>4, <1>5

LEMMA RegionIs ==
    /\ \A sl \in SlotsOf("low") : Region(sl) = "low"
    /\ Region("mmio") = "mmio" /\ Region("surface") = "surface"
  BY DEF SlotsOf, Region

\* map_page without a page for the table it needs: zeroed_table panics.
LacksTable(m, R, X, r, sl, f, n) ==
    /\ Settled(m, R, X) /\ Region(sl) \notin DOMAIN m.mem[r] /\ FreePages(m.pmm) = {}
    /\ n = MapPage(m, r, sl, f)

Stopped(m, R, X, n) ==
    /\ Accounted(n.pmm, n.mem, TRUE, R, X) /\ Sound(n)
    /\ n.mem = m.mem /\ n.out /\ ~n.ok /\ FreePages(n.pmm) = {}

LEMMA MapPageStuck ==
    ASSUME NEW m, NEW R, NEW X, NEW r, NEW sl, NEW f, NEW n, LacksTable(m, R, X, r, sl, f, n)
    PROVE  Stopped(m, R, X, n)
<1> SUFFICES ASSUME Settled(m, R, X), Region(sl) \notin DOMAIN m.mem[r], FreePages(m.pmm) = {},
                    n = MapPage(m, r, sl, f)
             PROVE  /\ Accounted(n.pmm, n.mem, TRUE, R, X) /\ Sound(n)
                    /\ n.mem = m.mem /\ n.out /\ ~n.ok /\ FreePages(n.pmm) = {}
  BY Zenon DEF LacksTable, Stopped
<1>1. Sound(m) /\ NextPage(m.pmm) = OutOfMemory
  BY Zenon, NoPage DEF Settled, Sound
<1>2. n = Panicked(Grab(m))
  BY Zenon, <1>1 DEF MapPage
<1>3. PICK h : h = Grab(m)
  BY Zenon
<1>4. Sound(h) /\ Sound(n)
  BY Zenon, <1>1, <1>2, <1>3, GrabSound, PanickedSound
<1>5. n.mem = h.mem /\ n.pmm = h.pmm /\ n.out = h.out /\ ~n.ok
  BY Zenon, <1>2, <1>3, <1>4, PanickedIs
<1>6. h.mem = m.mem /\ FreePages(h.pmm) = {} /\ h.out /\ Settled(h, R, X \cup ({OutOfMemory} \ {OutOfMemory}))
  BY <1>1, <1>3, GrabFits
<1>7. X \cup ({OutOfMemory} \ {OutOfMemory}) = X
  BY Zenon
<1>8. Accounted(h.pmm, h.mem, exhausted \/ h.out, R, X)
  BY Zenon, <1>6, <1>7 DEF Settled
<1>9. Accounted(h.pmm, h.mem, TRUE, R, X)
  BY Zenon, <1>8, FramesLost
<1> QED BY Zenon, <1>4, <1>5, <1>6, <1>9

LEMMA FitsLost ==
    ASSUME NEW n, NEW R, NEW X, NEW Y, Sound(n), n.out, Accounted(n.pmm, n.mem, TRUE, R, X), Y \subseteq X
    PROVE  Settled(n, R, Y)
<1>1. Accounted(n.pmm, n.mem, TRUE, R, Y)
  BY Zenon, FramesLost
<1> QED BY Zenon, <1>1 DEF Settled

\* A new, empty table for a region.
LEMMA NewTable ==
    ASSUME NEW m, NEW R, NEW X, Settled(m, R, X), NEW r \in R, NEW g \in Regions,
           g \notin DOMAIN m.mem[r], FreePages(m.pmm) # {}, NEW t, t = NextPage(m.pmm),
           NEW n, n = Write(Grab(m), r, g, t)
    PROVE  /\ Settled(n, R, X) /\ n.ok = m.ok
           /\ \A q \in R \ {r} : Same(m.mem, n.mem, q)
           /\ DOMAIN n.mem[r] = DOMAIN m.mem[r] \cup {g} /\ n.mem[r][g] = t /\ n.mem[t] = Blank
           /\ \A k \in DOMAIN m.mem[r] : n.mem[r][k] = m.mem[r][k] /\ n.mem[m.mem[r][k]] = m.mem[m.mem[r][k]]
<1>1. PICK h : h = Grab(m)
  BY Zenon
<1>2. Sound(m) /\ Sound(h) /\ h.ok = m.ok /\ t # OutOfMemory
  <2>1. Sound(m) /\ Sound(h) /\ h.ok = m.ok
    BY Zenon, <1>1, GrabSound, GrabIs DEF Settled
  <2>2. t # OutOfMemory
    BY Zenon, GrabFits
  <2> QED BY Zenon, <2>1, <2>2
<1>3. /\ Settled(h, R, X \cup ({t} \ {OutOfMemory})) /\ t \notin X /\ h.mem[t] = Blank /\ t \notin m.pmm.used
      /\ \A q \in R : Same(m.mem, h.mem, q)
  BY <1>1, <1>2, GrabFits
<1>4. PICK Y : Y = X \cup {t} /\ Settled(h, R, Y) /\ Y \ {t} = X /\ t \in Y
  BY Zenon, <1>2, <1>3
<1>5. PICK p, mm, gone : p = h.pmm /\ mm = h.mem /\ gone = (exhausted \/ h.out)
  BY Zenon
<1>6. Accounted(p, mm, gone, R, Y) /\ mm[t] = Blank /\ mm[r] = m.mem[r] /\ g \notin DOMAIN mm[r]
  BY Zenon, <1>3, <1>4, <1>5 DEF Settled, Same
<1>7. /\ n.mem = [mm EXCEPT ![r] = Entered(mm[r], g, t)] /\ n.pmm = p /\ n.out = h.out /\ n.ok = h.ok /\ Sound(n)
  <2>1. Wrote(h, mm, r, g, t, n) /\ Sound(n)
    BY Zenon, <1>1, <1>2, <1>5, WriteIs, WriteSound
  <2> QED BY Zenon, <1>5, <2>1 DEF Wrote
<1>8. Accounted(p, n.mem, gone, R, X) /\ \A q \in R \ {r} : Same(mm, n.mem, q)
  <2>1. AddsTable(p, mm, gone, R, Y, r, g, t, n.mem)
    BY Zenon, <1>4, <1>6, <1>7 DEF AddsTable
  <2>2. Given(p, mm, gone, R, Y, r, t, n.mem)
    BY Zenon, <2>1, TableAdds
  <2> QED BY Zenon, <1>4, <2>2 DEF Given
<1>9. Settled(n, R, X)
  BY Zenon, <1>5, <1>7, <1>8 DEF Settled
<1>10. \A q \in R \ {r} : Same(m.mem, n.mem, q)
  BY Zenon, <1>3, <1>5, <1>8, SameAgain
<1>11. /\ r \in OwnedBy(mm, r) /\ OwnedBy(mm, r) \subseteq Pages /\ Tables(mm, r) \subseteq OwnedBy(mm, r)
       /\ DOMAIN mm = Pages /\ t \in Pages /\ t \notin OwnedBy(mm, r) /\ Tree(mm, r)
  <2>1. Y \subseteq Frames /\ OwnedBy(mm, r) \cap Y = {} /\ DOMAIN mm = Pages /\ Tree(mm, r)
    BY Zenon, <1>6 DEF Accounted
  <2>2. r \in OwnedBy(mm, r) /\ OwnedBy(mm, r) \subseteq Pages /\ Tables(mm, r) \subseteq OwnedBy(mm, r)
    BY Zenon, <1>6, OwnedArePages
  <2> QED BY Zenon, <1>4, <2>1, <2>2, FramesAre
<1>12. n.mem[r] = Entered(mm[r], g, t) /\ \A x \in Pages \ {r} : n.mem[x] = mm[x]
  BY Zenon, <1>7, <1>11
<1>13. Extends(n.mem[r], m.mem[r], g, t)
  BY Zenon, <1>6, <1>12, EnteredIs
<1>14. n.mem[t] = Blank
  BY Zenon, <1>6, <1>11, <1>12
<1>15. DOMAIN n.mem[r] = DOMAIN m.mem[r] \cup {g} /\ n.mem[r][g] = t
  BY Zenon, <1>13 DEF Extends
<1>16. ASSUME NEW k \in DOMAIN m.mem[r]
       PROVE  n.mem[r][k] = m.mem[r][k] /\ n.mem[m.mem[r][k]] = m.mem[m.mem[r][k]]
  <2>1. k # g
    BY Zenon
  <2>2. n.mem[r][k] = m.mem[r][k]
    BY Zenon, <1>13, <2>1 DEF Extends
  <2>3. m.mem[r][k] \in Tables(m.mem, r) /\ Same(m.mem, mm, r)
    BY Zenon, <1>3, <1>5, LowIsTable
  <2>4. mm[m.mem[r][k]] = m.mem[m.mem[r][k]]
    BY Zenon, <2>3 DEF Same
  <2>5. m.mem[r][k] \in Pages \ {r}
    <3>1. mm[r][k] # r /\ mm[r][k] \in Tables(mm, r)
      BY Zenon, <1>6, <1>11, LowIsTable DEF Tree
    <3> QED BY Zenon, <1>6, <1>11, <3>1
  <2> QED BY Zenon, <1>12, <2>2, <2>4, <2>5
<1> QED BY Zenon, <1>2, <1>7, <1>9, <1>10, <1>14, <1>15, <1>16

\* map_page of a page in the low region, where nothing was mapped before.
Mapped(m, n, R, r, g, new) ==
    /\ \A q \in R \ {r} : Same(m.mem, n.mem, q)
    /\ DOMAIN n.mem[r] \subseteq DOMAIN m.mem[r] \cup {g}
    /\ LowSlots(n.mem, r) \subseteq LowSlots(m.mem, r) \cup new

WritesLeaf(m, R, X, r, t, sl, f, n) ==
    /\ Settled(m, R, X) /\ r \in R /\ "low" \in DOMAIN m.mem[r] /\ t = m.mem[r]["low"]
    /\ sl \in SlotsOf("low") /\ sl \notin DOMAIN m.mem[t]
    /\ f \in X \cup {OutOfMemory} /\ n = Write(m, t, sl, f)

LeafIn(m, R, X, r, t, sl, f, n) ==
    /\ Settled(n, R, X \ {f})
    /\ \A q \in R \ {r} : Same(m.mem, n.mem, q)
    /\ n.mem[r] = m.mem[r] /\ DOMAIN n.mem[t] = {sl} \cup DOMAIN m.mem[t]

LEMMA LeafWritten ==
    ASSUME NEW m, NEW R, NEW X, NEW r, NEW t, NEW sl, NEW f, NEW n, WritesLeaf(m, R, X, r, t, sl, f, n)
    PROVE  LeafIn(m, R, X, r, t, sl, f, n)
<1> SUFFICES ASSUME Settled(m, R, X), r \in R, "low" \in DOMAIN m.mem[r], t = m.mem[r]["low"],
                    sl \in SlotsOf("low"), sl \notin DOMAIN m.mem[t],
                    f \in X \cup {OutOfMemory}, n = Write(m, t, sl, f)
             PROVE  /\ Settled(n, R, X \ {f})
                    /\ \A q \in R \ {r} : Same(m.mem, n.mem, q)
                    /\ n.mem[r] = m.mem[r] /\ DOMAIN n.mem[t] = {sl} \cup DOMAIN m.mem[t]
  BY Zenon DEF WritesLeaf, LeafIn
<1>1. Sound(m) /\ Sound(n) /\ Accounted(m.pmm, m.mem, exhausted \/ m.out, R, X)
  BY Zenon, WriteSound DEF Settled
<1>2. PICK p, mm, g : p = m.pmm /\ mm = m.mem /\ g = (exhausted \/ m.out)
  BY Zenon
<1>3. n.mem = [mm EXCEPT ![t] = Entered(mm[t], sl, f)] /\ n.pmm = p /\ n.out = m.out
  <2>1. Wrote(m, mm, t, sl, f, n)
    BY Zenon, <1>1, <1>2, WriteIs
  <2> QED BY Zenon, <1>2, <2>1 DEF Wrote
<1>4. Accounted(p, n.mem, g, R, X \ {f}) /\ \A q \in R \ {r} : Same(mm, n.mem, q)
  <2>1. AddsLeaf(p, mm, g, R, X, r, t, sl, f, n.mem)
    BY Zenon, <1>1, <1>2, <1>3 DEF AddsLeaf
  <2>2. Given(p, mm, g, R, X, r, f, n.mem)
    BY Zenon, <2>1, LeafAdds
  <2> QED BY Zenon, <2>2 DEF Given
<1>5. Settled(n, R, X \ {f})
  BY Zenon, <1>1, <1>2, <1>3, <1>4 DEF Settled
<1>6. t \in Pages /\ r \in Pages /\ t # r /\ DOMAIN mm = Pages
  <2>1. Tree(mm, r) /\ DOMAIN mm = Pages
    BY Zenon, <1>1, <1>2 DEF Accounted
  <2>2. r \in OwnedBy(mm, r) /\ OwnedBy(mm, r) \subseteq Pages /\ Tables(mm, r) \subseteq OwnedBy(mm, r)
    BY Zenon, <1>1, <1>2, OwnedArePages
  <2>3. t \in Tables(mm, r)
    BY Zenon, <1>2, LowIsTable
  <2>4. t # r
    BY Zenon, <1>2, <2>1 DEF Tree
  <2> QED BY Zenon, <2>1, <2>2, <2>3, <2>4
<1>7. n.mem[r] = mm[r] /\ n.mem[t] = Entered(mm[t], sl, f)
  BY Zenon, <1>3, <1>6
<1>8. DOMAIN n.mem[t] = {sl} \cup DOMAIN mm[t]
  <2>1. PICK v : v = mm[t]
    BY Zenon
  <2>2. PICK e : e = Entered(v, sl, f)
    BY Zenon
  <2>3. Extends(e, v, sl, f)
    BY Zenon, <2>2, EnteredIs
  <2>4. DOMAIN e = {sl} \cup DOMAIN v
    BY Zenon, <2>3 DEF Extends
  <2> QED BY Zenon, <1>7, <2>1, <2>2, <2>4
<1> QED BY Zenon, <1>2, <1>4, <1>5, <1>7, <1>8

LEMMA MapPageOwn ==
    ASSUME NEW m, NEW R, NEW X, Settled(m, R, X), NEW r \in R,
           NEW sl \in SlotsOf("low"), sl \notin LowSlots(m.mem, r),
           NEW f \in X \cup {OutOfMemory}, NEW n, n = MapPage(m, r, sl, f)
    PROVE  Settled(n, R, X \ {f}) /\ Mapped(m, n, R, r, "low", {sl})
<1>1. Region(sl) = "low" /\ Sound(m) /\ Books(m.pmm)
  BY Zenon, RegionIs DEF Settled, Sound
<1>2. CASE "low" \in DOMAIN m.mem[r]
  <2>1. PICK t : t = m.mem[r]["low"]
    BY Zenon
  <2>2. sl \notin DOMAIN m.mem[t] /\ LowSlots(m.mem, r) = DOMAIN m.mem[t]
    BY Zenon, <1>2, <2>1 DEF LowSlots
  <2>3. n = Write(m, t, sl, f)
    BY Zenon, <1>1, <1>2, <2>1 DEF MapPage
  <2>4. /\ Settled(n, R, X \ {f})
        /\ \A q \in R \ {r} : Same(m.mem, n.mem, q)
        /\ n.mem[r] = m.mem[r] /\ DOMAIN n.mem[t] = {sl} \cup DOMAIN m.mem[t]
    <3>1. WritesLeaf(m, R, X, r, t, sl, f, n)
      BY Zenon, <1>2, <2>1, <2>2, <2>3 DEF WritesLeaf
    <3>2. LeafIn(m, R, X, r, t, sl, f, n)
      BY Zenon, <3>1, LeafWritten
    <3> QED BY Zenon, <3>2 DEF LeafIn
  <2>5. LowSlots(n.mem, r) = {sl} \cup DOMAIN m.mem[t]
    BY Zenon, <1>2, <2>1, <2>4 DEF LowSlots
  <2> QED BY Zenon, <2>2, <2>4, <2>5 DEF Mapped
<1>3. CASE "low" \notin DOMAIN m.mem[r] /\ FreePages(m.pmm) = {}
  <2>a. LacksTable(m, R, X, r, sl, f, n)
    BY Zenon, <1>1, <1>3 DEF LacksTable
  <2>b. Stopped(m, R, X, n)
    BY Zenon, <2>a, MapPageStuck
  <2>1. /\ Accounted(n.pmm, n.mem, TRUE, R, X) /\ Sound(n)
        /\ n.mem = m.mem /\ n.out
    BY Zenon, <2>b DEF Stopped
  <2>2. Settled(n, R, X \ {f})
    <3>1. X \ {f} \subseteq X
      BY Zenon
    <3> QED BY Zenon, <2>1, <3>1, FitsLost
  <2> QED BY Zenon, <2>1, <2>2 DEF Mapped, Same
<1>4. CASE "low" \notin DOMAIN m.mem[r] /\ FreePages(m.pmm) # {}
  <2>1. PICK t : t = NextPage(m.pmm)
    BY Zenon
  <2>2. t # OutOfMemory
    BY Zenon, <1>4, <2>1, GrabFits
  <2>3. PICK h : h = Write(Grab(m), r, "low", t)
    BY Zenon
  <2>4. n = Write(h, t, sl, f)
    BY Zenon, <1>1, <1>4, <2>1, <2>2, <2>3 DEF MapPage
  <2>5. /\ Settled(h, R, X)
        /\ \A q \in R \ {r} : Same(m.mem, h.mem, q)
        /\ DOMAIN h.mem[r] = DOMAIN m.mem[r] \cup {"low"} /\ h.mem[r]["low"] = t /\ h.mem[t] = Blank
    <3>1. "low" \in Regions
      BY Zenon DEF Regions
    <3> QED BY <1>4, <2>1, <2>3, <3>1, NewTable
  <2>6. "low" \in DOMAIN h.mem[r] /\ sl \notin DOMAIN h.mem[t] /\ DOMAIN h.mem[t] = {}
    BY Zenon, <2>5, BlankIs
  <2>7. /\ Settled(n, R, X \ {f})
        /\ \A q \in R \ {r} : Same(h.mem, n.mem, q)
        /\ n.mem[r] = h.mem[r] /\ DOMAIN n.mem[t] = {sl} \cup DOMAIN h.mem[t]
    <3>1. WritesLeaf(h, R, X, r, t, sl, f, n)
      BY Zenon, <2>4, <2>5, <2>6 DEF WritesLeaf
    <3>2. LeafIn(h, R, X, r, t, sl, f, n)
      BY Zenon, <3>1, LeafWritten
    <3> QED BY Zenon, <3>2 DEF LeafIn
  <2>8. \A q \in R \ {r} : Same(m.mem, n.mem, q)
    BY Zenon, <2>5, <2>7, SameAgain
  <2>9. LowSlots(n.mem, r) = {sl}
    BY Zenon, <2>5, <2>6, <2>7 DEF LowSlots
  <2> QED BY Zenon, <2>5, <2>7, <2>8, <2>9 DEF Mapped
<1> QED BY Zenon, <1>2, <1>3, <1>4

\* map_page of a page that is lent to the address space.
WritesLent(m, R, X, r, g, f, n) ==
    /\ Settled(m, R, X) /\ r \in R /\ g \in {"mmio", "surface"}
    /\ g \in DOMAIN m.mem[r] /\ n = Write(m, m.mem[r][g], g, f)

LentIn(m, R, X, r, n) ==
    /\ Settled(n, R, X)
    /\ \A q \in R \ {r} : Same(m.mem, n.mem, q)
    /\ n.mem[r] = m.mem[r] /\ LowSlots(n.mem, r) = LowSlots(m.mem, r)

LEMMA LentWritten ==
    ASSUME NEW m, NEW R, NEW X, NEW r, NEW g, NEW f, NEW n, WritesLent(m, R, X, r, g, f, n)
    PROVE  LentIn(m, R, X, r, n)
<1> SUFFICES ASSUME Settled(m, R, X), r \in R, g \in {"mmio", "surface"},
                    g \in DOMAIN m.mem[r], n = Write(m, m.mem[r][g], g, f)
             PROVE  /\ Settled(n, R, X)
                    /\ \A q \in R \ {r} : Same(m.mem, n.mem, q)
                    /\ n.mem[r] = m.mem[r] /\ LowSlots(n.mem, r) = LowSlots(m.mem, r)
  BY Zenon DEF WritesLent, LentIn
<1>1. Sound(m) /\ Sound(n) /\ Accounted(m.pmm, m.mem, exhausted \/ m.out, R, X)
  BY Zenon, WriteSound DEF Settled
<1>2. PICK p, mm, gone, t : p = m.pmm /\ mm = m.mem /\ gone = (exhausted \/ m.out) /\ t = mm[r][g]
  BY Zenon
<1>3. n.mem = [mm EXCEPT ![t] = Entered(mm[t], g, f)] /\ n.pmm = p /\ n.out = m.out
  <2>1. n = Write(m, t, g, f)
    BY Zenon, <1>2
  <2>2. Wrote(m, mm, t, g, f, n)
    BY Zenon, <1>1, <1>2, <2>1, WriteIs
  <2> QED BY Zenon, <1>2, <2>2 DEF Wrote
<1>4. g # "low"
  OBVIOUS
<1>5. /\ Accounted(p, n.mem, gone, R, X)
      /\ \A q \in R \ {r} : Same(mm, n.mem, q)
      /\ n.mem[r] = mm[r] /\ ("low" \in DOMAIN mm[r] => n.mem[mm[r]["low"]] = mm[mm[r]["low"]])
  BY <1>1, <1>2, <1>3, <1>4, LeafLent
<1>6. Settled(n, R, X)
  BY Zenon, <1>1, <1>2, <1>3, <1>5 DEF Settled
<1>7. LowSlots(n.mem, r) = LowSlots(m.mem, r)
  BY Zenon, <1>2, <1>5 DEF LowSlots
<1> QED BY Zenon, <1>2, <1>5, <1>6, <1>7

LEMMA MapPageLent ==
    ASSUME NEW m, NEW R, NEW X, Settled(m, R, X), NEW r \in R, NEW g \in {"mmio", "surface"},
           NEW f, NEW n, n = MapPage(m, r, g, f)
    PROVE  Settled(n, R, X) /\ Mapped(m, n, R, r, g, {})
<1>1. Region(g) = g /\ Sound(m) /\ g # "low" /\ g \in Regions
  <2>1. Region(g) = g
    BY Zenon, RegionIs
  <2>2. g # "low" /\ g \in Regions
    BY DEF Regions
  <2> QED BY Zenon, <2>1, <2>2 DEF Settled
<1>2. CASE g \in DOMAIN m.mem[r]
  <2>1. n = Write(m, m.mem[r][g], g, f)
    BY Zenon, <1>1, <1>2 DEF MapPage
  <2>2. /\ Settled(n, R, X)
        /\ \A q \in R \ {r} : Same(m.mem, n.mem, q)
        /\ n.mem[r] = m.mem[r] /\ LowSlots(n.mem, r) = LowSlots(m.mem, r)
    <3>1. WritesLent(m, R, X, r, g, f, n)
      BY Zenon, <1>2, <2>1 DEF WritesLent
    <3>2. LentIn(m, R, X, r, n)
      BY Zenon, <3>1, LentWritten
    <3> QED BY Zenon, <3>2 DEF LentIn
  <2> QED BY Zenon, <2>2 DEF Mapped
<1>3. CASE g \notin DOMAIN m.mem[r] /\ FreePages(m.pmm) = {}
  <2>a. LacksTable(m, R, X, r, g, f, n)
    BY Zenon, <1>1, <1>3 DEF LacksTable
  <2>b. Stopped(m, R, X, n)
    BY Zenon, <2>a, MapPageStuck
  <2>1. /\ Accounted(n.pmm, n.mem, TRUE, R, X) /\ Sound(n)
        /\ n.mem = m.mem /\ n.out
    BY Zenon, <2>b DEF Stopped
  <2>2. Settled(n, R, X)
    BY Zenon, <2>1, FitsLost
  <2> QED BY Zenon, <2>1, <2>2 DEF Mapped, Same
<1>4. CASE g \notin DOMAIN m.mem[r] /\ FreePages(m.pmm) # {}
  <2>1. PICK t : t = NextPage(m.pmm)
    BY Zenon
  <2>2. t # OutOfMemory
    BY Zenon, <1>4, <2>1, GrabFits
  <2>3. PICK h : h = Write(Grab(m), r, g, t)
    BY Zenon
  <2>4. n = Write(h, t, g, f)
    BY Zenon, <1>1, <1>4, <2>1, <2>2, <2>3 DEF MapPage
  <2>5. /\ Settled(h, R, X)
        /\ \A q \in R \ {r} : Same(m.mem, h.mem, q)
        /\ DOMAIN h.mem[r] = DOMAIN m.mem[r] \cup {g} /\ h.mem[r][g] = t
        /\ \A k \in DOMAIN m.mem[r] : h.mem[r][k] = m.mem[r][k] /\ h.mem[m.mem[r][k]] = m.mem[m.mem[r][k]]
    BY <1>1, <1>4, <2>1, <2>3, NewTable
  <2>6. LowSlots(h.mem, r) = LowSlots(m.mem, r)
    <3>1. CASE "low" \in DOMAIN m.mem[r]
      <4>1. "low" \in DOMAIN h.mem[r] /\ h.mem[r]["low"] = m.mem[r]["low"]
        BY Zenon, <2>5, <3>1
      <4>2. h.mem[h.mem[r]["low"]] = m.mem[m.mem[r]["low"]]
        BY <2>5, <3>1, <4>1
      <4> QED BY Zenon, <3>1, <4>1, <4>2 DEF LowSlots
    <3>2. CASE "low" \notin DOMAIN m.mem[r]
      <4>1. "low" \notin DOMAIN h.mem[r]
        BY Zenon, <1>1, <2>5, <3>2
      <4> QED BY Zenon, <3>2, <4>1 DEF LowSlots
    <3> QED BY Zenon, <3>1, <3>2
  <2>7. /\ Settled(n, R, X)
        /\ \A q \in R \ {r} : Same(h.mem, n.mem, q)
        /\ n.mem[r] = h.mem[r] /\ LowSlots(n.mem, r) = LowSlots(h.mem, r)
    <3>1. g \in DOMAIN h.mem[r] /\ n = Write(h, h.mem[r][g], g, f)
      BY Zenon, <2>4, <2>5
    <3>2. WritesLent(h, R, X, r, g, f, n)
      BY Zenon, <2>5, <3>1 DEF WritesLent
    <3>3. LentIn(h, R, X, r, n)
      BY Zenon, <3>2, LentWritten
    <3> QED BY Zenon, <3>3 DEF LentIn
  <2>8. \A q \in R \ {r} : Same(m.mem, n.mem, q)
    BY Zenon, <2>5, <2>7, SameAgain
  <2> QED BY Zenon, <2>5, <2>6, <2>7, <2>8 DEF Mapped
<1> QED BY Zenon, <1>2, <1>3, <1>4

\* alloc_page and map_page.
LEMMA MapOwnFits ==
    ASSUME NEW m, NEW R, NEW X, Settled(m, R, X), NEW r \in R,
           NEW sl \in SlotsOf("low"), sl \notin LowSlots(m.mem, r), NEW n, n = MapOwn(m, r, sl)
    PROVE  Settled(n, R, X) /\ Mapped(m, n, R, r, "low", {sl})
<1>1. PICK f, h : f = NextPage(m.pmm) /\ h = Grab(m)
  BY Zenon
<1>2. n = MapPage(h, r, sl, f)
  BY Zenon, <1>1 DEF MapOwn
<1>3. /\ Settled(h, R, X \cup ({f} \ {OutOfMemory})) /\ f \notin X
      /\ \A q \in R : Same(m.mem, h.mem, q)
  BY Zenon, <1>1, GrabFits
<1>4. PICK Y : Y = X \cup ({f} \ {OutOfMemory})
  BY Zenon
<1>5. f \in Y \cup {OutOfMemory} /\ Y \ {f} = X
  BY Zenon, <1>3, <1>4
<1>6. LowSlots(h.mem, r) = LowSlots(m.mem, r)
  BY Zenon, <1>3, SameTree
<1>7. Settled(n, R, Y \ {f}) /\ Mapped(h, n, R, r, "low", {sl})
  <2>1. Settled(h, R, Y) /\ sl \notin LowSlots(h.mem, r)
    BY Zenon, <1>3, <1>4, <1>6
  <2> QED BY Zenon, <1>2, <1>5, <2>1, MapPageOwn
<1>8. h.mem[r] = m.mem[r]
  BY Zenon, <1>3 DEF Same
<1>9. \A q \in R \ {r} : Same(m.mem, n.mem, q)
  BY Zenon, <1>3, <1>7, SameAgain DEF Mapped
<1> QED BY Zenon, <1>5, <1>6, <1>7, <1>8, <1>9 DEF Mapped

\* The same where there is no page and no root.
LEMMA MapOwnStuck ==
    ASSUME NEW m, NEW R, NEW X, Settled(m, R, X), FreePages(m.pmm) = {},
           NEW r, NEW sl, Region(sl) \notin DOMAIN m.mem[r], NEW n, n = MapOwn(m, r, sl)
    PROVE  Settled(n, R, X) /\ n.mem = m.mem /\ ~n.ok /\ FreePages(n.pmm) = {}
<1>1. PICK f, h : f = NextPage(m.pmm) /\ h = Grab(m)
  BY Zenon
<1>2. n = MapPage(h, r, sl, f) /\ f = OutOfMemory
  <2>1. f = OutOfMemory
    BY Zenon, <1>1, NoPage DEF Settled, Sound
  <2> QED BY Zenon, <1>1, <2>1 DEF MapOwn
<1>3. /\ Settled(h, R, X \cup ({f} \ {OutOfMemory})) /\ h.mem = m.mem /\ FreePages(h.pmm) = {}
  <2>1. Settled(h, R, X \cup ({f} \ {OutOfMemory}))
    BY Zenon, <1>1, GrabFits
  <2>2. h.mem = m.mem /\ FreePages(h.pmm) = {}
    BY Zenon, <1>1, GrabIs, NoPage DEF Settled, Sound
  <2> QED BY Zenon, <1>2, <2>1, <2>2
<1>4. X \cup ({f} \ {OutOfMemory}) = X
  BY Zenon, <1>2
<1>5. Settled(h, R, X) /\ Region(sl) \notin DOMAIN h.mem[r]
  BY Zenon, <1>3, <1>4
<1>6. /\ Accounted(n.pmm, n.mem, TRUE, R, X) /\ Sound(n)
      /\ n.mem = h.mem /\ n.out /\ ~n.ok /\ FreePages(n.pmm) = {}
  <2>1. LacksTable(h, R, X, r, sl, f, n)
    BY Zenon, <1>2, <1>3, <1>5 DEF LacksTable
  <2>2. Stopped(h, R, X, n)
    BY Zenon, <2>1, MapPageStuck
  <2> QED BY Zenon, <2>2 DEF Stopped
<1>7. Settled(n, R, X)
  BY Zenon, <1>6, FitsLost
<1> QED BY Zenon, <1>3, <1>6, <1>7
-----------------------------------------------------------------------------
(* The steps. *)
LEMMA AccountedAs ==
    ASSUME NEW p, NEW mm, NEW g, NEW h, NEW R, NEW X, Accounted(p, mm, g, R, X), g => h
    PROVE  Accounted(p, mm, h, R, X)
  BY Zenon DEF Accounted

LEMMA MachineSettled ==
    ASSUME AllocatorKeeps, FramesInv, ~hurt
    PROVE  Settled(Machine, LiveRoots, Elsewhere) /\ Machine.mem = mem /\ Machine.pmm = pmm /\ Machine.ok
<1>1. PICK n : n = Machine
  BY Zenon
<1>2. n.pmm = pmm /\ n.mem = mem /\ n.out = FALSE /\ n.ok = TRUE
  BY Zenon, <1>1 DEF Machine
<1>3. Sound(n) /\ Accounted(pmm, mem, exhausted, LiveRoots, Elsewhere)
  BY Zenon, <1>1, MachineSound DEF FramesInv
<1>4. Settled(n, LiveRoots, Elsewhere)
  <2>1. exhausted => exhausted \/ n.out
    BY Zenon
  <2>2. Accounted(n.pmm, n.mem, exhausted, LiveRoots, Elsewhere)
    BY Zenon, <1>2, <1>3
  <2>3. Accounted(n.pmm, n.mem, exhausted \/ n.out, LiveRoots, Elsewhere)
    BY Zenon, <2>1, <2>2 DEF Accounted
  <2> QED BY Zenon, <1>3, <2>3 DEF Settled
<1> QED BY Zenon, <1>1, <1>2, <1>4

\* new_address_space and elf::load: a new tree, or a panic with no page left.
LEMMA LoadedSettled ==
    ASSUME AllocatorKeeps, FramesInv, ~hurt
    PROVE  /\ Settled(Loaded, LiveRoots \cup ({Fresh} \ {OutOfMemory}), Elsewhere)
           /\ \A q \in LiveRoots : Same(mem, Loaded.mem, q)
           /\ Fresh \notin LiveRoots
           /\ Fresh # OutOfMemory => DOMAIN Loaded.mem[Fresh] \subseteq {"low"} /\ LowSlots(Loaded.mem, Fresh) \subseteq {"image"}
           /\ Fresh = OutOfMemory => ~Loaded.ok /\ FreePages(Loaded.pmm) = {} /\ Loaded.mem = mem
<1>1. PICK n, R, X, f, h : /\ n = Machine /\ R = LiveRoots /\ X = Elsewhere /\ f = Fresh
                           /\ h = Grab(n)
  BY Zenon
<1>2. Settled(n, R, X) /\ n.mem = mem /\ n.pmm = pmm
  BY Zenon, <1>1, MachineSettled
<1>3. f = NextPage(n.pmm)
  BY Zenon, <1>1, <1>2 DEF Fresh
<1>4. /\ Settled(h, R, X \cup ({f} \ {OutOfMemory})) /\ f \notin X
      /\ \A q \in R : Same(mem, h.mem, q)
      /\ f # OutOfMemory => h.mem[f] = Blank /\ f \notin pmm.used
      /\ f = OutOfMemory => h.mem = mem /\ FreePages(h.pmm) = {}
  BY <1>1, <1>2, <1>3, GrabFits
<1>5. PICK l : l = Loaded /\ l = MapOwn(h, f, "image")
  BY Zenon, <1>1 DEF Loaded
<1>6. /\ "image" \in SlotsOf("low") /\ Region("image") = "low"
  BY Zenon, RegionIs DEF SlotsOf
<1>7. f \notin R
  <2>1. ASSUME f \in R PROVE FALSE
    <3>1. f \in pmm.used /\ f # OutOfMemory
      <4>1. Accounted(pmm, mem, exhausted, R, X)
        BY Zenon, <1>1 DEF FramesInv
      <4>2. f \in OwnedBy(mem, f)
        BY Zenon, <2>1, <4>1, OwnedArePages
      <4>3. OwnedBy(mem, f) \subseteq pmm.used \ X
        BY Zenon, <2>1, <4>1 DEF Accounted
      <4> QED BY Zenon, <1>1, <2>1, <4>2, <4>3 DEF LiveRoots
    <3> QED BY Zenon, <1>4, <3>1
  <2> QED BY Zenon, <2>1
<1>8. CASE f # OutOfMemory
  <2>1. PICK Y, S : Y = X \cup {f} /\ Y \ {f} = X /\ S = R \cup {f}
    <3>1. (X \cup {f}) \ {f} = X
      BY Zenon, <1>4
    <3> QED BY Zenon, <3>1
  <2>2. X \cup ({f} \ {OutOfMemory}) = Y /\ R \cup ({f} \ {OutOfMemory}) = S
    BY Zenon, <1>8, <2>1
  <2>3. Settled(h, R, Y) /\ h.mem[f] = Blank
    BY Zenon, <1>4, <1>8, <2>2
  <2>4. Settled(h, S, X)
    <3>1. Sound(h) /\ Accounted(h.pmm, h.mem, exhausted \/ h.out, R, Y)
      BY Zenon, <2>3 DEF Settled
    <3>2. f \in Y
      BY Zenon, <2>1
    <3>3. Accounted(h.pmm, h.mem, exhausted \/ h.out, R \cup {f}, Y \ {f})
      BY Zenon, <2>3, <3>1, <3>2, RootAdds
    <3> QED BY Zenon, <2>1, <3>1, <3>3 DEF Settled
  <2>5. LowSlots(h.mem, f) = {} /\ DOMAIN h.mem[f] = {}
    BY Zenon, <2>3, BlankIs DEF LowSlots
  <2>6. Settled(l, S, X) /\ Mapped(h, l, S, f, "low", {"image"})
    BY Zenon, <1>5, <1>6, <2>1, <2>4, <2>5, MapOwnFits
  <2>7. \A q \in R : Same(h.mem, l.mem, q)
    BY Zenon, <1>7, <2>1, <2>6 DEF Mapped
  <2>8. \A q \in R : Same(mem, l.mem, q)
    BY Zenon, <1>4, <2>7, SameAgain
  <2>9. DOMAIN l.mem[f] \subseteq {"low"} /\ LowSlots(l.mem, f) \subseteq {"image"}
    BY Zenon, <2>5, <2>6 DEF Mapped
  <2> QED BY Zenon, <1>1, <1>5, <1>7, <1>8, <2>2, <2>6, <2>8, <2>9
<1>9. CASE f = OutOfMemory
  <2>1. X \cup ({f} \ {OutOfMemory}) = X /\ R \cup ({f} \ {OutOfMemory}) = R
    BY Zenon, <1>9
  <2>2. Settled(h, R, X) /\ h.mem = mem /\ FreePages(h.pmm) = {}
    BY Zenon, <1>4, <1>9, <2>1
  <2>3. Region("image") \notin DOMAIN h.mem[f]
    <3>1. mem[OutOfMemory] = Blank
      BY Zenon DEF FramesInv, Accounted
    <3> QED BY Zenon, <1>9, <2>2, <3>1, BlankIs
  <2>4. Settled(l, R, X) /\ l.mem = h.mem /\ ~l.ok /\ FreePages(l.pmm) = {}
    BY Zenon, <1>5, <2>2, <2>3, MapOwnStuck
  <2>5. \A q \in R : Same(mem, l.mem, q)
    BY Zenon, <2>2, <2>4 DEF Same
  <2> QED BY Zenon, <1>1, <1>5, <1>7, <1>9, <2>1, <2>2, <2>4, <2>5
<1> QED BY Zenon, <1>8, <1>9

\* The address spaces after a step that makes or drops none.
LEMMA SpacesMove ==
    ASSUME SpacesApart, mem'[OutOfMemory] = Blank, Live' = Live, phase' # "panic" => phase # "panic",
           \A u \in Live : space'[u].root = space[u].root /\ space'[u].owner = space[u].owner,
           \A u \in Live : space'[u].st = "build" => space[u].st = "build",
           \A u \in Live : space'[u].st = "build" /\ space[u].root # OutOfMemory => Same(mem, mem', space[u].root)
    PROVE  SpacesApart'
<1>1. \A s, u \in Live' : space'[s].root = space'[u].root /\ space'[s].root # OutOfMemory => s = u
  BY DEF SpacesApart
<1>2. ASSUME NEW u \in Live PROVE Staged(mem', space'[u].root, space'[u].st, space'[u].owner)
  <2>1. CASE space'[u].st # "build"
    BY Zenon, <2>1 DEF Staged
  <2>2. CASE space'[u].st = "build" /\ space[u].root = OutOfMemory
    <3>1. DOMAIN mem'[space'[u].root] = {} /\ LowSlots(mem', space'[u].root) = {}
      BY Zenon, <2>2, BlankIs DEF LowSlots
    <3> QED BY Zenon, <3>1 DEF Staged
  <2>3. CASE space'[u].st = "build" /\ space[u].root # OutOfMemory
    <3>1. Staged(mem, space[u].root, space[u].st, space[u].owner) /\ Same(mem, mem', space[u].root)
      BY Zenon, <2>3 DEF SpacesApart
    <3>2. Staged(mem', space[u].root, space[u].st, space[u].owner)
      BY <3>1, SameTree
    <3> QED BY Zenon, <2>3, <3>2
  <2> QED BY Zenon, <2>1, <2>2, <2>3
<1>3. phase' # "panic" => \A s \in Live' : space'[s].root # OutOfMemory
  BY Zenon DEF SpacesApart
<1> QED BY Zenon, <1>1, <1>2, <1>3 DEF SpacesApart

\* A step's result is the next state.
LEMMA CommitSettled ==
    ASSUME NEW m, NEW R, NEW X, Settled(m, R, X), Commit(m)
    PROVE  /\ Accounted(pmm', mem', exhausted', R, X) /\ mem' = m.mem
           /\ mem'[OutOfMemory] = Blank /\ (phase' # "panic" => phase # "panic")
<1>1. Accounted(m.pmm, m.mem, exhausted \/ m.out, R, X)
  BY Zenon DEF Settled
<1>2. pmm' = m.pmm /\ mem' = m.mem /\ exhausted' = (exhausted \/ m.out) /\ (phase' = phase \/ phase' = "panic")
  BY Zenon DEF Commit
<1>3. Accounted(pmm', mem', exhausted', R, X)
  BY Zenon, <1>1, <1>2
<1> QED BY Zenon, <1>2, <1>3 DEF Accounted

\* A live address space goes on to its next stage.
LEMMA StageEntered ==
    ASSUME SpaceTypeOK, NEW s \in Live, NEW st \in {"run", "zombie"}, Enter(s, st)
    PROVE  /\ SpaceTypeOK' /\ Live' = Live /\ LiveRoots' = LiveRoots
           /\ \A u \in Live : space'[u].root = space[u].root /\ space'[u].owner = space[u].owner
           /\ \A u \in Live : space'[u].st = "build" => u # s /\ space[u].st = "build"
<1>1. s \in Slots /\ space[s].st # "none" /\ DOMAIN space = Slots
  BY Zenon DEF Live, SpaceTypeOK
<1>2. PICK w : w = [space[s] EXCEPT !.st = st]
  BY Zenon
<1>3. space' = [space EXCEPT ![s] = w]
  BY Zenon, <1>2 DEF Enter
<1>4. space'[s] = w /\ (\A u \in Slots : u # s => space'[u] = space[u]) /\ DOMAIN space' = Slots
  BY Zenon, <1>1, <1>3
<1>5. space[s] \in [st : {"build", "run", "zombie"}, owner : Drivers \cup {"process"}, root : Nat]
  <2>1. NoSpace.st = "none"
    BY DEF NoSpace
  <2> QED BY Zenon, <1>1, <2>1 DEF SpaceTypeOK
<1>6. w \in [st : {"build", "run", "zombie"}, owner : Drivers \cup {"process"}, root : Nat] /\ w.st = st /\ w.root = space[s].root /\ w.owner = space[s].owner
  BY <1>2, <1>5
<1>7. SpaceTypeOK'
  BY Zenon, <1>3, <1>6 DEF SpaceTypeOK
<1>8. st # "none" /\ st # "build"
  OBVIOUS
<1>9. Live' = Live
  <2>1. ASSUME NEW u \in Slots PROVE space'[u].st # "none" <=> space[u].st # "none"
    BY Zenon, <1>1, <1>4, <1>6, <1>8
  <2> QED BY Zenon, <2>1 DEF Live
<1>10. ASSUME NEW u \in Live PROVE space'[u].root = space[u].root /\ space'[u].owner = space[u].owner
  BY Zenon, <1>4, <1>6 DEF Live
<1>11. ASSUME NEW u \in Live, space'[u].st = "build" PROVE u # s /\ space[u].st = "build"
  BY Zenon, <1>4, <1>6, <1>8, <1>11 DEF Live
<1>12. LiveRoots' = LiveRoots
  BY Zenon, <1>9, <1>10 DEF LiveRoots
<1> QED BY Zenon, <1>7, <1>9, <1>10, <1>11, <1>12

\* A step that maps a page in one address space, which then runs.
LEMMA SpaceMapped ==
    ASSUME AllocatorKeeps, FramesInv, NEW s \in Live, SpaceTypeOK', Live' = Live, LiveRoots' = LiveRoots,
           \A u \in Live : space'[u].root = space[u].root /\ space'[u].owner = space[u].owner,
           \A u \in Live : space'[u].st = "build" => u # s /\ space[u].st = "build",
           heap' = heap, hurt' = hurt, NEW m, Sound(m), Commit(m),
           ~hurt => /\ Settled(m, LiveRoots, Elsewhere') /\ heap \cap kept' = {}
                    /\ \A q \in LiveRoots \ {space[s].root} : Same(mem, m.mem, q)
    PROVE  FramesInv'
<1>1. PmmInv' /\ OutOfMemory \notin heap'
  BY Zenon, CommitBooks DEF FramesInv
<1>2. ASSUME ~hurt
      PROVE  /\ Accounted(pmm', mem', exhausted', LiveRoots', Elsewhere')
             /\ heap' \cap kept' = {} /\ SpacesApart'
  <2>1. PICK Y : Y = Elsewhere'
    BY Zenon
  <2>2. Settled(m, LiveRoots, Y) /\ heap' \cap kept' = {}
    BY Zenon, <1>2, <2>1
  <2>3. /\ Accounted(pmm', mem', exhausted', LiveRoots, Y) /\ mem' = m.mem
        /\ mem'[OutOfMemory] = Blank /\ (phase' # "panic" => phase # "panic")
    BY Zenon, <2>2, CommitSettled
  <2>4. ASSUME NEW u \in Live, space'[u].st = "build", space[u].root # OutOfMemory
        PROVE  Same(mem, mem', space[u].root)
    <3>1. u # s /\ SpacesApart
      BY Zenon, <1>2, <2>4 DEF FramesInv
    <3>2. space[u].root # space[s].root
      BY Zenon, <2>4, <3>1 DEF SpacesApart
    <3>3. space[u].root \in LiveRoots
      BY Zenon, <2>4 DEF LiveRoots
    <3> QED BY Zenon, <1>2, <2>3, <3>2, <3>3
  <2>5. SpacesApart'
    <3>1. SpacesApart
      BY Zenon, <1>2 DEF FramesInv
    <3> QED BY Zenon, <2>3, <2>4, <3>1, SpacesMove
  <2> QED BY Zenon, <2>1, <2>2, <2>3, <2>5
<1> QED BY Zenon, <1>1, <1>2 DEF FramesInv

LEMMA LiveIn ==
    ASSUME SpaceTypeOK, NEW s \in Slots, NEW st \in {"build", "run", "zombie"}, InState(s, st)
    PROVE  s \in Live /\ phase = "up" /\ phase # "panic" /\ space[s].st = st
<1>1. st # "none" /\ phase = "up" /\ space[s].st = st
  BY DEF InState
<1>2. "up" # "panic"
  OBVIOUS
<1> QED BY Zenon, <1>1, <1>2 DEF Live

\* A space being built has room for its stack and for its DMA page.
LEMMA RoomToMap ==
    ASSUME AllocatorKeeps, FramesInv, ~hurt, NEW s \in Live, space[s].st = "build", phase # "panic"
    PROVE  /\ space[s].root \in LiveRoots
           /\ "stack" \notin LowSlots(mem, space[s].root) /\ "stack" \in SlotsOf("low")
           /\ "dma" \notin LowSlots(mem, space[s].root) /\ "dma" \in SlotsOf("low")
<1>1. space[s].root # OutOfMemory /\ Staged(mem, space[s].root, space[s].st, space[s].owner)
  BY Zenon DEF FramesInv, SpacesApart
<1>2. LowSlots(mem, space[s].root) \subseteq {"image"}
  BY Zenon, <1>1 DEF Staged
<1>3. "stack" \notin {"image"} /\ "dma" \notin {"image"} /\ "stack" \in SlotsOf("low") /\ "dma" \in SlotsOf("low")
  BY DEF SlotsOf
<1>4. space[s].root \in LiveRoots
  BY Zenon, <1>1 DEF LiveRoots
<1> QED BY Zenon, <1>2, <1>3, <1>4

LEMMA MapStackFrames ==
    ASSUME AllocatorKeeps, FramesInv, NEW s \in Slots, MapStack(s)
    PROVE  FramesInv'
<1>1. PICK r, m : r = space[s].root /\ m = MapOwn(Machine, r, "stack")
  BY Zenon
<1>2. /\ InState(s, "build") /\ Commit(m) /\ Enter(s, "run")
      /\ heap' = heap /\ kept' = kept /\ hurt' = hurt
  BY Zenon, <1>1 DEF MapStack
<1>3. SpaceTypeOK /\ PmmInv /\ "build" \in {"build", "run", "zombie"} /\ "run" \in {"run", "zombie"}
  BY Zenon DEF FramesInv
<1>4. s \in Live /\ phase # "panic" /\ space[s].st = "build"
  BY Zenon, <1>2, <1>3, LiveIn
<1>5. Sound(m)
  BY Zenon, <1>1, <1>3, MachineSound, MapOwnSound
<1>6. /\ SpaceTypeOK' /\ Live' = Live /\ LiveRoots' = LiveRoots
      /\ \A u \in Live : space'[u].root = space[u].root /\ space'[u].owner = space[u].owner
      /\ \A u \in Live : space'[u].st = "build" => u # s /\ space[u].st = "build"
  BY Zenon, <1>2, <1>3, <1>4, StageEntered
<1>7. ASSUME ~hurt
      PROVE  /\ Settled(m, LiveRoots, Elsewhere') /\ heap \cap kept' = {}
             /\ \A q \in LiveRoots \ {space[s].root} : Same(mem, m.mem, q)
  <2>1. r \in LiveRoots /\ "stack" \notin LowSlots(mem, r) /\ "stack" \in SlotsOf("low")
    BY Zenon, <1>1, <1>4, <1>7, RoomToMap
  <2>2. Settled(Machine, LiveRoots, Elsewhere) /\ Machine.mem = mem
    BY Zenon, <1>7, MachineSettled
  <2>3. Settled(m, LiveRoots, Elsewhere) /\ Mapped(Machine, m, LiveRoots, r, "low", {"stack"})
    BY Zenon, <1>1, <2>1, <2>2, MapOwnFits
  <2>4. \A q \in LiveRoots \ {r} : Same(mem, m.mem, q)
    BY Zenon, <2>2, <2>3 DEF Mapped
  <2>5. Elsewhere' = Elsewhere /\ heap \cap kept' = {}
    BY Zenon, <1>2, <1>7 DEF Elsewhere, FramesInv
  <2> QED BY Zenon, <1>1, <2>3, <2>4, <2>5
<1> QED BY Zenon, <1>2, <1>4, <1>5, <1>6, <1>7, SpaceMapped

LEMMA HandToDeviceFrames ==
    ASSUME AllocatorKeeps, FramesInv, NEW s \in Slots, HandToDevice(s)
    PROVE  FramesInv'
<1>1. PICK r, m, n, f : r = space[s].root /\ m = MapOwn(Machine, r, "dma") /\ n = Grab(m) /\ f = NextPage(m.pmm)
  BY Zenon
<1>2. /\ InState(s, "build") /\ Commit(n) /\ Enter(s, "run")
      /\ heap' = heap /\ kept' = kept \cup ({f} \ {OutOfMemory}) /\ hurt' = hurt
  BY Zenon, <1>1 DEF HandToDevice
<1>3. SpaceTypeOK /\ PmmInv /\ "build" \in {"build", "run", "zombie"} /\ "run" \in {"run", "zombie"}
  BY Zenon DEF FramesInv
<1>4. s \in Live /\ phase # "panic" /\ space[s].st = "build"
  BY Zenon, <1>2, <1>3, LiveIn
<1>5. Sound(n)
  BY Zenon, <1>1, <1>3, MachineSound, MapOwnSound, GrabSound
<1>6. /\ SpaceTypeOK' /\ Live' = Live /\ LiveRoots' = LiveRoots
      /\ \A u \in Live : space'[u].root = space[u].root /\ space'[u].owner = space[u].owner
      /\ \A u \in Live : space'[u].st = "build" => u # s /\ space[u].st = "build"
  BY Zenon, <1>2, <1>3, <1>4, StageEntered
<1>7. ASSUME ~hurt
      PROVE  /\ Settled(n, LiveRoots, Elsewhere') /\ heap \cap kept' = {}
             /\ \A q \in LiveRoots \ {space[s].root} : Same(mem, n.mem, q)
  <2>1. r \in LiveRoots /\ "dma" \notin LowSlots(mem, r) /\ "dma" \in SlotsOf("low")
    BY Zenon, <1>1, <1>4, <1>7, RoomToMap
  <2>2. Settled(Machine, LiveRoots, Elsewhere) /\ Machine.mem = mem
    BY Zenon, <1>7, MachineSettled
  <2>3. Settled(m, LiveRoots, Elsewhere) /\ Mapped(Machine, m, LiveRoots, r, "low", {"dma"})
    BY Zenon, <1>1, <2>1, <2>2, MapOwnFits
  <2>4. \A q \in LiveRoots \ {r} : Same(mem, m.mem, q)
    BY Zenon, <2>2, <2>3 DEF Mapped
  <2>5. /\ Settled(n, LiveRoots, Elsewhere \cup ({f} \ {OutOfMemory})) /\ f \notin Elsewhere
        /\ \A q \in LiveRoots : Same(m.mem, n.mem, q)
    BY Zenon, <1>1, <2>3, GrabFits
  <2>6. \A q \in LiveRoots \ {r} : Same(mem, n.mem, q)
    BY Zenon, <2>4, <2>5, SameAgain
  <2>7. Elsewhere' = Elsewhere \cup ({f} \ {OutOfMemory})
    BY Zenon, <1>2 DEF Elsewhere
  <2>8. heap \cap kept' = {}
    <3>1. heap \cap kept = {}
      BY Zenon, <1>7 DEF FramesInv
    <3> QED BY Zenon, <1>2, <2>5, <3>1 DEF Elsewhere
  <2> QED BY Zenon, <1>1, <2>5, <2>6, <2>7, <2>8
<1> QED BY Zenon, <1>2, <1>4, <1>5, <1>6, <1>7, SpaceMapped

LEMMA MapSurfaceFrames ==
    ASSUME AllocatorKeeps, FramesInv, NEW s \in Slots, MapSurface(s)
    PROVE  FramesInv'
<1>1. PICK f \in heap : Commit(MapPage(Machine, space[s].root, "surface", f))
  BY Zenon DEF MapSurface
<1>2. PICK r, m : r = space[s].root /\ m = MapPage(Machine, r, "surface", f)
  BY Zenon
<1>3. /\ InState(s, "run") /\ Commit(m) /\ space' = space
      /\ heap' = heap /\ kept' = kept /\ hurt' = hurt
  BY Zenon, <1>1, <1>2 DEF MapSurface
<1>4. SpaceTypeOK /\ PmmInv /\ "run" \in {"build", "run", "zombie"} /\ "surface" \in {"mmio", "surface"} /\ "run" # "build"
  BY DEF FramesInv
<1>5. s \in Live /\ phase # "panic" /\ space[s].st = "run"
  BY Zenon, <1>3, <1>4, LiveIn
<1>6. Sound(m)
  BY Zenon, <1>2, <1>4, MachineSound, MapPageSound
<1>7. /\ SpaceTypeOK' /\ Live' = Live /\ LiveRoots' = LiveRoots
      /\ \A u \in Live : space'[u].root = space[u].root /\ space'[u].owner = space[u].owner
      /\ \A u \in Live : space'[u].st = "build" => u # s /\ space[u].st = "build"
  <2>1. SpaceTypeOK' /\ Live' = Live /\ LiveRoots' = LiveRoots
    BY <1>3, <1>4 DEF SpaceTypeOK, Live, LiveRoots
  <2> QED BY Zenon, <1>3, <1>4, <1>5, <2>1
<1>8. ASSUME ~hurt
      PROVE  /\ Settled(m, LiveRoots, Elsewhere') /\ heap \cap kept' = {}
             /\ \A q \in LiveRoots \ {space[s].root} : Same(mem, m.mem, q)
  <2>1. r \in LiveRoots
    BY Zenon, <1>2, <1>5, <1>8 DEF LiveRoots, FramesInv, SpacesApart
  <2>2. Settled(Machine, LiveRoots, Elsewhere) /\ Machine.mem = mem
    BY Zenon, <1>8, MachineSettled
  <2>3. Settled(m, LiveRoots, Elsewhere) /\ Mapped(Machine, m, LiveRoots, r, "surface", {})
    BY Zenon, <1>2, <1>4, <2>1, <2>2, MapPageLent
  <2>4. \A q \in LiveRoots \ {r} : Same(mem, m.mem, q)
    BY Zenon, <2>2, <2>3 DEF Mapped
  <2>5. Elsewhere' = Elsewhere /\ heap \cap kept' = {}
    BY Zenon, <1>3, <1>8 DEF Elsewhere, FramesInv
  <2> QED BY Zenon, <1>2, <2>3, <2>4, <2>5
<1> QED BY Zenon, <1>3, <1>5, <1>6, <1>7, <1>8, SpaceMapped

\* A step that leaves the frames alone.
LEMMA FramesAlone ==
    ASSUME AllocatorKeeps, FramesInv, UNCHANGED <<pmm, mem, heap, kept, exhausted, hurt>>, SpaceTypeOK', Live' = Live,
           LiveRoots' = LiveRoots, phase' # "panic" => phase # "panic",
           \A u \in Live : space'[u].root = space[u].root /\ space'[u].owner = space[u].owner,
           \A u \in Live : space'[u].st = "build" => space[u].st = "build"
    PROVE  FramesInv'
<1>1. PmmInv' /\ OutOfMemory \notin heap'
  <2>1. PmmInv'
    BY Zenon DEF FramesInv, PmmInv
  <2> QED BY Zenon, <2>1 DEF FramesInv
<1>2. ASSUME ~hurt
      PROVE  /\ Accounted(pmm', mem', exhausted', LiveRoots', Elsewhere')
             /\ heap' \cap kept' = {} /\ SpacesApart'
  <2>1. Elsewhere' = Elsewhere
    BY Zenon DEF Elsewhere
  <2>2. Accounted(pmm, mem, exhausted, LiveRoots, Elsewhere) /\ SpacesApart /\ heap \cap kept = {}
    BY Zenon, <1>2 DEF FramesInv
  <2>3. mem'[OutOfMemory] = Blank /\ \A q : Same(mem, mem', q)
    BY Zenon, <2>2 DEF Accounted, Same
  <2>4. SpacesApart'
    BY Zenon, <2>2, <2>3, SpacesMove
  <2> QED BY Zenon, <2>1, <2>2, <2>4
<1> QED BY Zenon, <1>1, <1>2 DEF FramesInv

LEMMA DieFrames ==
    ASSUME AllocatorKeeps, FramesInv, NEW s \in Slots, Die(s)
    PROVE  FramesInv'
<1>1. InState(s, "run") /\ Enter(s, "zombie") /\ UNCHANGED <<pmm, mem, heap, kept, exhausted, hurt>> /\ phase' = phase
  BY Zenon DEF Die
<1>2. SpaceTypeOK /\ "run" \in {"build", "run", "zombie"} /\ "zombie" \in {"run", "zombie"}
  BY Zenon DEF FramesInv
<1>3. s \in Live
  BY Zenon, <1>1, <1>2, LiveIn
<1>4. /\ SpaceTypeOK' /\ Live' = Live /\ LiveRoots' = LiveRoots
      /\ \A u \in Live : space'[u].root = space[u].root /\ space'[u].owner = space[u].owner
      /\ \A u \in Live : space'[u].st = "build" => u # s /\ space[u].st = "build"
  BY Zenon, <1>1, <1>2, <1>3, StageEntered
<1> QED BY Zenon, <1>1, <1>4, FramesAlone

LEMMA BootFrames ==
    ASSUME AllocatorKeeps, FramesInv, CheckRevoke \/ BootDone
    PROVE  FramesInv'
<1>1. UNCHANGED <<pmm, mem, heap, kept, exhausted, hurt>> /\ space' = space /\ phase \in {"check", "granted"}
  BY Zenon DEF CheckRevoke, BootDone
<1>2. phase # "panic"
  BY <1>1
<1>3. SpaceTypeOK' /\ Live' = Live /\ LiveRoots' = LiveRoots
  BY Zenon, <1>1 DEF FramesInv, SpaceTypeOK, Live, LiveRoots
<1> QED BY Zenon, <1>1, <1>2, <1>3, FramesAlone

\* alloc_page for the kernel, which looks at no failure while it boots.
LEMMA GrabAccounted ==
    ASSUME NEW m, Sound(m), NEW gone, NEW R, NEW X, Accounted(m.pmm, m.mem, gone, R, X),
           NEW f, f = NextPage(m.pmm), NEW n, n = Grab(m)
    PROVE  /\ Accounted(n.pmm, n.mem, gone, R, X \cup ({f} \ {OutOfMemory})) /\ f \notin X
           /\ \A q \in R : Same(m.mem, n.mem, q)
<1>1. PICK p, mm : p = m.pmm /\ mm = m.mem
  BY Zenon
<1>2. AllocatorKeeps /\ Books(p) /\ n.pmm = Allocated(p)
  BY Zenon, <1>1, GrabIs DEF Sound
<1>3. CASE FreePages(p) = {}
  <2>1. n.mem = mm
    BY Zenon, <1>1, <1>3, GrabIs
  <2>2. f = OutOfMemory
    BY Zenon, <1>1, <1>2, <1>3, NoPage
  <2>3. Accounted(n.pmm, n.mem, gone, R, X)
    BY Zenon, <1>1, <1>2, <1>3, <2>1, NoPageTaken
  <2>4. X \cup ({f} \ {OutOfMemory}) = X /\ f \notin X
    BY Zenon, <2>2, FramesAre DEF Accounted
  <2> QED BY Zenon, <1>1, <2>1, <2>3, <2>4 DEF Same
<1>4. CASE FreePages(p) # {}
  <2>1. n.mem = [mm EXCEPT ![f] = Blank]
    BY Zenon, <1>1, <1>4, GrabIs
  <2>2. /\ Accounted(Allocated(p), n.mem, gone, R, X \cup {f})
        /\ \A q \in R : Same(mm, n.mem, q)
        /\ f \in Frames /\ f \notin X
    <3>1. TakesPage(p, mm, gone, R, X, f, n.mem)
      BY Zenon, <1>1, <1>2, <1>4, <2>1 DEF TakesPage
    <3>2. HoldsPage(p, mm, gone, R, X, f, n.mem)
      BY Zenon, <3>1, PageTaken
    <3> QED BY Zenon, <3>2 DEF HoldsPage
  <2>3. X \cup ({f} \ {OutOfMemory}) = X \cup {f}
    BY Zenon, <2>2, FramesAre
  <2> QED BY Zenon, <1>1, <1>2, <2>2, <2>3
<1> QED BY Zenon, <1>3, <1>4

LEMMA DmaPageFrames ==
    ASSUME AllocatorKeeps, FramesInv, NEW next, phase # "panic", DmaPage(next)
    PROVE  FramesInv'
<1>1. PICK m, h, n, f, g : /\ m = Machine /\ h = Grab(m) /\ n = Grab(h)
                           /\ f = Fresh /\ g = NextPage(Allocated(pmm))
  BY Zenon
<1>2. /\ pmm' = n.pmm /\ mem' = n.mem /\ kept' = kept \cup {f, g}
      /\ space' = space /\ heap' = heap /\ exhausted' = exhausted /\ hurt' = hurt
  BY Zenon, <1>1 DEF DmaPage
<1>3. PmmInv /\ SpaceTypeOK /\ OutOfMemory \notin heap
  BY Zenon DEF FramesInv
<1>4. Sound(m) /\ Sound(h) /\ Sound(n) /\ m.pmm = pmm /\ m.mem = mem
  <2>1. Sound(m) /\ Sound(h) /\ Sound(n)
    BY Zenon, <1>1, <1>3, MachineSound, GrabSound
  <2>2. m.pmm = pmm /\ m.mem = mem
    BY Zenon, <1>1 DEF Machine
  <2> QED BY Zenon, <2>1, <2>2
<1>5. f = NextPage(m.pmm) /\ g = NextPage(h.pmm)
  <2>1. h.pmm = Allocated(m.pmm)
    BY Zenon, <1>1, <1>4, GrabIs
  <2> QED BY Zenon, <1>1, <1>4, <2>1 DEF Fresh
<1>6. PmmInv'
  <2>1. Books(n.pmm)
    BY Zenon, <1>4 DEF Sound
  <2> QED BY Zenon, <1>2, <2>1 DEF PmmInv
<1>7. SpaceTypeOK' /\ Live' = Live /\ LiveRoots' = LiveRoots /\ OutOfMemory \notin heap'
  BY <1>2, <1>3 DEF SpaceTypeOK, Live, LiveRoots
<1>8. ASSUME ~hurt
      PROVE  /\ Accounted(pmm', mem', exhausted', LiveRoots', Elsewhere')
             /\ heap' \cap kept' = {} /\ SpacesApart'
  <2>1. PICK R, X, Y, Z : /\ R = LiveRoots /\ X = Elsewhere /\ Y = X \cup ({f} \ {OutOfMemory})
                          /\ Z = Y \cup ({g} \ {OutOfMemory})
    BY Zenon
  <2>2. Accounted(m.pmm, m.mem, exhausted, R, X) /\ heap \cap kept = {} /\ SpacesApart
    BY Zenon, <1>4, <1>8, <2>1 DEF FramesInv
  <2>3. Accounted(h.pmm, h.mem, exhausted, R, Y) /\ f \notin X /\ \A q \in R : Same(m.mem, h.mem, q)
    BY Zenon, <1>1, <1>4, <1>5, <2>1, <2>2, GrabAccounted
  <2>4. Accounted(n.pmm, n.mem, exhausted, R, Z) /\ g \notin Y /\ \A q \in R : Same(h.mem, n.mem, q)
    BY <1>1, <1>4, <1>5, <2>1, <2>3, GrabAccounted
  <2>5. Elsewhere' = Z
    BY Zenon, <1>2, <2>1 DEF Elsewhere
  <2>6. heap' \cap kept' = {}
    BY Zenon, <1>2, <1>3, <2>1, <2>2, <2>3, <2>4 DEF Elsewhere
  <2>7. \A q \in R : Same(mem, mem', q)
    BY Zenon, <1>2, <1>4, <2>3, <2>4, SameAgain
  <2>8. mem'[OutOfMemory] = Blank
    BY Zenon, <1>2, <2>4 DEF Accounted
  <2>9. \A u \in Live : space[u].root # OutOfMemory => space[u].root \in R
    BY Zenon, <2>1 DEF LiveRoots
  <2>10. SpacesApart'
    BY Zenon, <1>2, <1>7, <2>2, <2>7, <2>8, <2>9, SpacesMove
  <2> QED BY Zenon, <1>2, <1>7, <2>1, <2>4, <2>5, <2>6, <2>10
<1> QED BY Zenon, <1>2, <1>6, <1>7, <1>8 DEF FramesInv

LEMMA GrowHeapFrames ==
    ASSUME AllocatorKeeps, FramesInv, GrowHeap
    PROVE  FramesInv'
<1>1. PICK m, h, n, f : /\ m = Machine /\ h = Grab(m) /\ n = (IF h.out THEN Panicked(h) ELSE h) /\ f = Fresh
  BY Zenon
<1>2. /\ Commit(n) /\ heap' = heap \cup ({f} \ {OutOfMemory}) /\ kept' = kept /\ space' = space /\ hurt' = hurt
  BY Zenon, <1>1 DEF GrowHeap
<1>3. PmmInv /\ SpaceTypeOK /\ OutOfMemory \notin heap
  BY Zenon DEF FramesInv
<1>4. Sound(m) /\ Sound(h) /\ Sound(n) /\ n.pmm = h.pmm /\ n.mem = h.mem /\ n.out = h.out
  <2>1. Sound(m) /\ Sound(h)
    BY Zenon, <1>1, <1>3, MachineSound, GrabSound
  <2>2. CASE h.out
    BY Zenon, <1>1, <2>1, <2>2, PanickedSound, PanickedIs
  <2>3. CASE ~h.out
    BY Zenon, <1>1, <2>1, <2>3
  <2> QED BY Zenon, <2>1, <2>2, <2>3
<1>5. PmmInv'
  BY Zenon, <1>2, <1>4, CommitBooks
<1>6. SpaceTypeOK' /\ Live' = Live /\ LiveRoots' = LiveRoots /\ OutOfMemory \notin heap'
  BY <1>2, <1>3 DEF SpaceTypeOK, Live, LiveRoots
<1>7. ASSUME ~hurt
      PROVE  /\ Accounted(pmm', mem', exhausted', LiveRoots', Elsewhere')
             /\ heap' \cap kept' = {} /\ SpacesApart'
  <2>1. PICK R, X, Y : R = LiveRoots /\ X = Elsewhere /\ Y = X \cup ({f} \ {OutOfMemory})
    BY Zenon
  <2>2. Settled(m, R, X) /\ m.mem = mem /\ m.pmm = pmm /\ heap \cap kept = {} /\ SpacesApart
    BY Zenon, <1>1, <1>7, <2>1, MachineSettled DEF FramesInv
  <2>3. f = NextPage(m.pmm)
    BY Zenon, <1>1, <2>2 DEF Fresh
  <2>4. Settled(h, R, Y) /\ f \notin X /\ \A q \in R : Same(m.mem, h.mem, q)
    BY Zenon, <1>1, <2>1, <2>2, <2>3, GrabFits
  <2>5. Settled(n, R, Y)
    BY Zenon, <1>4, <2>4 DEF Settled
  <2>6. /\ Accounted(pmm', mem', exhausted', R, Y) /\ mem' = n.mem
        /\ mem'[OutOfMemory] = Blank /\ (phase' # "panic" => phase # "panic")
    BY Zenon, <1>2, <2>5, CommitSettled
  <2>7. Elsewhere' = Y /\ heap' \cap kept' = {}
    BY Zenon, <1>2, <2>1, <2>2, <2>4 DEF Elsewhere
  <2>8. \A q \in R : Same(mem, mem', q)
    BY Zenon, <1>4, <2>2, <2>4, <2>6
  <2>9. \A u \in Live : space[u].root # OutOfMemory => space[u].root \in R
    BY Zenon, <2>1 DEF LiveRoots
  <2>10. SpacesApart'
    BY Zenon, <1>2, <1>6, <2>2, <2>6, <2>8, <2>9, SpacesMove
  <2> QED BY Zenon, <1>6, <2>1, <2>6, <2>7, <2>10
<1> QED BY Zenon, <1>2, <1>5, <1>6, <1>7 DEF FramesInv

\* A new address space, or a panic.
LEMMA NewSpaceFrames ==
    ASSUME AllocatorKeeps, FramesInv, NEW s \in Slots, NEW owner \in Drivers \cup {"process"}, NEW m, Sound(m),
           NewSpace(s, owner, m),
           ~hurt => /\ Settled(m, LiveRoots \cup ({Fresh} \ {OutOfMemory}), Elsewhere)
                    /\ \A q \in LiveRoots : Same(mem, m.mem, q)
                    /\ Fresh \notin LiveRoots
                    /\ Fresh # OutOfMemory => Staged(m.mem, Fresh, "build", owner)
                    /\ Fresh = OutOfMemory => ~m.ok
    PROVE  FramesInv'
<1>1. PICK f, v : f = Fresh /\ v = [st |-> "build", owner |-> owner, root |-> f]
  BY Zenon
<1>2. /\ phase = "up" /\ space[s].st = "none" /\ Commit(m) /\ space' = [space EXCEPT ![s] = v]
      /\ heap' = heap /\ kept' = kept /\ hurt' = hurt
  BY Zenon, <1>1 DEF NewSpace, InState
<1>3. PmmInv /\ SpaceTypeOK /\ OutOfMemory \notin heap /\ DOMAIN space = Slots
  BY Zenon DEF FramesInv, SpaceTypeOK
<1>4. v.st = "build" /\ v.owner = owner /\ v.root = f
  BY Zenon, <1>1
<1>5. space'[s] = v /\ \A u \in Slots : u # s => space'[u] = space[u]
  BY Zenon, <1>2, <1>3
<1>6. SpaceTypeOK'
  <2>1. f \in Nat
    BY Zenon, <1>1, <1>3, FreshIsFrame
  <2>2. v \in [st : {"build", "run", "zombie"}, owner : Drivers \cup {"process"}, root : Nat]
    BY <1>1, <2>1
  <2> QED BY Zenon, <1>2, <1>3, <2>2 DEF SpaceTypeOK
<1>7. s \notin Live /\ Live' = Live \cup {s} /\ \A u \in Live : u # s /\ space'[u] = space[u]
  <2>1. "build" # "none"
    BY Zenon
  <2> QED BY Zenon, <1>2, <1>4, <1>5, <2>1 DEF Live
<1>8. LiveRoots' = LiveRoots \cup ({f} \ {OutOfMemory})
  <2>1. ASSUME NEW i \in LiveRoots' PROVE i \in LiveRoots \cup ({f} \ {OutOfMemory})
    <3>1. PICK u \in Live' : i = space'[u].root /\ i # OutOfMemory
      BY Zenon DEF LiveRoots
    <3> QED BY Zenon, <1>4, <1>5, <1>7, <3>1 DEF LiveRoots
  <2>2. ASSUME NEW i \in LiveRoots PROVE i \in LiveRoots'
    <3>1. PICK u \in Live : i = space[u].root /\ i # OutOfMemory
      BY Zenon DEF LiveRoots
    <3> QED BY Zenon, <1>7, <3>1 DEF LiveRoots
  <2>3. ASSUME f # OutOfMemory PROVE f \in LiveRoots'
    BY Zenon, <1>4, <1>5, <1>7, <2>3 DEF LiveRoots
  <2> QED BY Zenon, <2>1, <2>2, <2>3
<1>9. PmmInv' /\ OutOfMemory \notin heap'
  BY Zenon, <1>2, <1>3, CommitBooks
<1>10. ASSUME ~hurt
       PROVE  /\ Accounted(pmm', mem', exhausted', LiveRoots', Elsewhere')
              /\ heap' \cap kept' = {} /\ SpacesApart'
  <2>1. PICK R, X : R = LiveRoots \cup ({f} \ {OutOfMemory}) /\ X = Elsewhere
    BY Zenon
  <2>2. /\ Settled(m, R, X) /\ (\A q \in LiveRoots : Same(mem, m.mem, q)) /\ f \notin LiveRoots
        /\ (f # OutOfMemory => Staged(m.mem, f, "build", owner)) /\ (f = OutOfMemory => ~m.ok)
    BY Zenon, <1>1, <1>10, <2>1
  <2>3. /\ Accounted(pmm', mem', exhausted', R, X) /\ mem' = m.mem
        /\ mem'[OutOfMemory] = Blank /\ (phase' # "panic" => phase # "panic")
    BY Zenon, <1>2, <2>2, CommitSettled
  <2>4. Elsewhere' = X /\ heap' \cap kept' = {} /\ SpacesApart
    BY Zenon, <1>2, <1>10, <2>1 DEF Elsewhere, FramesInv
  <2>5. ASSUME NEW t \in Live', NEW u \in Live', space'[t].root = space'[u].root, space'[t].root # OutOfMemory
        PROVE  t = u
    <3>1. \A w \in Live : space'[w].root # OutOfMemory => space'[w].root \in LiveRoots
      BY Zenon, <1>7 DEF LiveRoots
    <3>2. CASE t \in Live /\ u \in Live
      BY Zenon, <1>7, <2>4, <2>5, <3>2 DEF SpacesApart
    <3>3. CASE t = s /\ u \in Live
      BY Zenon, <1>4, <1>5, <2>2, <2>5, <3>1, <3>3
    <3>4. CASE t \in Live /\ u = s
      BY Zenon, <1>4, <1>5, <2>2, <2>5, <3>1, <3>4
    <3> QED BY Zenon, <1>7, <3>2, <3>3, <3>4
  <2>6. ASSUME NEW u \in Live' PROVE Staged(mem', space'[u].root, space'[u].st, space'[u].owner)
    <3>1. CASE space'[u].root = OutOfMemory
      <4>1. DOMAIN mem'[space'[u].root] = {} /\ LowSlots(mem', space'[u].root) = {}
        BY Zenon, <2>3, <3>1, BlankIs DEF LowSlots
      <4> QED BY Zenon, <4>1 DEF Staged
    <3>2. CASE space'[u].root # OutOfMemory /\ u = s
      BY Zenon, <1>4, <1>5, <2>2, <2>3, <3>2
    <3>3. CASE space'[u].root # OutOfMemory /\ u \in Live
      <4>1. space'[u] = space[u] /\ space[u].root \in LiveRoots
        BY Zenon, <1>7, <3>3 DEF LiveRoots
      <4>2. Staged(mem, space[u].root, space[u].st, space[u].owner) /\ Same(mem, mem', space[u].root)
        BY Zenon, <2>2, <2>3, <2>4, <3>3, <4>1 DEF SpacesApart
      <4>3. Staged(mem', space[u].root, space[u].st, space[u].owner)
        BY <4>2, SameTree
      <4> QED BY Zenon, <4>1, <4>3
    <3> QED BY Zenon, <1>7, <3>1, <3>2, <3>3
  <2>7. ASSUME phase' # "panic", NEW u \in Live' PROVE space'[u].root # OutOfMemory
    <3>1. phase # "panic" /\ m.ok
      BY Zenon, <1>2, <2>3, <2>7 DEF Commit
    <3>2. CASE u = s
      BY Zenon, <1>4, <1>5, <2>2, <3>1, <3>2
    <3>3. CASE u \in Live
      BY Zenon, <1>7, <2>4, <3>1, <3>3 DEF SpacesApart
    <3> QED BY Zenon, <1>7, <3>2, <3>3
  <2>8. SpacesApart'
    BY Zenon, <2>5, <2>6, <2>7 DEF SpacesApart
  <2> QED BY Zenon, <1>8, <2>1, <2>3, <2>4, <2>8
<1> QED BY Zenon, <1>2, <1>6, <1>9, <1>10 DEF FramesInv

LEMMA SpawnFrames ==
    ASSUME AllocatorKeeps, FramesInv, NEW s \in Slots, SpawnProcess(s)
    PROVE  FramesInv'
<1>1. NewSpace(s, "process", Loaded) /\ "process" \in Drivers \cup {"process"}
  BY Zenon DEF SpawnProcess
<1>2. Sound(Loaded)
  BY Zenon, LoadedSound DEF FramesInv
<1>3. ASSUME ~hurt
      PROVE  /\ Settled(Loaded, LiveRoots \cup ({Fresh} \ {OutOfMemory}), Elsewhere)
             /\ \A q \in LiveRoots : Same(mem, Loaded.mem, q)
             /\ Fresh \notin LiveRoots
             /\ Fresh # OutOfMemory => Staged(Loaded.mem, Fresh, "build", "process")
             /\ Fresh = OutOfMemory => ~Loaded.ok
  BY Zenon, <1>3, LoadedSettled DEF Staged
<1> QED BY Zenon, <1>1, <1>2, <1>3, NewSpaceFrames

LEMMA StartDriverFrames ==
    ASSUME AllocatorKeeps, FramesInv, NEW s \in Slots, StartDriver(s)
    PROVE  FramesInv'
<1>1. PICK d \in Drivers : NewSpace(s, d, MapPage(Loaded, Fresh, "mmio", Mmio[d]))
  BY Zenon DEF StartDriver
<1>2. PICK l, f, m : l = Loaded /\ f = Fresh /\ m = MapPage(l, f, "mmio", Mmio[d])
  BY Zenon
<1>3. Sound(l) /\ Sound(m)
  BY Zenon, <1>2, LoadedSound, MapPageSound DEF FramesInv
<1>4. ASSUME ~hurt
      PROVE  /\ Settled(m, LiveRoots \cup ({f} \ {OutOfMemory}), Elsewhere)
             /\ \A q \in LiveRoots : Same(mem, m.mem, q)
             /\ f \notin LiveRoots
             /\ f # OutOfMemory => Staged(m.mem, f, "build", d)
             /\ f = OutOfMemory => ~m.ok
  <2>1. PICK R, X : R = LiveRoots \cup ({f} \ {OutOfMemory}) /\ X = Elsewhere
    BY Zenon
  <2>2. /\ Settled(l, R, X)
        /\ \A q \in LiveRoots : Same(mem, l.mem, q)
        /\ f \notin LiveRoots
        /\ f # OutOfMemory => DOMAIN l.mem[f] \subseteq {"low"} /\ LowSlots(l.mem, f) \subseteq {"image"}
        /\ f = OutOfMemory => ~l.ok /\ FreePages(l.pmm) = {} /\ l.mem = mem
    BY Zenon, <1>2, <1>4, <2>1, LoadedSettled
  <2>3. CASE f # OutOfMemory
    <3>1. f \in R /\ "mmio" \in {"mmio", "surface"}
      BY Zenon, <2>1, <2>3
    <3>2. Settled(m, R, X) /\ Mapped(l, m, R, f, "mmio", {})
      BY Zenon, <1>2, <2>2, <3>1, MapPageLent
    <3>3. \A q \in LiveRoots : q \in R \ {f}
      BY Zenon, <2>1, <2>2
    <3>4. \A q \in LiveRoots : Same(mem, m.mem, q)
      BY Zenon, <2>2, <3>2, <3>3, SameAgain DEF Mapped
    <3>5. Staged(m.mem, f, "build", d)
      BY Zenon, <2>2, <2>3, <3>2 DEF Staged, Mapped
    <3> QED BY Zenon, <2>1, <2>2, <2>3, <3>2, <3>4, <3>5
  <2>4. CASE f = OutOfMemory
    <3>1. Region("mmio") \notin DOMAIN l.mem[f]
      <4>1. mem[OutOfMemory] = Blank
        BY Zenon, <1>4 DEF FramesInv, Accounted
      <4> QED BY Zenon, <2>2, <2>4, <4>1, BlankIs
    <3>2. /\ Accounted(m.pmm, m.mem, TRUE, R, X) /\ Sound(m)
          /\ m.mem = l.mem /\ m.out /\ ~m.ok
      <4>1. LacksTable(l, R, X, f, "mmio", Mmio[d], m)
        BY Zenon, <1>2, <2>2, <2>4, <3>1 DEF LacksTable
      <4>2. Stopped(l, R, X, m)
        BY Zenon, <4>1, MapPageStuck
      <4> QED BY Zenon, <4>2 DEF Stopped
    <3>3. Settled(m, R, X)
      BY Zenon, <3>2, FitsLost
    <3> QED BY Zenon, <2>1, <2>2, <2>4, <3>2, <3>3
  <2> QED BY Zenon, <2>3, <2>4
<1> QED BY Zenon, <1>1, <1>2, <1>3, <1>4, NewSpaceFrames

\* An address space is destroyed and met no page of RAM that was only lent.
NothingLent(r) ==
    \A g \in DOMAIN mem[r] : \A sl \in DOMAIN mem[mem[r][g]] :
       g # "low" => mem[mem[r][g]][sl] \notin Pages

LEMMA DroppedFrames ==
    ASSUME AllocatorKeeps, FramesInv, NEW s \in Live, phase # "panic", NEW m, m = Destroyed(Machine, space[s].root), Commit(m),
           Drop(s), heap' = heap, kept' = kept, ~hurt' => ~hurt /\ NothingLent(space[s].root)
    PROVE  FramesInv'
<1>1. PICK r : r = space[s].root
  BY Zenon
<1>2. PmmInv /\ SpaceTypeOK /\ OutOfMemory \notin heap /\ DOMAIN space = Slots /\ s \in Slots
  BY Zenon DEF FramesInv, SpaceTypeOK, Live
<1>3. PmmInv'
  <2>1. Sound(m)
    BY Zenon, <1>2, MachineSound, DestroyedSound
  <2> QED BY Zenon, <2>1, CommitBooks
<1>4. SpaceTypeOK'
  BY Zenon, <1>2 DEF SpaceTypeOK, Drop
<1>5. space'[s] = NoSpace /\ \A u \in Slots : u # s => space'[u] = space[u]
  BY Zenon, <1>2 DEF Drop
<1>6. Live' = Live \ {s} /\ \A u \in Live' : space'[u] = space[u]
  <2>1. NoSpace.st = "none"
    BY DEF NoSpace
  <2> QED BY Zenon, <1>5, <2>1 DEF Live
<1>7. ASSUME ~hurt'
      PROVE  /\ Accounted(pmm', mem', exhausted', LiveRoots', Elsewhere')
             /\ heap' \cap kept' = {} /\ SpacesApart'
  <2>1. ~hurt /\ NothingLent(r)
    BY Zenon, <1>1, <1>7
  <2>2. SpacesApart /\ heap \cap kept = {} /\ Accounted(pmm, mem, exhausted, LiveRoots, Elsewhere)
    BY Zenon, <2>1 DEF FramesInv
  <2>3. r # OutOfMemory /\ r \in LiveRoots
    BY Zenon, <1>1, <2>2 DEF SpacesApart, LiveRoots
  <2>4. PICK h, p : h = Machine /\ p = Freed(pmm, Walk(mem, r))
    BY Zenon
  <2>5. h = [pmm |-> pmm, mem |-> mem, out |-> FALSE, ok |-> TRUE]
    BY Zenon, <2>4 DEF Machine
  <2>6. m = [h EXCEPT !.pmm = p]
    <3>1. h.pmm = pmm /\ h.mem = mem
      BY Zenon, <2>5
    <3> QED BY Zenon, <1>1, <2>3, <2>4, <3>1 DEF Destroyed
  <2>7. m = [pmm |-> p, mem |-> mem, out |-> FALSE, ok |-> TRUE]
    BY <2>5, <2>6
  <2>8. m.pmm = p /\ m.mem = mem /\ m.out = FALSE /\ m.ok = TRUE
    BY <2>7
  <2>9. pmm' = p /\ mem' = mem /\ (exhausted' => exhausted) /\ (exhausted => exhausted') /\ phase' = phase
    BY Zenon, <2>8 DEF Commit
  <2>10. Accounted(p, mem, exhausted, LiveRoots \ {r}, Elsewhere)
    <3>1. Books(pmm)
      BY Zenon, <1>2 DEF PmmInv
    <3> QED BY Zenon, <2>1, <2>2, <2>3, <2>4, <3>1, TreeFreed DEF NothingLent
  <2>11. LiveRoots' = LiveRoots \ {r}
    <3>1. ASSUME NEW i \in LiveRoots' PROVE i \in LiveRoots \ {r}
      <4>1. PICK u \in Live' : i = space'[u].root /\ i # OutOfMemory
        BY Zenon DEF LiveRoots
      <4>2. u \in Live /\ u # s /\ i = space[u].root
        BY Zenon, <1>6, <4>1
      <4>3. i # r
        BY Zenon, <1>1, <2>2, <4>1, <4>2 DEF SpacesApart
      <4> QED BY Zenon, <4>1, <4>2, <4>3 DEF LiveRoots
    <3>2. ASSUME NEW i \in LiveRoots, i # r PROVE i \in LiveRoots'
      <4>1. PICK u \in Live : i = space[u].root /\ i # OutOfMemory
        BY Zenon DEF LiveRoots
      <4>2. u \in Live'
        BY Zenon, <1>1, <1>6, <3>2, <4>1
      <4> QED BY Zenon, <1>6, <4>1, <4>2 DEF LiveRoots
    <3> QED BY Zenon, <3>1, <3>2
  <2>12. Elsewhere' = Elsewhere /\ heap' \cap kept' = {}
    BY Zenon, <2>2 DEF Elsewhere
  <2>13. Accounted(pmm', mem', exhausted', LiveRoots', Elsewhere')
    <3>1. Accounted(p, mem, exhausted', LiveRoots \ {r}, Elsewhere)
      BY <2>9, <2>10, AccountedAs
    <3> QED BY Zenon, <2>9, <2>11, <2>12, <3>1
  <2>14. SpacesApart'
    <3>1. \A t, u \in Live' : space'[t].root = space'[u].root /\ space'[t].root # OutOfMemory => t = u
      BY Zenon, <1>6, <2>2 DEF SpacesApart
    <3>2. \A u \in Live' : Staged(mem', space'[u].root, space'[u].st, space'[u].owner)
      BY Zenon, <1>6, <2>2, <2>9 DEF SpacesApart
    <3>3. phase' # "panic" => \A u \in Live' : space'[u].root # OutOfMemory
      BY Zenon, <1>6, <2>2, <2>9 DEF SpacesApart
    <3> QED BY Zenon, <3>1, <3>2, <3>3 DEF SpacesApart
  <2> QED BY Zenon, <2>12, <2>13, <2>14
<1> QED BY Zenon, <1>2, <1>3, <1>4, <1>7 DEF FramesInv

LEMMA LoadFailsFrames ==
    ASSUME AllocatorKeeps, FramesInv, NEW s \in Slots, LoadFails(s)
    PROVE  FramesInv'
<1>1. /\ InState(s, "build") /\ space[s].owner \notin Drivers /\ Commit(Destroyed(Machine, space[s].root))
      /\ Drop(s) /\ heap' = heap /\ kept' = kept /\ hurt' = hurt
  BY Zenon DEF LoadFails, Driver
<1>2. SpaceTypeOK /\ "build" \in {"build", "run", "zombie"}
  BY Zenon DEF FramesInv
<1>3. s \in Live /\ phase # "panic" /\ space[s].st = "build"
  BY Zenon, <1>1, <1>2, LiveIn
<1>4. ASSUME ~hurt' PROVE ~hurt /\ NothingLent(space[s].root)
  <2>1. ~hurt
    BY Zenon, <1>1, <1>4
  <2>2. Staged(mem, space[s].root, space[s].st, space[s].owner)
    BY Zenon, <1>3, <2>1 DEF FramesInv, SpacesApart
  <2>3. DOMAIN mem[space[s].root] \subseteq {"low"}
    BY Zenon, <1>1, <1>3, <2>2 DEF Staged
  <2> QED BY Zenon, <2>1, <2>3 DEF NothingLent
<1> QED BY Zenon, <1>1, <1>3, <1>4, DroppedFrames

LEMMA ReapFrames ==
    ASSUME AllocatorKeeps, FramesInv, NEW s \in Slots, Reap(s)
    PROVE  FramesInv'
<1>1. PICK r : r = space[s].root
  BY Zenon
<1>2. /\ InState(s, "zombie") /\ Commit(Destroyed(Machine, space[s].root))
      /\ Drop(s) /\ heap' = heap /\ kept' = kept /\ hurt' = (hurt \/ Borrowed(r) \cap Pages # {})
  BY Zenon, <1>1 DEF Reap
<1>3. SpaceTypeOK /\ "zombie" \in {"build", "run", "zombie"}
  BY Zenon DEF FramesInv
<1>4. s \in Live /\ phase # "panic"
  BY Zenon, <1>2, <1>3, LiveIn
<1>5. ASSUME ~hurt' PROVE ~hurt /\ NothingLent(r)
  <2>1. ~hurt /\ Borrowed(r) \cap Pages = {}
    BY Zenon, <1>2, <1>5
  <2>2. Tree(mem, r)
    <3>1. SpacesApart /\ Accounted(pmm, mem, exhausted, LiveRoots, Elsewhere)
      BY Zenon, <2>1 DEF FramesInv
    <3>2. r \in LiveRoots
      BY Zenon, <1>1, <1>4, <3>1 DEF SpacesApart, LiveRoots
    <3> QED BY Zenon, <3>1, <3>2 DEF Accounted
  <2>3. ASSUME NEW g \in DOMAIN mem[r], NEW sl \in DOMAIN mem[mem[r][g]], g # "low"
        PROVE  mem[mem[r][g]][sl] \notin Pages
    <3>1. PICK t : t = mem[r][g]
      BY Zenon
    <3>2. DOMAIN mem[t] \subseteq SlotsOf(g) /\ g \in Regions /\ t \in Tables(mem, r)
      BY Zenon, <2>2, <3>1, LowIsTable DEF Tree
    <3>3. sl \in {"mmio", "surface"} /\ sl \in DOMAIN mem[t]
      BY Zenon, <2>3, <3>1, <3>2 DEF SlotsOf, Regions
    <3>4. PICK B : B = {mem[t][k] : k \in DOMAIN mem[t] \cap {"mmio", "surface"}}
      BY Zenon
    <3>5. mem[t][sl] \in B
      BY Zenon, <3>3, <3>4
    <3>6. B \in {{mem[u][k] : k \in DOMAIN mem[u] \cap {"mmio", "surface"}} : u \in Tables(mem, r)}
      BY Zenon, <3>2, <3>4
    <3>7. mem[t][sl] \in Borrowed(r)
      BY Zenon, <3>5, <3>6 DEF Borrowed
    <3> QED BY Zenon, <2>1, <3>1, <3>7
  <2> QED BY Zenon, <2>1, <2>3 DEF NothingLent
<1> QED BY Zenon, <1>1, <1>2, <1>4, <1>5, DroppedFrames

LEMMA FramesStart == ASSUME AllocatorKeeps, MemInit PROVE FramesInv
<1>1. /\ pmm = BootPmm /\ mem = [f \in Pages |-> Blank] /\ space = [s \in Slots |-> NoSpace]
      /\ heap = {} /\ kept = {}
  BY Zenon DEF MemInit, PmmInit
<1>2. PmmInv
  BY Zenon, <1>1 DEF PmmInv, AllocatorKeeps
<1>3. SpaceTypeOK
  BY Zenon, <1>1 DEF SpaceTypeOK
<1>4. Live = {} /\ LiveRoots = {} /\ Elsewhere = {}
  <2>1. NoSpace.st = "none"
    BY DEF NoSpace
  <2>2. Live = {}
    BY Zenon, <1>1, <2>1 DEF Live
  <2> QED BY Zenon, <1>1, <2>2 DEF LiveRoots, Elsewhere
<1>5. pmm.used = (Pages \ Usable) \cup Reserved
  BY <1>1 DEF BootPmm
<1>6. Accounted(pmm, mem, exhausted, {}, {})
  <2>1. DOMAIN mem = Pages /\ mem[OutOfMemory] = Blank
    BY Zenon, <1>1, FramesAre
  <2>2. FreePages(pmm) \subseteq Frames
    BY Zenon, <1>5 DEF FreePages, Frames
  <2>3. \A i \in pmm.used \cap Frames : FALSE
    BY Zenon, <1>5 DEF Frames
  <2> QED BY Zenon, <2>1, <2>2, <2>3 DEF Accounted
<1>7. SpacesApart /\ heap \cap kept = {}
  BY Zenon, <1>1, <1>4 DEF SpacesApart
<1> QED BY Zenon, <1>1, <1>2, <1>3, <1>4, <1>6, <1>7 DEF FramesInv

LEMMA FramesStep == ASSUME AllocatorKeeps, FramesInv, [MemNext]_mvars PROVE FramesInv'
<1>1. CASE BootAssign
  <2>1. DmaPage("check") /\ phase = "iommu"
    BY Zenon, <1>1 DEF BootAssign
  <2>2. phase # "panic"
    BY <2>1
  <2> QED BY Zenon, <2>1, <2>2, DmaPageFrames
<1>2. CASE CheckGrant
  <2>1. DmaPage("granted") /\ phase = "check"
    BY Zenon, <1>2 DEF CheckGrant
  <2>2. phase # "panic"
    BY <2>1
  <2> QED BY Zenon, <2>1, <2>2, DmaPageFrames
<1>3. CASE CheckRevoke \/ BootDone
  BY Zenon, <1>3, BootFrames
<1>4. CASE GrowHeap
  BY Zenon, <1>4, GrowHeapFrames
<1>5. ASSUME NEW s \in Slots, StartDriver(s) \/ SpawnProcess(s) PROVE FramesInv'
  BY Zenon, <1>5, StartDriverFrames, SpawnFrames
<1>6. ASSUME NEW s \in Slots, MapStack(s) \/ LoadFails(s) \/ HandToDevice(s) PROVE FramesInv'
  BY Zenon, <1>6, MapStackFrames, LoadFailsFrames, HandToDeviceFrames
<1>7. ASSUME NEW s \in Slots, MapSurface(s) \/ Die(s) \/ Reap(s) PROVE FramesInv'
  BY Zenon, <1>7, MapSurfaceFrames, DieFrames, ReapFrames
<1>8. CASE UNCHANGED mvars
  <2>1. UNCHANGED <<pmm, mem, heap, kept, exhausted, hurt>> /\ space' = space /\ phase' = phase
    BY Zenon, <1>8 DEF mvars
  <2>2. SpaceTypeOK' /\ Live' = Live /\ LiveRoots' = LiveRoots
    BY <2>1 DEF FramesInv, SpaceTypeOK, Live, LiveRoots
  <2> QED BY Zenon, <2>1, <2>2, FramesAlone
<1> QED BY Zenon, <1>1, <1>2, <1>3, <1>4, <1>5, <1>6, <1>7, <1>8 DEF MemNext

-----------------------------------------------------------------------------
(* The authority graph and the context entries. *)

Domains == [present : {TRUE}, pages : SUBSET Nat, via : {"graph", "direct"}]

\* HardwareIsProjection with the types it needs.
AuthorityInv ==
    /\ graph \in [GraphSlots -> {NoGrant} \cup (Devices \X Nat)]
    /\ ctx \in [Devices -> {Absent} \cup Domains]
    /\ HardwareIsProjection

\* A grant goes into an empty slot, so it takes nothing from anyone.
LEMMA GrantedProjection ==
    ASSUME AllocatorKeeps, NEW g \in [GraphSlots -> {NoGrant} \cup (Devices \X Nat)], FreeSlots(g) # {},
           NEW d \in Devices, NEW f \in Nat
    PROVE  /\ Granted(g, d, f) \in [GraphSlots -> {NoGrant} \cup (Devices \X Nat)]
           /\ \A e \in Devices \ {d} : Projection(Granted(g, d, f), e) = Projection(g, e)
<1>1. FreeSlots(g) \subseteq Nat
  BY Zenon, DeviceMap DEF FreeSlots
<1>2. PICK i \in GraphSlots : i = Least(FreeSlots(g)) /\ g[i] = NoGrant
  BY Zenon, <1>1 DEF FreeSlots, AllocatorKeeps
<1>3. Granted(g, d, f) = [g EXCEPT ![i] = <<d, f>>]
  BY Zenon, <1>2 DEF Granted
<1>4. Granted(g, d, f) \in [GraphSlots -> {NoGrant} \cup (Devices \X Nat)]
  BY <1>3
<1>5. ASSUME NEW e \in Devices \ {d} PROVE Projection(Granted(g, d, f), e) = Projection(g, e)
  <2>1. <<d, f>>[1] # e
    BY Zenon
  <2>2. {j \in GraphSlots : Granted(g, d, f)[j] # NoGrant /\ Granted(g, d, f)[j][1] = e}
        = {j \in GraphSlots : g[j] # NoGrant /\ g[j][1] = e}
    BY Zenon, <1>2, <1>3, <2>1
  <2>3. \A j \in {k \in GraphSlots : g[k] # NoGrant /\ g[k][1] = e} : Granted(g, d, f)[j] = g[j]
    BY Zenon, <1>2, <1>3
  <2> QED BY <2>2, <2>3 DEF Projection
<1> QED BY Zenon, <1>4, <1>5

\* A revocation takes nothing from the other devices.
LEMMA RevokedProjection ==
    ASSUME NEW g \in [GraphSlots -> {NoGrant} \cup (Devices \X Nat)],
           NEW d \in Devices, NEW f \in Nat
    PROVE  /\ Revoked(g, d, f) \in [GraphSlots -> {NoGrant} \cup (Devices \X Nat)]
           /\ \A e \in Devices \ {d} : Projection(Revoked(g, d, f), e) = Projection(g, e)
<1>1. PICK h : h = Revoked(g, d, f)
  BY Zenon
<1>2. h \in [GraphSlots -> {NoGrant} \cup (Devices \X Nat)]
  BY Zenon, <1>1 DEF Revoked
<1>3. ASSUME NEW e \in Devices \ {d} PROVE Projection(h, e) = Projection(g, e)
  <2>1. \A j \in GraphSlots : g[j] # NoGrant /\ g[j][1] = e => g[j] # <<d, f>>
    OBVIOUS
  <2>2. {j \in GraphSlots : h[j] # NoGrant /\ h[j][1] = e}
        = {j \in GraphSlots : g[j] # NoGrant /\ g[j][1] = e}
    BY Zenon, <1>1, <2>1 DEF Revoked
  <2>3. \A j \in {k \in GraphSlots : g[k] # NoGrant /\ g[k][1] = e} : h[j] = g[j]
    BY Zenon, <1>1, <2>1 DEF Revoked
  <2> QED BY <2>2, <2>3 DEF Projection
<1> QED BY Zenon, <1>1, <1>2, <1>3

\* iommu::assign_device by a driver itself.
LEMMA AssignDirectKeeps ==
    ASSUME AuthorityInv, NEW d \in Devices, NEW f \in Nat, AssignDirect(d, f)
    PROVE  AuthorityInv'
<1>1. PICK c : c = Domain({f}, "direct")
  BY Zenon
<1>2. c \in Domains /\ c.via = "direct"
  BY Zenon, <1>1 DEF Domain, Domains
<1>3. ctx' = [ctx EXCEPT ![d] = c] /\ graph' = graph
  BY Zenon, <1>1 DEF AssignDirect
<1>4. \A e \in Devices : ctx'[e] = IF e = d THEN c ELSE ctx[e]
  BY SMTT(40), <1>3 DEF AuthorityInv
<1>5. HardwareIsProjection'
  BY <1>2, <1>3, <1>4 DEF AuthorityInv, HardwareIsProjection, Projection
<1> QED BY Zenon, <1>2, <1>3, <1>5 DEF AuthorityInv

\* authority::grant_device: the domain is rebuilt from the graph.
LEMMA GrantDeviceKeeps ==
    ASSUME AllocatorKeeps, AuthorityInv, NEW d \in Devices, NEW f \in Nat, GrantDevice(d, f)
    PROVE  AuthorityInv'
<1>1. CASE FreeSlots(graph) = {}
  BY Zenon, <1>1, AssignDirectKeeps DEF GrantDevice
<1>2. CASE FreeSlots(graph) # {}
  <2>1. PICK c : c = GrantedDomain(graph', d)
    BY Zenon
  <2>2. graph' = Granted(graph, d, f) /\ ctx' = [ctx EXCEPT ![d] = c]
    BY SMTT(40), <1>2, <2>1 DEF GrantDevice
  <2>3. /\ graph' \in [GraphSlots -> {NoGrant} \cup (Devices \X Nat)]
        /\ \A e \in Devices \ {d} : Projection(graph', e) = Projection(graph, e)
    BY <1>2, <2>2, GrantedProjection DEF AuthorityInv
  <2>4. Projection(graph', d) \subseteq Nat
    BY Zenon, <2>3 DEF Projection, NoGrant
  <2>5. c \in Domains /\ c.pages = Projection(graph', d)
    BY SMTT(40), <2>1, <2>4 DEF GrantedDomain, Domain, Domains
  <2>6. \A e \in Devices : ctx'[e] = IF e = d THEN c ELSE ctx[e]
    BY Zenon, <2>2 DEF AuthorityInv
  <2>7. \A e \in Devices : ctx'[e].present /\ ctx'[e].via = "graph" => ctx'[e].pages = Projection(graph', e)
    BY Zenon, <2>3, <2>5, <2>6 DEF AuthorityInv, HardwareIsProjection
  <2>8. HardwareIsProjection'
    BY SMTT(40), <2>7 DEF HardwareIsProjection, Projection
  <2> QED BY Zenon, <2>2, <2>3, <2>5, <2>8 DEF AuthorityInv
<1> QED BY Zenon, <1>1, <1>2

\* authority::revoke_device clears the whole context entry of the device.
LEMMA CheckRevokeKeeps == ASSUME AuthorityInv, CheckRevoke PROVE AuthorityInv'
<1>1. PICK i \in GraphSlots :
         /\ graph[i] # NoGrant
         /\ graph' = Revoked(graph, graph[i][1], graph[i][2])
         /\ ctx' = HwRevoked(ctx, graph[i][1])
  BY Zenon DEF CheckRevoke
<1>2. PICK d \in Devices, f \in Nat : graph[i] = <<d, f>>
  BY SMTT(40), <1>1 DEF AuthorityInv
<1>3. graph' = Revoked(graph, d, f) /\ ctx' = [ctx EXCEPT ![d] = Absent]
  BY <1>1, <1>2 DEF HwRevoked
<1>4. /\ graph' \in [GraphSlots -> {NoGrant} \cup (Devices \X Nat)]
      /\ \A e \in Devices \ {d} : Projection(graph', e) = Projection(graph, e)
  BY <1>3, RevokedProjection DEF AuthorityInv
<1>5. \A e \in Devices : ctx'[e] = IF e = d THEN Absent ELSE ctx[e]
  BY SMTT(40), <1>3 DEF AuthorityInv
<1>6. ~Absent.present
  BY Zenon DEF Absent
<1>7. \A e \in Devices : ctx'[e].present /\ ctx'[e].via = "graph" => ctx'[e].pages = Projection(graph', e)
  BY Zenon, <1>4, <1>5, <1>6 DEF AuthorityInv, HardwareIsProjection
<1>8. HardwareIsProjection'
  BY SMTT(40), <1>7 DEF HardwareIsProjection, Projection
<1> QED BY Zenon, <1>3, <1>4, <1>8 DEF AuthorityInv

\* Steps that touch neither the graph nor a context entry.
LEMMA AuthorityUntouched == ASSUME AuthorityInv, UNCHANGED <<graph, ctx>> PROVE AuthorityInv'
  BY Zenon DEF AuthorityInv, HardwareIsProjection, Projection

LEMMA AuthorityStep == ASSUME AllocatorKeeps, PmmInv, AuthorityInv, MemNext PROVE AuthorityInv'
<1>1. Fresh \in Nat /\ Drivers \subseteq Devices
  BY SMTT(40), FreshIsFrame DEF Devices
<1>2. CASE BootAssign
  BY Zenon, <1>1, <1>2, AssignDirectKeeps DEF BootAssign, DmaPage
<1>3. CASE CheckGrant
  BY Zenon, <1>1, <1>3, GrantDeviceKeeps DEF CheckGrant, DmaPage
<1>4. CASE CheckRevoke
  BY SMTT(40), <1>4, CheckRevokeKeeps
<1>5. CASE BootDone \/ GrowHeap
  BY Zenon, <1>5, AuthorityUntouched DEF BootDone, GrowHeap
<1>6. ASSUME NEW s \in Slots, HandToDevice(s) PROVE AuthorityInv'
  <2>1. PICK d \in Devices : AssignDirect(d, Fresh) \/ GrantDevice(d, Fresh)
    BY SMTT(40), <1>1, <1>6 DEF HandToDevice, Driver
  <2> QED BY Zenon, <1>1, <2>1, AssignDirectKeeps, GrantDeviceKeeps
<1>7. ASSUME NEW s \in Slots,
             \/ StartDriver(s) \/ SpawnProcess(s) \/ MapStack(s) \/ LoadFails(s)
             \/ MapSurface(s) \/ Die(s) \/ Reap(s)
      PROVE  AuthorityInv'
  <2>1. UNCHANGED <<graph, ctx>>
    BY Zenon, <1>7 DEF StartDriver, SpawnProcess, NewSpace, MapStack, LoadFails, MapSurface, Die, Reap
  <2> QED BY Zenon, <2>1, AuthorityUntouched
<1> QED BY Zenon, <1>2, <1>3, <1>4, <1>5, <1>6, <1>7 DEF MemNext
=============================================================================

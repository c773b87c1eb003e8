---------------------------- MODULE MemoryProofs ----------------------------
(***************************************************************************)
(* The page allocator keeps its books, for any memory map, alone and under *)
(* its real callers: every step of Memory changes the books only through   *)
(* alloc_page and free_page, whatever the page tables, the devices and the *)
(* bounds are.  Books is inductive; the lemmas about the state functions   *)
(* Allocated and Freed serve both specifications.  With them the lemmas of *)
(* FrameProofs about the steps of Memory give its three theorems.          *)
(***************************************************************************)
EXTENDS FrameProofs, FiniteSetTheorems, WellFoundedInduction

\* A scan upwards finds the lowest page, or table slot, of any set of them.
LEMMA LeastIsLeast ==
    ASSUME NEW S, S \subseteq Nat, S # {}
    PROVE  Least(S) \in S /\ \A j \in S : Least(S) <= j
<1>1. S \subseteq Nat
  BY Zenon
<1>2. \E i \in S : \A j \in S : ~(<<j, i>> \in OpToRel(<, Nat))
  BY Zenon, <1>1, NatLessThanWellFounded, WFMin
<1>3. ASSUME NEW i \in S, NEW j \in S, ~(<<j, i>> \in OpToRel(<, Nat)) PROVE i <= j
  <2>1. <<j, i>> \in Nat \X Nat /\ <<j, i>>[1] = j /\ <<j, i>>[2] = i
    BY Zenon, <1>1
  <2>2. ~(j < i)
    BY Zenon, <1>3, <2>1 DEF OpToRel
  <2> QED BY <1>1, <2>2
<1>4. \E i \in S : \A j \in S : i <= j
  BY Zenon, <1>2, <1>3
<1> QED BY Zenon, <1>4 DEF Least

\* All sets of pages are finite.
LEMMA PagesFinite == \A S \in SUBSET Pages : IsFiniteSet(S) /\ Cardinality(S) \in Nat
<1>1. IsFiniteSet(Pages)
  BY MemoryMap, FS_Interval DEF Pages
<1> QED BY Zenon, <1>1, FS_Subset, FS_CardinalityType

\* pmm::init leaves consistent books.
LEMMA BootBooks == Books(BootPmm)
<1> DEFINE used == (Pages \ Usable) \cup Reserved
<1>1. BootPmm = [used |-> used, free |-> Cardinality(Pages \ used), taken |-> 0, last |-> 0]
  BY Zenon DEF BootPmm
<1>2. Pages \ used = Usable \ Reserved
  BY Zenon, MemoryMap
<1>3. Cardinality(Pages \ used) \in Nat
  BY Zenon, PagesFinite
<1>4. used \subseteq Pages /\ 0 \in Pages /\ \A i \in Pages : 0 <= i
  BY MemoryMap DEF Pages
<1> HIDE DEF used
<1>5. Reserved \subseteq used
  BY Zenon DEF used
<1>6. PICK p : p = BootPmm
  BY Zenon
<1>7. p.used = used /\ p.free = Cardinality(Pages \ used) /\ p.taken = 0 /\ p.last = 0 /\ p \in PmmStates
  BY <1>1, <1>3, <1>4, <1>6 DEF PmmStates
<1>8. FreePages(p) = Pages \ used
  BY Zenon, <1>7 DEF FreePages
<1>9. p.free + p.taken = Cardinality(Usable \ Reserved)
  BY <1>2, <1>3, <1>7
<1> QED BY Zenon, <1>4, <1>5, <1>6, <1>7, <1>8, <1>9 DEF Books

\* With consistent books alloc_page returns the lowest free page: nothing is
\* free below LAST_SCANNED_PAGE, so the scan need not wrap to find it.
LEMMA NextIsLowest ==
    ASSUME NEW p, Books(p), FreePages(p) # {}
    PROVE  NextPage(p) \in FreePages(p) /\ \A i \in FreePages(p) : NextPage(p) <= i
<1>1. FreePages(p) \subseteq Pages
  BY Zenon DEF FreePages
<1>2. {i \in FreePages(p) : i >= p.last} = FreePages(p)
  BY Zenon, <1>1, MemoryMap DEF Books, PmmStates, Pages
<1>3. NextPage(p) = Least(FreePages(p))
  BY Zenon, <1>2 DEF NextPage
<1>4. Pages \subseteq Nat
  BY MemoryMap DEF Pages
<1> QED BY Zenon, <1>1, <1>3, <1>4, LeastIsLeast

\* alloc_page keeps the books, also when there is no page.
LEMMA AllocatedBooks == ASSUME NEW p, Books(p) PROVE Books(Allocated(p))
<1>1. CASE FreePages(p) = {}
  <2>1. Allocated(p) = [used |-> p.used, free |-> p.free, taken |-> p.taken, last |-> 0]
    BY Zenon, <1>1 DEF Allocated, Books, PmmStates
  <2> QED BY <1>1, <2>1, MemoryMap DEF Books, PmmStates, FreePages, Pages
<1>2. CASE FreePages(p) # {}
  <2>1. PICK i \in FreePages(p) : i = NextPage(p) /\ \A j \in FreePages(p) : i <= j
    BY Zenon, <1>2, NextIsLowest
  <2>2. PICK q : q = Allocated(p)
    BY Zenon
  <2>3. q = [used |-> p.used \cup {i}, free |-> p.free - 1, taken |-> p.taken + 1, last |-> i]
    BY Zenon, <1>2, <2>1, <2>2 DEF Allocated, Take
  <2>4. i \in Pages /\ FreePages(q) = FreePages(p) \ {i} /\ FreePages(p) \subseteq Pages
    BY Zenon, <2>1, <2>3 DEF FreePages
  <2>5. Cardinality(FreePages(q)) = Cardinality(FreePages(p)) - 1
    BY Zenon, <2>1, <2>4, PagesFinite, FS_RemoveElement
  <2>6. q \in PmmStates /\ Reserved \subseteq q.used
    BY <2>3, <2>4 DEF Books, PmmStates
  <2>7. q.free = Cardinality(FreePages(q)) /\ q.free + q.taken = Cardinality(Usable \ Reserved)
    BY <2>3, <2>5 DEF Books, PmmStates
  <2>8. \A j \in FreePages(q) : q.last <= j
    BY Zenon, <2>1, <2>3, <2>4
  <2> QED BY Zenon, <2>2, <2>6, <2>7, <2>8 DEF Books
<1> QED BY Zenon, <1>1, <1>2

\* free_page keeps the books whatever pages the caller passes: page zero,
\* reserved, free or out of range, and pages that were never allocated.
LEMMA FreedBooks == ASSUME NEW p, Books(p), NEW F PROVE Books(Freed(p, F))
<1>1. PICK ok : ok = {i \in F : Freeable(p, i)}
  BY Zenon
<1>2. ok \subseteq Pages /\ ok \subseteq p.used /\ ok \cap Reserved = {}
  BY Zenon, <1>1 DEF Freeable
<1>3. CASE ok = {}
  BY Zenon, <1>1, <1>3 DEF Freed
<1>4. CASE ok # {}
  <2>1. PICK l \in ok : l = Least(ok) /\ \A j \in ok : l <= j
    <3>1. ok \subseteq Nat
      BY <1>2, MemoryMap DEF Pages
    <3> QED BY Zenon, <1>4, <3>1, LeastIsLeast
  <2>2. PICK q : q = Freed(p, F)
    BY Zenon
  <2>3. q = [used  |-> p.used \ ok, free |-> p.free + Cardinality(ok),
             taken |-> p.taken - Cardinality(ok), last |-> IF l < p.last THEN l ELSE p.last]
    BY Zenon, <1>1, <1>4, <2>1, <2>2 DEF Freed
  <2>4. FreePages(q) = FreePages(p) \cup ok /\ FreePages(p) \cap ok = {} /\ FreePages(p) \subseteq Pages
    BY Zenon, <1>2, <2>3 DEF FreePages
  <2>5. Cardinality(ok) \in Nat /\ Cardinality(FreePages(p)) \in Nat
    BY Zenon, <1>2, <2>4, PagesFinite
  <2>6. Cardinality(FreePages(q)) = Cardinality(FreePages(p)) + Cardinality(ok)
    <3>1. IsFiniteSet(ok) /\ IsFiniteSet(FreePages(p))
      BY Zenon, <1>2, <2>4, PagesFinite
    <3>2. Cardinality(FreePages(p) \cup ok) = Cardinality(FreePages(p)) + Cardinality(ok) - Cardinality({})
      BY <2>4, <3>1, FS_Union
    <3> QED BY <2>4, <2>5, <3>2, FS_EmptySet
  <2>7. q \in PmmStates /\ Reserved \subseteq q.used
    BY <1>2, <2>1, <2>3, <2>5 DEF Books, PmmStates
  <2>8. q.free = Cardinality(FreePages(q)) /\ q.free + q.taken = Cardinality(Usable \ Reserved)
    BY <2>3, <2>5, <2>6, PagesFinite DEF Books, PmmStates
  <2>9. \A j \in FreePages(q) : q.last <= j
    <3>1. l \in Int /\ p.last \in Int /\ \A j \in FreePages(q) : j \in Int
      <4>1. l \in Pages /\ p.last \in Pages /\ FreePages(q) \subseteq Pages
        BY Zenon, <1>2, <2>1, <2>4 DEF Books, PmmStates
      <4>2. Pages \subseteq Int
        BY MemoryMap DEF Pages
      <4> QED BY Zenon, <4>1, <4>2
    <3>2. \A j \in FreePages(p) : p.last <= j
      BY Zenon DEF Books
    <3>3. q.last <= l /\ q.last <= p.last /\ q.last \in Int
      BY <2>3, <3>1
    <3>4. \A j \in FreePages(q) : j \in FreePages(p) \/ j \in ok
      BY Zenon, <2>4
    <3> QED BY <2>1, <3>1, <3>2, <3>3, <3>4
  <2> QED BY Zenon, <2>2, <2>7, <2>8, <2>9 DEF Books
<1> QED BY Zenon, <1>3, <1>4
-----------------------------------------------------------------------------
\* Any sequence of alloc_page and free_page calls, with any arguments, keeps
\* the bitmap, the counters and the scan hint of pmm.rs consistent.
THEOREM AllocatorSafe == PmmSpec => []PmmInv
<1>1. PmmInit => PmmInv
  BY Zenon, BootBooks DEF PmmInit, PmmInv
<1>2. PmmInv /\ [PmmNext]_pmm => PmmInv'
  BY Zenon, AllocatedBooks, FreedBooks DEF PmmInv, PmmNext, AllocPage, FreePage
<1> QED BY <1>1, <1>2, PTL DEF PmmSpec

\* alloc_page returns 0 only if no page is free, and otherwise the lowest
\* free page, which is not page zero and not reserved.
THEOREM AllocReturnsLowest ==
    ASSUME PmmInv
    PROVE  IF FreePages(pmm) = {} THEN NextPage(pmm) = OutOfMemory
           ELSE /\ NextPage(pmm) \in FreePages(pmm) \ (Reserved \cup {OutOfMemory})
                /\ \A i \in FreePages(pmm) : NextPage(pmm) <= i
<1>1. FreePages(pmm) \cap (Reserved \cup {OutOfMemory}) = {}
  BY Zenon, MemoryMap DEF PmmInv, Books, FreePages, OutOfMemory
<1>2. FreePages(pmm) = {} => NextPage(pmm) = OutOfMemory
  BY Zenon DEF NextPage
<1> QED BY Zenon, <1>1, <1>2, NextIsLowest DEF PmmInv
-----------------------------------------------------------------------------
LEMMA AllocatorWorks == AllocatorKeeps
  BY Zenon, LeastIsLeast, BootBooks, NextIsLowest, AllocatedBooks, FreedBooks DEF AllocatorKeeps

\* Through driver restarts, failed loads, exhaustion and reaping of address
\* spaces that map frames they do not own, the bitmap, the counters and the
\* scan hint of pmm.rs stay consistent and no reserved page becomes free.
THEOREM AllocatorSafeInKernel == MemSpec => []PmmInv
<1>1. MemInit => PmmInv
  BY Zenon, BootBooks DEF MemInit, PmmInit, PmmInv
<1>2. PmmInv /\ [MemNext]_mvars => PmmInv'
  BY Zenon, AllocatorWorks, BooksStep
<1> QED BY <1>1, <1>2, PTL DEF MemSpec

\* A device whose domain comes from the authority graph reaches exactly what
\* the graph grants it, for any devices, any size of the graph and any order
\* of grants, revocations, crashes and restarts (authority.rs, iommu.rs).
THEOREM AuthorityInHardware == MemSpec => []HardwareIsProjection
<1>1. MemInit => PmmInv /\ AuthorityInv
  <2>1. MemInit => PmmInv
    BY Zenon, BootBooks DEF MemInit, PmmInit, PmmInv
  <2>2. ~Absent.present
    BY Zenon DEF Absent
  <2>3. MemInit => AuthorityInv
    BY Zenon, <2>2 DEF MemInit, AuthorityInv, HardwareIsProjection
  <2> QED BY Zenon, <2>1, <2>3
<1>2. PmmInv /\ AuthorityInv /\ [MemNext]_mvars => AuthorityInv'
  <2> SUFFICES ASSUME PmmInv, AuthorityInv, [MemNext]_mvars PROVE AuthorityInv'
    BY Zenon
  <2>1. CASE UNCHANGED mvars
    BY Zenon, <2>1, AuthorityUntouched DEF mvars
  <2> QED BY Zenon, <2>1, AllocatorWorks, AuthorityStep
<1>3. AuthorityInv => HardwareIsProjection
  BY Zenon DEF AuthorityInv
<1> QED BY <1>1, <1>2, <1>3, AllocatorSafeInKernel, PTL DEF MemSpec

\* Whatever the memory map, the devices, the number of address spaces and the
\* order of spawns, failures, restarts and reaping, no frame has two holders
\* and, until alloc_page first fails, none is lost.
THEOREM EveryFrameHasOneHolder == MemSpec => []FramesPartition
<1>1. FramesInv /\ [MemNext]_mvars => FramesInv'
  BY Zenon, AllocatorWorks, FramesStep
<1>2. MemInit => FramesInv
  BY Zenon, AllocatorWorks, FramesStart
<1>3. FramesInv => FramesPartition
  BY Zenon, FramesArePartitioned
<1> QED BY <1>1, <1>2, <1>3, PTL DEF MemSpec
=============================================================================

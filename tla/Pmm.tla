-------------------------------- MODULE Pmm --------------------------------
(***************************************************************************)
(* The physical page allocator, kernel_rs/src/pmm.rs.  A page is its page  *)
(* number.  USED_BITMAP is the set `used`; RESERVED_BITMAP never changes   *)
(* after init() and is the constant Reserved.  alloc_page and free_page    *)
(* run inside without_interrupts and are one step each (module             *)
(* CriticalSection).  Other modules compose the state functions Allocated  *)
(* and Freed; the specification here drives them from callers that free    *)
(* anything at all.                                                        *)
(***************************************************************************)
EXTENDS Integers, FiniteSets

CONSTANTS
    Span,       \* TOTAL_SPAN_PAGES
    Usable,     \* the pages of EFI_CONVENTIONAL_MEMORY descriptors
    Reserved    \* page zero, the bitmaps, the kernel, BootInfo, the map

Pages == 0 .. Span - 1

\* init() reserves page zero, so 0 can stand for "out of memory".
ASSUME MemoryMap ==
    /\ Span \in Nat \ {0}
    /\ Usable \subseteq Pages
    /\ Reserved \subseteq Pages
    /\ 0 \in Reserved

\* The bitmap, the counters free_pages and used_pages of STATS, and
\* LAST_SCANNED_PAGE.  The code clamps neither counter: used_pages starts at
\* zero and is negative here where the u64 has wrapped.
VARIABLE pmm

OutOfMemory == 0

Least(S) == CHOOSE i \in S : \A j \in S : i <= j

\* init(): everything is used, conventional memory is cleared, then the
\* reserved ranges are taken back.
BootPmm ==
    LET used == (Pages \ Usable) \cup Reserved
    IN  [used |-> used, free |-> Cardinality(Pages \ used), taken |-> 0, last |-> 0]

FreePages(p) == Pages \ p.used

\* The scan from LAST_SCANNED_PAGE, which wraps once to page 0.
NextPage(p) ==
    LET ahead == {i \in FreePages(p) : i >= p.last}
    IN  CASE FreePages(p) = {} -> OutOfMemory
          [] ahead # {} -> Least(ahead)
          [] OTHER -> Least(FreePages(p))

Take(p, i) == [used |-> p.used \cup {i}, free |-> p.free - 1, taken |-> p.taken + 1, last |-> i]

Allocated(p) ==
    IF FreePages(p) = {} THEN [p EXCEPT !.last = 0] ELSE Take(p, NextPage(p))

Freeable(p, i) == i # 0 /\ i \in Pages /\ i \notin Reserved /\ i \in p.used

\* Frees the pages of F one after the other, in any order: a page the bitmap
\* shows free is rejected, so a page that is met twice counts once.
Freed(p, F) ==
    LET ok == {i \in F : Freeable(p, i)}
    IN  IF ok = {} THEN p
        ELSE [used  |-> p.used \ ok,
              free  |-> p.free + Cardinality(ok),
              taken |-> p.taken - Cardinality(ok),
              last  |-> IF Least(ok) < p.last THEN Least(ok) ELSE p.last]
-----------------------------------------------------------------------------
PmmInit == pmm = BootPmm

AllocPage == pmm' = Allocated(pmm)

\* The caller may pass any page number; an unaligned address is rejected
\* without a trace and is not a step.
FreePage == \E i \in Nat : pmm' = Freed(pmm, {i})

PmmNext == AllocPage \/ FreePage

PmmSpec == PmmInit /\ [][PmmNext]_pmm
-----------------------------------------------------------------------------
PmmStates == [used : SUBSET Pages, free : Int, taken : Int, last : Pages]

Books(p) ==
    /\ p \in PmmStates
    /\ Reserved \subseteq p.used
    /\ p.free = Cardinality(FreePages(p))
    /\ p.free + p.taken = Cardinality(Usable \ Reserved)
    /\ \A i \in FreePages(p) : p.last <= i

\* No reserved page is ever free, both counters of STATS agree with the
\* bitmap after any sequence of allocations, frees and rejected frees, and
\* LAST_SCANNED_PAGE is never past a free page, so that alloc_page hands out
\* the lowest one and reports exhaustion only when there is none.
PmmInv == Books(pmm)
=============================================================================

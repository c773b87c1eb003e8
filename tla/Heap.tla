-------------------------------- MODULE Heap --------------------------------
(***************************************************************************)
(* The kernel heap (heap.rs): a first-fit free list in address order that  *)
(* joins neighbours on every insertion, splits what it hands out, forgets  *)
(* remainders too small for a node, and grows by whole pages.  alloc and   *)
(* dealloc run inside without_interrupts, so each is one step.             *)
(*                                                                         *)
(* Addresses count from HEAP_VIRTUAL_BASE.  The list is the set of its     *)
(* nodes: it is kept sorted, so the set determines it.                     *)
(***************************************************************************)
EXTENDS Naturals, FiniteSets

CONSTANTS Layouts,     \* the layouts asked for: [size, align]
          NodeSize,    \* size_of::<FreeListNode>()
          MinAlign,    \* 8
          PageSize,    \* PAGE_SIZE
          InitPages,   \* INITIAL_HEAP_PAGES
          MinGrow,     \* alloc grows by at least this many pages, 256
          HeapFrames,  \* physical pages the heap can get
          MaxLive      \* bound: blocks allocated at a time

ASSUME HeapConstants ==
  /\ NodeSize \in Nat \ {0} /\ MinAlign \in Nat \ {0} /\ PageSize \in Nat \ {0}
  /\ InitPages \in Nat /\ MinGrow \in Nat /\ HeapFrames \in Nat /\ MaxLive \in Nat
  /\ Layouts \subseteq [size : Nat, align : Nat \ {0}]

VARIABLES freeList,  \* nodes [addr, size]
          heapEnd,   \* heap_end
          blocks,    \* allocated: [addr, size], size as asked for
          frames,    \* physical pages left
          nulls      \* allocations that returned null_mut: frames left then
heapVars == <<freeList, heapEnd, blocks, frames, nulls>>

Atleast(n, least) == IF n < least THEN least ELSE n
AlignUp(addr, align) == ((addr + align - 1) \div align) * align
CeilDiv(n, d) == (n + d - 1) \div d

End(r) == r.addr + r.size
PrevNode(list, addr) ==
  {r \in list : r.addr < addr /\ \A q \in list : q.addr < addr => q.addr <= r.addr}
NextNode(list, addr) ==
  {r \in list : r.addr >= addr /\ \A q \in list : q.addr >= addr => r.addr <= q.addr}

\* An insertion that joins the new region with its left neighbour only.
Neighbours_LeftOnly(list, addr, size) == {r \in PrevNode(list, addr) : End(r) = addr}
(* The nodes the region [addr, addr + size) touches on either side.        *)
Neighbours(list, addr, size) ==
  {r \in PrevNode(list, addr) : End(r) = addr} \cup {r \in NextNode(list, addr) : addr + size = r.addr}

AddFreeRegion(list, addr, size) ==
  LET joined == Neighbours(list, addr, size) \cup {[addr |-> addr, size |-> size]}
      first  == CHOOSE r \in joined : \A q \in joined : r.addr <= q.addr
      last   == CHOOSE r \in joined : \A q \in joined : q.addr <= r.addr
  IN  IF size < NodeSize THEN list
      ELSE (list \ joined) \cup {[addr |-> first.addr, size |-> End(last) - first.addr]}

(* find_and_remove: the nodes that could hold the request, the first of    *)
(* them, and the list once the paddings before and after are given back.   *)
Fits(list, size, align) == {r \in list : AlignUp(r.addr, align) + size <= End(r)}
FirstFit(list, size, align) ==
  CHOOSE r \in Fits(list, size, align) : \A q \in Fits(list, size, align) : r.addr <= q.addr
Removed(list, r, start, size) ==
  LET padded == AddFreeRegion(list \ {r}, r.addr, start - r.addr)
  IN  AddFreeRegion(padded, start + size, End(r) - (start + size))

(* grow_by: a page that cannot be had ends it, and those already mapped    *)
(* stay behind heap_end, unused.                                           *)
Grown(pages) ==
  IF pages <= frames
  THEN [list |-> AddFreeRegion(freeList, heapEnd, pages * PageSize),
        end  |-> heapEnd + pages * PageSize, left |-> frames - pages]
  ELSE [list |-> freeList, end |-> heapEnd, left |-> 0]

HeapInit ==
  /\ freeList = AddFreeRegion({}, 0, InitPages * PageSize)
  /\ heapEnd = InitPages * PageSize
  /\ blocks = {} /\ frames = HeapFrames /\ nulls = {}

GrowPages(size, align) == Atleast(CeilDiv(size + align + PageSize, PageSize), MinGrow)

Alloc(layout) ==
  LET size  == Atleast(layout.size, NodeSize)
      align == Atleast(layout.align, MinAlign)
      heap  == IF Fits(freeList, size, align) # {}
               THEN [list |-> freeList, end |-> heapEnd, left |-> frames]
               ELSE Grown(GrowPages(size, align))
      node  == FirstFit(heap.list, size, align)
      start == AlignUp(node.addr, align)
      found == Fits(heap.list, size, align) # {}
  IN  /\ Cardinality(blocks) < MaxLive
      /\ heapEnd' = heap.end /\ frames' = heap.left
      /\ freeList' = IF found THEN Removed(heap.list, node, start, size) ELSE heap.list
      /\ blocks' = IF found THEN blocks \cup {[addr |-> start, size |-> layout.size]} ELSE blocks
      /\ nulls' = IF found THEN nulls ELSE nulls \cup {heap.left}

Dealloc(b) ==
  /\ freeList' = AddFreeRegion(freeList, b.addr, Atleast(b.size, NodeSize))
  /\ blocks' = blocks \ {b}
  /\ UNCHANGED <<heapEnd, frames, nulls>>

(* A null pointer ends the kernel: alloc_error panics.                     *)
HeapNext == nulls = {} /\ (\/ \E layout \in Layouts : Alloc(layout)
                           \/ \E b \in blocks : Dealloc(b))
HeapSpec == HeapInit /\ [][HeapNext]_heapVars
-----------------------------------------------------------------------------
Extent(b) == [addr |-> b.addr, size |-> Atleast(b.size, NodeSize)]
Apart(r, q) == End(r) <= q.addr \/ End(q) <= r.addr

\* After any sequence of allocations, frees and growths no byte is in two blocks,
\* in a block and on the free list, or beyond the mapped end; every node can hold
\* its header; no two nodes touch, so free neighbours were joined; and alloc has
\* returned null, which ends the kernel, only when physical memory was exhausted:
\* it grows by size + align + a page, so after a growth that got its pages the
\* second search succeeds.
HeapInv ==
  /\ \A r \in freeList : r.size >= NodeSize /\ End(r) <= heapEnd
  /\ \A b \in blocks : End(Extent(b)) <= heapEnd
  /\ \A r, q \in freeList : r # q => Apart(r, q) /\ End(r) # q.addr
  /\ \A b, c \in blocks : b # c => Apart(Extent(b), Extent(c))
  /\ \A b \in blocks, r \in freeList : Apart(Extent(b), r)
  /\ \A left \in nulls : left = 0
=============================================================================

--------------------------- MODULE ProcessProofs ----------------------------
(***************************************************************************)
(* The kernel heap and the processes, which share no state.                *)
(*                                                                         *)
(* The heap, for any sizes, alignments and number of frames: what the free *)
(* list loses to a block, gains from a freed one or from growth keeps      *)
(* nodes and blocks apart.                                                 *)
(*                                                                         *)
(* Processes and supervised drivers, for any devices of the machine, any   *)
(* restart budget and any bounds. ProcInv is not inductive: that a device  *)
(* never has two live drivers also rests on kernel_main starting each      *)
(* driver once and before its crashes can be counted, that pids stay in    *)
(* bounds on there being one program that spawns, and the count of driver  *)
(* instances on their being none while no crash was reported.              *)
(***************************************************************************)
EXTENDS Heap, Process, FiniteSetTheorems, WellFoundedInduction, TLAPS

\* Any set of addresses has a lowest one.
LEMMA LowestExists ==
    ASSUME NEW S, S \subseteq Nat, S # {}
    PROVE  \E i \in S : \A j \in S : i <= j
<1>1. S \subseteq Nat
  BY Zenon
<1>2. \E i \in S : \A j \in S : ~(<<j, i>> \in OpToRel(<, Nat))
  BY Zenon, <1>1, NatLessThanWellFounded, WFMin
<1>3. ASSUME NEW i \in S, NEW j \in S, ~(<<j, i>> \in OpToRel(<, Nat)) PROVE i <= j
  <2>1. <<j, i>> \in Nat \X Nat /\ <<j, i>>[1] = j /\ <<j, i>>[2] = i
    BY Zenon, <1>1
  <2>2. ~(j < i)
    BY Zenon, <1>3, <2>1 DEF OpToRel
  <2> QED BY <1>1, <2>2
<1> QED BY Zenon, <1>2, <1>3

-----------------------------------------------------------------------------
(* The heap.  A free list is well formed when its nodes hold their headers *)
(* and lie apart without touching; what AddFreeRegion makes of one is the  *)
(* list less the neighbours the region touches, and one node over them all. *)
Stretch == [addr : Nat, size : Nat]

WellFormed(list) ==
  /\ list \subseteq Stretch
  /\ \A r \in list : r.size >= NodeSize
  /\ \A r, q \in list : r # q => Apart(r, q) /\ End(r) # q.addr

Piece(a, s) == [addr |-> a, size |-> s]

LEMMA PieceIs ==
  \A a, s \in Nat : Piece(a, s) \in Stretch /\ Piece(a, s).addr = a /\ Piece(a, s).size = s /\ End(Piece(a, s)) = a + s
  BY Zenon DEF Piece, Stretch, End

\* The nodes that end where the region starts, or start where it ends.
LEMMA NeighboursTouch ==
  ASSUME NEW list, WellFormed(list), NEW a \in Nat, NEW s \in Nat, s >= NodeSize,
         \A q \in list : Apart(Piece(a, s), q)
  PROVE  /\ Neighbours(list, a, s) = {r \in list : End(r) = a \/ r.addr = a + s}
         /\ Piece(a, s) \notin list
  <1>0. /\ Piece(a, s) \in Stretch /\ Piece(a, s).addr = a /\ Piece(a, s).size = s /\ End(Piece(a, s)) = a + s
    BY PieceIs, Zenon
  <1>1. \A r \in list : /\ r.addr \in Nat /\ r.size \in Nat /\ r.size > 0 /\ End(r) = r.addr + r.size
                        /\ End(r) <= a \/ a + s <= r.addr
    BY HeapConstants, <1>0 DEF WellFormed, Stretch, End, Apart
  <1>2. s > 0
    BY HeapConstants
  <1>3. ASSUME NEW r \in list, End(r) = a PROVE r \in PrevNode(list, a)
    <2>1. r.addr < a
      BY <1>1, <1>3
    <2>2. ASSUME NEW q \in list, q.addr < a PROVE q.addr <= r.addr
      <3>1. CASE q = r
        BY <3>1, <1>1
      <3>2. CASE q # r
        <4>1. End(q) <= r.addr \/ End(r) <= q.addr
          BY Zenon, <3>2 DEF WellFormed, Apart
        <4> QED BY <4>1, <1>1, <1>3, <2>2
      <3> QED BY Zenon, <3>1, <3>2
    <2> QED BY Zenon, <2>1, <2>2 DEF PrevNode
  <1>4. ASSUME NEW r \in list, r.addr = a + s PROVE r \in NextNode(list, a)
    BY <1>1, <1>2, <1>4 DEF NextNode
  <1>5. ASSUME NEW r \in list PROVE r \in Neighbours(list, a, s) <=> (End(r) = a \/ r.addr = a + s)
    BY Zenon, <1>3, <1>4 DEF Neighbours, PrevNode, NextNode
  <1>6. Neighbours(list, a, s) \subseteq list
    BY Zenon DEF Neighbours, PrevNode, NextNode
  <1>7. Piece(a, s) \notin list
    BY <1>1, <1>2, <1>0
  <1> QED BY Zenon, <1>5, <1>6, <1>7

Joins(list, a, s, m) ==
  /\ m \in Stretch /\ m.addr <= a /\ a + s <= End(m)
  /\ AddFreeRegion(list, a, s) = {r \in list : End(r) # a /\ r.addr # a + s} \cup {m}
  /\ \/ m.addr = a /\ \A r \in list : End(r) # a
     \/ \E r \in list : End(r) = a /\ r.addr = m.addr
  /\ \/ End(m) = a + s /\ \A r \in list : r.addr # a + s
     \/ \E r \in list : r.addr = a + s /\ End(r) = End(m)

LEMMA RegionJoined ==
  ASSUME NEW list, WellFormed(list), NEW a \in Nat, NEW s \in Nat, s >= NodeSize,
         \A q \in list : Apart(Piece(a, s), q)
  PROVE  \E m : Joins(list, a, s, m)
  <1> DEFINE joined == Neighbours(list, a, s) \cup {Piece(a, s)}
             IsFirst(r) == \A q \in joined : r.addr <= q.addr
             IsLast(r) == \A q \in joined : q.addr <= r.addr
             first == CHOOSE r \in joined : IsFirst(r)
             last == CHOOSE r \in joined : IsLast(r)
             m == Piece(first.addr, End(last) - first.addr)
  <1>0. /\ Piece(a, s) \in Stretch /\ Piece(a, s).addr = a /\ Piece(a, s).size = s /\ End(Piece(a, s)) = a + s
    BY PieceIs, Zenon
  <1>1. \A r \in list : /\ r.addr \in Nat /\ r.size \in Nat /\ r.size > 0 /\ End(r) = r.addr + r.size
    BY HeapConstants DEF WellFormed, Stretch, End
  <1>2. s > 0
    BY HeapConstants
  <1>3. /\ joined = {r \in list : End(r) = a \/ r.addr = a + s} \cup {Piece(a, s)}
        /\ Piece(a, s) \notin list
    BY NeighboursTouch
  <1>4. AddFreeRegion(list, a, s) = (list \ joined) \cup {m}
    <2>1. ~(s < NodeSize)
      BY HeapConstants
    <2> QED BY <2>1, Zenon DEF AddFreeRegion, Piece
  <1> HIDE DEF joined
  <1>5. /\ first \in joined /\ IsFirst(first)
        /\ \/ first.addr = a /\ \A r \in list : End(r) # a
           \/ \E r \in list : End(r) = a /\ r.addr = first.addr
    <2>1. CASE \A r \in list : End(r) # a
      <3>1. Piece(a, s) \in joined /\ IsFirst(Piece(a, s))
        BY <1>1, <1>3, <2>1, <1>0
      <3>2. first \in joined /\ IsFirst(first)
        BY <3>1, Zenon
      <3>3. first.addr = a
        <4>1. first.addr <= a
          BY Zenon, <3>1, <3>2, <1>0
        <4>2. first.addr \in Nat /\ a <= first.addr
          <5>1. \A q \in joined : q.addr \in Nat /\ a <= q.addr
            BY <1>1, <1>3, <2>1, <1>0
          <5> QED BY <3>2, <5>1, Zenon
        <4> QED BY <4>1, <4>2
      <3> QED BY Zenon, <2>1, <3>2, <3>3
    <2>2. CASE \E r \in list : End(r) = a
      <3>1. PICK l \in list : End(l) = a
        BY Zenon, <2>2
      <3>2. l \in joined
        BY Zenon, <1>3, <3>1
      <3>3. ASSUME NEW q \in joined PROVE l.addr <= q.addr /\ q.addr \in Nat
        <4>1. CASE q = Piece(a, s)
          BY <1>1, <3>1, <4>1, <1>0
        <4>2. CASE q = l
          BY <1>1, <3>1, <4>2
        <4>3. CASE q \in list /\ q # l
          <5>1. End(q) = a \/ q.addr = a + s
            BY Zenon, <1>3, <4>3
          <5>2. Apart(q, l)
            BY Zenon, <4>3, <3>1 DEF WellFormed
          <5> QED BY <1>1, <3>1, <4>3, <5>1, <5>2 DEF Apart
        <4> QED BY Zenon, <1>3, <4>1, <4>2, <4>3
      <3>4. first \in joined /\ IsFirst(first)
        BY <3>2, <3>3, Zenon
      <3>5. first.addr = l.addr
        BY <1>1, <3>1, <3>2, <3>3, <3>4
      <3> QED BY Zenon, <3>1, <3>4, <3>5
    <2> QED BY Zenon, <2>1, <2>2
  <1>6. /\ last \in joined /\ IsLast(last)
        /\ \/ End(last) = a + s /\ \A r \in list : r.addr # a + s
           \/ \E r \in list : r.addr = a + s /\ End(r) = End(last)
    <2>1. CASE \A r \in list : r.addr # a + s
      <3>1. ASSUME NEW q \in joined PROVE q.addr <= a /\ q.addr \in Nat /\ (q.addr = a => q = Piece(a, s))
        BY <1>1, <1>3, <2>1, <1>0
      <3>2. Piece(a, s) \in joined /\ IsLast(Piece(a, s))
        BY Zenon, <1>3, <3>1, <1>0
      <3>3. last \in joined /\ IsLast(last)
        BY <3>2, Zenon
      <3>4. last = Piece(a, s)
        BY <3>1, <3>2, <3>3, <1>0
      <3> QED BY Zenon, <2>1, <3>3, <3>4, <1>0
    <2>2. CASE \E r \in list : r.addr = a + s
      <3>1. PICK g \in list : g.addr = a + s
        BY Zenon, <2>2
      <3>2. g \in joined
        BY Zenon, <1>3, <3>1
      <3>3. ASSUME NEW q \in joined PROVE q.addr <= g.addr /\ q.addr \in Nat /\ (q.addr = g.addr => q = g)
        <4>1. CASE q = Piece(a, s)
          BY <1>1, <1>2, <3>1, <4>1, <1>0
        <4>2. CASE q = g
          BY <1>1, <3>1, <4>2
        <4>3. CASE q \in list /\ q # g
          <5>1. End(q) = a \/ q.addr = a + s
            BY Zenon, <1>3, <4>3
          <5>2. Apart(q, g)
            BY Zenon, <4>3, <3>1 DEF WellFormed
          <5> QED BY <1>1, <1>2, <3>1, <4>3, <5>1, <5>2 DEF Apart
        <4> QED BY Zenon, <1>3, <4>1, <4>2, <4>3
      <3>4. last \in joined /\ IsLast(last)
        BY <3>2, <3>3, Zenon
      <3>5. last = g
        BY <3>1, <3>2, <3>3, <3>4
      <3> QED BY Zenon, <3>1, <3>4, <3>5
    <2> QED BY Zenon, <2>1, <2>2
  <1> HIDE DEF first, last, m
  <1>7. /\ first.addr \in Nat /\ first.addr <= a /\ End(last) \in Nat /\ a + s <= End(last)
    BY <1>1, <1>5, <1>6
  <1>8. m \in Stretch /\ m.addr = first.addr /\ End(m) = End(last)
    <2>1. End(last) - first.addr \in Nat /\ first.addr + (End(last) - first.addr) = End(last)
      BY <1>7
    <2> QED BY <1>7, <2>1, PieceIs, Zenon DEF m
  <1>9. list \ joined = {r \in list : End(r) # a /\ r.addr # a + s}
    BY Zenon, <1>3
  <1>10. Joins(list, a, s, m)
    BY <1>4, <1>5, <1>6, <1>7, <1>8, <1>9, Zenon DEF Joins
  <1> QED BY Zenon, <1>10

Clear(x, list) == \A r \in list : Apart(x, r)

(* Giving a region back: the list stays well formed and below any bound    *)
(* the region is below; what lay apart from the list and the region lies   *)
(* apart from the result; and a region with room for a node lies in one.   *)
LEMMA RegionAdded ==
  ASSUME NEW list, WellFormed(list), NEW a \in Nat, NEW s \in Nat,
         s >= NodeSize => Clear(Piece(a, s), list),
         NEW end \in Nat, a + s <= end, \A r \in list : End(r) <= end
  PROVE  LET after == AddFreeRegion(list, a, s)
         IN  /\ WellFormed(after)
             /\ \A r \in after : End(r) <= end
             /\ \A x \in Stretch : x.size > 0 /\ Clear(x, list) /\ Apart(x, Piece(a, s)) => Clear(x, after)
             /\ s >= NodeSize => \E r \in after : r.addr <= a /\ a + s <= End(r)
  <1>1. CASE s < NodeSize
    <2>1. AddFreeRegion(list, a, s) = list
      BY <1>1, Zenon DEF AddFreeRegion
    <2>2. ~(s >= NodeSize)
      BY <1>1, HeapConstants
    <2> QED BY <2>1, <2>2, Zenon
  <1>2. CASE s >= NodeSize
    <2>1. PICK m : Joins(list, a, s, m)
      BY <1>2, RegionJoined, Zenon DEF Clear
    <2>2. /\ Piece(a, s) \in Stretch /\ Piece(a, s).addr = a /\ Piece(a, s).size = s /\ End(Piece(a, s)) = a + s
      BY PieceIs, Zenon
    <2>3. \A r \in list : /\ r.addr \in Nat /\ r.size \in Nat /\ r.size > 0 /\ End(r) = r.addr + r.size
                          /\ End(r) <= a \/ a + s <= r.addr
      BY <1>2, <2>2, HeapConstants DEF WellFormed, Stretch, End, Apart, Clear
    <2>4. s > 0
      BY <1>2, HeapConstants
    <2> DEFINE others == {r \in list : End(r) # a /\ r.addr # a + s}
    <2>5. /\ AddFreeRegion(list, a, s) = others \cup {m} /\ others \subseteq list
          /\ m \in Stretch /\ m.addr <= a /\ a + s <= End(m)
          /\ \/ m.addr = a /\ \A r \in list : End(r) # a
             \/ \E r \in list : End(r) = a /\ r.addr = m.addr
          /\ \/ End(m) = a + s /\ \A r \in list : r.addr # a + s
             \/ \E r \in list : r.addr = a + s /\ End(r) = End(m)
      BY <2>1, Zenon DEF Joins
    <2>6. m.addr \in Nat /\ m.size \in Nat /\ End(m) = m.addr + m.size /\ m.size >= NodeSize /\ End(m) <= end
      BY <1>2, <2>5, <2>3, HeapConstants DEF Stretch, End
    <2>7. ASSUME NEW q \in others PROVE Apart(q, m) /\ End(q) # m.addr /\ End(m) # q.addr
      <3>1. q \in list /\ End(q) # a /\ q.addr # a + s
        BY Zenon
      <3>2. CASE End(q) <= a
        <4>1. End(q) < m.addr
          <5>1. CASE m.addr = a
            BY <2>3, <2>6, <3>1, <3>2, <5>1
          <5>2. ASSUME NEW l \in list, End(l) = a, l.addr = m.addr PROVE End(q) < m.addr
            <6>1. q # l
              BY Zenon, <3>1, <5>2
            <6>2. (End(q) <= l.addr \/ End(l) <= q.addr) /\ End(q) # l.addr
              BY Zenon, <3>1, <6>1 DEF WellFormed, Apart
            <6> QED BY <2>3, <2>6, <3>1, <3>2, <5>2, <6>2
          <5> QED BY Zenon, <2>5, <5>1, <5>2
        <4> QED BY <2>3, <2>5, <2>6, <3>1, <4>1 DEF Apart
      <3>3. CASE a + s <= q.addr
        <4>1. End(m) < q.addr
          <5>1. CASE End(m) = a + s
            BY <2>3, <2>6, <3>1, <3>3, <5>1
          <5>2. ASSUME NEW g \in list, g.addr = a + s, End(g) = End(m) PROVE End(m) < q.addr
            <6>1. q # g
              BY Zenon, <3>1, <5>2
            <6>2. (End(q) <= g.addr \/ End(g) <= q.addr) /\ End(g) # q.addr
              BY Zenon, <3>1, <6>1 DEF WellFormed, Apart
            <6> QED BY <2>3, <2>6, <3>1, <3>3, <5>2, <6>2
          <5> QED BY Zenon, <2>5, <5>1, <5>2
        <4> QED BY <2>3, <2>5, <2>6, <3>1, <4>1 DEF Apart
      <3> QED BY Zenon, <2>3, <3>1, <3>2, <3>3
    <2>8. ASSUME NEW x \in Stretch, x.size > 0, Clear(x, list), Apart(x, Piece(a, s)) PROVE Apart(x, m)
      <3>1. x.addr \in Nat /\ x.size \in Nat /\ End(x) = x.addr + x.size
        BY Zenon DEF Stretch, End
      <3>2. End(x) <= a \/ a + s <= x.addr
        BY Zenon, <2>2, <2>8 DEF Apart
      <3>3. CASE End(x) <= a
        <4>1. End(x) <= m.addr
          <5>1. CASE m.addr = a
            BY Zenon, <3>3, <5>1
          <5>2. ASSUME NEW l \in list, End(l) = a, l.addr = m.addr PROVE End(x) <= m.addr
            BY <2>3, <2>8, <3>1, <3>3, <5>2 DEF Clear, Apart
          <5> QED BY Zenon, <2>5, <5>1, <5>2
        <4> QED BY Zenon, <4>1 DEF Apart
      <3>4. CASE a + s <= x.addr
        <4>1. End(m) <= x.addr
          <5>1. CASE End(m) = a + s
            BY Zenon, <3>4, <5>1
          <5>2. ASSUME NEW g \in list, g.addr = a + s, End(g) = End(m) PROVE End(m) <= x.addr
            BY <2>3, <2>8, <3>1, <3>4, <5>2 DEF Clear, Apart
          <5> QED BY Zenon, <2>5, <5>1, <5>2
        <4> QED BY Zenon, <4>1 DEF Apart
      <3> QED BY Zenon, <3>2, <3>3, <3>4
    <2> HIDE DEF others
    <2>9. WellFormed(others \cup {m})
      <3>1. others \cup {m} \subseteq Stretch /\ \A r \in others \cup {m} : r.size >= NodeSize
        BY Zenon, <2>5, <2>6 DEF WellFormed
      <3>2. ASSUME NEW r \in others \cup {m}, NEW q \in others \cup {m}, r # q
            PROVE  Apart(r, q) /\ End(r) # q.addr
        <4>1. CASE r \in others /\ q \in others
          BY <2>5, <3>2, <4>1, Zenon DEF WellFormed
        <4>2. CASE r = m /\ q \in others
          BY Zenon, <2>7, <4>2 DEF Apart
        <4>3. CASE r \in others /\ q = m
          BY Zenon, <2>7, <4>3
        <4> QED BY Zenon, <3>2, <4>1, <4>2, <4>3
      <3> QED BY Zenon, <3>1, <3>2 DEF WellFormed
    <2>10. \A r \in others \cup {m} : End(r) <= end
      BY Zenon, <2>5, <2>6
    <2>11. ASSUME NEW x \in Stretch, x.size > 0, Clear(x, list), Apart(x, Piece(a, s)) PROVE Clear(x, others \cup {m})
      BY <2>5, <2>8, <2>11, Zenon DEF Clear
    <2> QED BY <2>5, <2>9, <2>10, <2>11, Zenon
  <1> QED BY <1>1, <1>2, HeapConstants

LEMMA DivisionBounds ==
  ASSUME NEW n \in Nat, NEW d \in Nat \ {0}
  PROVE  /\ n \div d \in Nat /\ d * (n \div d) \in Nat
         /\ d * (n \div d) <= n /\ n < d * (n \div d) + d
  <1>1. n \div d \in Nat
    OBVIOUS
  <1>2. n % d \in 0 .. d - 1 /\ n = d * (n \div d) + (n % d)
    OBVIOUS
  <1>3. d * (n \div d) \in Nat
    BY <1>1
  <1> QED BY <1>1, <1>2, <1>3

\* align_up returns the address or one less than a whole alignment above it.
LEMMA AlignedUp ==
  ASSUME NEW a \in Nat, NEW k \in Nat \ {0}
  PROVE  AlignUp(a, k) \in Nat /\ a <= AlignUp(a, k) /\ AlignUp(a, k) < a + k
  <1> DEFINE n == a + k - 1
             q == n \div k
  <1>1. n \in Nat
    OBVIOUS
  <1>2. q \in Nat /\ k * q \in Nat /\ k * q <= n /\ n < k * q + k
    BY Zenon, <1>1, DivisionBounds
  <1>3. AlignUp(a, k) = q * k
    BY Zenon DEF AlignUp
  <1> HIDE DEF q
  <1>4. q * k = k * q
    BY <1>2
  <1> QED BY <1>2, <1>3, <1>4

\* A growth has room for the request at any alignment, and a page over.
LEMMA GrowthSuffices ==
  ASSUME NEW size \in Nat, NEW align \in Nat
  PROVE  GrowPages(size, align) \in Nat /\ GrowPages(size, align) * PageSize >= size + align
  <1> DEFINE n == size + align + PageSize + PageSize - 1
             q == n \div PageSize
             g == GrowPages(size, align)
  <1>1. n \in Nat /\ PageSize \in Nat \ {0}
    BY HeapConstants
  <1>2. q \in Nat /\ PageSize * q \in Nat /\ n < PageSize * q + PageSize
    BY Zenon, <1>1, DivisionBounds
  <1>3. g = Atleast(q, MinGrow)
    BY Zenon DEF GrowPages, CeilDiv
  <1> HIDE DEF q, g
  <1>4. g \in Nat /\ q <= g
    BY <1>2, <1>3, HeapConstants DEF Atleast
  <1>5. PICK k \in Nat : g = q + k
    <2>1. g - q \in Nat /\ g = q + (g - q)
      BY <1>2, <1>4
    <2> QED BY <2>1, Zenon
  <1>6. g * PageSize = PageSize * q + PageSize * k /\ PageSize * k \in Nat
    BY <1>1, <1>2, <1>5
  <1>7. size + align <= PageSize * q
    BY <1>1, <1>2
  <1>8. g * PageSize >= size + align
    BY <1>1, <1>2, <1>6, <1>7
  <1> QED BY Zenon, <1>4, <1>8 DEF g

\* The search returns a node that can hold the request.
LEMMA FitFound ==
  ASSUME NEW list, list \subseteq Stretch, NEW size, NEW align, Fits(list, size, align) # {}
  PROVE  FirstFit(list, size, align) \in Fits(list, size, align)
  <1> DEFINE fits == Fits(list, size, align)
             starts == {r.addr : r \in fits}
  <1>1. starts \subseteq Nat /\ starts # {}
    BY Zenon DEF Fits, Stretch
  <1>2. PICK i \in starts : \A j \in starts : i <= j
    BY <1>1, LowestExists, Zenon
  <1>3. PICK r \in fits : r.addr = i
    BY Zenon, <1>2
  <1>4. \A q \in fits : r.addr <= q.addr
    BY Zenon, <1>2, <1>3
  <1> HIDE DEF fits
  <1>5. (CHOOSE x \in fits : \A q \in fits : x.addr <= q.addr) \in fits
    BY <1>4, Zenon
  <1> QED BY <1>5, Zenon DEF FirstFit, fits

(* Cutting a block out of a node gives back what is before and behind it:  *)
(* the block is clear of the new list, and so is what was clear of the old. *)
LEMMA NodeCut ==
  ASSUME NEW list, WellFormed(list), NEW r \in list, NEW start \in Nat, NEW size \in Nat, size > 0,
         r.addr <= start, start + size <= End(r), NEW end \in Nat, \A q \in list : End(q) <= end
  PROVE  LET after == Removed(list, r, start, size)
         IN  /\ WellFormed(after)
             /\ \A q \in after : End(q) <= end
             /\ Clear(Piece(start, size), after)
             /\ \A x \in Stretch : x.size > 0 /\ Clear(x, list) => Clear(x, after) /\ Apart(x, Piece(start, size))
  <1> DEFINE rest == list \ {r}
             p == start - r.addr
             t == start + size
             e == End(r) - t
             padded == AddFreeRegion(rest, r.addr, p)
             after == Removed(list, r, start, size)
  <1>1. /\ \A q \in list : q.addr \in Nat /\ q.size \in Nat /\ q.size > 0 /\ End(q) = q.addr + q.size
        /\ p \in Nat /\ t \in Nat /\ e \in Nat /\ r.addr + p = start /\ t + e = End(r) /\ NodeSize > 0
        /\ NodeSize \in Nat
    BY HeapConstants DEF WellFormed, Stretch, End
  <1>2. WellFormed(rest) /\ \A q \in rest : End(q) <= end
    BY Zenon DEF WellFormed
  <1>3. after = AddFreeRegion(padded, t, e)
    BY Zenon DEF Removed
  <1> HIDE DEF p, t, e, padded, after
  <1>4. ASSUME NEW a \in Nat, NEW s \in Nat, r.addr <= a, a + s <= End(r)
        PROVE  /\ Piece(a, s) \in Stretch /\ Piece(a, s).size = s /\ Piece(a, s).addr = a /\ End(Piece(a, s)) = a + s
               /\ Clear(Piece(a, s), rest)
               /\ \A x \in Stretch : Clear(x, list) => Apart(x, Piece(a, s))
    <2>1. /\ Piece(a, s) \in Stretch /\ Piece(a, s).size = s /\ Piece(a, s).addr = a /\ End(Piece(a, s)) = a + s
      BY PieceIs, Zenon
    <2>2. ASSUME NEW q \in rest PROVE Apart(Piece(a, s), q)
      <3>1. q \in list /\ (End(r) <= q.addr \/ End(q) <= r.addr)
        BY Zenon DEF WellFormed, Apart
      <3> QED BY <1>1, <1>4, <2>1, <3>1 DEF Apart
    <2>3. ASSUME NEW x \in Stretch, Clear(x, list) PROVE Apart(x, Piece(a, s))
      <3>1. End(x) <= r.addr \/ End(r) <= x.addr
        BY Zenon, <2>3 DEF Clear, Apart
      <3>2. x.addr \in Nat /\ End(x) \in Nat
        BY DEF Stretch, End
      <3> QED BY <1>1, <1>4, <2>1, <3>1, <3>2 DEF Apart
    <2> QED BY Zenon, <2>1, <2>2, <2>3 DEF Clear
  <1>5. /\ r.addr \in Nat /\ End(r) \in Nat /\ r.addr + p <= End(r) /\ r.addr <= t /\ t + e <= End(r) /\ r.addr <= r.addr
        /\ End(r) <= end /\ r.addr + p <= end /\ t + e <= end
    BY <1>1 DEF t
  <1>6. /\ Piece(start, size) \in Stretch /\ Piece(start, size).size = size
        /\ Piece(start, size).addr = start /\ End(Piece(start, size)) = t
        /\ Clear(Piece(start, size), rest)
        /\ \A x \in Stretch : Clear(x, list) => Apart(x, Piece(start, size))
    BY <1>4, Zenon DEF t
  <1>7. /\ Piece(r.addr, p) \in Stretch /\ Piece(r.addr, p).addr = r.addr /\ End(Piece(r.addr, p)) = start
        /\ Clear(Piece(r.addr, p), rest)
        /\ \A x \in Stretch : Clear(x, list) => Apart(x, Piece(r.addr, p))
    BY <1>1, <1>4, <1>5, Zenon
  <1>8. /\ Piece(t, e) \in Stretch /\ Piece(t, e).size = e /\ Piece(t, e).addr = t /\ End(Piece(t, e)) = End(r)
        /\ Clear(Piece(t, e), rest)
        /\ \A x \in Stretch : Clear(x, list) => Apart(x, Piece(t, e))
    BY <1>1, <1>4, <1>5, Zenon
  <1>9. /\ WellFormed(padded) /\ \A q \in padded : End(q) <= end
        /\ \A x \in Stretch : x.size > 0 /\ Clear(x, rest) /\ Apart(x, Piece(r.addr, p)) => Clear(x, padded)
    BY <1>1, <1>2, <1>5, <1>7, RegionAdded, Zenon DEF padded
  <1>10. Apart(Piece(start, size), Piece(r.addr, p)) /\ Apart(Piece(t, e), Piece(r.addr, p))
         /\ Apart(Piece(start, size), Piece(t, e))
    BY <1>1, <1>6, <1>7, <1>8 DEF Apart, t
  <1>11. Clear(Piece(start, size), padded)
    BY <1>6, <1>9, <1>10, Zenon
  <1>12. e >= NodeSize => Clear(Piece(t, e), padded)
    <2>1. e >= NodeSize => e > 0
      BY <1>1
    <2> QED BY <2>1, <1>8, <1>9, <1>10, Zenon
  <1>13. /\ WellFormed(after) /\ \A q \in after : End(q) <= end
         /\ \A x \in Stretch : x.size > 0 /\ Clear(x, padded) /\ Apart(x, Piece(t, e)) => Clear(x, after)
    BY <1>1, <1>3, <1>5, <1>9, <1>12, RegionAdded, Zenon
  <1>14. Clear(Piece(start, size), after)
    BY <1>6, <1>10, <1>11, <1>13, Zenon
  <1>15. ASSUME NEW x \in Stretch, x.size > 0, Clear(x, list) PROVE Clear(x, after) /\ Apart(x, Piece(start, size))
    <2>1. Clear(x, rest)
      BY <1>15, Zenon DEF Clear
    <2> QED BY <2>1, <1>6, <1>7, <1>8, <1>9, <1>13, <1>15, Zenon
  <1> QED BY <1>13, <1>14, <1>15, Zenon DEF after

HeapTyped == heapEnd \in Nat /\ frames \in Nat /\ blocks \subseteq Stretch /\ WellFormed(freeList)

HInv == HeapTyped /\ HeapInv

LEMMA ExtentIs ==
  \A b \in Stretch :
    /\ Extent(b) = Piece(b.addr, Atleast(b.size, NodeSize)) /\ Extent(b) \in Stretch
    /\ Atleast(b.size, NodeSize) \in Nat /\ Atleast(b.size, NodeSize) >= NodeSize
    /\ b.addr \in Nat /\ b.size \in Nat
    /\ Extent(b).size > 0 /\ Extent(b).addr = b.addr /\ End(Extent(b)) = b.addr + Atleast(b.size, NodeSize)
  BY HeapConstants DEF Extent, Stretch, Piece, End, Atleast

LEMMA HeapStart == HeapInit => HInv
  <1> SUFFICES ASSUME HeapInit PROVE HInv
    BY Zenon
  <1> DEFINE end == InitPages * PageSize
             after == AddFreeRegion({}, 0, end)
  <1>1. end \in Nat /\ 0 \in Nat /\ 0 + end <= end
    BY HeapConstants
  <1>2. WellFormed({}) /\ Clear(Piece(0, end), {}) /\ \A r \in {} : End(r) <= end
    BY Zenon DEF WellFormed, Clear
  <1>3. WellFormed(after) /\ \A r \in after : End(r) <= end
    BY <1>1, <1>2, RegionAdded, Zenon
  <1> HIDE DEF end, after
  <1>4. freeList = after /\ heapEnd = end /\ blocks = {} /\ frames \in Nat /\ nulls = {}
    BY Zenon, HeapConstants DEF HeapInit, end, after
  <1>5. HeapTyped
    BY Zenon, <1>1, <1>3, <1>4 DEF HeapTyped
  <1>6. HeapInv
    BY <1>3, <1>4, Zenon DEF HeapInv, WellFormed
  <1> QED BY Zenon, <1>5, <1>6 DEF HInv

\* A freed block goes back to the list.
LEMMA DeallocStep ==
  ASSUME HInv, NEW b \in blocks, Dealloc(b)
  PROVE  HInv'
  <1> DEFINE s == Atleast(b.size, NodeSize)
             after == AddFreeRegion(freeList, b.addr, s)
  <1>1. b \in Stretch /\ heapEnd \in Nat /\ frames \in Nat /\ blocks \subseteq Stretch /\ WellFormed(freeList)
    BY Zenon DEF HInv, HeapTyped
  <1>2. /\ Extent(b) = Piece(b.addr, s) /\ s \in Nat /\ s >= NodeSize /\ b.addr \in Nat
        /\ End(Extent(b)) = b.addr + s
    BY <1>1, ExtentIs, Zenon
  <1>3. Clear(Piece(b.addr, s), freeList) /\ b.addr + s <= heapEnd /\ \A r \in freeList : End(r) <= heapEnd
    BY <1>2, Zenon DEF HInv, HeapInv, Clear
  <1> HIDE DEF s
  <1>4. /\ WellFormed(after) /\ \A r \in after : End(r) <= heapEnd
        /\ \A x \in Stretch : x.size > 0 /\ Clear(x, freeList) /\ Apart(x, Piece(b.addr, s)) => Clear(x, after)
    BY <1>1, <1>2, <1>3, RegionAdded, Zenon
  <1> HIDE DEF after
  <1>5. freeList' = after /\ blocks' = blocks \ {b} /\ heapEnd' = heapEnd /\ frames' = frames /\ nulls' = nulls
    BY Zenon DEF Dealloc, after, s
  <1>6. HeapTyped'
    BY Zenon, <1>1, <1>4, <1>5 DEF HeapTyped
  <1>7. ASSUME NEW c \in blocks, c # b PROVE Clear(Extent(c), after)
    <2>1. Extent(c) \in Stretch /\ Extent(c).size > 0
      BY <1>1, ExtentIs, Zenon
    <2>2. Clear(Extent(c), freeList) /\ Apart(Extent(c), Extent(b))
      BY <1>7, Zenon DEF HInv, HeapInv, Clear
    <2> QED BY <1>2, <1>4, <2>1, <2>2, Zenon
  <1>8. HeapInv'
    <2>1. /\ \A r \in after : r.size >= NodeSize /\ End(r) <= heapEnd
          /\ \A r, q \in after : r # q => Apart(r, q) /\ End(r) # q.addr
      BY <1>4, Zenon DEF WellFormed
    <2>2. /\ \A c \in blocks : End(Extent(c)) <= heapEnd
          /\ \A c, d \in blocks : c # d => Apart(Extent(c), Extent(d))
          /\ \A spare \in nulls : spare = 0
      BY Zenon DEF HInv, HeapInv
    <2> QED BY <1>5, <1>7, <2>1, <2>2, Zenon DEF HeapInv, Clear
  <1> QED BY Zenon, <1>6, <1>8 DEF HInv

(* What find_and_remove searches, before or after grow_by.                 *)
Searchable(list, end, spare) ==
  /\ end \in Nat /\ spare \in Nat /\ WellFormed(list)
  /\ \A r \in list : End(r) <= end
  /\ \A b \in blocks : End(Extent(b)) <= end /\ Clear(Extent(b), list)

LEMMA SearchedAtFirst == HInv => Searchable(freeList, heapEnd, frames)
  BY Zenon DEF HInv, HeapTyped, HeapInv, Searchable, Clear

(* grow_by appends its pages to the list, joined with a node that ended at *)
(* heap_end; unless a page could not be had, the search then succeeds.     *)
LEMMA GrowthSearchable ==
  ASSUME HInv, NEW size \in Nat, size >= NodeSize, NEW align \in Nat \ {0}
  PROVE  LET grown == Grown(GrowPages(size, align))
         IN  /\ Searchable(grown.list, grown.end, grown.left)
             /\ grown.left = 0 \/ Fits(grown.list, size, align) # {}
  <1> DEFINE g == GrowPages(size, align)
             s == g * PageSize
             end == heapEnd + s
             after == AddFreeRegion(freeList, heapEnd, s)
  <1>1. Searchable(freeList, heapEnd, frames)
    BY Zenon, SearchedAtFirst
  <1>2. CASE g <= frames
    <2>1. Grown(g) = [list |-> after, end |-> end, left |-> frames - g]
      BY <1>2, Zenon DEF Grown
    <2>2. Grown(g).list = after /\ Grown(g).end = end /\ Grown(g).left = frames - g
      BY <2>1
    <2>3. g \in Nat /\ s >= size + align
      BY Zenon, GrowthSuffices
    <2>4. s \in Nat
      BY <2>3, HeapConstants
    <2> HIDE DEF g, s
    <2>5. heapEnd \in Nat /\ frames \in Nat /\ WellFormed(freeList)
      BY <1>1, Zenon DEF Searchable
    <2>6. \A r \in freeList : End(r) <= heapEnd /\ End(r) \in Nat
      BY <1>1 DEF Searchable, WellFormed, Stretch, End
    <2>7. /\ Piece(heapEnd, s) \in Stretch /\ Piece(heapEnd, s).addr = heapEnd
      BY <2>4, <2>5, PieceIs, Zenon
    <2>8. /\ end \in Nat /\ heapEnd + s <= end /\ heapEnd <= end /\ s >= NodeSize
          /\ \A r \in freeList : End(r) <= end
      BY <2>3, <2>4, <2>5, <2>6, HeapConstants
    <2>9. Clear(Piece(heapEnd, s), freeList)
      BY Zenon, <2>6, <2>7 DEF Clear, Apart
    <2> HIDE DEF end
    <2>10. /\ WellFormed(after) /\ \A r \in after : End(r) <= end
           /\ \A x \in Stretch : x.size > 0 /\ Clear(x, freeList) /\ Apart(x, Piece(heapEnd, s)) => Clear(x, after)
           /\ \E r \in after : r.addr <= heapEnd /\ heapEnd + s <= End(r)
      BY <2>4, <2>5, <2>8, <2>9, RegionAdded, Zenon
    <2> HIDE DEF after
    <2>11. ASSUME NEW b \in blocks PROVE End(Extent(b)) <= end /\ Clear(Extent(b), after)
      <3>1. b \in Stretch
        BY Zenon DEF HInv, HeapTyped
      <3>2. Extent(b) \in Stretch /\ Extent(b).size > 0
        BY <3>1, ExtentIs, Zenon
      <3>3. End(Extent(b)) <= heapEnd /\ Clear(Extent(b), freeList)
        BY <1>1, Zenon DEF Searchable
      <3>4. End(Extent(b)) \in Nat
        BY <3>2 DEF Stretch, End
      <3>5. Apart(Extent(b), Piece(heapEnd, s))
        BY Zenon, <2>7, <3>3 DEF Apart
      <3>6. Clear(Extent(b), after)
        BY <2>10, <3>2, <3>3, <3>5, Zenon
      <3> QED BY <2>5, <2>8, <3>3, <3>4, <3>6
    <2>12. Fits(after, size, align) # {}
      <3>1. PICK r \in after : r.addr <= heapEnd /\ heapEnd + s <= End(r)
        BY Zenon, <2>10
      <3>2. r.addr \in Nat /\ End(r) \in Nat
        BY <2>10 DEF WellFormed, Stretch, End
      <3>3. AlignUp(r.addr, align) \in Nat /\ AlignUp(r.addr, align) < r.addr + align
        BY Zenon, <3>2, AlignedUp
      <3>4. AlignUp(r.addr, align) + size <= End(r)
        BY <2>3, <2>4, <2>5, <3>1, <3>2, <3>3
      <3> QED BY Zenon, <3>4 DEF Fits
    <2>13. Searchable(after, end, frames - g)
      <3>1. frames - g \in Nat
        BY <1>2, <2>3, <2>5
      <3> QED BY <2>8, <2>10, <2>11, <3>1, Zenon DEF Searchable
    <2> QED BY <2>2, <2>12, <2>13, Zenon DEF g
  <1>3. CASE ~(g <= frames)
    <2>1. Grown(g) = [list |-> freeList, end |-> heapEnd, left |-> 0]
      BY <1>3, Zenon DEF Grown
    <2>2. Grown(g).list = freeList /\ Grown(g).end = heapEnd /\ Grown(g).left = 0
      BY <2>1
    <2>3. Searchable(freeList, heapEnd, 0)
      BY Zenon, <1>1 DEF Searchable
    <2> QED BY <2>2, <2>3, Zenon DEF g
  <1> QED BY Zenon, <1>2, <1>3

\* An allocation: the search, and the growth before a second one.
LEMMA AllocStep ==
  ASSUME HInv, NEW layout \in Layouts, Alloc(layout)
  PROVE  HInv'
  <1> DEFINE size == Atleast(layout.size, NodeSize)
             align == Atleast(layout.align, MinAlign)
             searched == IF Fits(freeList, size, align) # {}
                     THEN [list |-> freeList, end |-> heapEnd, left |-> frames]
                     ELSE Grown(GrowPages(size, align))
             node == FirstFit(searched.list, size, align)
             start == AlignUp(node.addr, align)
             found == Fits(searched.list, size, align) # {}
             after == Removed(searched.list, node, start, size)
             block == [addr |-> start, size |-> layout.size]
  <1>1. size \in Nat /\ size >= NodeSize /\ size > 0 /\ align \in Nat \ {0} /\ layout.size \in Nat
    BY HeapConstants DEF Atleast
  <1>2. Searchable(searched.list, searched.end, searched.left) /\ (searched.left = 0 \/ found)
    <2>1. CASE Fits(freeList, size, align) # {}
      <3>1. searched = [list |-> freeList, end |-> heapEnd, left |-> frames]
        BY Zenon, <2>1
      <3>2. searched.list = freeList /\ searched.end = heapEnd /\ searched.left = frames
        BY SMTT(40), <3>1
      <3> QED BY <2>1, <3>2, SearchedAtFirst, Zenon
    <2>2. CASE Fits(freeList, size, align) = {}
      <3>1. searched = Grown(GrowPages(size, align))
        BY Zenon, <2>2
      <3> QED BY <1>1, <3>1, GrowthSearchable, Zenon
    <2> QED BY Zenon, <2>1, <2>2
  <1>3. /\ heapEnd' = searched.end /\ frames' = searched.left
        /\ freeList' = IF found THEN after ELSE searched.list
        /\ blocks' = IF found THEN blocks \cup {block} ELSE blocks
        /\ nulls' = IF found THEN nulls ELSE nulls \cup {searched.left}
    BY Zenon DEF Alloc
  <1>4. PICK list, end, spare : list = searched.list /\ end = searched.end /\ spare = searched.left
    BY Zenon
  <1>5. /\ \A c, d \in blocks : c # d => Apart(Extent(c), Extent(d))
        /\ \A l \in nulls : l = 0
        /\ blocks \subseteq Stretch
    BY Zenon DEF HInv, HeapTyped, HeapInv
  <1>6. CASE ~found
    <2>1. heapEnd' = end /\ frames' = spare /\ freeList' = list /\ blocks' = blocks /\ nulls' = nulls \cup {0} /\ spare = 0
      BY Zenon, <1>2, <1>3, <1>4, <1>6
    <2> HIDE DEF size, align, searched, node, start, found, after, block
    <2>2. Searchable(list, end, spare)
      BY Zenon, <1>2, <1>4
    <2>3. HeapTyped'
      BY <1>5, <2>1, <2>2, Zenon DEF HeapTyped, Searchable
    <2>4. HeapInv'
      BY <1>5, <2>1, <2>2, Zenon DEF HeapInv, Searchable, WellFormed, Clear
    <2> QED BY Zenon, <2>3, <2>4 DEF HInv
  <1>7. CASE found
    <2>1. PICK r, from : r = node /\ from = start
      BY Zenon
    <2>2. /\ heapEnd' = end /\ frames' = spare /\ freeList' = Removed(list, r, from, size)
          /\ blocks' = blocks \cup {[addr |-> from, size |-> layout.size]} /\ nulls' = nulls
      BY <1>3, <1>4, <1>7, <2>1, Zenon
    <2>3. Searchable(list, end, spare)
      BY Zenon, <1>2, <1>4
    <2>4. r = FirstFit(list, size, align) /\ from = AlignUp(r.addr, align) /\ Fits(list, size, align) # {}
      BY Zenon, <1>4, <1>7, <2>1
    <2>5. Extent([addr |-> from, size |-> layout.size]) = Piece(from, size)
      BY Zenon DEF Extent, Piece
    <2> HIDE DEF size, align, searched, node, start, found, after, block
    <2>6. r \in list /\ AlignUp(r.addr, align) + size <= End(r)
      <3>1. list \subseteq Stretch
        BY <2>3, Zenon DEF Searchable, WellFormed
      <3>2. r \in Fits(list, size, align)
        BY <2>4, <3>1, FitFound, Zenon
      <3> QED BY Zenon, <3>2 DEF Fits
    <2>7. r.addr \in Nat
      BY Zenon, <2>3, <2>6 DEF Searchable, WellFormed, Stretch
    <2>8. from \in Nat /\ r.addr <= from /\ from + size <= End(r)
      BY Zenon, <1>1, <2>4, <2>6, <2>7, AlignedUp
    <2>9. PICK trimmed : trimmed = Removed(list, r, from, size)
      OBVIOUS
    <2>10. /\ WellFormed(trimmed) /\ \A q \in trimmed : End(q) <= end
           /\ Clear(Piece(from, size), trimmed)
           /\ \A x \in Stretch : x.size > 0 /\ Clear(x, list) => Clear(x, trimmed) /\ Apart(x, Piece(from, size))
      BY <1>1, <2>3, <2>6, <2>8, <2>9, NodeCut, Zenon DEF Searchable
    <2>11. PICK new : new = [addr |-> from, size |-> layout.size]
      BY Zenon
    <2>12. new \in Stretch /\ Extent(new) = Piece(from, size) /\ End(Extent(new)) = from + size
      BY <1>1, <2>5, <2>8, <2>11, PieceIs DEF Stretch
    <2>13. End(Extent(new)) <= end
      <3>1. End(r) <= end /\ end \in Nat /\ End(r) \in Nat
        BY <2>3, <2>6 DEF Searchable, WellFormed, Stretch, End
      <3> QED BY <1>1, <2>8, <2>12, <3>1
    <2>14. ASSUME NEW c \in blocks PROVE Clear(Extent(c), trimmed) /\ Apart(Extent(c), Extent(new)) /\ End(Extent(c)) <= end
      <3>1. Extent(c) \in Stretch /\ Extent(c).size > 0
        BY <1>5, ExtentIs, Zenon
      <3> QED BY <2>3, <2>10, <2>12, <3>1, Zenon DEF Searchable
    <2>15. heapEnd' = end /\ frames' = spare /\ freeList' = trimmed /\ blocks' = blocks \cup {new} /\ nulls' = nulls
      BY <2>2, <2>9, <2>11, Zenon
    <2>16. HeapTyped'
      BY <1>5, <2>3, <2>10, <2>12, <2>15, Zenon DEF HeapTyped, Searchable
    <2>17. \A c, d \in blocks \cup {new} : c # d => Apart(Extent(c), Extent(d))
      BY <1>5, <2>14 DEF Apart
    <2>18. \A c \in blocks \cup {new} : End(Extent(c)) <= end /\ Clear(Extent(c), trimmed)
      BY <2>10, <2>12, <2>13, <2>14, Zenon
    <2>19. /\ \A q \in trimmed : q.size >= NodeSize /\ End(q) <= end
           /\ \A p, q \in trimmed : p # q => Apart(p, q) /\ End(p) # q.addr
      BY <2>10, Zenon DEF WellFormed
    <2>20. HeapInv'
      BY <1>5, <2>15, <2>17, <2>18, <2>19, Zenon DEF HeapInv, Clear
    <2> QED BY Zenon, <2>16, <2>20 DEF HInv
  <1> QED BY Zenon, <1>6, <1>7

(* For every layout, alignment, page size and amount of memory: no byte of *)
(* the kernel heap is in two blocks or in a block and on the free list,    *)
(* neighbours are joined, and alloc fails only when memory is exhausted.   *)
THEOREM HeapSafe == HeapSpec => []HeapInv
  <1>1. HInv /\ [HeapNext]_heapVars => HInv'
    <2> SUFFICES ASSUME HInv, [HeapNext]_heapVars PROVE HInv'
      BY Zenon
    <2>1. CASE UNCHANGED heapVars
      BY <2>1, Zenon DEF heapVars, HInv, HeapTyped, HeapInv
    <2>2. CASE HeapNext
      BY <2>2, AllocStep, DeallocStep, Zenon DEF HeapNext
    <2> QED BY Zenon, <2>1, <2>2
  <1>2. HInv => HeapInv
    BY Zenon DEF HInv
  <1> QED BY <1>1, <1>2, HeapStart, PTL DEF HeapSpec
-----------------------------------------------------------------------------
(* The processes and the supervised drivers. *)

Roles == Devices \cup {"none", "app", "child"}
Modes == {"unborn", "setup", "user", "loading", "wait", "dead"}

\* What the i-th step of kernel_main starts.
Starts(i) == IF BootScript[i][1] = "program" THEN "app" ELSE BootScript[i][2]

\* Threads are born in the order of their tids, each with its role.
ThreadInv ==
  /\ nextTid \in 1 .. (MaxThreads + 1)
  /\ role \in [Threads -> Roles] /\ mode \in [Threads -> Modes]
  /\ \A t \in Threads : /\ mode[t] = "unborn" <=> nextTid <= t
                        /\ role[t] = "none" <=> nextTid <= t

\* What kernel_main has not come to has not been started.
BootInv ==
  /\ boot \in 1 .. 11
  /\ boot # 11 => BootScript[boot][2] \in Devices \cup {"all"}
  /\ installed \in BOOLEAN /\ (installed => 4 < boot)
  /\ \A i \in 1 .. 10 : BootScript[i][1] \in {"spawn", "program"} /\ boot <= i => Instances(Starts(i)) = {}

\* One program may spawn, and the bound on pids is kept while it loads.
LoadInv ==
  /\ nextPid \in 1 .. (MaxProcs + 1)
  /\ \A t, u \in Instances("app") : t = u
  /\ \A t \in Threads : mode[t] = "loading" => role[t] = "app" /\ nextPid <= MaxProcs

WaitInv ==
  /\ wants \in [Threads -> 0 .. MaxProcs] /\ got \in [Threads -> Results]
  /\ \A t \in Threads : mode[t] = "wait" => wants[t] \in 1 .. (nextPid - 1)

TableInv ==
  /\ table \in Seq(Entry)
  /\ \A i \in DOMAIN table : /\ table[i].pid < nextPid /\ role[table[i].tid] = "child"
                             /\ table[i].exited => mode[table[i].tid] = "dead"
  /\ \A i, j \in DOMAIN table : i < j => table[i].pid < table[j].pid /\ table[i].tid < table[j].tid

OwnerInv ==
  /\ registered \subseteq Devices /\ owner \in [Devices -> Threads \cup {0}]
  /\ \A d \in Devices : owner[d] # 0 => d \in registered /\ role[owner[d]] = d

\* One live driver per device, none of a failed one.
AliveInv ==
  /\ \A d \in Devices : \A t, u \in Instances(d) : Alive(t) /\ Alive(u) => t = u
  /\ \A d \in Devices : managed[d] = "Failed" =>
        installed /\ Instances(d) # {} /\ \A t \in Instances(d) : ~Alive(t)

\* A driver's instances are its first and one for each restart.
BudgetInv ==
  /\ restarts \in [Devices -> Nat]
  /\ \A d \in Devices : /\ restarts[d] <= MaxRestarts
                        /\ IF Instances(d) = {} THEN restarts[d] = 0
                           ELSE Cardinality(Instances(d)) = restarts[d] + 1

Crashed      == [event |-> "crashed", attempt |-> 0]
Restarted(k) == [event |-> "restarted", attempt |-> k]
Quarantined  == [event |-> "quarantined", attempt |-> 0]
Expected(n)  == [i \in 1 .. (2 * n) |-> IF i % 2 = 1 THEN Crashed ELSE Restarted(i \div 2)]
Closing      == <<Crashed, Quarantined>>

TrailInv ==
  /\ DOMAIN trail = Devices /\ DOMAIN managed = Devices
  /\ \A d \in Devices :
        \/ trail[d] = Expected(restarts[d])
        \/ managed[d] = "Failed" /\ restarts[d] = MaxRestarts /\ trail[d] = Expected(restarts[d]) \o Closing

\* The inductive invariant.
PInv == ThreadInv /\ BootInv /\ LoadInv /\ WaitInv /\ TableInv /\ OwnerInv /\ AliveInv /\ BudgetInv /\ TrailInv
-----------------------------------------------------------------------------
LEMMA FirstIsFirst ==
  ASSUME NEW S, S \subseteq Nat, S # {}
  PROVE  First(S) \in S /\ \A j \in S : First(S) <= j
<1>1. S \subseteq Nat
  BY Zenon
<1>2. \E i \in S : \A j \in S : ~(<<j, i>> \in OpToRel(<, Nat))
  BY Zenon, <1>1, NatLessThanWellFounded, WFMin
<1>3. ASSUME NEW i \in S, NEW j \in S, ~(<<j, i>> \in OpToRel(<, Nat)) PROVE i <= j
  <2>1. <<j, i>> \in Nat \X Nat /\ <<j, i>>[1] = j /\ <<j, i>>[2] = i
    BY Zenon, <1>1
  <2>2. ~(j < i)
    BY Zenon, <1>3, <2>1 DEF OpToRel
  <2> QED BY <1>1, <2>2
<1>4. \E i \in S : \A j \in S : i <= j
  BY Zenon, <1>2, <1>3
<1> QED BY Zenon, <1>4 DEF First

LEMMA BootSteps ==
  /\ DOMAIN BootScript = 1 .. 10 /\ Len(BootScript) = 10
  /\ BootScript[1] = <<"spawn", "ahci">> /\ BootScript[2] = <<"register", "xhci">>
  /\ BootScript[3] = <<"spawn", "xhci">> /\ BootScript[4] = <<"install", "all">>
  /\ BootScript[5] = <<"register", "ahci">> /\ BootScript[6] = <<"services", "all">>
  /\ BootScript[7] = <<"spawn", "compositor">> /\ BootScript[8] = <<"synthetic", "compositor">>
  /\ BootScript[9] = <<"register", "compositor">> /\ BootScript[10] = <<"program", "all">>
  BY DEF BootScript

\* Each driver, and the first program, is started by one step of kernel_main.
LEMMA StartedOnce ==
  ASSUME NEW i \in 1 .. 10, NEW j \in 1 .. 10,
         BootScript[i][1] \in {"spawn", "program"}, BootScript[j][1] \in {"spawn", "program"},
         Starts(i) = Starts(j)
  PROVE  i = j
<1>1. i \in {1, 3, 7, 10} /\ j \in {1, 3, 7, 10}
  BY BootSteps
<1>2. Starts(1) = "ahci" /\ Starts(3) = "xhci" /\ Starts(7) = "compositor" /\ Starts(10) = "app"
  BY BootSteps DEF Starts
<1> QED BY <1>1, <1>2

LEMMA FollowingAhead ==
  ASSUME NEW i \in 0 .. 10
  PROVE  /\ Following(i) \in (i + 1) .. 11
         /\ Following(i) # 11 => BootScript[Following(i)][2] \in Devices \cup {"all"}
<1> DEFINE ahead == {j \in DOMAIN BootScript : i < j /\ BootScript[j][2] \in Devices \cup {"all"}}
<1>1. Following(i) = IF ahead = {} THEN 11 ELSE First(ahead)
  BY BootSteps DEF Following
<1>2. ahead \subseteq Nat /\ \A j \in ahead : j \in (i + 1) .. 10 /\ BootScript[j][2] \in Devices \cup {"all"}
  BY BootSteps
<1>3. CASE ahead = {}
  BY <1>1, <1>3
<1>4. CASE ahead # {}
  <2>1. First(ahead) \in ahead
    <3> HIDE DEF ahead
    <3> QED BY Zenon, <1>2, <1>4, FirstIsFirst
  <2> QED BY <1>1, <1>2, <1>4, <2>1
<1> QED BY Zenon, <1>3, <1>4

\* No device is named like another role.
LEMMA DeviceNames == \A d \in Devices : d \notin {"none", "app", "child"}
  BY Zenon, ProcessConstants

\* What a new thread does to the instances of its role, and of the others.
LEMMA InstancesGrow ==
  ASSUME ThreadInv, nextTid \in Threads, NEW r \in Roles \ {"none"}, role' = [role EXCEPT ![nextTid] = r]
  PROVE  /\ Instances(r)' = Instances(r) \cup {nextTid} /\ nextTid \notin Instances(r)
         /\ \A x : x \notin {"none", r} => Instances(x)' = Instances(x)
<1>1. role \in [Threads -> Roles] /\ role[nextTid] = "none"
  BY DEF ThreadInv, Threads
<1>2. role'[nextTid] = r /\ \A t \in Threads \ {nextTid} : role'[t] = role[t]
  BY Zenon, <1>1
<1> QED BY Zenon, <1>1, <1>2 DEF Instances

\* A thread is born; another one may move at the same time.
LEMMA BirthKeeps ==
  ASSUME ThreadInv, nextTid \in Threads, nextTid' = nextTid + 1, NEW r \in Roles \ {"none"},
         role' = [role EXCEPT ![nextTid] = r], mode' \in [Threads -> Modes], mode'[nextTid] # "unborn",
         \A u \in Threads \ {nextTid} : (mode'[u] = "unborn" <=> mode[u] = "unborn")
                                        /\ (mode[u] = "dead" => mode'[u] = "dead")
  PROVE  /\ ThreadInv'
         /\ \A u \in Threads : mode[u] = "dead" => mode'[u] = "dead"
         /\ \A u \in Threads : role[u] # "none" => role'[u] = role[u]
<1>1. MaxThreads \in Nat /\ nextTid \in 1 .. MaxThreads
  BY Zenon, ProcessConstants DEF Threads
<1>2. role' \in [Threads -> Roles] /\ role'[nextTid] = r /\ \A t \in Threads \ {nextTid} : role'[t] = role[t]
  BY Zenon DEF ThreadInv
<1>3. mode[nextTid] = "unborn" /\ role[nextTid] = "none"
  BY <1>1 DEF ThreadInv
<1>4. \A t \in Threads : nextTid' <= t <=> nextTid <= t /\ t # nextTid
  BY <1>1 DEF Threads
<1>5. \A t \in Threads : (mode[t] = "unborn" <=> nextTid <= t) /\ (role[t] = "none" <=> nextTid <= t)
  BY Zenon DEF ThreadInv
<1>6. nextTid' \in 1 .. (MaxThreads + 1)
  BY <1>1
<1> QED BY Zenon, <1>2, <1>3, <1>4, <1>5, <1>6 DEF ThreadInv

\* A thread that lives moves on.
LEMMA MoveKeeps ==
  ASSUME ThreadInv, NEW t \in Threads, Alive(t), NEW m \in Modes \ {"unborn"},
         mode' = [mode EXCEPT ![t] = m], UNCHANGED <<nextTid, role>>
  PROVE  /\ ThreadInv'
         /\ \A u \in Threads : mode[u] = "dead" => mode'[u] = "dead"
         /\ \A u \in Threads : role[u] # "none" => role'[u] = role[u]
<1>1. mode' \in [Threads -> Modes] /\ mode'[t] = m /\ \A u \in Threads \ {t} : mode'[u] = mode[u]
  BY Zenon DEF ThreadInv
<1>2. mode[t] # "unborn" /\ mode[t] # "dead" /\ m # "unborn"
  BY Zenon DEF Alive
<1> QED BY Zenon, <1>1, <1>2 DEF ThreadInv

\* The device a crash is reported for is the one the dying thread drove.
LEMMA CrashIs ==
  ASSUME OwnerInv, NEW t \in Threads, FaultDriver(t)
  PROVE  \E d \in Devices :
           /\ role[t] = d /\ mode[t] = "user" /\ installed /\ ReportCrash(d)
           /\ managed' = [managed EXCEPT ![d] = IF Quarantine(d) THEN "Failed" ELSE "Running"]
           /\ IF Quarantine(d)
              THEN mode' = [mode EXCEPT ![t] = "dead"] /\ UNCHANGED <<nextTid, role>>
              ELSE /\ nextTid \in Threads /\ nextTid' = nextTid + 1
                   /\ role' = [role EXCEPT ![nextTid] = d]
                   /\ mode' = [mode EXCEPT ![t] = "dead", ![nextTid] = "setup"]
           /\ UNCHANGED <<boot, wants, got, procVars, registered, owner, installed, services, panicked>>
<1>1. PICK d : d = CHOOSE x \in Traced(t) : TRUE
  BY Zenon
<1>2. Traced(t) # {}
  BY Zenon DEF FaultDriver
<1>3. d \in registered /\ owner[d] = t
  BY Zenon, <1>1, <1>2 DEF Traced
<1>4. d \in Devices /\ t # 0
  BY <1>3 DEF OwnerInv, Threads
<1>5. role[t] = d
  BY Zenon, <1>3, <1>4 DEF OwnerInv
<1>6. MarkRunning("Restarting") = "Running"
  BY Zenon DEF MarkRunning
<1> QED BY Zenon, <1>1, <1>4, <1>5, <1>6 DEF FaultDriver

\* The steps that move one live thread, those that give birth, and the rest.
MovesTo(t, m) == Alive(t) /\ mode' = [mode EXCEPT ![t] = m] /\ UNCHANGED <<nextTid, role>>

LEMMA ThreadStep ==
  ASSUME ThreadInv, BootInv, OwnerInv, [Next]_vars
  PROVE  /\ ThreadInv'
         /\ \A u \in Threads : mode[u] = "dead" => mode'[u] = "dead"
         /\ \A u \in Threads : role[u] # "none" => role'[u] = role[u]
<1>1. CASE UNCHANGED <<nextTid, role, mode>>
  BY Zenon, <1>1 DEF ThreadInv
<1>2. ASSUME NEW t \in Threads, NEW m \in Modes \ {"unborn"}, MovesTo(t, m)
      PROVE  /\ ThreadInv'
             /\ \A u \in Threads : mode[u] = "dead" => mode'[u] = "dead"
             /\ \A u \in Threads : role[u] # "none" => role'[u] = role[u]
  BY Zenon, <1>2, MoveKeeps DEF MovesTo
<1>3. ASSUME NEW r \in Roles \ {"none"}, NEW m \in Modes \ {"unborn"}, NewThread(r, m)
      PROVE  /\ ThreadInv'
             /\ \A u \in Threads : mode[u] = "dead" => mode'[u] = "dead"
             /\ \A u \in Threads : role[u] # "none" => role'[u] = role[u]
  <2>1. nextTid \in Threads /\ nextTid' = nextTid + 1 /\ role' = [role EXCEPT ![nextTid] = r]
        /\ mode' = [mode EXCEPT ![nextTid] = m]
    BY Zenon, <1>3 DEF NewThread
  <2>2. mode' \in [Threads -> Modes] /\ mode'[nextTid] = m /\ \A u \in Threads \ {nextTid} : mode'[u] = mode[u]
    BY Zenon, <2>1 DEF ThreadInv
  <2> QED BY Zenon, <2>1, <2>2, BirthKeeps
<1>4. ASSUME NEW t \in Threads, Alive(t), nextTid \in Threads, nextTid' = nextTid + 1,
             NEW r \in Roles \ {"none"}, role' = [role EXCEPT ![nextTid] = r],
             NEW m \in Modes \ {"unborn"}, NEW n \in Modes \ {"unborn"},
             mode' = [mode EXCEPT ![t] = m, ![nextTid] = n]
      PROVE  /\ ThreadInv'
             /\ \A u \in Threads : mode[u] = "dead" => mode'[u] = "dead"
             /\ \A u \in Threads : role[u] # "none" => role'[u] = role[u]
  <2>1. mode[t] # "unborn" /\ mode[t] # "dead"
    BY Zenon, <1>4 DEF Alive
  <2>2. t # nextTid
    BY <1>4, <2>1 DEF ThreadInv, Threads
  <2>3. mode' \in [Threads -> Modes] /\ mode'[nextTid] = n /\ mode'[t] = m
        /\ \A u \in Threads \ {nextTid, t} : mode'[u] = mode[u]
    BY Zenon, <1>4, <2>2 DEF ThreadInv
  <2> QED BY Zenon, <1>4, <2>1, <2>3, BirthKeeps
<1>5. CASE Kernel
  <2>1. CASE BootSpawn
    <3>1. BootDev \in Devices
      BY <2>1, BootSteps DEF BootInv, BootSpawn, At, BootDev
    <3>2. BootDev \in Roles \ {"none"} /\ "setup" \in Modes \ {"unborn"} /\ NewThread(BootDev, "setup")
      BY Zenon, <2>1, <3>1, DeviceNames DEF BootSpawn, Roles, Modes
    <3> QED BY Zenon, <3>2, <1>3
  <2>2. CASE BootProgram
    <3>1. "app" \in Roles \ {"none"} /\ "user" \in Modes \ {"unborn"} /\ NewThread("app", "user")
      BY Zenon, <2>2 DEF BootProgram, Roles, Modes
    <3> QED BY Zenon, <3>1, <1>3
  <2>3. CASE BootRegister \/ BootInstall \/ BootSynthetic \/ BootServices
    BY Zenon, <1>1, <2>3 DEF BootRegister, BootInstall, BootSynthetic, BootServices, threadVars
  <2> QED BY Zenon, <1>5, <2>1, <2>2, <2>3 DEF Kernel
<1>6. CASE ServiceStart \/ UNCHANGED vars
  BY Zenon, <1>1, <1>6 DEF ServiceStart, vars, threadVars
<1>7. ASSUME NEW t \in Threads,
             DriverStart(t) \/ DriverAbort(t) \/ FaultUntraced(t) \/ SpawnBegin(t) \/ SpawnFail(t)
             \/ (\E p \in 1 .. MaxProcs : WaitBegin(t, p)) \/ TryWait(t) \/ (\E code \in Codes : SysExit(t, code))
      PROVE  \E m \in Modes \ {"unborn"} : MovesTo(t, m)
  <2>1. Alive(t)
    BY Zenon, <1>7 DEF DriverStart, DriverAbort, FaultUntraced, SpawnBegin, SpawnFail, WaitBegin, TryWait, SysExit, Alive
  <2>2. UNCHANGED <<nextTid, role>>
    BY Zenon, <1>7 DEF DriverStart, DriverAbort, FaultUntraced, SpawnBegin, SpawnFail, WaitBegin, TryWait, SysExit
  <2>3. \E m \in {"user", "dead", "loading", "wait"} : mode' = [mode EXCEPT ![t] = m]
    BY Zenon, <1>7 DEF DriverStart, DriverAbort, FaultUntraced, SpawnBegin, SpawnFail, WaitBegin, TryWait, SysExit
  <2>4. {"user", "dead", "loading", "wait"} \subseteq Modes \ {"unborn"}
    BY Zenon DEF Modes
  <2> QED BY Zenon, <2>1, <2>2, <2>3, <2>4 DEF MovesTo
<1>8. ASSUME NEW t \in Threads, FaultEarly(t)
      PROVE  UNCHANGED <<nextTid, role, mode>>
  BY Zenon, <1>8 DEF FaultEarly, threadVars
<1>9. ASSUME NEW t \in Threads, FaultDriver(t)
      PROVE  /\ ThreadInv'
             /\ \A u \in Threads : mode[u] = "dead" => mode'[u] = "dead"
             /\ \A u \in Threads : role[u] # "none" => role'[u] = role[u]
  <2>1. PICK d \in Devices :
           /\ mode[t] = "user"
           /\ \/ mode' = [mode EXCEPT ![t] = "dead"] /\ UNCHANGED <<nextTid, role>>
              \/ /\ nextTid \in Threads /\ nextTid' = nextTid + 1
                 /\ role' = [role EXCEPT ![nextTid] = d]
                 /\ mode' = [mode EXCEPT ![t] = "dead", ![nextTid] = "setup"]
    BY Zenon, <1>9, CrashIs
  <2>2. Alive(t) /\ d \in Roles \ {"none"} /\ "dead" \in Modes \ {"unborn"} /\ "setup" \in Modes \ {"unborn"}
    BY Zenon, <2>1, DeviceNames DEF Alive, Roles, Modes
  <2> QED BY Zenon, <2>1, <2>2, <1>2, <1>4 DEF MovesTo
<1>10. ASSUME NEW t \in Threads, SpawnDone(t)
       PROVE  /\ ThreadInv'
              /\ \A u \in Threads : mode[u] = "dead" => mode'[u] = "dead"
              /\ \A u \in Threads : role[u] # "none" => role'[u] = role[u]
  <2>1. mode[t] = "loading" /\ nextTid \in Threads /\ nextTid' = nextTid + 1
        /\ role' = [role EXCEPT ![nextTid] = "child"] /\ mode' = [mode EXCEPT ![t] = "user", ![nextTid] = "user"]
    BY Zenon, <1>10 DEF SpawnDone
  <2>2. Alive(t) /\ "child" \in Roles \ {"none"} /\ "user" \in Modes \ {"unborn"}
    BY Zenon, <2>1 DEF Alive, Roles, Modes
  <2> QED BY Zenon, <2>1, <2>2, <1>4
<1> QED BY Zenon, <1>1, <1>2, <1>5, <1>6, <1>7, <1>8, <1>9, <1>10 DEF Next

\* A thread gets its role from kernel_main, a restart or a spawn.
LEMMA RoleStep ==
  ASSUME ThreadInv, BootInv, OwnerInv, [Next]_vars
  PROVE  \/ UNCHANGED role
         \/ \E r \in Roles \ {"none"} :
              /\ nextTid \in Threads /\ role' = [role EXCEPT ![nextTid] = r]
              /\ \/ r = "child"
                 \/ boot \in 1 .. 10 /\ BootScript[boot][1] \in {"spawn", "program"}
                    /\ r = Starts(boot) /\ boot' = Following(boot)
                 \/ /\ r \in Devices /\ \E t \in Threads : FaultDriver(t)
                    /\ \E t \in Instances(r) : Alive(t) /\ mode'[t] = "dead"
<1>1. CASE BootSpawn
  <2>1. boot \in 1 .. 10 /\ BootScript[boot][1] = "spawn" /\ BootDev = Starts(boot) /\ BootDev \in Devices
    BY <1>1, BootSteps DEF BootInv, BootSpawn, At, BootDev, Starts
  <2>2. BootDev \in Roles \ {"none"}
    BY Zenon, <2>1, DeviceNames DEF Roles
  <2> QED BY Zenon, <1>1, <2>1, <2>2 DEF BootSpawn, NewThread
<1>2. CASE BootProgram
  <2>1. boot \in 1 .. 10 /\ BootScript[boot][1] = "program" /\ "app" = Starts(boot)
    BY Zenon, <1>2, BootSteps DEF BootInv, BootProgram, At, Starts
  <2>2. "app" \in Roles \ {"none"}
    BY Zenon DEF Roles
  <2> QED BY Zenon, <1>2, <2>1, <2>2 DEF BootProgram, NewThread
<1>3. ASSUME NEW t \in Threads, FaultDriver(t), role' # role
      PROVE  \E r \in Roles \ {"none"} : /\ nextTid \in Threads /\ role' = [role EXCEPT ![nextTid] = r]
                                         /\ r \in Devices /\ \E u \in Instances(r) : Alive(u) /\ mode'[u] = "dead"
  <2>1. PICK d \in Devices : role[t] = d /\ nextTid \in Threads /\ role' = [role EXCEPT ![nextTid] = d]
                             /\ mode[t] = "user" /\ mode' = [mode EXCEPT ![t] = "dead", ![nextTid] = "setup"]
    BY Zenon, <1>3, CrashIs
  <2>2. d \in Roles \ {"none"} /\ t \in Instances(d) /\ Alive(t)
    BY Zenon, <2>1, DeviceNames DEF Roles, Instances, Alive
  <2>3. t # nextTid
    BY <2>1 DEF ThreadInv, Threads
  <2>4. mode'[t] = "dead"
    BY Zenon, <2>1, <2>3 DEF ThreadInv
  <2> QED BY Zenon, <2>1, <2>2, <2>4
<1>4. ASSUME NEW t \in Threads, SpawnDone(t)
      PROVE  nextTid \in Threads /\ role' = [role EXCEPT ![nextTid] = "child"] /\ "child" \in Roles \ {"none"}
  BY Zenon, <1>4 DEF SpawnDone, Roles
<1>5. ASSUME BootRegister \/ BootInstall \/ BootSynthetic \/ BootServices \/ ServiceStart \/ UNCHANGED vars
      PROVE  UNCHANGED role
  BY Zenon, <1>5 DEF BootRegister, BootInstall, BootSynthetic, BootServices, ServiceStart, vars, threadVars
<1>6. ASSUME NEW t \in Threads,
             DriverStart(t) \/ DriverAbort(t) \/ FaultUntraced(t) \/ FaultEarly(t) \/ SpawnBegin(t) \/ SpawnFail(t)
             \/ (\E p \in 1 .. MaxProcs : WaitBegin(t, p)) \/ TryWait(t) \/ (\E code \in Codes : SysExit(t, code))
      PROVE  UNCHANGED role
  BY Zenon, <1>6 DEF DriverStart, DriverAbort, FaultUntraced, FaultEarly, SpawnBegin, SpawnFail, WaitBegin, TryWait,
     SysExit, threadVars
<1> QED BY Zenon, <1>1, <1>2, <1>3, <1>4, <1>5, <1>6 DEF Next, Kernel

LEMMA BootMoves ==
  ASSUME BootInv, [Next]_vars
  PROVE  \/ UNCHANGED <<boot, installed>>
         \/ boot \in 1 .. 10 /\ boot' = Following(boot) /\ UNCHANGED installed
         \/ boot = 4 /\ boot' = Following(boot) /\ installed' = TRUE
<1>1. ASSUME BootSpawn \/ BootRegister \/ BootSynthetic \/ BootServices \/ BootProgram
      PROVE  boot \in 1 .. 10 /\ boot' = Following(boot) /\ UNCHANGED installed
  BY Zenon, <1>1, BootSteps DEF BootSpawn, BootRegister, BootSynthetic, BootServices, BootProgram, At, devVars
<1>2. ASSUME BootInstall PROVE boot = 4 /\ boot' = Following(boot) /\ installed' = TRUE
  <2>1. boot \in 1 .. 10 /\ BootScript[boot][1] = "install"
    BY Zenon, <1>2, BootSteps DEF BootInstall, At
  <2>2. boot = 4
    BY <2>1, BootSteps
  <2> QED BY Zenon, <1>2, <2>2 DEF BootInstall
<1>3. ASSUME ServiceStart \/ UNCHANGED vars PROVE UNCHANGED <<boot, installed>>
  BY Zenon, <1>3 DEF ServiceStart, vars, devVars
<1>4. ASSUME NEW t \in Threads,
             DriverStart(t) \/ DriverAbort(t) \/ FaultUntraced(t) \/ FaultEarly(t) \/ FaultDriver(t)
             \/ SpawnBegin(t) \/ SpawnFail(t) \/ SpawnDone(t)
             \/ (\E p \in 1 .. MaxProcs : WaitBegin(t, p)) \/ TryWait(t) \/ (\E code \in Codes : SysExit(t, code))
      PROVE  UNCHANGED <<boot, installed>>
  BY Zenon, <1>4 DEF DriverStart, DriverAbort, FaultUntraced, FaultEarly, FaultDriver, SpawnBegin, SpawnFail, SpawnDone,
     WaitBegin, TryWait, SysExit, devVars
<1> QED BY Zenon, <1>1, <1>2, <1>3, <1>4 DEF Next, Kernel

LEMMA BootStep ==
  ASSUME ThreadInv, BootInv, OwnerInv, [Next]_vars
  PROVE  BootInv'
<1>1. /\ boot' \in 1 .. 11 /\ boot <= boot'
      /\ boot' # 11 => BootScript[boot'][2] \in Devices \cup {"all"}
      /\ installed' \in BOOLEAN /\ (installed' => 4 < boot')
  <2>1. boot \in 1 .. 10 => 4 \in 0 .. 10 /\ boot \in 0 .. 10
    OBVIOUS
  <2>2. boot \in 1 .. 10 => Following(boot) \in (boot + 1) .. 11
          /\ (Following(boot) # 11 => BootScript[Following(boot)][2] \in Devices \cup {"all"})
    BY Zenon, <2>1, FollowingAhead
  <2>3. CASE UNCHANGED <<boot, installed>>
    BY <2>3 DEF BootInv
  <2>4. CASE boot \in 1 .. 10 /\ boot' = Following(boot) /\ UNCHANGED installed
    BY <2>2, <2>4 DEF BootInv
  <2>5. CASE boot = 4 /\ boot' = Following(boot) /\ installed' = TRUE
    BY <2>2, <2>5 DEF BootInv
  <2> QED BY Zenon, <2>3, <2>4, <2>5, BootMoves
<1>2. ASSUME NEW i \in 1 .. 10, BootScript[i][1] \in {"spawn", "program"}, boot' <= i PROVE Instances(Starts(i))' = {}
  <2>1. boot <= i /\ boot \in 1 .. 10
    BY <1>1, <1>2 DEF BootInv
  <2>2. Instances(Starts(i)) = {}
    BY Zenon, <1>2, <2>1 DEF BootInv
  <2>3. CASE UNCHANGED role
    BY Zenon, <2>2, <2>3 DEF Instances
  <2>4. ASSUME NEW r \in Roles \ {"none"}, nextTid \in Threads, role' = [role EXCEPT ![nextTid] = r],
               r # Starts(i)
        PROVE  Instances(Starts(i))' = {}
    <3>1. Starts(i) # "none"
      BY <1>2, BootSteps DEF Starts
    <3> QED BY Zenon, <2>2, <2>4, <3>1, InstancesGrow
  <2>5. Starts(i) # "child"
    BY <1>2, BootSteps DEF Starts
  <2>6. ASSUME BootScript[boot][1] \in {"spawn", "program"}, boot' = Following(boot) PROVE Starts(boot) # Starts(i)
    <3>1. boot # i
      <4>1. boot \in 0 .. 10
        BY <2>1
      <4>2. Following(boot) \in (boot + 1) .. 11
        BY Zenon, <4>1, FollowingAhead
      <4> QED BY <1>2, <2>6, <4>1, <4>2
    <3> QED BY Zenon, <1>2, <2>1, <2>6, <3>1, StartedOnce
  <2> QED BY Zenon, <2>2, <2>3, <2>4, <2>5, <2>6, RoleStep
<1> QED BY Zenon, <1>1, <1>2 DEF BootInv

\* Only sys_spawn and sys_wait lead to their waits.
LEMMA ModesReached ==
  ASSUME ThreadInv, OwnerInv, [Next]_vars, NEW u \in Threads
  PROVE  /\ mode'[u] = "loading" => mode[u] = "loading" \/ SpawnBegin(u)
         /\ mode'[u] = "wait" => mode[u] = "wait" \/ \E p \in 1 .. MaxProcs : WaitBegin(u, p)
<1>1. ASSUME NEW t, NEW m \in {"user", "dead"}, mode' = [mode EXCEPT ![t] = m]
      PROVE  (mode'[u] = "loading" => mode[u] = "loading") /\ (mode'[u] = "wait" => mode[u] = "wait")
  BY Zenon, <1>1 DEF ThreadInv
<1>2. ASSUME NEW t \in Threads, SpawnBegin(t)
      PROVE  mode'[u] = mode[u] \/ (t = u /\ mode'[u] = "loading")
  BY Zenon, <1>2 DEF ThreadInv, SpawnBegin
<1>3. ASSUME NEW t \in Threads, NEW p \in 1 .. MaxProcs, WaitBegin(t, p)
      PROVE  mode'[u] = mode[u] \/ (t = u /\ mode'[u] = "wait")
  BY Zenon, <1>3 DEF ThreadInv, WaitBegin
<1>4. ASSUME NEW t, NEW n, NEW m \in {"user", "dead"}, NEW k \in {"user", "setup"},
             mode' = [mode EXCEPT ![t] = m, ![n] = k]
      PROVE  (mode'[u] = "loading" => mode[u] = "loading") /\ (mode'[u] = "wait" => mode[u] = "wait")
  BY Zenon, <1>4 DEF ThreadInv
<1>5. ASSUME NEW n, NEW k \in {"user", "setup"}, mode' = [mode EXCEPT ![n] = k]
      PROVE  (mode'[u] = "loading" => mode[u] = "loading") /\ (mode'[u] = "wait" => mode[u] = "wait")
  BY Zenon, <1>5 DEF ThreadInv
<1>6. ASSUME BootSpawn \/ BootProgram PROVE \E k \in {"user", "setup"} : mode' = [mode EXCEPT ![nextTid] = k]
  BY Zenon, <1>6 DEF BootSpawn, BootProgram, NewThread
<1>7. ASSUME BootRegister \/ BootInstall \/ BootSynthetic \/ BootServices \/ ServiceStart \/ UNCHANGED vars
      PROVE  UNCHANGED mode
  BY Zenon, <1>7 DEF BootRegister, BootInstall, BootSynthetic, BootServices, ServiceStart, vars, threadVars
<1>8. ASSUME NEW t \in Threads,
             DriverStart(t) \/ DriverAbort(t) \/ FaultUntraced(t) \/ SpawnFail(t) \/ TryWait(t)
             \/ (\E code \in Codes : SysExit(t, code))
      PROVE  \E m \in {"user", "dead"} : mode' = [mode EXCEPT ![t] = m]
  BY Zenon, <1>8 DEF DriverStart, DriverAbort, FaultUntraced, SpawnFail, TryWait, SysExit
<1>9. ASSUME NEW t \in Threads, FaultEarly(t) PROVE UNCHANGED mode
  BY Zenon, <1>9 DEF FaultEarly, threadVars
<1>10. ASSUME NEW t \in Threads, FaultDriver(t)
       PROVE  mode' = [mode EXCEPT ![t] = "dead"] \/ mode' = [mode EXCEPT ![t] = "dead", ![nextTid] = "setup"]
  BY Zenon, <1>10, CrashIs
<1>11. ASSUME NEW t \in Threads, SpawnDone(t) PROVE mode' = [mode EXCEPT ![t] = "user", ![nextTid] = "user"]
  BY Zenon, <1>11 DEF SpawnDone
<1> QED BY Zenon, <1>1, <1>2, <1>3, <1>4, <1>5, <1>6, <1>7, <1>8, <1>9, <1>10, <1>11 DEF Next, Kernel

\* Only sys_spawn gives out pids, when a thread was loading.
LEMMA PidStep ==
  ASSUME [Next]_vars
  PROVE  \/ UNCHANGED nextPid
         \/ \E t \in Threads : SpawnDone(t) /\ mode[t] = "loading" /\ nextPid' = nextPid + 1
<1>1. ASSUME Kernel \/ ServiceStart \/ UNCHANGED vars PROVE UNCHANGED nextPid
  BY Zenon, <1>1 DEF Kernel, BootSpawn, BootProgram, BootRegister, BootInstall, BootSynthetic, BootServices, ServiceStart,
     vars, procVars
<1>2. ASSUME NEW t \in Threads,
             DriverStart(t) \/ DriverAbort(t) \/ FaultUntraced(t) \/ FaultEarly(t) \/ FaultDriver(t) \/ SpawnBegin(t)
             \/ SpawnFail(t) \/ (\E p \in 1 .. MaxProcs : WaitBegin(t, p)) \/ TryWait(t)
             \/ (\E code \in Codes : SysExit(t, code))
      PROVE  UNCHANGED nextPid
  BY Zenon, <1>2 DEF DriverStart, DriverAbort, FaultUntraced, FaultEarly, FaultDriver, SpawnBegin, SpawnFail, WaitBegin,
     TryWait, SysExit, procVars
<1>3. ASSUME NEW t \in Threads, SpawnDone(t) PROVE mode[t] = "loading" /\ nextPid' = nextPid + 1
  BY Zenon, <1>3 DEF SpawnDone
<1> QED BY Zenon, <1>1, <1>2, <1>3 DEF Next

LEMMA LoadStep ==
  ASSUME ThreadInv, BootInv, OwnerInv, LoadInv, [Next]_vars
  PROVE  LoadInv'
<1> MaxProcs \in Nat
  BY Zenon, ProcessConstants
<1>1. nextPid' \in 1 .. (MaxProcs + 1)
  <2>1. CASE UNCHANGED nextPid
    BY Zenon, <2>1 DEF LoadInv
  <2>2. ASSUME NEW t \in Threads, mode[t] = "loading", nextPid' = nextPid + 1 PROVE nextPid' \in 1 .. (MaxProcs + 1)
    BY <2>2 DEF LoadInv
  <2> QED BY Zenon, <2>1, <2>2, PidStep
<1>2. ASSUME NEW t \in Instances("app")', NEW u \in Instances("app")' PROVE t = u
  <2>1. CASE UNCHANGED role
    BY Zenon, <1>2, <2>1 DEF LoadInv, Instances
  <2>2. ASSUME NEW r \in Roles \ {"none"}, nextTid \in Threads, role' = [role EXCEPT ![nextTid] = r], r # "app"
        PROVE  t = u
    <3>1. Instances("app")' = Instances("app")
      BY Zenon, <2>2, InstancesGrow
    <3> QED BY Zenon, <1>2, <3>1 DEF LoadInv
  <2>3. ASSUME nextTid \in Threads, role' = [role EXCEPT ![nextTid] = "app"], boot \in 1 .. 10,
               BootScript[boot][1] \in {"spawn", "program"}, "app" = Starts(boot)
        PROVE  t = u
    <3>1. "app" \in Roles \ {"none"}
      BY Zenon DEF Roles
    <3>2. Instances("app") = {}
      BY <2>3 DEF BootInv
    <3>3. Instances("app")' = {nextTid}
      BY Zenon, <2>3, <3>1, <3>2, InstancesGrow
    <3> QED BY Zenon, <1>2, <3>3
  <2>4. "app" # "child" /\ "app" \notin Devices
    BY Zenon, DeviceNames
  <2> QED BY Zenon, <2>1, <2>2, <2>3, <2>4, RoleStep
<1>3. ASSUME NEW u \in Threads, mode'[u] = "loading" PROVE role'[u] = "app" /\ nextPid' <= MaxProcs
  <2>1. CASE mode[u] = "loading"
    <3>1. role[u] = "app" /\ nextPid <= MaxProcs
      BY Zenon, <2>1 DEF LoadInv
    <3>2. role'[u] = "app"
      BY Zenon, <3>1, ThreadStep
    <3>3. ASSUME NEW t \in Threads, SpawnDone(t), mode[t] = "loading" PROVE FALSE
      <4>1. role[t] = "app"
        BY Zenon, <3>3 DEF LoadInv
      <4>2. t = u
        BY Zenon, <3>1, <4>1 DEF LoadInv, Instances
      <4>3. mode' = [mode EXCEPT ![t] = "user", ![nextTid] = "user"]
        BY Zenon, <3>3 DEF SpawnDone
      <4> QED BY Zenon, <1>3, <4>2, <4>3 DEF ThreadInv
    <3> QED BY Zenon, <3>1, <3>2, <3>3, PidStep
  <2>2. CASE SpawnBegin(u)
    BY Zenon, <2>2 DEF SpawnBegin, procVars
  <2> QED BY Zenon, <1>3, <2>1, <2>2, ModesReached
<1> QED BY Zenon, <1>1, <1>2, <1>3 DEF LoadInv

\* position() finds an entry if there is one.
LEMMA PositionFinds ==
  ASSUME TableInv, NEW hits, hits \subseteq DOMAIN table
  PROVE  /\ Position(hits) = 0 <=> hits = {}
         /\ Position(hits) # 0 => Position(hits) \in hits
<1>1. hits \subseteq Nat /\ 0 \notin hits
  BY DEF TableInv
<1>2. hits # {} => First(hits) \in hits
  BY Zenon, <1>1, FirstIsFirst
<1> QED BY Zenon, <1>1, <1>2 DEF Position

LEMMA WithPidFinds ==
  ASSUME TableInv, NEW p
  PROVE  /\ WithPid(p) # 0 => WithPid(p) \in DOMAIN table /\ table[WithPid(p)].pid = p
         /\ WithPid(p) = 0 <=> \A i \in DOMAIN table : table[i].pid # p
<1> DEFINE hits == {i \in DOMAIN table : table[i].pid = p}
<1>1. hits \subseteq DOMAIN table /\ \A i : i \in hits <=> i \in DOMAIN table /\ table[i].pid = p
  BY Zenon
<1>2. WithPid(p) = Position(hits)
  BY Zenon DEF WithPid
<1> HIDE DEF hits
<1> QED BY Zenon, <1>1, <1>2, PositionFinds

LEMMA WithTidFinds ==
  ASSUME TableInv, NEW t, WithTid(t) # 0
  PROVE  WithTid(t) \in DOMAIN table /\ table[WithTid(t)].tid = t
<1> DEFINE hits == {i \in DOMAIN table : table[i].tid = t}
<1>1. hits \subseteq DOMAIN table /\ \A i : i \in hits <=> i \in DOMAIN table /\ table[i].tid = t
  BY Zenon
<1>2. WithTid(t) = Position(hits)
  BY Zenon DEF WithTid
<1> HIDE DEF hits
<1> QED BY Zenon, <1>1, <1>2, PositionFinds

\* What sys_wait asks for and gets.
LEMMA WantsStep ==
  ASSUME [Next]_vars
  PROVE  \/ UNCHANGED <<wants, got>>
         \/ \E t \in Threads, p \in 1 .. MaxProcs :
              /\ mode[t] = "user" /\ mode' = [mode EXCEPT ![t] = "wait"] /\ WithPid(p) # 0
              /\ got' = [got EXCEPT ![t] = "none"] /\ wants' = [wants EXCEPT ![t] = p] /\ UNCHANGED nextPid
         \/ \E t \in Threads :
              /\ mode[t] = "wait" /\ mode' = [mode EXCEPT ![t] = "user"] /\ WithPid(wants[t]) # 0
              /\ got' = [got EXCEPT ![t] = table[WithPid(wants[t])].code] /\ wants' = [wants EXCEPT ![t] = 0]
              /\ UNCHANGED nextPid
<1>1. ASSUME Kernel \/ ServiceStart \/ UNCHANGED vars PROVE UNCHANGED <<wants, got>>
  BY Zenon, <1>1 DEF Kernel, BootSpawn, BootProgram, BootRegister, BootInstall, BootSynthetic, BootServices, ServiceStart,
     vars, threadVars
<1>2. ASSUME NEW t \in Threads,
             DriverStart(t) \/ DriverAbort(t) \/ FaultUntraced(t) \/ FaultEarly(t) \/ FaultDriver(t) \/ SpawnBegin(t)
             \/ SpawnFail(t) \/ SpawnDone(t) \/ (\E code \in Codes : SysExit(t, code))
      PROVE  UNCHANGED <<wants, got>>
  BY Zenon, <1>2 DEF DriverStart, DriverAbort, FaultUntraced, FaultEarly, FaultDriver, SpawnBegin, SpawnFail, SpawnDone,
     SysExit, threadVars
<1>3. ASSUME NEW t \in Threads, NEW p \in 1 .. MaxProcs, WaitBegin(t, p)
      PROVE  /\ mode[t] = "user" /\ mode' = [mode EXCEPT ![t] = "wait"] /\ WithPid(p) # 0
             /\ got' = [got EXCEPT ![t] = "none"] /\ wants' = [wants EXCEPT ![t] = p] /\ UNCHANGED nextPid
  BY Zenon, <1>3 DEF WaitBegin, procVars
<1>4. ASSUME NEW t \in Threads, TryWait(t)
      PROVE  /\ mode[t] = "wait" /\ mode' = [mode EXCEPT ![t] = "user"] /\ WithPid(wants[t]) # 0
             /\ got' = [got EXCEPT ![t] = table[WithPid(wants[t])].code] /\ wants' = [wants EXCEPT ![t] = 0]
             /\ UNCHANGED nextPid
  BY Zenon, <1>4 DEF TryWait
<1> QED BY Zenon, <1>1, <1>2, <1>3, <1>4 DEF Next

LEMMA Below ==
  ASSUME NEW p \in Nat, 1 <= p, NEW a \in Nat, NEW n \in Nat, p < a, a <= n
  PROVE  p \in 1 .. (n - 1)
  OBVIOUS

LEMMA WaitStep ==
  ASSUME ThreadInv, OwnerInv, LoadInv, WaitInv, TableInv, [Next]_vars
  PROVE  WaitInv'
<1> MaxProcs \in Nat /\ nextPid \in Nat
  BY ProcessConstants DEF LoadInv
<1>1. nextPid' \in Nat /\ nextPid <= nextPid'
  <2>1. nextPid' = nextPid \/ nextPid' = nextPid + 1
    BY Zenon, PidStep
  <2> QED BY <2>1
<1>2. CASE UNCHANGED <<wants, got>>
  <2>1. ASSUME NEW u \in Threads, mode'[u] = "wait" PROVE mode[u] = "wait" \/ wants'[u] \in 1 .. (nextPid' - 1)
    <3>1. ASSUME NEW p \in 1 .. MaxProcs, WaitBegin(u, p) PROVE wants'[u] \in 1 .. (nextPid' - 1)
      <4>1. wants'[u] = p /\ WithPid(p) # 0
        BY Zenon, <3>1 DEF WaitBegin, WaitInv
      <4>2. \E i \in DOMAIN table : table[i].pid = p
        BY Zenon, <4>1, WithPidFinds
      <4>3. p < nextPid
        BY Zenon, <4>2 DEF TableInv
      <4>4. p \in Nat /\ 1 <= p /\ nextPid \in Nat
        BY ProcessConstants DEF LoadInv
      <4>5. PICK n \in Nat : n = nextPid' /\ nextPid <= n
        BY Zenon, <1>1
      <4>6. p \in 1 .. (n - 1)
        BY Zenon, <4>3, <4>4, <4>5, Below
      <4> QED BY Zenon, <4>1, <4>5, <4>6
    <3> QED BY Zenon, <2>1, <3>1, ModesReached
  <2> QED BY <1>1, <1>2, <2>1 DEF WaitInv
<1>3. ASSUME NEW t \in Threads, NEW p \in 1 .. MaxProcs, mode' = [mode EXCEPT ![t] = "wait"], WithPid(p) # 0,
             got' = [got EXCEPT ![t] = "none"], wants' = [wants EXCEPT ![t] = p], UNCHANGED nextPid
      PROVE  WaitInv'
  <2>1. \E i \in DOMAIN table : table[i].pid = p
    BY Zenon, <1>3, WithPidFinds
  <2>2. p \in 1 .. (nextPid - 1)
    BY <2>1 DEF TableInv
  <2>3. wants' \in [Threads -> 0 .. MaxProcs] /\ got' \in [Threads -> Results]
    BY <1>3 DEF WaitInv, Results
  <2>4. ASSUME NEW u \in Threads, mode'[u] = "wait" PROVE wants'[u] \in 1 .. (nextPid - 1)
    BY Zenon, <1>3, <2>2, <2>4 DEF WaitInv, ThreadInv
  <2> QED BY Zenon, <1>3, <2>3, <2>4 DEF WaitInv
<1>4. ASSUME NEW t \in Threads, mode' = [mode EXCEPT ![t] = "user"], WithPid(wants[t]) # 0,
             got' = [got EXCEPT ![t] = table[WithPid(wants[t])].code], wants' = [wants EXCEPT ![t] = 0],
             UNCHANGED nextPid
      PROVE  WaitInv'
  <2>1. table[WithPid(wants[t])] \in Entry
    <3>1. WithPid(wants[t]) \in DOMAIN table
      BY Zenon, <1>4, WithPidFinds
    <3> QED BY <3>1 DEF TableInv
  <2>2. PICK e \in Entry : e = table[WithPid(wants[t])]
    BY Zenon, <2>1
  <2>3. e.code \in Results
    BY Zenon DEF Entry, Results
  <2>4. wants' \in [Threads -> 0 .. MaxProcs] /\ got' \in [Threads -> Results]
    BY <1>4, <2>2, <2>3 DEF WaitInv
  <2>5. ASSUME NEW u \in Threads, mode'[u] = "wait" PROVE wants'[u] \in 1 .. (nextPid - 1)
    BY Zenon, <1>4, <2>5 DEF WaitInv, ThreadInv
  <2> QED BY Zenon, <1>4, <2>4, <2>5 DEF WaitInv
<1> QED BY Zenon, <1>2, <1>3, <1>4, WantsStep

\* What happens to the process table.
LEMMA TableMoves ==
  ASSUME [Next]_vars
  PROVE  \/ UNCHANGED table
         \/ \E t \in Threads : SpawnDone(t)
         \/ \E t \in Threads : TryWait(t)
         \/ \E t \in Threads, code \in Codes : SysExit(t, code)
<1>1. ASSUME Kernel \/ ServiceStart \/ UNCHANGED vars PROVE UNCHANGED table
  BY Zenon, <1>1 DEF Kernel, BootSpawn, BootProgram, BootRegister, BootInstall, BootSynthetic, BootServices, ServiceStart,
     vars, procVars
<1>2. ASSUME NEW t \in Threads,
             DriverStart(t) \/ DriverAbort(t) \/ FaultUntraced(t) \/ FaultEarly(t) \/ FaultDriver(t) \/ SpawnBegin(t)
             \/ SpawnFail(t) \/ (\E p \in 1 .. MaxProcs : WaitBegin(t, p))
      PROVE  UNCHANGED table
  BY Zenon, <1>2 DEF DriverStart, DriverAbort, FaultUntraced, FaultEarly, FaultDriver, SpawnBegin, SpawnFail, WaitBegin,
     procVars
<1> QED BY Zenon, <1>1, <1>2 DEF Next

\* Entries stay the entries of their threads.
LEMMA EntryKept ==
  ASSUME ThreadInv, BootInv, OwnerInv, TableInv, [Next]_vars, NEW i \in DOMAIN table
  PROVE  /\ table[i] \in Entry /\ role'[table[i].tid] = "child"
         /\ table[i].exited => mode'[table[i].tid] = "dead"
<1>1. table[i] \in Entry /\ role[table[i].tid] = "child" /\ (table[i].exited => mode[table[i].tid] = "dead")
  BY DEF TableInv
<1>2. table[i].tid \in Threads
  BY Zenon, <1>1 DEF Entry
<1> QED BY Zenon, <1>1, <1>2, ThreadStep

LEMMA SpawnTable ==
  ASSUME ThreadInv, BootInv, OwnerInv, LoadInv, TableInv, [Next]_vars, NEW t \in Threads, SpawnDone(t)
  PROVE  /\ TableInv'
         /\ Len(table') = Len(table) + 1 /\ \A i \in DOMAIN table : i \in DOMAIN table' /\ table'[i] = table[i]
<1> DEFINE e == [pid |-> nextPid, tid |-> nextTid, exited |-> FALSE, code |-> "success"]
<1>1. nextTid \in Threads /\ role' = [role EXCEPT ![nextTid] = "child"] /\ nextPid' = nextPid + 1
      /\ table' = Append(table, e) /\ mode[t] = "loading"
  BY Zenon DEF SpawnDone
<1>2. nextPid \in 1 .. MaxProcs /\ MaxProcs \in Nat
  BY <1>1, ProcessConstants DEF LoadInv
<1>3. e \in Entry /\ e.pid = nextPid /\ e.tid = nextTid /\ ~e.exited
  BY Zenon, <1>1, <1>2 DEF Entry, Codes
<1> HIDE DEF e
<1>4. table \in Seq(Entry)
  BY Zenon DEF TableInv
<1>5. /\ table' \in Seq(Entry) /\ Len(table') = Len(table) + 1 /\ table'[Len(table) + 1] = e
      /\ \A i \in DOMAIN table : i \in DOMAIN table' /\ table'[i] = table[i]
      /\ \A i \in DOMAIN table' : i \in DOMAIN table \/ i = Len(table) + 1
      /\ \A i \in DOMAIN table : i < Len(table) + 1 /\ ~(Len(table) + 1 < i) /\ i # Len(table) + 1
  BY <1>1, <1>3, <1>4
<1>6. \A i \in DOMAIN table : table[i].pid < nextPid /\ table[i].tid < nextTid
  <2> TAKE i \in DOMAIN table
  <2>1. table[i].tid \in Threads /\ role[table[i].tid] = "child" /\ table[i].pid < nextPid
    BY Zenon, EntryKept DEF TableInv, Entry
  <2>2. ~(nextTid <= table[i].tid)
    BY Zenon, <2>1 DEF ThreadInv
  <2> QED BY <1>1, <2>1, <2>2 DEF Threads
<1>7. \A i \in DOMAIN table' : /\ table'[i].pid < nextPid' /\ role'[table'[i].tid] = "child"
                               /\ table'[i].exited => mode'[table'[i].tid] = "dead"
  <2> TAKE i \in DOMAIN table'
  <2>1. CASE i \in DOMAIN table
    <3>1. table'[i] = table[i] /\ table[i].pid < nextPid /\ table[i].pid \in Nat
      BY <1>5, <1>6, <2>1, EntryKept DEF Entry
    <3>2. table[i].pid < nextPid'
      BY <1>1, <1>2, <3>1
    <3> QED BY Zenon, <2>1, <3>1, <3>2, EntryKept
  <2>2. CASE i = Len(table) + 1
    <3>1. table'[i] = e /\ nextPid < nextPid' /\ role'[nextTid] = "child"
      BY <1>1, <1>2, <1>5, <2>2 DEF ThreadInv
    <3> QED BY Zenon, <1>3, <3>1
  <2> QED BY Zenon, <1>5, <2>1, <2>2
<1>8. \A i, j \in DOMAIN table' : i < j => table'[i].pid < table'[j].pid /\ table'[i].tid < table'[j].tid
  <2> SUFFICES ASSUME NEW i \in DOMAIN table', NEW j \in DOMAIN table', i < j
               PROVE  table'[i].pid < table'[j].pid /\ table'[i].tid < table'[j].tid
    BY Zenon
  <2>1. i \in DOMAIN table
    BY <1>4, <1>5
  <2>2. CASE j \in DOMAIN table
    BY Zenon, <1>5, <2>1, <2>2 DEF TableInv
  <2>3. CASE j = Len(table) + 1
    BY Zenon, <1>3, <1>5, <1>6, <2>1, <2>3
  <2> QED BY Zenon, <1>5, <2>2, <2>3
<1> QED BY Zenon, <1>5, <1>7, <1>8 DEF TableInv

LEMMA ConcatIs ==
  ASSUME NEW a \in Seq(Entry), NEW b \in Seq(Entry)
  PROVE  a \o b \in Seq(Entry) /\ Len(a \o b) = Len(a) + Len(b)
  OBVIOUS

\* The entries of s before and after position i.
Front(a, s, i) == a \in Seq(Entry) /\ Len(a) = i - 1 /\ \A k \in 1 .. (i - 1) : a[k] = s[k]
Rest(b, s, i) == /\ b \in Seq(Entry) /\ Len(b) = Len(s) - i
                 /\ \A k \in 1 .. (Len(s) - i) : b[k] = s[i + k]
Without(r, s, i) == /\ r \in Seq(Entry) /\ Len(r) = Len(s) - 1
                    /\ \A k \in 1 .. (Len(s) - 1) : r[k] = s[IF k < i THEN k ELSE k + 1]

LEMMA Spliced ==
  ASSUME NEW s \in Seq(Entry), NEW i \in 1 .. Len(s), NEW a, NEW b, Front(a, s, i), Rest(b, s, i)
  PROVE  Without(a \o b, s, i)
<1>1. Len(s) \in Nat /\ i \in Nat
  OBVIOUS
<1>a. a \in Seq(Entry) /\ Len(a) = i - 1 /\ \A k \in 1 .. (i - 1) : a[k] = s[k]
  BY Zenon DEF Front
<1>b. b \in Seq(Entry) /\ Len(b) = Len(s) - i /\ \A k \in 1 .. (Len(s) - i) : b[k] = s[i + k]
  BY Zenon DEF Rest
<1>2. a \o b \in Seq(Entry) /\ Len(a \o b) = Len(s) - 1
  <2>1. a \o b \in Seq(Entry) /\ Len(a \o b) = Len(a) + Len(b)
    BY Zenon, <1>a, <1>b, ConcatIs
  <2>2. Len(a) + Len(b) = Len(s) - 1
    BY <1>1, <1>a, <1>b
  <2> QED BY Zenon, <2>1, <2>2
<1>3. ASSUME NEW k \in 1 .. (Len(s) - 1), k < i PROVE (a \o b)[k] = s[k]
  <2>1. k \in 1 .. (i - 1)
    BY <1>1, <1>3
  <2> QED BY <1>1, <1>a, <1>b, <2>1
<1>4. ASSUME NEW k \in 1 .. (Len(s) - 1), ~(k < i) PROVE (a \o b)[k] = s[k + 1]
  <2>1. PICK n : n = k - (i - 1)
    BY Zenon
  <2>2. n \in 1 .. (Len(s) - i) /\ (i - 1) + n = k /\ i + n = k + 1
    BY <1>1, <1>4, <2>1
  <2>3. (a \o b)[(i - 1) + n] = b[n]
    BY <1>1, <1>a, <1>b, <2>2
  <2> QED BY Zenon, <1>b, <2>2, <2>3
<1> QED BY Zenon, <1>2, <1>3, <1>4 DEF Without

\* Vec::remove.
LEMMA RemoveAt ==
  ASSUME NEW s \in Seq(Entry), NEW i \in 1 .. Len(s)
  PROVE  LET r == SubSeq(s, 1, i - 1) \o SubSeq(s, i + 1, Len(s))
         IN  /\ r \in Seq(Entry) /\ Len(r) = Len(s) - 1
             /\ \A k \in 1 .. (Len(s) - 1) : r[k] = s[IF k < i THEN k ELSE k + 1]
<1>1. PICK a : a = SubSeq(s, 1, i - 1)
  BY Zenon
<1>2. PICK b : b = SubSeq(s, i + 1, Len(s))
  BY Zenon
<1>3. a \in Seq(Entry) /\ Len(a) = i - 1 /\ \A k \in 1 .. (i - 1) : a[k] = s[k]
  BY <1>1
<1>4. b \in Seq(Entry) /\ Len(b) = Len(s) - i /\ \A k \in 1 .. (Len(s) - i) : b[k] = s[i + k]
  BY <1>2
<1>5. /\ a \o b \in Seq(Entry) /\ Len(a \o b) = Len(s) - 1
      /\ \A k \in 1 .. (Len(s) - 1) : (a \o b)[k] = s[IF k < i THEN k ELSE k + 1]
  <2>1. Front(a, s, i) /\ Rest(b, s, i)
    BY Zenon, <1>3, <1>4 DEF Front, Rest
  <2>2. Without(a \o b, s, i)
    BY Zenon, <2>1, Spliced
  <2> QED BY Zenon, <2>2 DEF Without
<1> QED BY Zenon, <1>1, <1>2, <1>5

LEMMA WaitTable ==
  ASSUME ThreadInv, BootInv, OwnerInv, TableInv, [Next]_vars, NEW t \in Threads, TryWait(t)
  PROVE  /\ TableInv'
         /\ \E i \in DOMAIN table :
              /\ table[i].exited /\ table[i].pid = wants[t]
              /\ \A k \in DOMAIN table \ {i} : \E j \in DOMAIN table' : table'[j] = table[k]
              /\ mode[t] = "wait" /\ mode' = [mode EXCEPT ![t] = "user"] /\ got' = [got EXCEPT ![t] = table[i].code]
<1>1. PICK i : i = WithPid(wants[t])
  BY Zenon
<1>2. /\ i # 0 /\ table[i].exited /\ table' = SubSeq(table, 1, i - 1) \o SubSeq(table, i + 1, Len(table))
      /\ mode[t] = "wait" /\ mode' = [mode EXCEPT ![t] = "user"] /\ got' = [got EXCEPT ![t] = table[i].code]
      /\ UNCHANGED nextPid
  BY Zenon, <1>1 DEF TryWait
<1>3. i \in DOMAIN table /\ table[i].pid = wants[t]
  BY Zenon, <1>1, <1>2, WithPidFinds
<1>4. table \in Seq(Entry) /\ i \in 1 .. Len(table)
  BY <1>3 DEF TableInv
<1> DEFINE from(k) == IF k < i THEN k ELSE k + 1
<1>5. table' \in Seq(Entry) /\ Len(table') = Len(table) - 1 /\ \A k \in 1 .. Len(table') : table'[k] = table[from(k)]
  BY Zenon, <1>2, <1>4, RemoveAt
<1>6. /\ \A k \in DOMAIN table' : from(k) \in DOMAIN table /\ table'[k] = table[from(k)]
      /\ \A k, j \in DOMAIN table' : k < j => from(k) < from(j)
      /\ \A k \in DOMAIN table \ {i} : \E j \in DOMAIN table' : from(j) = k
  <2>1. DOMAIN table = 1 .. Len(table) /\ DOMAIN table' = 1 .. Len(table') /\ Len(table) \in Nat
    BY <1>4, <1>5
  <2>2. ASSUME NEW k \in DOMAIN table \ {i} PROVE \E j \in DOMAIN table' : from(j) = k
    <3>1. k < i => k \in DOMAIN table' /\ from(k) = k
      BY <1>4, <1>5, <2>1
    <3>2. ~(k < i) => (k - 1) \in DOMAIN table' /\ from(k - 1) = k
      BY <1>4, <1>5, <2>1
    <3> QED BY Zenon, <3>1, <3>2
  <2>3. \A k \in DOMAIN table' : from(k) \in DOMAIN table
    BY <1>4, <1>5, <2>1
  <2>4. \A k, j \in DOMAIN table' : k < j => from(k) < from(j)
    BY <1>4, <2>1
  <2> QED BY Zenon, <1>5, <2>1, <2>2, <2>3, <2>4
<1> HIDE DEF from
<1>7. TableInv'
  <2>1. ASSUME NEW k \in DOMAIN table'
        PROVE  /\ table'[k].pid < nextPid /\ role'[table'[k].tid] = "child"
               /\ table'[k].exited => mode'[table'[k].tid] = "dead"
    <3>1. PICK n \in DOMAIN table : table'[k] = table[n]
      BY Zenon, <1>6
    <3>2. table[n].pid < nextPid
      BY Zenon DEF TableInv
    <3> QED BY Zenon, <3>1, <3>2, EntryKept
  <2>2. ASSUME NEW k \in DOMAIN table', NEW j \in DOMAIN table', k < j
        PROVE  table'[k].pid < table'[j].pid /\ table'[k].tid < table'[j].tid
    BY Zenon, <1>6, <2>2 DEF TableInv
  <2> QED BY Zenon, <1>2, <1>5, <2>1, <2>2 DEF TableInv
<1> QED BY ZenonT(40), <1>2, <1>3, <1>6, <1>7

LEMMA ExitTable ==
  ASSUME ThreadInv, BootInv, OwnerInv, TableInv, [Next]_vars, NEW t \in Threads, NEW code \in Codes, SysExit(t, code)
  PROVE  /\ TableInv'
         /\ DOMAIN table' = DOMAIN table /\ \A i \in DOMAIN table : table'[i].pid = table[i].pid
<1>1. PICK i : i = WithTid(t)
  BY Zenon
<1>2. /\ table' = IF i = 0 THEN table ELSE [table EXCEPT ![i].exited = TRUE, ![i].code = code]
      /\ mode' = [mode EXCEPT ![t] = "dead"] /\ UNCHANGED nextPid
  BY Zenon, <1>1 DEF SysExit
<1>3. CASE i = 0
  <2>1. table' = table
    BY Zenon, <1>2, <1>3
  <2> QED BY Zenon, <1>2, <2>1, EntryKept DEF TableInv
<1>4. CASE i # 0
  <2>1. i \in DOMAIN table /\ table[i].tid = t
    BY Zenon, <1>1, <1>4, WithTidFinds
  <2>2. table \in Seq(Entry) /\ DOMAIN table = 1 .. Len(table) /\ table[i] \in Entry
    BY <2>1 DEF TableInv
  <2>3. PICK e : e = [table[i] EXCEPT !.exited = TRUE, !.code = code]
    BY Zenon
  <2>4. e \in Entry /\ e.pid = table[i].pid /\ e.tid = t
    BY Zenon, <2>1, <2>2, <2>3 DEF Entry
  <2>5. table' = [table EXCEPT ![i] = e]
    BY Zenon, <1>2, <1>4, <2>2, <2>3
  <2>6. table' \in Seq(Entry) /\ DOMAIN table' = DOMAIN table /\ table'[i] = e
        /\ \A k \in DOMAIN table \ {i} : table'[k] = table[k]
    BY <2>1, <2>2, <2>4, <2>5
  <2>7. \A k \in DOMAIN table : table'[k].pid = table[k].pid /\ table'[k].tid = table[k].tid
    BY Zenon, <2>1, <2>4, <2>6
  <2>8. mode'[t] = "dead"
    BY Zenon, <1>2 DEF ThreadInv
  <2>9. ASSUME NEW k \in DOMAIN table' PROVE /\ table'[k].pid < nextPid' /\ role'[table'[k].tid] = "child"
                                             /\ table'[k].exited => mode'[table'[k].tid] = "dead"
    <3>1. k \in DOMAIN table
      BY Zenon, <2>6
    <3>2. table[k].pid < nextPid' /\ role'[table[k].tid] = "child"
      BY Zenon, <1>2, <3>1, EntryKept DEF TableInv
    <3>3. CASE k = i
      BY Zenon, <2>1, <2>4, <2>6, <2>8, <3>2, <3>3
    <3>4. CASE k # i
      <4>1. table'[k] = table[k]
        BY Zenon, <2>6, <3>1, <3>4
      <4> QED BY Zenon, <3>1, <3>2, <4>1, EntryKept
    <3> QED BY Zenon, <3>3, <3>4
  <2>10. ASSUME NEW k \in DOMAIN table', NEW j \in DOMAIN table', k < j
         PROVE  table'[k].pid < table'[j].pid /\ table'[k].tid < table'[j].tid
    <3>1. k \in DOMAIN table /\ j \in DOMAIN table
      BY Zenon, <2>6
    <3>2. table[k].pid < table[j].pid /\ table[k].tid < table[j].tid
      BY Zenon, <2>10, <3>1 DEF TableInv
    <3> QED BY Zenon, <2>7, <3>1, <3>2
  <2>11. TableInv'
    BY Zenon, <2>6, <2>9, <2>10 DEF TableInv
  <2> QED BY Zenon, <2>6, <2>7, <2>11
<1> QED BY Zenon, <1>3, <1>4

LEMMA TableStep ==
  ASSUME ThreadInv, BootInv, OwnerInv, LoadInv, TableInv, [Next]_vars
  PROVE  TableInv'
<1>1. CASE UNCHANGED table
  <2>1. \A i \in DOMAIN table : table[i].pid < nextPid'
    <3> TAKE i \in DOMAIN table
    <3>1. table[i].pid < nextPid /\ table[i].pid \in Nat /\ nextPid \in Nat
      BY EntryKept DEF TableInv, Entry, LoadInv
    <3>2. nextPid' = nextPid \/ nextPid' = nextPid + 1
      BY Zenon, PidStep
    <3> QED BY <3>1, <3>2
  <2> QED BY Zenon, <1>1, <2>1, EntryKept DEF TableInv
<1> QED BY Zenon, <1>1, TableMoves, SpawnTable, WaitTable, ExitTable

LEMMA OwnerStep ==
  ASSUME ThreadInv, BootInv, OwnerInv, [Next]_vars
  PROVE  OwnerInv'
<1>1. CASE UNCHANGED <<registered, owner>>
  <2>1. \A d \in Devices : owner[d] # 0 => role'[owner[d]] = d
    <3> SUFFICES ASSUME NEW d \in Devices, owner[d] # 0 PROVE role'[owner[d]] = d
      BY Zenon
    <3>1. owner[d] \in Threads /\ role[owner[d]] = d /\ d # "none"
      BY Zenon, DeviceNames DEF OwnerInv
    <3> QED BY Zenon, <3>1, ThreadStep
  <2> QED BY Zenon, <1>1, <2>1 DEF OwnerInv
<1>2. CASE BootRegister
  <2>1. BootDev \in Devices
    BY <1>2, BootSteps DEF BootInv, BootRegister, At, BootDev
  <2>2. registered' = registered \cup {BootDev} /\ UNCHANGED <<owner, role>>
    BY Zenon, <1>2 DEF BootRegister, threadVars
  <2> QED BY Zenon, <2>1, <2>2 DEF OwnerInv
<1>3. ASSUME NEW t \in Threads, UNCHANGED <<registered, role>>,
             owner' = [d \in Devices |-> IF d = role[t] /\ d \in registered THEN t ELSE owner[d]]
      PROVE  OwnerInv'
  <2>1. owner' \in [Devices -> Threads \cup {0}]
    BY Zenon, <1>3 DEF OwnerInv
  <2> QED BY Zenon, <1>3, <2>1 DEF OwnerInv
<1>4. ASSUME NEW t \in Threads, DriverStart(t) \/ DriverAbort(t)
      PROVE  /\ UNCHANGED <<registered, role>>
             /\ owner' = [d \in Devices |-> IF d = role[t] /\ d \in registered THEN t ELSE owner[d]]
  BY Zenon, <1>4 DEF DriverStart, DriverAbort
<1>5. ASSUME BootSpawn \/ BootInstall \/ BootSynthetic \/ BootServices \/ BootProgram \/ ServiceStart \/ UNCHANGED vars
      PROVE  UNCHANGED <<registered, owner>>
  BY Zenon, <1>5 DEF BootSpawn, BootProgram, BootInstall, BootSynthetic, BootServices, ServiceStart, vars, devVars
<1>6. ASSUME NEW t \in Threads,
             FaultUntraced(t) \/ FaultEarly(t) \/ FaultDriver(t) \/ SpawnBegin(t) \/ SpawnFail(t) \/ SpawnDone(t)
             \/ (\E p \in 1 .. MaxProcs : WaitBegin(t, p)) \/ TryWait(t) \/ (\E code \in Codes : SysExit(t, code))
      PROVE  UNCHANGED <<registered, owner>>
  BY Zenon, <1>6 DEF FaultUntraced, FaultEarly, FaultDriver, SpawnBegin, SpawnFail, SpawnDone, WaitBegin, TryWait, SysExit,
     devVars
<1> QED BY Zenon, <1>1, <1>2, <1>3, <1>4, <1>5, <1>6 DEF Next, Kernel

\* What a step does to the device manager's records, but for a crash.
LEMMA RecordsKept ==
  ASSUME BootInv, AliveInv, TrailInv, [Next]_vars, \A t \in Threads : ~FaultDriver(t)
  PROVE  /\ UNCHANGED <<restarts, trail>> /\ DOMAIN managed' = Devices
         /\ \A d \in Devices : managed'[d] = "Failed" <=> managed[d] = "Failed"
<1>1. CASE UNCHANGED <<restarts, trail, managed>>
  BY Zenon, <1>1 DEF TrailInv
<1>2. CASE BootInstall
  <2>1. ~installed
    BY <1>2, BootSteps DEF BootInstall, BootInv, At
  <2>2. UNCHANGED <<restarts, trail>> /\ DOMAIN managed' = Devices /\ \A d \in Devices : managed'[d] # "Failed"
    BY Zenon, <1>2 DEF BootInstall, Absent
  <2> QED BY Zenon, <2>1, <2>2 DEF AliveInv
<1>3. CASE BootSynthetic
  <2>1. managed' = [managed EXCEPT ![BootDev] = IF @ = Absent THEN "Running" ELSE @] /\ UNCHANGED <<restarts, trail>>
    BY Zenon, <1>3 DEF BootSynthetic
  <2> QED BY Zenon, <2>1 DEF Absent, TrailInv
<1>4. CASE ServiceStart
  <2>1. /\ managed' = [d \in Devices |-> IF managed[d] = "Bound" THEN MarkRunning(managed[d]) ELSE managed[d]]
        /\ UNCHANGED <<restarts, trail>>
    BY Zenon, <1>4 DEF ServiceStart
  <2> QED BY Zenon, <2>1 DEF MarkRunning
<1>5. ASSUME BootSpawn \/ BootRegister \/ BootServices \/ BootProgram \/ UNCHANGED vars
      PROVE  UNCHANGED <<restarts, trail, managed>>
  BY Zenon, <1>5 DEF BootSpawn, BootProgram, BootRegister, BootServices, vars, devVars
<1>6. ASSUME NEW t \in Threads,
             DriverStart(t) \/ DriverAbort(t) \/ FaultUntraced(t) \/ FaultEarly(t) \/ SpawnBegin(t) \/ SpawnFail(t)
             \/ SpawnDone(t) \/ (\E p \in 1 .. MaxProcs : WaitBegin(t, p)) \/ TryWait(t)
             \/ (\E code \in Codes : SysExit(t, code))
      PROVE  UNCHANGED <<restarts, trail, managed>>
  BY Zenon, <1>6 DEF DriverStart, DriverAbort, FaultUntraced, FaultEarly, SpawnBegin, SpawnFail, SpawnDone, WaitBegin,
     TryWait, SysExit, devVars
<1> QED BY Zenon, <1>1, <1>2, <1>3, <1>4, <1>5, <1>6 DEF Next, Kernel

\* An instance of a driver was born, and once dead stays dead.
LEMMA InstanceLives ==
  ASSUME ThreadInv, BootInv, OwnerInv, [Next]_vars, NEW d \in Devices, NEW t \in Instances(d)
  PROVE  /\ t \in Threads /\ role[t] = d /\ role'[t] = d
         /\ Alive(t)' => Alive(t)
<1>1. t \in Threads /\ role[t] = d /\ d # "none"
  BY Zenon, DeviceNames DEF Instances
<1>2. mode[t] # "unborn" /\ role'[t] = d /\ (mode[t] = "dead" => mode'[t] = "dead")
  BY Zenon, <1>1, ThreadStep DEF ThreadInv
<1> QED BY Zenon, <1>1, <1>2 DEF Alive

LEMMA AliveStep ==
  ASSUME ThreadInv, BootInv, OwnerInv, AliveInv, TrailInv, [Next]_vars
  PROVE  AliveInv'
<1>1. ASSUME NEW d \in Devices, NEW t \in Instances(d)', t \notin Instances(d)
      PROVE  \/ Instances(d) = {} /\ Instances(d)' = {t}
             \/ Instances(d)' = Instances(d) \cup {t} /\ \E u \in Instances(d) : Alive(u) /\ mode'[u] = "dead"
  <2>1. role' # role
    BY Zenon, <1>1 DEF Instances
  <2>2. PICK r \in Roles \ {"none"} :
              /\ nextTid \in Threads /\ role' = [role EXCEPT ![nextTid] = r]
              /\ \/ r = "child"
                 \/ boot \in 1 .. 10 /\ BootScript[boot][1] \in {"spawn", "program"} /\ r = Starts(boot)
                 \/ r \in Devices /\ \E u \in Instances(r) : Alive(u) /\ mode'[u] = "dead"
    BY Zenon, <2>1, RoleStep
  <2>3. r = d
    BY Zenon, <1>1, <2>2, DeviceNames, InstancesGrow
  <2>4. Instances(d)' = Instances(d) \cup {t}
    BY Zenon, <1>1, <2>2, <2>3, InstancesGrow
  <2>5. boot \in 1 .. 10 /\ BootScript[boot][1] \in {"spawn", "program"} /\ r = Starts(boot) => Instances(d) = {}
    BY <2>3 DEF BootInv
  <2> QED BY Zenon, <2>2, <2>3, <2>4, <2>5, DeviceNames
<1>2. ASSUME NEW d \in Devices, NEW t \in Instances(d)', NEW u \in Instances(d)', Alive(t)', Alive(u)' PROVE t = u
  <2>1. ASSUME NEW x \in Instances(d)', x \notin Instances(d), NEW y \in Instances(d)', Alive(y)' PROVE x = y
    <3>1. CASE Instances(d) = {} /\ Instances(d)' = {x}
      BY Zenon, <3>1, <2>1
    <3>2. ASSUME Instances(d)' = Instances(d) \cup {x}, NEW v \in Instances(d), Alive(v), mode'[v] = "dead"
          PROVE  x = y
      <4>1. ASSUME y \in Instances(d) PROVE FALSE
        <5>1. Alive(y)
          BY Zenon, <2>1, <4>1, InstanceLives
        <5>2. y = v
          BY Zenon, <3>2, <4>1, <5>1 DEF AliveInv
        <5> QED BY Zenon, <2>1, <3>2, <5>2 DEF Alive
      <4> QED BY Zenon, <2>1, <3>2, <4>1
    <3> QED BY Zenon, <1>1, <2>1, <3>1, <3>2
  <2>2. CASE t \in Instances(d) /\ u \in Instances(d)
    BY Zenon, <1>2, <2>2, InstanceLives DEF AliveInv
  <2> QED BY Zenon, <1>2, <2>1, <2>2
<1>3. installed => installed'
  BY Zenon, BootMoves
<1>4. ASSUME NEW d \in Devices, managed[d] = "Failed"
      PROVE  installed' /\ Instances(d)' # {} /\ \A t \in Instances(d)' : ~Alive(t)'
  <2>1. installed /\ Instances(d) # {} /\ \A t \in Instances(d) : ~Alive(t)
    BY Zenon, <1>4 DEF AliveInv
  <2>2. Instances(d) \subseteq Instances(d)'
    BY Zenon, InstanceLives DEF Instances
  <2>3. \A t \in Instances(d)' : t \in Instances(d)
    BY Zenon, <1>1, <2>1
  <2> QED BY Zenon, <1>3, <2>1, <2>2, <2>3, InstanceLives
<1>5. ASSUME NEW t \in Threads, FaultDriver(t), NEW d \in Devices, managed'[d] = "Failed", managed[d] # "Failed"
      PROVE  installed' /\ Instances(d)' # {} /\ \A u \in Instances(d)' : ~Alive(u)'
  <2>1. PICK x \in Devices :
           /\ role[t] = x /\ mode[t] = "user" /\ installed /\ installed' = installed
           /\ managed' = [managed EXCEPT ![x] = IF Quarantine(x) THEN "Failed" ELSE "Running"]
           /\ Quarantine(x) => mode' = [mode EXCEPT ![t] = "dead"] /\ UNCHANGED role
    BY Zenon, <1>5, CrashIs
  <2>2. x = d /\ Quarantine(x)
    BY Zenon, <1>5, <2>1 DEF TrailInv
  <2>3. Instances(d)' = Instances(d) /\ t \in Instances(d) /\ Alive(t)
    BY Zenon, <2>1, <2>2 DEF Instances, Alive
  <2>4. mode'[t] = "dead"
    BY Zenon, <2>1, <2>2 DEF ThreadInv
  <2>5. ~Alive(t)'
    BY Zenon, <2>4 DEF Alive
  <2>6. \A u \in Instances(d) : Alive(u)' => u = t
    BY Zenon, <2>3, InstanceLives DEF AliveInv
  <2> QED BY Zenon, <2>1, <2>3, <2>5, <2>6
<1>6. \A d \in Devices : managed'[d] = "Failed" =>
        installed' /\ Instances(d)' # {} /\ \A t \in Instances(d)' : ~Alive(t)'
  BY Zenon, <1>4, <1>5, RecordsKept
<1> QED BY Zenon, <1>2, <1>6 DEF AliveInv

LEMMA InstancesFinite == \A d : IsFiniteSet(Instances(d)) /\ Cardinality(Instances(d)) \in Nat
<1>1. IsFiniteSet(Threads)
  BY ProcessConstants, FS_Interval DEF Threads
<1>2. \A d : Instances(d) \subseteq Threads
  BY Zenon DEF Instances
<1> QED BY Zenon, <1>1, <1>2, FS_Subset, FS_CardinalityType

LEMMA BudgetStep ==
  ASSUME ThreadInv, BootInv, OwnerInv, AliveInv, BudgetInv, TrailInv, [Next]_vars
  PROVE  BudgetInv'
<1>1. ASSUME NEW d \in Devices, nextTid \in Threads, role' = [role EXCEPT ![nextTid] = d]
      PROVE  /\ Instances(d)' # {} /\ Cardinality(Instances(d)') = Cardinality(Instances(d)) + 1
             /\ \A x \in Devices \ {d} : Instances(x)' = Instances(x)
  <2>1. d \in Roles \ {"none"}
    BY Zenon, DeviceNames DEF Roles
  <2>2. /\ Instances(d)' = Instances(d) \cup {nextTid} /\ nextTid \notin Instances(d)
        /\ \A x \in Devices \ {d} : Instances(x)' = Instances(x)
    BY Zenon, <1>1, <2>1, DeviceNames, InstancesGrow
  <2>3. Cardinality(Instances(d) \cup {nextTid}) = Cardinality(Instances(d)) + 1
    BY Zenon, <2>2, InstancesFinite, FS_AddElement
  <2> QED BY Zenon, <2>2, <2>3
<1>2. ASSUME \A t \in Threads : ~FaultDriver(t) PROVE BudgetInv'
  <2>1. restarts' = restarts
    BY Zenon, <1>2, RecordsKept
  <2>2. CASE \A d \in Devices : Instances(d)' = Instances(d)
    BY Zenon, <2>1, <2>2 DEF BudgetInv
  <2>3. ASSUME NEW d \in Devices, nextTid \in Threads, role' = [role EXCEPT ![nextTid] = d], Instances(d) = {}
        PROVE  BudgetInv'
    <3>1. restarts[d] = 0
      BY Zenon, <2>3 DEF BudgetInv
    <3>2. Cardinality(Instances(d)) = 0
      BY Zenon, <2>3, FS_EmptySet
    <3>3. Instances(d)' # {} /\ Cardinality(Instances(d)') = restarts[d] + 1
      BY Zenon, <1>1, <2>3, <3>1, <3>2
    <3>4. \A x \in Devices \ {d} : Instances(x)' = Instances(x)
      BY Zenon, <1>1, <2>3
    <3>5. ASSUME NEW x \in Devices
          PROVE  restarts[x] <= MaxRestarts /\ IF Instances(x)' = {} THEN restarts[x] = 0
                                               ELSE Cardinality(Instances(x)') = restarts[x] + 1
      BY Zenon, <3>3, <3>4 DEF BudgetInv
    <3> QED BY Zenon, <2>1, <3>5 DEF BudgetInv
  <2>4. ASSUME NEW r \in Roles \ {"none"}, nextTid \in Threads, role' = [role EXCEPT ![nextTid] = r], r \notin Devices
        PROVE  \A d \in Devices : Instances(d)' = Instances(d)
    BY Zenon, <2>4, DeviceNames, InstancesGrow
  <2>5. UNCHANGED role => \A d \in Devices : Instances(d)' = Instances(d)
    BY Zenon DEF Instances
  <2>6. ASSUME boot \in 1 .. 10, BootScript[boot][1] \in {"spawn", "program"} PROVE Instances(Starts(boot)) = {}
    BY <2>6 DEF BootInv
  <2> QED BY Zenon, <1>2, <2>2, <2>3, <2>4, <2>5, <2>6, DeviceNames, RoleStep
<1>3. ASSUME NEW t \in Threads, FaultDriver(t) PROVE BudgetInv'
  <2>1. PICK d \in Devices :
           /\ role[t] = d
           /\ restarts' = [restarts EXCEPT ![d] = IF Quarantine(d) THEN @ ELSE @ + 1]
           /\ IF Quarantine(d) THEN UNCHANGED role
              ELSE nextTid \in Threads /\ role' = [role EXCEPT ![nextTid] = d]
    BY Zenon, <1>3, CrashIs DEF ReportCrash
  <2>2. restarts \in [Devices -> Nat] /\ MaxRestarts \in Nat
    BY Zenon, ProcessConstants DEF BudgetInv
  <2>3. Instances(d) # {}
    BY Zenon, <2>1 DEF Instances
  <2>4. CASE Quarantine(d)
    <3>1. restarts' = restarts
      BY Zenon, <2>1, <2>2, <2>4
    <3>2. \A x : Instances(x)' = Instances(x)
      BY Zenon, <2>1, <2>4 DEF Instances
    <3> QED BY Zenon, <3>1, <3>2 DEF BudgetInv
  <2>5. CASE ~Quarantine(d)
    <3>1. restarts' \in [Devices -> Nat] /\ restarts'[d] = restarts[d] + 1
          /\ \A x \in Devices \ {d} : restarts'[x] = restarts[x]
      BY <2>1, <2>2, <2>5
    <3>2. restarts[d] + 1 <= MaxRestarts
      BY <2>2, <2>5 DEF Quarantine
    <3>3. Cardinality(Instances(d)) = restarts[d] + 1
      BY Zenon, <2>3 DEF BudgetInv
    <3>4. Instances(d)' # {} /\ Cardinality(Instances(d)') = restarts'[d] + 1
      BY Zenon, <1>1, <2>1, <2>5, <3>1, <3>3
    <3>5. \A x \in Devices \ {d} : Instances(x)' = Instances(x)
      BY Zenon, <1>1, <2>1, <2>5
    <3>6. ASSUME NEW x \in Devices
          PROVE  restarts'[x] <= MaxRestarts /\ IF Instances(x)' = {} THEN restarts'[x] = 0
                                                ELSE Cardinality(Instances(x)') = restarts'[x] + 1
      BY Zenon, <3>1, <3>2, <3>4, <3>5 DEF BudgetInv
    <3> QED BY Zenon, <3>1, <3>6 DEF BudgetInv
  <2> QED BY Zenon, <2>4, <2>5
<1> QED BY Zenon, <1>2, <1>3

LEMMA TwoMore ==
  ASSUME NEW R, NEW a \in Seq(R), NEW c \in R, NEW d \in R
  PROVE  /\ a \o <<c, d>> \in Seq(R) /\ Len(a \o <<c, d>>) = Len(a) + 2
         /\ (a \o <<c, d>>)[Len(a) + 1] = c /\ (a \o <<c, d>>)[Len(a) + 2] = d
         /\ \A i \in 1 .. Len(a) : (a \o <<c, d>>)[i] = a[i]
  OBVIOUS

\* A restart adds its crash and its attempt to what was expected.
LEMMA ExpectedGrows ==
  ASSUME NEW n \in Nat
  PROVE  Expected(n) \o <<Crashed, Restarted(n + 1)>> = Expected(n + 1)
<1> DEFINE Rec == [event : {"crashed", "restarted"}, attempt : Nat]
<1>1. Crashed \in Rec /\ \A k \in Nat : Restarted(k) \in Rec
  BY Zenon DEF Crashed, Restarted
<1> HIDE DEF Rec
<1>2. PICK E \in [Nat -> Seq(Rec)] : \A k \in Nat : E[k] = Expected(k) /\ Len(E[k]) = 2 * k
            /\ \A i \in 1 .. (2 * k) : E[k][i] = IF i % 2 = 1 THEN Crashed ELSE Restarted(i \div 2)
  <2>1. ASSUME NEW k \in Nat
        PROVE  /\ Expected(k) \in Seq(Rec) /\ Len(Expected(k)) = 2 * k
               /\ \A i \in 1 .. (2 * k) : Expected(k)[i] = IF i % 2 = 1 THEN Crashed ELSE Restarted(i \div 2)
    <3>1. PICK f : f = Expected(k)
      BY Zenon
    <3>2. f = [i \in 1 .. (2 * k) |-> IF i % 2 = 1 THEN Crashed ELSE Restarted(i \div 2)]
      BY Zenon, <3>1 DEF Expected
    <3>3. 2 * k \in Nat /\ \A i \in 1 .. (2 * k) : i \div 2 \in Nat
      OBVIOUS
    <3>4. f \in [1 .. (2 * k) -> Rec]
      BY Zenon, <1>1, <3>2, <3>3
    <3>5. f \in Seq(Rec) /\ Len(f) = 2 * k
      BY <3>3, <3>4
    <3>6. \A i \in 1 .. (2 * k) : f[i] = IF i % 2 = 1 THEN Crashed ELSE Restarted(i \div 2)
      BY Zenon, <3>2
    <3> QED BY Zenon, <3>1, <3>5, <3>6
  <2>2. PICK F : F = [k \in Nat |-> Expected(k)]
    BY Zenon
  <2>3. F \in [Nat -> Seq(Rec)] /\ \A k \in Nat : F[k] = Expected(k)
    BY Zenon, <2>1, <2>2
  <2> QED BY Zenon, <2>1, <2>3
<1>3. n + 1 \in Nat /\ 2 * (n + 1) = 2 * n + 2 /\ (2 * n + 1) % 2 = 1 /\ (2 * n + 2) % 2 = 0 /\ (2 * n + 2) \div 2 = n + 1
  OBVIOUS
<1>4. PICK a : a = E[n]
  BY Zenon
<1>5. PICK b : b = E[n + 1]
  BY Zenon
<1>6. PICK c \in Rec : c = Crashed
  BY Zenon, <1>1
<1>7. PICK d \in Rec : d = Restarted(n + 1)
  BY Zenon, <1>1, <1>3
<1>8. /\ a \in Seq(Rec) /\ Len(a) = 2 * n /\ b \in Seq(Rec) /\ Len(b) = 2 * n + 2
      /\ \A i \in 1 .. (2 * n) : b[i] = a[i]
      /\ b[2 * n + 1] = c /\ b[2 * n + 2] = d
  <2>1. 2 * n + 1 \in 1 .. (2 * (n + 1)) /\ 2 * n + 2 \in 1 .. (2 * (n + 1)) /\ 0 # 1
        /\ \A i \in 1 .. (2 * n) : i \in 1 .. (2 * (n + 1))
    OBVIOUS
  <2>2. a \in Seq(Rec) /\ b \in Seq(Rec)
    BY Zenon, <1>2, <1>3, <1>4, <1>5
  <2>3. Len(a) = 2 * n /\ Len(b) = 2 * n + 2
    BY Zenon, <1>2, <1>3, <1>4, <1>5
  <2>4. \A i \in 1 .. (2 * n) : b[i] = a[i]
    BY Zenon, <1>2, <1>3, <1>4, <1>5, <2>1
  <2>5. b[2 * n + 1] = c
    BY Zenon, <1>2, <1>3, <1>5, <1>6, <2>1
  <2>6. b[2 * n + 2] = d
    BY Zenon, <1>2, <1>3, <1>5, <1>7, <2>1
  <2> QED BY Zenon, <2>2, <2>3, <2>4, <2>5, <2>6
<1>9. a \o <<c, d>> = b
  <2>1. PICK m \in Nat : m = 2 * n
    OBVIOUS
  <2>2. PICK e : e = a \o <<c, d>>
    BY Zenon
  <2>3. e \in Seq(Rec) /\ Len(e) = m + 2 /\ e[m + 1] = c /\ e[m + 2] = d /\ \A i \in 1 .. m : e[i] = a[i]
    <3>1. a \in Seq(Rec) /\ c \in Rec /\ d \in Rec
      BY Zenon, <1>8
    <3>2. /\ a \o <<c, d>> \in Seq(Rec) /\ Len(a \o <<c, d>>) = Len(a) + 2
          /\ (a \o <<c, d>>)[Len(a) + 1] = c /\ (a \o <<c, d>>)[Len(a) + 2] = d
          /\ \A i \in 1 .. Len(a) : (a \o <<c, d>>)[i] = a[i]
      BY <3>1, TwoMore
    <3>3. Len(a) = m
      BY Zenon, <1>8, <2>1
    <3> QED BY Zenon, <2>2, <3>2, <3>3
  <2>4. b \in Seq(Rec) /\ Len(b) = m + 2 /\ b[m + 1] = c /\ b[m + 2] = d /\ \A i \in 1 .. m : b[i] = a[i]
    BY Zenon, <1>8, <2>1
  <2>5. \A i \in 1 .. (m + 2) : i \in 1 .. m \/ i = m + 1 \/ i = m + 2
    OBVIOUS
  <2>6. \A i \in 1 .. (m + 2) : e[i] = b[i]
    BY Zenon, <2>3, <2>4, <2>5
  <2>7. e = b
    BY <2>3, <2>4, <2>6
  <2> QED BY Zenon, <2>2, <2>7
<1> QED BY Zenon, <1>2, <1>3, <1>4, <1>5, <1>6, <1>7, <1>9

LEMMA TrailStep ==
  ASSUME ThreadInv, BootInv, OwnerInv, AliveInv, BudgetInv, TrailInv, [Next]_vars
  PROVE  TrailInv'
<1>1. ASSUME \A t \in Threads : ~FaultDriver(t) PROVE TrailInv'
  BY Zenon, <1>1, RecordsKept DEF TrailInv
<1>2. ASSUME NEW t \in Threads, FaultDriver(t) PROVE TrailInv'
  <2>1. PICK d \in Devices :
           /\ role[t] = d /\ mode[t] = "user" /\ ReportCrash(d)
           /\ managed' = [managed EXCEPT ![d] = IF Quarantine(d) THEN "Failed" ELSE "Running"]
    BY Zenon, <1>2, CrashIs
  <2>2. restarts \in [Devices -> Nat] /\ MaxRestarts \in Nat /\ restarts[d] <= MaxRestarts /\ restarts[d] \in Nat
    BY Zenon, ProcessConstants DEF BudgetInv
  <2>3. restarts' = [restarts EXCEPT ![d] = IF Quarantine(d) THEN @ ELSE @ + 1]
    BY Zenon, <2>1 DEF ReportCrash
  <2>4. trail' = [trail EXCEPT ![d] = @ \o <<Crashed, IF Quarantine(d) THEN Quarantined ELSE Restarted(restarts'[d])>>]
    BY Zenon, <2>1 DEF ReportCrash, Crashed, Restarted, Quarantined
  <2>5. trail[d] = Expected(restarts[d])
    <3>1. t \in Instances(d) /\ Alive(t)
      BY <2>1 DEF Instances, Alive
    <3> QED BY Zenon, <3>1 DEF AliveInv, TrailInv
  <2>6. /\ DOMAIN trail' = Devices /\ DOMAIN managed' = Devices
        /\ trail'[d] = Expected(restarts[d]) \o <<Crashed, IF Quarantine(d) THEN Quarantined ELSE Restarted(restarts'[d])>>
        /\ managed'[d] = (IF Quarantine(d) THEN "Failed" ELSE "Running")
        /\ \A x \in Devices \ {d} : trail'[x] = trail[x] /\ restarts'[x] = restarts[x] /\ managed'[x] = managed[x]
    <3>1. DOMAIN trail = Devices /\ DOMAIN managed = Devices /\ DOMAIN restarts = Devices
      BY Zenon, <2>2 DEF TrailInv
    <3> QED BY Zenon, <2>1, <2>3, <2>4, <2>5, <3>1
  <2>7. CASE Quarantine(d)
    <3>1. restarts'[d] = restarts[d] /\ restarts[d] = MaxRestarts
      BY <2>2, <2>3, <2>7 DEF Quarantine
    <3>2. managed'[d] = "Failed" /\ trail'[d] = Expected(restarts'[d]) \o Closing
      BY Zenon, <2>6, <2>7, <3>1 DEF Closing
    <3> QED BY Zenon, <2>6, <3>1, <3>2 DEF TrailInv
  <2>8. CASE ~Quarantine(d)
    <3>1. restarts'[d] = restarts[d] + 1
      BY <2>2, <2>3, <2>8
    <3>2. trail'[d] = Expected(restarts[d]) \o <<Crashed, Restarted(restarts[d] + 1)>>
      BY Zenon, <2>6, <2>8, <3>1
    <3>3. trail'[d] = Expected(restarts'[d])
      BY Zenon, <2>2, <3>1, <3>2, ExpectedGrows
    <3> QED BY Zenon, <2>6, <3>3 DEF TrailInv
  <2> QED BY Zenon, <2>7, <2>8
<1> QED BY Zenon, <1>1, <1>2

LEMMA PInvInit == Init => PInv
<1> SUFFICES ASSUME Init PROVE PInv
  BY Zenon
<1> USE ProcessConstants
<1>1. \A d : d # "none" => Instances(d) = {}
  BY Zenon DEF Init, Instances
<1>2. ThreadInv
  BY DEF Init, ThreadInv, Roles, Modes, Threads
<1>3. BootInv
  <2>1. 0 \in 0 .. 10 /\ 0 + 1 = 1
    OBVIOUS
  <2>2. Following(0) \in 1 .. 11 /\ (Following(0) # 11 => BootScript[Following(0)][2] \in Devices \cup {"all"})
    BY Zenon, <2>1, FollowingAhead
  <2>3. \A i \in 1 .. 10 : BootScript[i][1] \in {"spawn", "program"} => Starts(i) # "none"
    BY BootSteps DEF Starts
  <2>4. boot = Following(0) /\ installed = FALSE
    BY Zenon DEF Init
  <2> QED BY Zenon, <1>1, <2>2, <2>3, <2>4 DEF BootInv
<1>4. LoadInv /\ WaitInv
  BY <1>1 DEF Init, LoadInv, WaitInv, Results
<1>5. TableInv
  BY DEF Init, TableInv
<1>6. OwnerInv /\ AliveInv
  BY Zenon, <1>1, DeviceNames DEF Init, OwnerInv, AliveInv, Absent
<1>7. BudgetInv
  BY <1>1, DeviceNames DEF Init, BudgetInv
<1>8. TrailInv
  <2>1. Expected(0) = <<>>
    BY DEF Expected
  <2> QED BY Zenon, <2>1 DEF Init, TrailInv
<1> QED BY Zenon, <1>2, <1>3, <1>4, <1>5, <1>6, <1>7, <1>8 DEF PInv

LEMMA PInvStep == PInv /\ [Next]_vars => PInv'
<1> SUFFICES ASSUME PInv, [Next]_vars PROVE PInv'
  BY Zenon
<1>1. ThreadInv /\ BootInv /\ LoadInv /\ WaitInv /\ TableInv /\ OwnerInv /\ AliveInv /\ BudgetInv /\ TrailInv
  BY Zenon DEF PInv
<1>2. ThreadInv' /\ BootInv' /\ LoadInv' /\ WaitInv'
  BY Zenon, <1>1, ThreadStep, BootStep, LoadStep, WaitStep
<1>3. TableInv' /\ OwnerInv' /\ AliveInv' /\ BudgetInv' /\ TrailInv'
  BY Zenon, <1>1, TableStep, OwnerStep, AliveStep, BudgetStep, TrailStep
<1> QED BY Zenon, <1>2, <1>3 DEF PInv

\* The inductive invariant holds throughout.
THEOREM ProcessInvariant == Spec => []PInv
  BY PInvInit, PInvStep, PTL DEF Spec

\* The process table, the supervisor's registry, the device manager's records
\* and the audit trail agree with the threads, for any devices, any restart
\* budget, any number of processes: no device has two live drivers, none is
\* restarted beyond its budget, and every attempt is in the trail.
THEOREM ProcInvAlways == Spec => []ProcInv
<1>1. PInv => ProcInv
  <2> SUFFICES ASSUME PInv PROVE ProcInv
    BY Zenon
  <2>1. ThreadInv /\ BootInv /\ LoadInv /\ WaitInv /\ TableInv /\ OwnerInv /\ AliveInv /\ BudgetInv /\ TrailInv
    BY Zenon DEF PInv
  <2>2. TrailTrue
    <3> SUFFICES ASSUME NEW d \in Devices
                 PROVE  /\ restarts[d] <= MaxRestarts
                        /\ Cardinality(Instances(d)) <= restarts[d] + 1
                        /\ restarts[d] > 0 => Cardinality(Instances(d)) = restarts[d] + 1
                        /\ \/ trail[d] = Expected(restarts[d])
                           \/ managed[d] = "Failed" /\ restarts[d] = MaxRestarts
                              /\ trail[d] = Expected(restarts[d]) \o Closing
      BY Zenon DEF TrailTrue, Expected, Closing, Crashed, Restarted, Quarantined
    <3>1. restarts[d] \in Nat /\ restarts[d] <= MaxRestarts
      BY Zenon, <2>1 DEF BudgetInv
    <3>2. CASE Instances(d) = {}
      <4>1. restarts[d] = 0 /\ Cardinality(Instances(d)) = 0
        BY Zenon, <2>1, <3>2, FS_EmptySet DEF BudgetInv
      <4>2. restarts[d] <= MaxRestarts /\ Cardinality(Instances(d)) <= restarts[d] + 1 /\ ~(restarts[d] > 0)
        BY <3>1, <4>1
      <4> QED BY Zenon, <2>1, <4>2 DEF TrailInv
    <3>3. CASE Instances(d) # {}
      <4>1. Cardinality(Instances(d)) = restarts[d] + 1
        BY Zenon, <2>1, <3>3 DEF BudgetInv
      <4> QED BY <2>1, <3>1, <4>1 DEF TrailInv
    <3> QED BY Zenon, <3>2, <3>3
  <2>3. boot \in 1 .. (Len(BootScript) + 1) /\ nextTid \in 1 .. (MaxThreads + 1) /\ nextPid \in 1 .. (MaxProcs + 1)
    BY <2>1, BootSteps DEF BootInv, ThreadInv, LoadInv
  <2>4. \A i \in DOMAIN table :
          /\ table[i] \in Entry /\ table[i].pid < nextPid
          /\ \A j \in DOMAIN table : i < j => table[i].pid < table[j].pid /\ table[i].tid < table[j].tid
          /\ role[table[i].tid] = "child"
          /\ table[i].exited => mode[table[i].tid] = "dead"
    <3>1. \A i \in DOMAIN table : table[i] \in Entry
      BY <2>1 DEF TableInv
    <3> QED BY Zenon, <2>1, <3>1 DEF TableInv
  <2>5. \A t \in Threads : /\ mode[t] = "unborn" <=> nextTid <= t
                           /\ mode[t] = "wait" => wants[t] \in 1 .. (nextPid - 1)
    BY Zenon, <2>1 DEF ThreadInv, WaitInv
  <2>6. /\ role \in [Threads -> Devices \cup {"none", "app", "child"}]
        /\ mode \in [Threads -> {"unborn", "setup", "user", "loading", "wait", "dead"}]
        /\ wants \in [Threads -> 0 .. MaxProcs] /\ got \in [Threads -> Results]
        /\ registered \subseteq Devices /\ owner \in [Devices -> Threads \cup {0}]
    BY Zenon, <2>1 DEF ThreadInv, WaitInv, OwnerInv, Roles, Modes
  <2>7. \A d \in Devices :
        /\ owner[d] # 0 => d \in registered /\ role[owner[d]] = d
        /\ \A t, u \in Instances(d) : Alive(t) /\ Alive(u) => t = u
        /\ managed[d] = "Failed" => \A t \in Instances(d) : ~Alive(t)
    BY Zenon, <2>1 DEF OwnerInv, AliveInv
  <2> QED BY Zenon, <2>2, <2>3, <2>4, <2>5, <2>6, <2>7 DEF ProcInv
<1> QED BY <1>1, ProcessInvariant, PTL

\* No exit is lost and none is reported twice: an entry leaves the table only
\* through try_wait of an exited process, whose code exactly that one waiter
\* returns with.
THEOREM ExitsDelivered == Spec => ExitDelivered
<1> DEFINE Delivered ==
      \A i \in DOMAIN table :
        (\A j \in DOMAIN table' : table'[j].pid # table[i].pid) =>
           /\ table[i].exited
           /\ \E t \in Threads :
                 /\ mode[t] = "wait" /\ wants[t] = table[i].pid
                 /\ mode'[t] = "user" /\ got'[t] = table[i].code
                 /\ \A u \in Threads \ {t} : mode'[u] = mode[u] /\ got'[u] = got[u]
<1>1. ASSUME PInv, [Next]_vars PROVE Delivered
  <2>1. ThreadInv /\ BootInv /\ LoadInv /\ WaitInv /\ TableInv /\ OwnerInv
    BY Zenon, <1>1 DEF PInv
  <2>2. CASE UNCHANGED table
    BY Zenon, <2>2
  <2>3. ASSUME NEW t \in Threads, SpawnDone(t) PROVE Delivered
    BY Zenon, <1>1, <2>1, <2>3, SpawnTable
  <2>4. ASSUME NEW t \in Threads, NEW code \in Codes, SysExit(t, code) PROVE Delivered
    BY Zenon, <1>1, <2>1, <2>4, ExitTable
  <2>5. ASSUME NEW t \in Threads, TryWait(t) PROVE Delivered
    <3>1. PICK i \in DOMAIN table :
              /\ table[i].exited /\ table[i].pid = wants[t]
              /\ \A k \in DOMAIN table \ {i} : \E j \in DOMAIN table' : table'[j] = table[k]
              /\ mode[t] = "wait" /\ mode' = [mode EXCEPT ![t] = "user"] /\ got' = [got EXCEPT ![t] = table[i].code]
      BY Zenon, <1>1, <2>1, <2>5, WaitTable
    <3>2. DOMAIN mode = Threads /\ DOMAIN got = Threads
      BY Zenon, <2>1 DEF ThreadInv, WaitInv
    <3>3. mode'[t] = "user" /\ got'[t] = table[i].code
          /\ \A u \in Threads \ {t} : mode'[u] = mode[u] /\ got'[u] = got[u]
      BY Zenon, <3>1, <3>2
    <3> QED BY ZenonT(40), <3>1, <3>3
  <2> QED BY Zenon, <1>1, <2>2, <2>3, <2>4, <2>5, TableMoves
<1>2. PInv /\ [Next]_vars => [Delivered]_vars
  BY Zenon, <1>1
<1> QED BY <1>2, ProcessInvariant, PTL DEF Spec, ExitDelivered
=============================================================================

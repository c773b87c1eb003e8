------------------------------ MODULE Geometry ------------------------------
(***************************************************************************)
(* The rectangle algebra of the desktop: kernel_common/geometry.rs         *)
(* (intersection, difference, the parts of a rectangle that the windows    *)
(* above leave visible) and kernel_rs/damage.rs (the accumulator that      *)
(* merges rectangles to be redrawn).  A small machine feeds both with      *)
(* every sequence of rectangles of a grid, and RectAlgebra compares what   *)
(* they return with the sets of pixels they stand for.                     *)
(*                                                                         *)
(* Abstraction: coordinates are small and never negative, so right() and   *)
(* bottom() do not saturate; the arrays of 4 and 32 rectangles are         *)
(* sequences, the second cut at VisCap.                                    *)
(***************************************************************************)
EXTENDS Integers, Sequences, SequencesExt

CONSTANTS
  VisCap,      \* pieces compute_visible_rects can return (32)
  MaxDirty,    \* MAX_DIRTY_RECTS of damage.rs (16)
  GridW, GridH,\* the grid the rectangles of the check are taken from
  MaxRects     \* rectangles fed to the two algorithms, a bound of the check

VARIABLES
  gTarget,     \* the rectangle whose visible part is computed
  gFed         \* the rectangles given so far, occluders and damage alike

geoVars == <<gTarget, gFed>>

Rect(x, y, w, h) == [x |-> x, y |-> y, w |-> w, h |-> h]
Right(r) == r.x + r.w
Bottom(r) == r.y + r.h
IsEmptyRect(r) == r.w = 0 \/ r.h = 0

Lower(a, b) == IF a <= b THEN a ELSE b
Higher(a, b) == IF a >= b THEN a ELSE b
Clamp(v, lo, hi) == Higher(lo, Lower(v, hi))

\* The pixels a rectangle stands for: the reference the algebra is held to.
Pixels(r) == {<<x, y>> : x \in r.x .. Right(r) - 1, y \in r.y .. Bottom(r) - 1}
Holds(r, p) == r.x <= p[1] /\ p[1] < Right(r) /\ r.y <= p[2] /\ p[2] < Bottom(r)
PixelsOf(rects) == UNION {Pixels(r) : r \in rects}

\* Rect::intersect; an empty rectangle stands for None.
Intersect(a, b) ==
  LET x0 == Higher(a.x, b.x)  x1 == Lower(Right(a), Right(b))
      y0 == Higher(a.y, b.y)  y1 == Lower(Bottom(a), Bottom(b))
  IN IF x1 > x0 /\ y1 > y0 THEN Rect(x0, y0, x1 - x0, y1 - y0) ELSE Rect(0, 0, 0, 0)

ContainsRect(a, b) ==
  IsEmptyRect(b) \/ (/\ a.x <= b.x /\ a.y <= b.y
                     /\ Right(a) >= Right(b) /\ Bottom(a) >= Bottom(b))

\* A mutant: the side pieces keep the full height and repeat the corners.
PiecesAround_FullHeight(r, i) ==
  << Rect(r.x, r.y, r.w, i.y - r.y),
     Rect(r.x, Bottom(i), r.w, Bottom(r) - Bottom(i)),
     Rect(r.x, r.y, i.x - r.x, r.h),
     Rect(Right(i), r.y, Right(r) - Right(i), r.h) >>

\* The pieces of r above, below, left and right of its part i under an occluder.
PiecesAround(r, i) ==
  << Rect(r.x, r.y, r.w, i.y - r.y),
     Rect(r.x, Bottom(i), r.w, Bottom(r) - Bottom(i)),
     Rect(r.x, i.y, i.x - r.x, i.h),
     Rect(Right(i), i.y, Right(r) - Right(i), i.h) >>

\* Rect::subtract
Subtract(r, occluder) ==
  LET i == Intersect(r, occluder)
  IN IF IsEmptyRect(r) \/ (~IsEmptyRect(i) /\ ContainsRect(occluder, r)) THEN <<>>
     ELSE IF IsEmptyRect(i) THEN <<r>>
     ELSE SelectSeq(PiecesAround(r, i), LAMBDA p : ~IsEmptyRect(p))

\* One round of compute_visible_rects: every piece minus one occluder, cut at
\* the size of the array.
Uncovered(pieces, occluder) ==
  LET all == FoldLeft(LAMBDA acc, r : acc \o Subtract(r, occluder), <<>>, pieces)
  IN SubSeq(all, 1, Lower(Len(all), VisCap))

\* Rect::compute_visible_rects
ComputeVisibleRects(target, occluders) ==
  IF IsEmptyRect(target) THEN <<>> ELSE FoldLeft(Uncovered, <<target>>, occluders)

OverlapOrAdjacent(a, b) ==
  ~(b.x > Right(a) \/ Right(b) < a.x \/ b.y > Bottom(a) \/ Bottom(b) < a.y)

UnionRect(a, b) ==
  LET x0 == Lower(a.x, b.x)  y0 == Lower(a.y, b.y)
  IN Rect(x0, y0, Higher(Right(a), Right(b)) - x0, Higher(Bottom(a), Bottom(b)) - y0)

\* The scan of DamageRegion::add_rect: the new rectangle swallows a rectangle
\* it touches and starts over, until it touches none.  At most one round per
\* rectangle already held swallows anything.
Absorb(rects, r) ==
  LET Round(acc, i) ==
        LET near == {q \in acc.rects : OverlapOrAdjacent(q, acc.r)}
        IN IF near = {} THEN acc
           ELSE LET q == CHOOSE q \in near : TRUE
                IN [rects |-> acc.rects \ {q}, r |-> UnionRect(q, acc.r)]
  IN FoldLeft(Round, [rects |-> rects, r |-> r],
              [i \in 1 .. Cardinality(rects) |-> i])

\* DamageRegion::add_rect.  A full region collapses to one bounding rectangle.
AddRect(rects, r) ==
  LET merged == Absorb(rects, r)
  IN IF IsEmptyRect(r) THEN rects
     ELSE IF Cardinality(merged.rects) < MaxDirty THEN merged.rects \cup {merged.r}
     ELSE {FoldLeft(UnionRect, merged.r, SetToSeq(merged.rects))}

----------------------------------------------------------------------------
GridRects == {r \in [x : 0 .. GridW - 1, y : 0 .. GridH - 1, w : 1 .. GridW, h : 1 .. GridH] :
                Right(r) <= GridW /\ Bottom(r) <= GridH}

GeoInit == gTarget \in GridRects /\ gFed = <<>>

\* One more occluder above the target, and one more damaged rectangle.
Feed(r) ==
  /\ Len(gFed) < MaxRects
  /\ gFed' = Append(gFed, r)
  /\ UNCHANGED gTarget

GeoNext == \E r \in GridRects : Feed(r)

\* The parts of a rectangle that its occluders leave visible
\* (geometry.rs:147-183) are disjoint and cover exactly the pixels no occluder
\* covers, so a window is blitted exactly where it shows; and the damage
\* accumulator (damage.rs:49-80), whatever it merges and also after it
\* collapses at its limit, still covers every rectangle it was given and holds
\* no two rectangles that touch, so no damaged pixel is forgotten.
RectAlgebra ==
  LET vis == ComputeVisibleRects(gTarget, gFed)
      region == FoldLeft(AddRect, {}, gFed)
      fed == UNION {Pixels(gFed[i]) : i \in DOMAIN gFed}
  IN /\ UNION {Pixels(vis[i]) : i \in DOMAIN vis} = Pixels(gTarget) \ fed
     /\ \A i, j \in DOMAIN vis : i # j => Pixels(vis[i]) \cap Pixels(vis[j]) = {}
     /\ fed \subseteq PixelsOf(region)
     /\ Cardinality(region) <= MaxDirty
     /\ \A q, r \in region : q # r => ~OverlapOrAdjacent(q, r)
=============================================================================

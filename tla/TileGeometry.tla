---------------------------- MODULE TileGeometry ----------------------------
(***************************************************************************)
(* The tiles of a screen of w x h pixels: how copy_rows_incremental and    *)
(* copy_bgra_rows_incremental (kms/pixel_format.rs) number the tile of a   *)
(* pixel that changed, and which rectangle drain_to_rects (frame_diff.rs)  *)
(* reports for a tile number.  The two are written apart and must agree.   *)
(***************************************************************************)
EXTENDS Integers

CONSTANT TileSize   \* TILE_SIZE, 64

ASSUME TileSizeAssumption == TileSize \in Nat /\ TileSize > 0

Least(a, b) == IF a <= b THEN a ELSE b

\* Mutant of DivCeil: the last, partial tile is forgotten.
DivCeilDown(a, b) == IF a < b THEN 1 ELSE a \div b

DivCeil(a, b) == (a + b - 1) \div b

TilesX(w) == DivCeil(w, TileSize)
TilesY(h) == DivCeil(h, TileSize)

\* total_tiles
TileCount(w, h) == TilesX(w) * TilesY(h)

-----------------------------------------------------------------------------
(* The capture side. *)

\* The columns of the tile segment tx of a row: x0 .. x0 + tw - 1.
Segment(w, tx) ==
  tx * TileSize .. tx * TileSize + Least(TileSize, w - tx * TileSize) - 1

\* The tile numbers marked when exactly the pixel (x, y) differs.
MarkedFor(w, x, y) ==
  {(y \div TileSize) * TilesX(w) + tx :
     tx \in {s \in 0..TilesX(w) - 1 : x \in Segment(w, s)}}

-----------------------------------------------------------------------------
(* The drain side. *)

\* Mutant of Rect: full-size tiles at the edges too.
RectUnclipped(w, h, i) ==
  [x |-> (i % TilesX(w)) * TileSize, y |-> (i \div TilesX(w)) * TileSize,
   width |-> TileSize, height |-> TileSize]

\* The rectangle of tile i, where the loops over ty and tx have idx = i.
Rect(w, h, i) ==
  LET x0 == (i % TilesX(w)) * TileSize
      y0 == (i \div TilesX(w)) * TileSize
  IN  [x |-> x0, y |-> y0,
       width |-> Least(TileSize, w - x0), height |-> Least(TileSize, h - y0)]

Covers(r, x, y) == /\ r.x <= x /\ x < r.x + r.width
                   /\ r.y <= y /\ y < r.y + r.height

-----------------------------------------------------------------------------
(* Properties of a screen of w x h pixels. *)

\* A changed pixel marks exactly one tile, one DirtyTiles has a bit for, and
\* the rectangle drained for that tile contains the pixel: no change can be
\* marked under a number that is drained as another part of the screen.
MarkIsDrained(w, h) ==
  \A x \in 0..w - 1, y \in 0..h - 1 :
    \E i \in 0..TileCount(w, h) - 1 :
      MarkedFor(w, x, y) = {i} /\ Covers(Rect(w, h, i), x, y)

\* The rectangles of all tiles lie inside the screen, where the writer slices
\* the frame by them, and no two overlap: no pixel is sent twice.
RectsTileTheScreen(w, h) ==
  LET R == [i \in 0..TileCount(w, h) - 1 |-> Rect(w, h, i)]
  IN  /\ \A i \in DOMAIN R : /\ R[i].width > 0 /\ R[i].x + R[i].width <= w
                             /\ R[i].height > 0 /\ R[i].y + R[i].height <= h
      /\ \A i, j \in DOMAIN R : i # j =>
           \A x \in 0..w - 1, y \in 0..h - 1 :
             ~(Covers(R[i], x, y) /\ Covers(R[j], x, y))
=============================================================================

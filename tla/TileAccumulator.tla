--------------------------- MODULE TileAccumulator ---------------------------
(***************************************************************************)
(* What DirtyTiles (frame_diff.rs) promises the capture thread and the     *)
(* sessions: a tile that is marked stays marked until a drain takes it,    *)
(* and a taken tile is in the rectangles that drain returns.  Marks and    *)
(* drains may be split into steps that see any part of the tiles.          *)
(***************************************************************************)
CONSTANTS Tiles, Drainers

VARIABLES
  dirty,   \* the tiles that are marked
  taken    \* the tiles a drain has taken so far

vars == <<dirty, taken>>

Init == dirty = {} /\ taken = [d \in Drainers |-> {}]

Mark(S) == dirty' = dirty \cup S /\ taken' = taken

Take(d, S) ==
  /\ dirty' = dirty \ S
  /\ taken' = [taken EXCEPT ![d] = @ \cup S]

Return(d) == taken' = [taken EXCEPT ![d] = {}] /\ dirty' = dirty

Next ==
  \/ \E S \in SUBSET Tiles : Mark(S)
  \/ \E d \in Drainers : (\E S \in SUBSET dirty : Take(d, S)) \/ Return(d)

Spec == Init /\ [][Next]_vars
=============================================================================

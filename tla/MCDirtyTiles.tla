---------------------------- MODULE MCDirtyTiles ----------------------------
(***************************************************************************)
(* DirtyTiles instantiated for TLC, on every screen of up to MaxSize x     *)
(* MaxSize pixels that has Total tiles: a few words of a few bits each, a  *)
(* partial last word, and partial tiles at the edges of the screen.        *)
(***************************************************************************)
EXTENDS DirtyTiles, TileGeometry

CONSTANT MaxSize    \* bound: the largest width and height

VARIABLES width, height   \* the screen, in pixels

Screens == {s \in (1..MaxSize) \X (1..MaxSize) : TileCount(s[1], s[2]) = Total}

MCInit == Init /\ \E s \in Screens : width = s[1] /\ height = s[2]

MCNext == Next /\ UNCHANGED <<width, height>>

MCSpec ==
  /\ MCInit /\ [][MCNext]_<<vars, width, height>>
  /\ \A d \in Drainers : WF_vars(DrainBegin(d) \/ SwapWord(d) \/ DrainEnd(d))

\* See MarkIsDrained.
EveryMarkIsDrained == MarkIsDrained(width, height)

\* See RectsTileTheScreen.
EveryScreenIsTiled == RectsTileTheScreen(width, height)
=============================================================================

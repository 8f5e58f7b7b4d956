--------------------------- MODULE MCFramePipeline ---------------------------
(***************************************************************************)
(* FramePipeline instantiated for TLC.  The runs of the configurations     *)
(* Pipeline*.cfg differ in the backend, in what the environment may do and *)
(* in the number of viewers.  The smaller ones use Symmetry, the larger    *)
(* ones View, which needs no permutations of allocations and handles.      *)
(***************************************************************************)
EXTENDS FramePipeline, TLC

\* Sessions and tiles are interchangeable, and so are frame allocations and
\* framebuffer handles: the state machine compares them only for equality.
Interchangeable == Permutations(Clients) \cup Permutations(Tiles)

Symmetry == Interchangeable \cup Permutations(Buffers) \cup Permutations(Keys)

\* Who refers to a frame, and to which.
Holders    == {"slot", "scratch", "work"} \cup Clients
FrameOf(h) == CASE h = "slot"    -> slot
                [] h = "scratch" -> scratch
                [] h = "work"    -> work
                [] OTHER         -> held[h]

\* Frame allocations by who shares which, and by content: a free one's content
\* matters to nothing, as CopyFrame overwrites it.  Handles by whether the
\* scanned-out one was captured last.
View ==
  <<screen, fbKey = lastKey, seen, capPc, mode, todo, changed, bits, pending, notified,
    pc, reqs, inc, unseen, rects, pic,
    {p \in Holders \X Holders : FrameOf(p[1]) = FrameOf(p[2])},
    {<<h, px[FrameOf(h)]>> : h \in {g \in Holders : FrameOf(g) # NoBuffer}}>>
=============================================================================

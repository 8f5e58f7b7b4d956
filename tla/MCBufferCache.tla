---------------------------- MODULE MCBufferCache ----------------------------
(***************************************************************************)
(* BufferCache instantiated for TLC: objects that are mapped by PRIME,     *)
(* through the card, or by VAAPI only, and enough handles for the cache to *)
(* fill up and evict.                                                      *)
(***************************************************************************)
EXTENDS BufferCache, TLC

\* Handle numbers and framebuffer ids are compared for equality only.
Symmetry == Permutations(Handles) \cup Permutations(Fbs)

\* What a state has to do with the next ones and with the invariants: between
\* captures the last handle is not used, and the last result only compared.
View ==
  IF pc = "idle"
    THEN <<fbs, scanout, kernel, recycled, handles, default_fb, lastKey, latches,
           cache, vaapi, result \in shown \cup {NoObject}>>
    ELSE vars
=============================================================================

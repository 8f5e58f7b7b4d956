---------------------------- MODULE MCCaptureLoop ----------------------------
(***************************************************************************)
(* CaptureLoop instantiated for TLC.  At 30 fps a tick is 33 ms, the       *)
(* polling interval; at 5 fps a tick is 100 ms, half of it.                *)
(***************************************************************************)
EXTENDS CaptureLoop, TLC

\* Sessions are interchangeable.
Symmetry == Permutations(Clients)
=============================================================================

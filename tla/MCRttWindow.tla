----------------------------- MODULE MCRttWindow -----------------------------
(* RttWindow with few samples, but RTTs and gaps that straddle every window. *)
EXTENDS RttWindow

MCRtt == {1, 2, 5}
MCGap == {0, 1, 4}
=============================================================================

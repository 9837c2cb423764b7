----------------------------- MODULE MCAdaptive -----------------------------
(* Adaptive with RTTs of a tick or two and windows of a few packets. *)
EXTENDS Adaptive

OneTwo == {1, 2}
ZeroOne == {0, 1}
JustThree == {3}
AutoOrConstant == {"AUTO_MODE", "CONSTANT_DELTA"}
=============================================================================

------------------------------ MODULE MCCopaFlow ------------------------------
(* CopaFlow with RTTs that a few packets can queue up. *)
EXTENDS CopaFlow

MCRtt == {1, 2, 4}
=============================================================================

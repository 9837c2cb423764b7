-------------------------------- MODULE MCCtcp --------------------------------
(* Ctcp with windows and pacing intervals of a few packets and ticks. *)
EXTENDS Ctcp

NoWindowTo2 == {0, 1, 2}
OneTwo == {1, 2}
ZeroTwo == {0, 2}
OneStray == {[own |-> FALSE, seq |-> 4, sent |-> 0]}
=============================================================================

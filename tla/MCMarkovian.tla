----------------------------- MODULE MCMarkovian -----------------------------
(* Markovian with RTTs of a few ticks and windows of a few packets.          *)
EXTENDS Markovian

OneTwo == {1, 2}

\* Half of the clock is for every pattern of packets and losses, all of it for
\* the acks of one packet, which take slow start and the velocity far.
Explored == now <= 7 \/ next_seq <= 1
=============================================================================

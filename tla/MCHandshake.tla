----------------------------- MODULE MCHandshake -----------------------------
(* Handshake as it is: every constant is a number or a Boolean. *)
EXTENDS Handshake
=============================================================================

----------------------------- MODULE MCTcpCopa -----------------------------
(* TcpCopa with periods of two RTTs and windows of a few segments.           *)
EXTENDS TcpCopa

OneTwo == {1, 2}
=============================================================================

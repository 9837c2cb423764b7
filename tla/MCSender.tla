------------------------------ MODULE MCSender -------------------------------
(* Sender with a few packets, windows and flows. *)
EXTENDS Sender

\* Smaller windows only admit less.
LargeWindow == {4}
=============================================================================

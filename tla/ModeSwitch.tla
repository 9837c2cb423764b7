------------------------------ MODULE ModeSwitch ------------------------------
(***************************************************************************)
(* What the competitive mode of Copa+ promises the flows that share a      *)
(* bottleneck with it: a switch that does not flutter.  It stays in either *)
(* mode for longer than a given time before it changes to the other.       *)
(***************************************************************************)
EXTENDS Integers

CONSTANTS DefaultFor,   \* how long the default mode lasts at least
          CompeteFor,   \* how long the competitive mode lasts at least
          Settled       \* more than either

VARIABLES competing,    \* the mode
          dwell         \* the time since it last changed, up to Settled

vars == <<competing, dwell>>

Init == competing = FALSE /\ dwell = 0

Enter == ~competing /\ dwell > DefaultFor /\ competing' = TRUE /\ dwell' = 0

Leave == competing /\ dwell > CompeteFor /\ competing' = FALSE /\ dwell' = 0

Wait == dwell' = (IF dwell < Settled THEN dwell + 1 ELSE dwell) /\ UNCHANGED competing

Next == Enter \/ Leave \/ Wait

Spec == Init /\ [][Next]_vars
=============================================================================

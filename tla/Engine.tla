-------------------------------- MODULE Engine --------------------------------
(***************************************************************************)
(* What CTCP promises a congestion controller (ccc.hh), whatever the        *)
(* network does: each packet is announced once and in order, acks are only  *)
(* of packets announced, however often or late, and the controller is       *)
(* started afresh only after a silence.  The models of the controllers take *)
(* this engine for granted.                                                 *)
(***************************************************************************)
EXTENDS Integers

CONSTANTS AckTimeout,   \* 2000 ms
          LowestAck     \* the least packet that an ack may name

VARIABLES now,
          told,         \* packets announced since the flow began
          known,        \* what the controller keeps of them
          acks, named,  \* acks since it was started, and the packet the last named
          last          \* when the engine last heard of an ack or started it

vars == <<now, told, known, acks, named, last>>

Init == now = 0 /\ told = 0 /\ known = {} /\ acks = 0 /\ named = -1 /\ last = 0

onPktSent ==
    /\ known' = known \cup {told} /\ told' = told + 1
    /\ UNCHANGED <<now, acks, named, last>>

onACK(n) ==
    /\ known' = IF n \in known THEN {p \in known : p > n} ELSE known
    /\ acks' = acks + 1 /\ named' = n /\ last' = now
    /\ UNCHANGED <<now, told>>

\* An echo within a train ends the silence and is not passed on.
Heard == last' = now /\ UNCHANGED <<now, told, known, acks, named>>

init ==
    /\ now - last > AckTimeout
    /\ known' = {} /\ acks' = 0 /\ named' = -1 /\ last' = now
    /\ UNCHANGED <<now, told>>

Tick == now' = now + 1 /\ UNCHANGED <<told, known, acks, named, last>>

Next == onPktSent \/ (\E n \in LowestAck .. told - 1 : onACK(n)) \/ Heard \/ init \/ Tick

Spec == Init /\ [][Next]_vars
=============================================================================

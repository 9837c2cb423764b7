---------------------------- MODULE SlidingExtreme ----------------------------
(***************************************************************************)
(* What one ExtremeWindow (rtt-window.hh) promises its users: the extreme  *)
(* of the samples of a sliding time window, never of an empty set.  The    *)
(* window below is the naive one: it holds EVERY sample since the oldest   *)
(* one it has not dropped (`live'), where the code keeps only the monotone *)
(* subset that it needs.                                                   *)
(***************************************************************************)
EXTENDS Integers, Sequences

CONSTANTS FindMin,      \* TRUE: the window tracks a minimum; FALSE: a maximum
          NoExtreme     \* the value reported before the first sample

VARIABLES hist,         \* every sample since the last clear(), oldest first
          live,         \* the indices of hist that are still in the window
          extreme       \* the value the window reports

vars == <<hist, live, extreme>>

Init == hist = <<>> /\ live = {} /\ extreme = NoExtreme

\* e is the extreme value of the samples of h whose indices are in S
IsExtremeOf(e, h, S) ==
    /\ \E i \in S : h[i].val = e
    /\ \A i \in S : IF FindMin THEN e <= h[i].val ELSE e >= h[i].val

\* A sample enters; the samples before a cut-off time leave, except that the
\* new sample stays whatever its age.
Sample ==
    LET n == Len(hist) + 1
        h == hist'
    IN  /\ Len(h) = n /\ \A i \in 1 .. Len(hist) : h[i] = hist[i]
        /\ \E i \in 1 .. n :
              live' = {j \in live : h[j].time >= h[i].time} \cup {n}
        /\ IsExtremeOf(extreme', h, live')

Clear == hist' = <<>> /\ live' = {} /\ extreme' = NoExtreme

Next == Sample \/ Clear

Spec == Init /\ [][Next]_vars
=============================================================================

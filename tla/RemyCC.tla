------------------------------- MODULE RemyCC --------------------------------
(***************************************************************************)
(* RemyCC of User-space/copaP/remycc.{hh,cc}, with the Rat that looks up an *)
(* action and the Memory it looks it up by (REMYTYPE_DEFAULT).              *)
(*                                                                          *)
(* Of the averages and the ratio in the memory only their range matters     *)
(* here: the whiskers cover 0 up to 163840 of each, and the program exits   *)
(* for want of a whisker.  An average leaves the range only after an        *)
(* interval outside it.  What a whisker asks for is free.  The link rate    *)
(* that would scale it is measured with trains only.                        *)
(***************************************************************************)
EXTENDS Integers

CONSTANTS Windows,          \* the windows the whiskers may lead to
          MaxRatio,         \* 163840: no whisker for RTTs this many times the least
          MaxInterval       \* 163840 ms: nor for averages of that length

VARIABLES now,              \* current_timestamp(), above 0
          window,           \* _the_window
          unacknowledged_packets,   \* when each packet not acked was sent
          memory,
          exited            \* use_whisker() found no whisker

MinOf(a, b) == IF a <= b THEN a ELSE b
MaxOf(a, b) == IF a >= b THEN a ELSE b

\* Memory::reset().  A last_tick_sent of 0 stands for no sample, and the
\* receiver's timestamp of the last flow is kept.
Reset(m) ==
    [last_tick_sent |-> 0, last_receiver_timestamp |-> m.last_receiver_timestamp,
     last_seq |-> m.last_seq, min_rtt |-> 0, largest_ack |-> 0]

NoMemory == [last_tick_sent |-> 0, last_receiver_timestamp |-> 0, last_seq |-> 0,
             min_rtt |-> 0, largest_ack |-> 0]

Empty == [s \in {} |-> 0]

Init ==
    /\ window = 2
    /\ unacknowledged_packets = Empty
    /\ memory = NoMemory /\ exited = FALSE

\* init() forgets the intervals, not the packets on the way.
init ==
    /\ memory' = Reset(memory) /\ window' = 2
    /\ UNCHANGED <<unacknowledged_packets, exited>>

With(f, n, t) == [s \in DOMAIN f \cup {n} |-> IF s = n THEN t ELSE f[s]]

\* Mutant: a packet recorded already keeps its time.
onPktSent_inserting(n) ==
    /\ unacknowledged_packets' = IF n \in DOMAIN unacknowledged_packets
                                 THEN unacknowledged_packets
                                 ELSE With(unacknowledged_packets, n, now)
    /\ UNCHANGED <<window, memory, exited>>

onPktSent(n) ==
    /\ unacknowledged_packets' = With(unacknowledged_packets, n, now)
    /\ UNCHANGED <<window, memory, exited>>

\* Mutant: intervals to late packets are averaged, too.
FollowsAnything(n) == TRUE

\* "Only update ewmas if we are guaranteed an accurate estimate"
Follows(n) == n - 1 = memory.largest_ack

\* What is left when n is acked; the records of lost packets stay.
StillUnacked(n) ==
    [s \in DOMAIN unacknowledged_packets \ {n} |-> unacknowledged_packets[s]]

\* The first sample after a reset
FirstSample(n, sent, received) ==
    /\ memory.last_tick_sent = 0
    /\ memory' = [last_tick_sent |-> sent, last_receiver_timestamp |-> received,
                  last_seq |-> n, min_rtt |-> now - sent,
                  largest_ack |-> MaxOf(memory.largest_ack, n)]
    /\ UNCHANGED exited

\* An interval below zero may leave an average below zero, and a long one an
\* average too long.  One since an unstamped header is as long as the
\* receiver's clock.
Unaverageable(sent, received) ==
    \/ sent < memory.last_tick_sent \/ received < memory.last_receiver_timestamp
    \/ memory.last_receiver_timestamp = 0
    \/ sent - memory.last_tick_sent >= MaxInterval
    \/ received - memory.last_receiver_timestamp >= MaxInterval

\* use_whisker(), which may find none for averages that `unaverageable' went
\* into, nor for the ratio of this RTT to the least.
UseWhisker(sent, unaverageable) ==
    exited' \in IF \/ unaverageable
                  \/ now - sent >= MaxRatio * MinOf(memory.min_rtt, now - sent)
               THEN BOOLEAN ELSE {exited}

AveragedSample(n, sent, received) ==
    /\ memory.last_tick_sent # 0 /\ Follows(n)
    /\ memory' = [last_tick_sent |-> sent, last_receiver_timestamp |-> received,
                  last_seq |-> n, min_rtt |-> MinOf(memory.min_rtt, now - sent),
                  largest_ack |-> MaxOf(memory.largest_ack, n)]
    /\ UseWhisker(sent, Unaverageable(sent, received))

OtherSample(n, sent) ==
    /\ memory.last_tick_sent # 0 /\ ~Follows(n)
    /\ memory' = [memory EXCEPT !.min_rtt = MinOf(memory.min_rtt, now - sent),
                                !.largest_ack = MaxOf(memory.largest_ack, n)]
    /\ UseWhisker(sent, FALSE)

\* An ack names the packet after the one acked; one acked before, or by an
\* echo that came twice, is unknown.
onACK(ack, received) ==
    LET n == ack - 1
    IN  IF n \in DOMAIN unacknowledged_packets
        THEN /\ unacknowledged_packets' = StillUnacked(n)
             /\ \/ FirstSample(n, unacknowledged_packets[n], received)
                \/ AveragedSample(n, unacknowledged_packets[n], received)
                \/ OtherSample(n, unacknowledged_packets[n])
             /\ window' \in Windows
        ELSE UNCHANGED <<window, unacknowledged_packets, memory, exited>>
=============================================================================

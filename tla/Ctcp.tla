--------------------------------- MODULE Ctcp ---------------------------------
(***************************************************************************)
(* CTCP::send_data() of User-space/copaP/ctcp.hh once the handshake is      *)
(* done: one flow of a window- and rate-controlled UDP sender against a     *)
(* receiver that echoes every header, with the poll of UDPSocket, and what  *)
(* MarkovianCC keeps about the packets it was told of.                      *)
(*                                                                          *)
(* The window and the pacing interval are the controller's: any of its      *)
(* callbacks may change them to anything.  A packet and its echo are one    *)
(* datagram in `net'; one that is never taken out is lost.  Times are       *)
(* counted in ticks of at least a millisecond.                              *)
(***************************************************************************)
EXTENDS Integers, FiniteSets

CONSTANTS train_length,     \* packets sent back to back
          byte_switched,    \* flow_size counts packets acked, not time
          flow_size,
          Windows,          \* what get_the_window() may return,
          MaxWindow,        \*   and the largest of them
          Intersends,       \* what get_intersend_time() may return,
          MinIntersend,     \*   and the smallest of them
          AckTimeout,       \* 2000 ms without an ack: start afresh
          PollCap,          \* 1000 ms: the longest poll
          cc_timeout,       \* get_timeout() of the controller
          Delay,            \* the least round-trip time
          Preemption,       \* ticks that may pass between two readings of the clock
          Strays,           \* echoes of an earlier flow still on the way, a set
          MaxTime,          \* bound on the clock
          MaxSeq,           \* bound on the packets of a flow
          MaxDups,          \* bound: datagrams duplicated
          MaxErrors         \* bound: receivedata() returning -1

ASSUME CtcpAssumption ==
    /\ train_length \in Nat \ {0}
    /\ byte_switched \in BOOLEAN /\ Preemption \in Nat
    /\ flow_size \in Nat /\ AckTimeout \in Nat /\ PollCap \in Nat
    /\ cc_timeout \in Nat /\ Delay \in Nat
    /\ Windows \subseteq Nat /\ Intersends \subseteq Nat
    /\ MaxWindow \in Windows /\ \A w \in Windows : w <= MaxWindow
    /\ MinIntersend \in Intersends /\ \A i \in Intersends : i >= MinIntersend
    /\ IsFiniteSet(Strays) /\ \A h \in Strays : ~h.own
    /\ MaxTime \in Nat /\ MaxSeq \in Nat /\ MaxDups \in Nat /\ MaxErrors \in Nat

VARIABLES now,              \* the clock
          pc,               \* top, send, poll or done
          cur_time,         \* the last reading of the clock
          seq_num, largest_ack,
          last_send_time,   \* when the last packet was due, not when it left
          last_ack_time,
          window, intersend,
          pollEnd,          \* when the poll times out, or Forever
          buf,              \* the header in the buffer
          transmitted,      \* num_packets_transmitted
          cc,               \* what the controller knows of its packets
          net,              \* datagrams on the way to the receiver or back
          base,             \* history: all packets below are acked or given up
          dups, errors      \* history: what the bounds count

sender == <<seq_num, largest_ack, last_send_time, last_ack_time, transmitted>>
rate == <<window, intersend>>
vars == <<now, pc, cur_time, sender, rate, pollEnd, buf, cc, net, base, dups, errors>>

Forever == -1

\* A header as the sender reads it: of this flow or not, and when it was sent
Header(s, t) == [own |-> TRUE, seq |-> s, sent |-> t]
Foreign == [own |-> FALSE, seq |-> 0, sent |-> 0]

MaxOf(a, b) == IF a >= b THEN a ELSE b
MinOf(a, b) == IF a <= b THEN a ELSE b

------------------------------------------------------------------------------
\* The controller

AnyRate == window' \in Windows /\ intersend' \in Intersends

\* init() forgets every packet.  (`named' is history: the packet that the last
\* ack named.)
FreshCC == [unacked |-> {}, sent |-> 0, acked |-> 0, lost |-> 0, named |-> -1]

onPktSent(n) ==
    /\ cc' = [cc EXCEPT !.unacked = @ \cup {n}, !.sent = @ + 1]
    /\ AnyRate

\* Mutant: packets skipped by an ack are dropped without counting as lost.
onACK_uncounted(ack) ==
    LET n == ack - 1
    IN  /\ cc' = [cc EXCEPT !.unacked = IF n \in @ THEN {x \in @ : x > n} ELSE @,
                            !.acked = @ + 1, !.named = n]
        /\ AnyRate

\* An ack names the packet after the one acked.  If that one is known, the
\* packets sent before it and not acked yet are taken for lost.
onACK(ack) ==
    LET n == ack - 1
        older == {x \in cc.unacked : x < n}
    IN  /\ cc' = IF n \in cc.unacked
                 THEN [cc EXCEPT !.unacked = @ \ (older \cup {n}),
                                 !.lost = @ + Cardinality(older),
                                 !.acked = @ + 1, !.named = n]
                 ELSE [cc EXCEPT !.acked = @ + 1, !.named = n]
        /\ AnyRate

------------------------------------------------------------------------------
\* send_data()

\* The condition of the main loop, for a reading t of the clock
Unfinished(t) == IF byte_switched THEN transmitted < flow_size ELSE t < flow_size

Init ==
    /\ now = 0 /\ cur_time = 0 /\ pc = "top"
    /\ seq_num = 0 /\ largest_ack = -1
    /\ last_send_time = 0 /\ last_ack_time = 0
    /\ window \in Windows /\ intersend \in Intersends
    /\ pollEnd = Forever
    /\ buf = Foreign
    /\ transmitted = 0
    /\ cc = FreshCC
    /\ net = Strays
    /\ base = 0 /\ dups = 0 /\ errors = 0

\* The loop ends on the reading of the clock its last round left behind.
Finish ==
    /\ pc = "top" /\ ~Unfinished(cur_time)
    /\ pc' = "done"
    /\ UNCHANGED <<now, cur_time, sender, rate, pollEnd, buf, cc, net, base, dups, errors>>

Silent == now - last_ack_time > AckTimeout

Round ==
    /\ pc = "top" /\ Unfinished(cur_time) /\ ~Silent
    /\ pc' = "send" /\ cur_time' = now
    /\ UNCHANGED <<now, sender, rate, pollEnd, buf, cc, net, base, dups, errors>>

\* No ack for AckTimeout: the controller starts afresh, and whatever was in
\* flight is taken for lost.
AckTimedOut ==
    /\ pc = "top" /\ Unfinished(cur_time) /\ Silent /\ Unfinished(now)
    /\ pc' = "send" /\ cur_time' = now
    /\ cc' = FreshCC /\ AnyRate
    /\ largest_ack' = seq_num - 1
    /\ last_send_time' = now
    /\ last_ack_time' = now
    /\ base' = seq_num
    /\ UNCHANGED <<now, seq_num, transmitted, pollEnd, buf, net, dups, errors>>

TimedOutAtEnd ==
    /\ pc = "top" /\ Unfinished(cur_time) /\ Silent /\ ~Unfinished(now)
    /\ pc' = "done" /\ cur_time' = now
    /\ UNCHANGED <<now, sender, rate, pollEnd, buf, cc, net, base, dups, errors>>

StartsTrain == seq_num % train_length = 0

\* Mutant: the window admits a packet too many.
MaySendOneMore ==
    \/ /\ seq_num <= largest_ack + 1 + window
       /\ last_send_time + intersend * train_length <= cur_time
       /\ Unfinished(cur_time)
    \/ ~StartsTrain

\* Mutant: a train waits for the interval of one packet only.
MaySendEarly ==
    \/ /\ seq_num < largest_ack + 1 + window
       /\ last_send_time + intersend <= cur_time
       /\ Unfinished(cur_time)
    \/ ~StartsTrain

\* The condition of the sending loop: window, pacing and flow size only hold
\* back the first packet of a train.
MaySend ==
    \/ /\ seq_num < largest_ack + 1 + window
       /\ last_send_time + intersend * train_length <= cur_time
       /\ Unfinished(cur_time)
    \/ ~StartsTrain

SendPacket ==
    /\ pc = "send" /\ MaySend /\ seq_num < MaxSeq
    /\ buf' = Header(seq_num, cur_time)
    /\ net' = net \cup {buf'}
    /\ last_send_time' = last_send_time + intersend
    /\ IF StartsTrain THEN onPktSent(seq_num \div train_length)
                      ELSE UNCHANGED <<cc, rate>>
    /\ seq_num' = seq_num + 1
    /\ UNCHANGED <<now, pc, cur_time, largest_ack, last_ack_time, transmitted,
                   pollEnd, base, dups, errors>>

\* Mutant: the sender always tries to compensate.
HopelessNever == FALSE

\* "Hopeless.  Stop trying to compensate."
Hopeless ==
    \/ cur_time - last_send_time >= intersend * train_length
    \/ seq_num >= largest_ack + window

\* The poll timeout, from a new reading of the clock; without a window it is
\* a point in time and not a duration.
PollTimeout(last) ==
    IF window > 0
    THEN MinOf(PollCap, last + intersend * train_length - now)
    ELSE last + PollCap

StartPoll ==
    /\ pc = "send" /\ (~MaySend \/ seq_num = MaxSeq)
    /\ last_send_time' = IF Hopeless THEN cur_time ELSE last_send_time
    /\ cur_time' = now
    /\ LET timeout == PollTimeout(last_send_time')
       IN  pollEnd' = IF timeout < 0 THEN Forever ELSE now + timeout
    /\ pc' = "poll"
    /\ UNCHANGED <<now, seq_num, largest_ack, last_ack_time, transmitted, rate,
                   buf, cc, net, base, dups, errors>>

NothingReceived ==
    /\ pc = "poll" /\ pollEnd # Forever /\ now >= pollEnd
    /\ pc' = "top" /\ cur_time' = now
    /\ IF now > last_send_time + cc_timeout THEN AnyRate   \* onTimeout()
                                            ELSE UNCHANGED rate
    /\ UNCHANGED <<now, sender, pollEnd, buf, cc, net, base, dups, errors>>

\* Mutant: whose packet a header names is not looked at.
ProcessAny(h) ==
    /\ pc' = "top"
    /\ cur_time' = now /\ last_ack_time' = now
    /\ transmitted' = transmitted + 1
    /\ IF h.seq % train_length = 0 THEN onACK((h.seq + 1) \div train_length)
                                    ELSE UNCHANGED <<cc, rate>>
    /\ largest_ack' = MaxOf(largest_ack, h.seq + 1)
    /\ base' = MaxOf(base, h.seq + 1)

\* What follows a reception, for the header h that is in the buffer
Process(h) ==
    /\ pc' = "top"
    /\ IF h.own
       THEN LET ack == h.seq + 1
            IN  /\ cur_time' = now /\ last_ack_time' = now
                /\ transmitted' = transmitted + 1
                /\ IF h.seq % train_length = 0 THEN onACK(ack \div train_length)
                                               ELSE UNCHANGED <<cc, rate>>
                /\ largest_ack' = MaxOf(largest_ack, ack)
                /\ base' = MaxOf(base, ack)
       ELSE UNCHANGED <<cur_time, last_ack_time, transmitted, cc, rate, largest_ack, base>>

Receive ==
    /\ pc = "poll"
    /\ \E h \in net :
          /\ h.own => now >= h.sent + Delay
          /\ \/ net' = net \ {h} /\ UNCHANGED dups
             \/ h.own /\ dups < MaxDups /\ dups' = dups + 1 /\ UNCHANGED net
          /\ buf' = h
          /\ Process(h)
    /\ UNCHANGED <<now, seq_num, last_send_time, pollEnd, errors>>

\* receivedata() returns -1, which is not told apart from a datagram: the
\* sender goes on with the header the buffer held before.
ReceiveError ==
    /\ pc = "poll"
    /\ errors < MaxErrors /\ errors' = errors + 1
    /\ Process(buf)
    /\ UNCHANGED <<now, seq_num, last_send_time, pollEnd, buf, net, dups>>

\* Time passes in poll() until it returns, around the loop, and, when the
\* thread is preempted, between the two readings of the clock of a round.
Tick ==
    /\ now < MaxTime /\ now' = now + 1
    /\ \/ pc = "poll" /\ (pollEnd = Forever \/ now < pollEnd)
       \/ pc = "top"
       \/ pc = "send" /\ now - cur_time < Preemption
    /\ UNCHANGED <<pc, cur_time, sender, rate, pollEnd, buf, cc, net, base, dups, errors>>

Sender ==
    \/ Finish \/ Round \/ AckTimedOut \/ TimedOutAtEnd \/ SendPacket \/ StartPoll
    \/ NothingReceived \/ Receive \/ ReceiveError

Next == Sender \/ Tick

Spec == Init /\ [][Next]_vars

\* The sender's thread runs and time passes, also while the thread is busy.
\* Nothing is assumed of the network.
Fairness ==
    /\ WF_vars(Finish \/ Round \/ AckTimedOut \/ TimedOutAtEnd \/ SendPacket \/ StartPoll)
    /\ WF_vars(NothingReceived)
    /\ SF_vars(Tick)

FairSpec == Spec /\ Fairness

------------------------------------------------------------------------------
\* Properties

TypeOK ==
    /\ now \in 0 .. MaxTime /\ cur_time \in 0 .. now
    /\ pc \in {"top", "send", "poll", "done"}
    /\ seq_num \in 0 .. MaxSeq
    /\ largest_ack \in Int
    /\ last_send_time \in Nat /\ last_ack_time \in 0 .. now
    /\ window \in Windows /\ intersend \in Intersends
    /\ pollEnd \in {Forever} \cup Nat
    /\ base \in Nat
    /\ transmitted \in Nat /\ dups \in 0 .. MaxDups /\ errors \in 0 .. MaxErrors

\* "The number of unacknowledged packets may exceed the congestion window by
\* num_packets_per_link_rate_measurement" (ctcp.hh:216), and by no more: those
\* above every packet acked or given up fit into the largest window and one
\* train, whatever is lost, reordered or duplicated, and whenever the window
\* changes.
UnackedBound == seq_num - base <= MaxWindow + train_length

\* What the sender believes acked is what was acked or given up, but for one
\* packet, and was sent: no other flow's echo moves it.
AckedIsReal ==
    /\ base - 1 <= largest_ack /\ largest_ack <= base
    /\ base <= seq_num

\* Pacing: over the whole flow no more packets have left than the smallest
\* pacing interval the controller asks for allows, although packets are sent
\* late and made up for, trains leave at once, and last_send_time is reset.
PacingRespected == seq_num * MinIntersend <= now

\* What counts towards the flow's size, and is still on the way to do so, is what
\* was sent, and once more for every duplicate, and at most once more for every
\* failed reception.  The code counts what it receives, not which packet it was
\* (ctcp.hh:288): a flow of a given size may end short of it by as many packets as
\* there were copies, though never by the echoes of another flow, and every echo
\* of its own counts, however late.
CountsOwnEchoes ==
    transmitted + Cardinality({h \in net : h.own}) - (seq_num + dups) \in 0 .. errors

\* The controller's statistics miss no packet: each one it was told of is
\* acked, lost or still unacknowledged.
NeverUndercounts ==
    cc.sent <= cc.acked + cc.lost + Cardinality(cc.unacked)

\* The controller is called as Engine says, and never otherwise: by a packet of
\* another flow, for one not sent yet, or afresh while acks arrive.  A train
\* counts as announced from its first packet on.  (The ack of a train names the
\* train before it, unless trains are of one packet.)
Announced == seq_num \div train_length + (IF StartsTrain THEN 0 ELSE 1)

Calls == INSTANCE Engine WITH
    LowestAck <- IF train_length = 1 THEN 0 ELSE -1,
    told <- Announced, known <- cc.unacked, acks <- cc.acked, named <- cc.named,
    last <- last_ack_time

ImplementsEngine == Calls!Spec

\* A time-switched flow ends ("Switches on for 10 seconds and exits",
\* README.md:98), even if nothing ever comes back.
Terminates == <>(pc = "done")

------------------------------------------------------------------------------
\* The inductive invariant behind the others

TrainDone == seq_num % train_length     \* packets of the current train sent
TrainFirst == seq_num - TrainDone

\* Every header of this flow names a packet that was sent.
HeadersSent ==
    \A h \in net \cup {buf} : h.own => h.seq \in Nat /\ h.seq < seq_num

\* The window held back the first packet of the train begun.
TrainFits == ~StartsTrain => TrainFirst - base <= MaxWindow

\* The pacing interval held it back for the whole train: the train would be
\* within its rate as a whole already at the last reading of the clock.
TrainPaced ==
    /\ seq_num * MinIntersend <= last_send_time
    /\ seq_num * MinIntersend <= cur_time
    /\ ~StartsTrain => (TrainFirst + train_length) * MinIntersend <= cur_time

CCType == [unacked : SUBSET Nat, sent : Nat, acked : Nat, lost : Nat, named : Int]

\* The packets the controller waits for are of trains that were begun.
TrainsBegun ==
    /\ IsFiniteSet(net) /\ IsFiniteSet(cc.unacked)
    /\ cc \in CCType
    /\ \A n \in cc.unacked : n * train_length < seq_num

IInv ==
    /\ TypeOK /\ HeadersSent /\ AckedIsReal
    /\ TrainFits /\ UnackedBound /\ TrainPaced /\ PacingRespected
    /\ TrainsBegun /\ CountsOwnEchoes /\ NeverUndercounts
=============================================================================

------------------------------- MODULE Sender --------------------------------
(***************************************************************************)
(* The sender of User-space/copaP/sender.cc with one of its two older       *)
(* controllers, RemyCC or DefaultCC, chosen at the start and kept for all   *)
(* flows: what CTCP::send_data() calls them with, over a network that loses,*)
(* duplicates and reorders on either way.                                   *)
(*                                                                          *)
(* A packet is on the way to the receiver (`path') until the receiver       *)
(* stamps and echoes it (`echoes').  One that is never taken out is lost.   *)
(* A failed reception is taken for one of whatever header is in `buf'.      *)
(* train_length is 1, its default.  What pacing, polls and trains add is    *)
(* shown in Ctcp.                                                           *)
(***************************************************************************)
EXTENDS Integers, FiniteSets

CONSTANTS Windows,          \* the windows the whiskers may lead to
          Delay,            \* the least round-trip time
          Timeout,          \* 1000 ms between two readings of the clock
          AckTimeout,       \* 2000 ms without an ack: start afresh
          NumFlows,         \* bound: num_cycles
          MaxSeq,           \* bound on the packets of a flow
          MaxTime,          \* bound on the clock of a flow
          MaxDups,          \* bound: datagrams duplicated
          MaxErrors,        \* bound: receivedata() returning -1
          MaxRatio, MaxInterval     \* 163840 of RTTs and of ms, see RemyCC

ASSUME SenderAssumption ==
    /\ Windows \subseteq Nat
    /\ Delay \in Nat \ {0} /\ Timeout \in Nat /\ AckTimeout \in Nat
    /\ NumFlows \in Nat /\ MaxSeq \in Nat /\ MaxTime \in Nat
    /\ MaxDups \in Nat /\ MaxErrors \in Nat
    /\ MaxRatio \in Nat \ {0} /\ MaxInterval \in Nat \ {0}

VARIABLES cctype,           \* remy or tcp
          flow,             \* flows begun
          now,              \* the clock of this flow, starting after 0
          seq_num, largest_ack, last_ack_time,
          path, echoes,     \* datagrams of this flow
          buf,              \* the header of this flow in the buffer, if any
          acked,            \* history: packets acked at least once
          dups, errors,     \* history: what the bounds count
          misread,          \* history: the controller, since init(), was told of
                            \*   a packet that no echo had come back of
          overtaken,        \* history: an echo of this flow overtook an earlier one
          last_received,    \* history: receiver's timestamp of the last echo
          window,
          unacknowledged_packets, memory, exited,
          m_issthresh, m_bSlowStart, m_iDupACKCount, m_iLastACK, cuts

Remy == INSTANCE RemyCC
Aimd == INSTANCE DefaultCC

ctcp == <<flow, seq_num, largest_ack, last_ack_time>>
net == <<path, echoes, buf, dups, errors>>
history == <<acked, misread, overtaken, last_received>>
remy == <<unacknowledged_packets, memory, exited>>
aimd == <<m_issthresh, m_bSlowStart, m_iDupACKCount, m_iLastACK, cuts>>
vars == <<cctype, now, ctcp, net, history, window, remy, aimd>>

\* A header leaves unstamped.
Packet(s, t) == [seq |-> s, sent |-> t, received |-> 0]
Echo(p, t) == [p EXCEPT !.received = t]

Init ==
    /\ cctype \in {"remy", "tcp"}
    /\ flow = 1 /\ now = 1
    /\ seq_num = 0 /\ largest_ack = -1 /\ last_ack_time = 1
    /\ path = {} /\ echoes = {} /\ buf = {} /\ dups = 0 /\ errors = 0
    /\ acked = {} /\ misread = FALSE /\ overtaken = FALSE /\ last_received = 0
    /\ Remy!Init /\ Aimd!Init

------------------------------------------------------------------------------
\* The controller's callbacks

init ==
    \/ cctype = "remy" /\ Remy!init /\ UNCHANGED aimd
    \/ cctype = "tcp" /\ Aimd!init /\ UNCHANGED remy

onPktSent(n) ==
    \/ cctype = "remy" /\ Remy!onPktSent(n) /\ UNCHANGED aimd
    \/ cctype = "tcp" /\ UNCHANGED <<window, remy, aimd>>

onACK(ack, received) ==
    \/ cctype = "remy" /\ Remy!onACK(ack, received) /\ UNCHANGED aimd
    \/ cctype = "tcp" /\ Aimd!onACK(ack) /\ UNCHANGED remy

------------------------------------------------------------------------------
\* send_data()

\* The next flow starts its clock and its sequence numbers again, with dashes
\* in the buffer; echoes of the earlier one are told apart by their flow_id and
\* dropped.
StartFlow ==
    /\ ~exited
    /\ flow < NumFlows /\ flow' = flow + 1
    /\ now' = 1 /\ last_ack_time' = 1
    /\ seq_num' = 0 /\ largest_ack' = -1
    /\ path' = {} /\ echoes' = {} /\ buf' = {} /\ UNCHANGED <<dups, errors>>
    /\ acked' = {} /\ misread' = FALSE /\ overtaken' = FALSE /\ last_received' = 0
    /\ init
    /\ UNCHANGED cctype

AckTimedOut ==
    /\ ~exited
    /\ now - last_ack_time > AckTimeout
    /\ init
    /\ largest_ack' = seq_num - 1 /\ last_ack_time' = now
    /\ misread' = FALSE
    /\ UNCHANGED <<cctype, now, flow, seq_num, net, acked, overtaken, last_received>>

SendPacket ==
    /\ ~exited
    /\ seq_num < MaxSeq /\ seq_num < largest_ack + 1 + window
    /\ buf' = {Packet(seq_num, now)} /\ path' = path \cup buf'
    /\ onPktSent(seq_num)
    /\ seq_num' = seq_num + 1
    /\ UNCHANGED <<cctype, now, flow, largest_ack, last_ack_time, echoes, dups, errors, history>>

\* What is left of the datagrams s when x is delivered, perhaps not for the
\* last time
Delivered(s, x, rest) ==
    \/ rest = s \ {x} /\ UNCHANGED dups
    \/ rest = s /\ dups < MaxDups /\ dups' = dups + 1

\* The receiver stamps a packet by its clock and sends it back.
EchoPacket ==
    /\ ~exited
    /\ \E p \in path :
          /\ Delivered(path, p, path')
          /\ echoes' = echoes \cup {Echo(p, now)}
    /\ UNCHANGED <<cctype, now, ctcp, buf, errors, history, window, remy, aimd>>

\* What follows a reception, for the header h that is in the buffer
Process(h) ==
    /\ last_ack_time' = now
    /\ onACK(h.seq + 1, h.received)
    /\ largest_ack' = Remy!MaxOf(largest_ack, h.seq + 1)
    /\ acked' = acked \cup {h.seq}
    /\ UNCHANGED <<cctype, now, flow, seq_num, path>>

Receive ==
    /\ ~exited
    /\ \E e \in echoes :
          /\ now >= e.sent + Delay
          /\ Delivered(echoes, e, echoes')
          /\ buf' = {e}
          /\ Process(e)
          /\ overtaken' = (overtaken \/ e.received < last_received)
          /\ last_received' = Remy!MaxOf(last_received, e.received)
    /\ UNCHANGED <<errors, misread>>

\* receivedata() returns -1, which is not told apart from a datagram: the
\* header that was sent or received last is taken for an echo.  Of dashes, or of
\* an echo of another flow, nothing comes.
ReceiveError ==
    /\ ~exited
    /\ errors < MaxErrors /\ errors' = errors + 1
    /\ \E h \in buf :
          /\ Process(h)
          /\ misread' = (misread \/ h.seq \notin acked)
    /\ UNCHANGED <<echoes, buf, dups, overtaken, last_received>>

Tick ==
    /\ ~exited
    /\ now < MaxTime /\ now' = now + 1
    /\ UNCHANGED <<cctype, ctcp, net, history, window, remy, aimd>>

\* DefaultCC asks for no pacing, so that every round takes its own beginning
\* for the last send time and polls without waiting.  It calls onTimeout() if
\* the thread stood still for as long in between.
TimedOut ==
    /\ cctype = "tcp"
    /\ now' \in (now + Timeout + 1) .. MaxTime
    /\ Aimd!onTimeout
    /\ UNCHANGED <<cctype, ctcp, net, history, remy>>

Next == StartFlow \/ AckTimedOut \/ TimedOut \/ SendPacket \/ EchoPacket \/ Receive
        \/ ReceiveError \/ Tick

Spec == Init /\ [][Next]_vars

------------------------------------------------------------------------------
\* Properties

Memory == [last_tick_sent : Nat, last_receiver_timestamp : Nat, last_seq : Nat,
           min_rtt : Int, largest_ack : Nat]

Header == [seq : Nat, sent : Nat \ {0}, received : Nat]

NetTypes ==
    /\ cctype \in {"remy", "tcp"}
    /\ flow \in Nat /\ now \in Nat \ {0}
    /\ seq_num \in Nat /\ largest_ack \in Int /\ last_ack_time \in Nat
    /\ path \cup echoes \cup buf \subseteq Header
    /\ acked \subseteq Nat /\ dups \in Nat /\ errors \in Nat
    /\ misread \in BOOLEAN /\ overtaken \in BOOLEAN /\ last_received \in Nat

RemyTypes ==
    /\ DOMAIN unacknowledged_packets \subseteq Nat
    /\ memory \in Memory
    /\ exited \in BOOLEAN

AimdTypes ==
    /\ m_issthresh \in Nat /\ m_bSlowStart \in BOOLEAN
    /\ m_iDupACKCount \in Nat /\ m_iLastACK \in Nat /\ cuts \in Nat

TypeOK == NetTypes /\ window \in Nat /\ RemyTypes /\ AimdTypes

\* RemyCC takes each RTT from the packet that was acked: the first ack of a
\* packet finds when that packet left in this flow, although the records of
\* lost packets of earlier flows with the same number are never erased, an
\* ack timeout starts the controller afresh in between, and a failed reception
\* may have the packet just sent taken for acked.
KnowsItsPackets ==
    cctype = "remy" =>
        \A p \in path \cup echoes \cup buf :
            p.seq \notin acked =>
                /\ p.seq \in DOMAIN unacknowledged_packets
                /\ unacknowledged_packets[p.seq] = p.sent

\* The minimum RTT of RemyCC, which its rtt_ratio is relative to, is one the
\* network allows, unless a failed reception since its init() had it take the
\* packet just sent for acked.  (A failed reception after an echo, or after the
\* ack of the packet that was sent last, does not.)
MinRttIsPossible == memory.last_tick_sent # 0 /\ ~misread => memory.min_rtt >= Delay

\* RemyCC never runs out of whiskers in a flow shorter than the longest RTTs and
\* intervals they cover unless echoes of it overtook each other on their way
\* back, or a failed reception had the packet just sent, with no receiver's
\* timestamp, taken for acked: losses, duplicates, packets out of order on their
\* way to the receiver, and failed receptions after an echo never make an average
\* negative.
ExitHasCause ==
    exited => \/ overtaken \/ misread
              \/ now > MaxRatio * memory.min_rtt \/ now > MaxInterval

\* DefaultCC's window never falls below the two packets init() starts with,
\* although a count of duplicates left from before init() makes the next ack
\* set the window to a threshold of 1.
WindowAtLeastTwo == cctype = "tcp" => window >= 2

\* Every packet has an ack of its own, so that DefaultCC halves its window for
\* no loss: each halving takes two more acks with the number of the last, and
\* each of these a duplicate, a failed reception or the start of a new flow.
HalvesForRepeats == 2 * cuts <= dups + errors + flow - 1

------------------------------------------------------------------------------
\* The inductive invariant behind the others

datagrams == path \cup echoes
headers == datagrams \cup buf

SentBefore == \A p \in headers : p.seq < seq_num /\ p.sent <= now /\ p.received <= now

\* Packets leave in the order of their numbers.
SentInOrder == \A p, q \in headers : p.seq < q.seq => p.sent <= q.sent

\* The receiver stamps what it echoes; the rest has no timestamp.
Stamped ==
    /\ \A e \in echoes : e.received > 0
    /\ \A h \in buf : h.received > 0 => h.seq \in acked
    /\ \A h \in buf : h.received <= last_received

\* An acked packet is no longer known, so that a second echo changes nothing.
AckedForgotten ==
    /\ \A s \in acked : s < seq_num
    /\ cctype = "remy" => \A s \in acked : s \notin DOMAIN unacknowledged_packets

\* The last sample is of this flow, not after the packets that may follow it.
SampleOfThisFlow ==
    memory.last_tick_sent # 0 =>
        /\ memory.last_seq <= memory.largest_ack
        /\ memory.last_tick_sent <= now
        /\ memory.last_receiver_timestamp <= last_received
        /\ ~misread => memory.last_receiver_timestamp > 0
        /\ \A p \in headers :
              p.seq > memory.last_seq => p.sent >= memory.last_tick_sent

OnlyOneController == cctype = "tcp" => ~exited /\ memory.last_tick_sent = 0

\* A threshold of 1 is left behind by the first ack after init().
ThresholdOfOne ==
    cctype = "tcp" =>
        /\ m_issthresh >= 1
        /\ m_issthresh = 1 /\ m_iDupACKCount >= 3 => m_bSlowStart

\* A packet is on its way, or echoed, or acked, and may be more than one of
\* these only as often as a datagram was duplicated or a reception failed.
Everywhere ==
    /\ IsFiniteSet(path) /\ IsFiniteSet(echoes) /\ IsFiniteSet(acked)
    /\ \A s \in 0 .. seq_num - 1 : s \in acked \/ \E p \in datagrams : p.seq = s

Copies == Cardinality(path) + Cardinality(echoes) + Cardinality(acked) - seq_num

\* The acks that repeated a number on the way to a cut, and in those behind us
Repeats == 2 * cuts + (IF m_iDupACKCount = 2 THEN 1 ELSE 0)

\* The first ack of a later flow may repeat a number without either.
FirstOfLaterFlow == IF flow > 1 /\ acked = {} THEN 1 ELSE 0

RepeatsCounted ==
    /\ flow >= 1 /\ Repeats + Copies + FirstOfLaterFlow <= dups + errors + flow - 1
    /\ cctype = "tcp" => IF acked = {} THEN flow = 1 => m_iLastACK = 0
                         ELSE m_iLastACK - 1 \in acked

CopiesOK == Everywhere /\ RepeatsCounted

ControllersOK ==
    /\ TypeOK /\ SentBefore /\ SentInOrder /\ Stamped /\ AckedForgotten /\ KnowsItsPackets
    /\ SampleOfThisFlow /\ OnlyOneController /\ MinRttIsPossible
    /\ ExitHasCause /\ ThresholdOfOne /\ WindowAtLeastTwo

IInv == ControllersOK /\ CopiesOK
=============================================================================

------------------------------ MODULE Handshake ------------------------------
(***************************************************************************)
(* CTCP::tcp_handshake() (User-space/copaP/ctcp.hh), which every flow runs  *)
(* before its first data packet, with the cycle of flows TrafficGenerator   *)
(* drives over ONE socket, the receiver that echoes, and a network between  *)
(* them that delays, reorders, loses and duplicates datagrams.  Its product *)
(* is external_min_rtt, which the controller keeps for the whole run and    *)
(* only ever lowers.                                                        *)
(*                                                                          *)
(* Time is counted in ticks (100 ms, say); the clock itself is not a        *)
(* variable, only the ages of the last probe and of the datagrams, which    *)
(* stop growing at MaxAge.  Going around the loop takes the sender no time:  *)
(* the clock and the network move only while it waits.                      *)
(***************************************************************************)
EXTENDS Integers

CONSTANTS Resend,       \* 200 ms: a probe older than this is sent again
          PollTime,     \* 200 ms: the timeout given to receivedata()
          BaseRtt,      \* propagation time of the path and back
          Duplicates,   \* whether the network may duplicate
          NumCycles,    \* flows the traffic generator runs (num_cycles, at least 1)
          MaxErrors,    \* bound: receivedata() returning -1
          MaxAge        \* bound: where ages saturate

ASSUME HandshakeAssumption ==
    /\ Resend \in Nat /\ PollTime \in Nat \ {0} /\ BaseRtt \in Nat
    /\ Duplicates \in BOOLEAN
    /\ NumCycles \in Nat \ {0} /\ MaxErrors \in Nat
    /\ MaxAge \in Nat /\ MaxAge >= BaseRtt /\ MaxAge > Resend + PollTime

Never == -1             \* last_send_time = -1e9: no probe sent in this handshake
NoRtt == MaxAge + 1     \* external_min_rtt = 0 in the code: not set

VARIABLES pc,           \* off (between flows), loop, poll, data, exit
          flow,         \* the number of flows started
          probeAge,     \* time since last_send_time, or Never
          multi_send,   \* more than one probe sent in this handshake
          pollLeft,     \* what is left of the poll timeout
          bufIsProbe,   \* buf still holds the probe, not a received datagram
          external_min_rtt,
          net,          \* datagrams in flight or in the socket's buffer
          resent,       \* history: some handshake sent a second probe
          errors        \* history: number of failed receptions

vars == <<pc, flow, probeAge, multi_send, pollLeft, bufIsProbe,
          external_min_rtt, net, resent, errors>>

\* A datagram and the time since the packet it belongs to was sent: a probe,
\* its echo, or the echo of a data packet of an earlier flow.
Datagram == [kind : {"probe", "reply", "ack"}, age : 0 .. MaxAge]

Older(a) == IF a < MaxAge THEN a + 1 ELSE MaxAge

Init ==
    /\ pc = "off" /\ flow = 0
    /\ probeAge = Never /\ multi_send = FALSE
    /\ pollLeft = 0 /\ bufIsProbe = FALSE
    /\ external_min_rtt = NoRtt
    /\ net = {}
    /\ resent = FALSE /\ errors = 0

------------------------------------------------------------------------------
\* The sender

\* Mutant: last_send_time outlives the handshake.
StartFlowKeepingTime ==
    /\ pc = "off"
    /\ flow' = flow + 1 /\ pc' = "loop" /\ multi_send' = FALSE
    /\ UNCHANGED <<probeAge, pollLeft, bufIsProbe, external_min_rtt, net, resent, errors>>

\* TrafficGenerator wakes up and calls send_data(), which calls tcp_handshake()
StartFlow ==
    /\ pc = "off"
    /\ flow' = flow + 1
    /\ pc' = "loop"
    /\ probeAge' = Never /\ multi_send' = FALSE
    /\ UNCHANGED <<pollLeft, bufIsProbe, external_min_rtt, net, resent, errors>>

Poll == pc' = "poll" /\ pollLeft' = PollTime

\* Mutant: multi_send is never set.
SendProbeUnmarked ==
    /\ pc = "loop"
    /\ probeAge = Never \/ probeAge >= Resend
    /\ net' = net \cup {[kind |-> "probe", age |-> 0]}
    /\ resent' = (resent \/ probeAge # Never)
    /\ probeAge' = 0 /\ bufIsProbe' = TRUE
    /\ Poll
    /\ UNCHANGED <<flow, multi_send, external_min_rtt, errors>>

\* last_send_time < cur_time - 200, up to what a whole number of ticks can tell
SendProbe ==
    /\ pc = "loop"
    /\ probeAge = Never \/ probeAge >= Resend
    /\ net' = net \cup {[kind |-> "probe", age |-> 0]}
    /\ multi_send' = (multi_send \/ probeAge # Never)
    /\ resent' = (resent \/ probeAge # Never)
    /\ probeAge' = 0
    /\ bufIsProbe' = TRUE
    /\ Poll
    /\ UNCHANGED <<flow, external_min_rtt, errors>>

\* Mutant: a probe is not sent again, however old.
SkipProbeAlways ==
    /\ pc = "loop" /\ probeAge # Never
    /\ Poll
    /\ UNCHANGED <<flow, probeAge, multi_send, bufIsProbe, external_min_rtt,
                   net, resent, errors>>

SkipProbe ==
    /\ pc = "loop"
    /\ probeAge # Never /\ probeAge <= Resend
    /\ Poll
    /\ UNCHANGED <<flow, probeAge, multi_send, bufIsProbe, external_min_rtt,
                   net, resent, errors>>

PollTimeout ==
    /\ pc = "poll" /\ pollLeft = 0
    /\ pc' = "loop"
    /\ UNCHANGED <<flow, probeAge, multi_send, pollLeft, bufIsProbe,
                   external_min_rtt, net, resent, errors>>

\* "Set min_rtt only if we are sure we have the right rtt": set_min_rtt()
\* keeps the least of the values it is given.
SetMinRtt ==
    external_min_rtt' =
        IF ~multi_send /\ probeAge < external_min_rtt
        THEN probeAge ELSE external_min_rtt

Establish == pc' = "data" /\ SetMinRtt

\* What the sender can receive: no echo is back before BaseRtt has passed.
Arrived(m) == m.kind # "probe" /\ (m.kind = "reply" => m.age >= BaseRtt)

\* The network hands m over, and may keep a duplicate
Delivered(m) == net' = net \ {m} \/ (Duplicates /\ UNCHANGED net)

\* Mutant: an echo is only accepted when it is sure which probe it answers.
ReceiveReplyIfSure ==
    /\ pc = "poll" /\ ~multi_send
    /\ \E m \in net : m.kind = "reply" /\ Arrived(m) /\ Delivered(m)
    /\ Establish
    /\ bufIsProbe' = FALSE
    /\ UNCHANGED <<flow, probeAge, multi_send, pollLeft, resent, errors>>

\* The four fields of a reply are all -1: it is accepted whichever probe of
\* whichever handshake it echoes.
ReceiveReply ==
    /\ pc = "poll"
    /\ \E m \in net : m.kind = "reply" /\ Arrived(m) /\ Delivered(m)
    /\ Establish
    /\ bufIsProbe' = FALSE
    /\ UNCHANGED <<flow, probeAge, multi_send, pollLeft, resent, errors>>

\* Anything else received is overlooked, but it has replaced the probe in buf.
ReceiveOther ==
    /\ pc = "poll"
    /\ \E m \in net : m.kind = "ack" /\ Delivered(m)
    /\ pc' = "loop"
    /\ bufIsProbe' = FALSE
    /\ UNCHANGED <<flow, probeAge, multi_send, pollLeft, external_min_rtt,
                   resent, errors>>

\* receivedata() returns -1: only 0 is tested for, so the sender examines what
\* buf held before the call.
ReceiveError ==
    /\ pc = "poll"
    /\ errors < MaxErrors /\ errors' = errors + 1
    /\ \/ bufIsProbe /\ Establish
       \/ ~bufIsProbe /\ pc' = "loop" /\ UNCHANGED external_min_rtt
    /\ UNCHANGED <<flow, probeAge, multi_send, pollLeft, bufIsProbe, net, resent>>

\* While the flow's data phase lasts the sender takes what arrives and
\* overlooks what is not its own.
DataReceive ==
    /\ pc = "data"
    /\ \E m \in net : Arrived(m) /\ Delivered(m)
    /\ UNCHANGED <<pc, flow, probeAge, multi_send, pollLeft, bufIsProbe,
                   external_min_rtt, resent, errors>>

\* send_data() returns, with or without acks still on the way.
EndFlow ==
    /\ pc = "data"
    /\ pc' = IF flow >= NumCycles THEN "exit" ELSE "off"
    /\ net' = net \/ net' = net \cup {[kind |-> "ack", age |-> 0]}
    /\ UNCHANGED <<flow, probeAge, multi_send, pollLeft, bufIsProbe,
                   external_min_rtt, resent, errors>>

------------------------------------------------------------------------------
\* The receiver and the network

\* echo_packets(): the header goes back as it came, but for receiver_timestamp
Echo ==
    /\ pc # "loop"
    /\ \E m \in net :
          /\ m.kind = "probe"
          /\ LET reply == {[m EXCEPT !.kind = "reply"]}
             IN  \/ net' = (net \ {m}) \cup reply
                 \/ Duplicates /\ net' = net \cup reply
    /\ UNCHANGED <<pc, flow, probeAge, multi_send, pollLeft, bufIsProbe,
                   external_min_rtt, resent, errors>>

\* A lost datagram is taken out of the network when it would have arrived.
Lose ==
    /\ pc # "loop"
    /\ \E m \in net : (m.kind = "probe" \/ Arrived(m)) /\ net' = net \ {m}
    /\ UNCHANGED <<pc, flow, probeAge, multi_send, pollLeft, bufIsProbe,
                   external_min_rtt, resent, errors>>

Tick ==
    /\ pc # "loop"
    /\ pc = "poll" => pollLeft > 0
    /\ pollLeft' = IF pc = "poll" THEN pollLeft - 1 ELSE pollLeft
    /\ probeAge' = IF probeAge = Never THEN Never ELSE Older(probeAge)
    /\ net' = {[m EXCEPT !.age = Older(m.age)] : m \in net}
    /\ UNCHANGED <<pc, flow, multi_send, bufIsProbe, external_min_rtt, resent,
                   errors>>

Sender == \/ StartFlow \/ SendProbe \/ SkipProbe \/ PollTimeout
          \/ ReceiveReply \/ ReceiveOther \/ ReceiveError
          \/ DataReceive \/ EndFlow

Next == Sender \/ Echo \/ Lose \/ Tick

Spec == Init /\ [][Next]_vars

\* The sender's thread runs, time passes, and the network loses datagrams but
\* not every one of those that keep being sent.
Fairness ==
    /\ WF_vars(SendProbe \/ SkipProbe)
    /\ WF_vars(PollTimeout)
    /\ WF_vars(Tick)
    /\ SF_vars(Echo)
    /\ SF_vars(ReceiveReply)

FairSpec == Spec /\ Fairness

------------------------------------------------------------------------------
\* Properties

NetTypeOK == net \subseteq Datagram

FlagsTypeOK ==
    multi_send \in BOOLEAN /\ resent \in BOOLEAN /\ bufIsProbe \in BOOLEAN

TypeOK ==
    /\ pc \in {"off", "loop", "poll", "data", "exit"}
    /\ flow \in 0 .. NumCycles
    /\ probeAge \in {Never} \cup 0 .. MaxAge
    /\ FlagsTypeOK
    /\ pollLeft \in 0 .. PollTime
    /\ external_min_rtt \in 0 .. NoRtt
    /\ NetTypeOK
    /\ errors \in 0 .. MaxErrors

\* "Set min_rtt only if we are sure we have the right rtt" (ctcp.hh:151): the
\* controller never learns a minimum RTT below the propagation time.  It
\* would keep it for good, and take the difference for queueing delay.
MinRttIsPossible == external_min_rtt >= BaseRtt

\* Nothing has happened yet that can leave the sender with a wrong echo: a
\* failed reception, or an echo of an earlier flow's probe still around
\* because two were sent or the network made two of one.
NothingStale == errors = 0 /\ (flow <= 1 \/ (~resent /\ ~Duplicates))

\* multi_send suffices to keep ambiguous echoes out, for the first flow
\* whatever the network does, and for the later ones while nothing is stale.
OnlyStaleMisleads == NothingStale => MinRttIsPossible

\* A lost probe or echo is made good: while the handshake lasts no probe is
\* older than the resend time and one poll, whatever else arrives meanwhile.
ProbeRefreshed ==
    pc \in {"loop", "poll"} => probeAge <= Resend + PollTime

\* Every handshake ends, however many probes, echoes and stray acks are lost,
\* duplicated or reordered on the way.
HandshakeCompletes == pc = "loop" ~> pc = "data"

------------------------------------------------------------------------------
\* The inductive invariant behind OnlyStaleMisleads and ProbeRefreshed

InHandshake == pc \in {"loop", "poll"}

Answers(m) == m.kind # "ack"

\* While one probe only has been sent, no datagram of a handshake is older.
NoneOlder ==
    NothingStale /\ InHandshake /\ ~multi_send
        => \A m \in net : Answers(m) => probeAge # Never /\ m.age <= probeAge

\* Without a second probe or a duplicate at most one such datagram exists, and
\* none outside a handshake.
OneAnswer ==
    errors = 0 /\ ~resent /\ ~Duplicates
        => \A m \in net : Answers(m) =>
              /\ InHandshake /\ probeAge # Never
              /\ \A n \in net : Answers(n) => n = m

FirstFlow ==
    /\ flow = 0 => net = {} /\ pc = "off"
    /\ flow <= 1 /\ pc = "loop" /\ probeAge = Never => net = {}

Timers ==
    /\ multi_send => resent
    /\ pc = "off" => flow < NumCycles
    /\ pc = "loop" => probeAge <= Resend + PollTime
    /\ pc = "poll" => probeAge # Never /\ probeAge + pollLeft <= Resend + PollTime

IInv ==
    /\ TypeOK /\ Timers /\ FirstFlow /\ OneAnswer /\ NoneOlder
    /\ OnlyStaleMisleads
=============================================================================

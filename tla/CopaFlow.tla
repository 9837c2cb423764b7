------------------------------- MODULE CopaFlow -------------------------------
(***************************************************************************)
(* MarkovianCC with the RTTWindow it owns: onACK() first adds a sample and  *)
(* then acts on what the windows report, init() clears both.  Markovian     *)
(* alone takes any readings that are measured RTTs in the right order;      *)
(* here they are those of RttWindow, and the flow is shown to implement     *)
(* Markovian.                                                               *)
(***************************************************************************)
EXTENDS Integers, Sequences, FiniteSets

CONSTANTS utility_mode, do_slow_start, ConfigInv, DefaultInv, InvUnit, Unit,
          num_probe_pkts, external_min_rtt, Rtt, MinRtt, MinPkts, AckTimeout,
          MaxTime, MaxSent, MaxWindow,                          \* of Markovian
          MinHistory, HistFactor, SrttGain, DblMax, DblMin,     \* of RttWindow
          MaxSamples

VARIABLES now, last_ack_time, next_seq, unacked, window, slow_start, delta,
          velocity, cur_intersend, intersend, num_acked, num_lost, num_sent,
          rol, aborted, streak, cuts,                           \* of Markovian
          hist, vals, extreme, srtt, latest_rtt, if_compete, live,
          sample_time       \* when the last sample was taken, 0 if none

rtt_window == <<hist, vals, extreme, srtt, latest_rtt, if_compete, live, sample_time>>

M == INSTANCE Markovian

\* Samples are taken at most as far apart as the clock runs.
W == INSTANCE RttWindow WITH now <- sample_time, Gap <- 0 .. MaxTime

vars == <<M!vars, rtt_window>>

ASSUME CopaFlowAssumption == M!MarkovianAssumption /\ W!RttWindowAssumption

Init == M!Init /\ W!Init

init == M!init /\ W!clear

onPktSent == M!onPktSent /\ UNCHANGED rtt_window

\* Mutant: the controller acts on the readings before the sample.
AckBeforeSample ==
    /\ ~aborted /\ last_ack_time < now
    /\ \E n \in 0 .. next_seq - 1 : \E latest \in M!Latest(n) :
          /\ M!AckReading(n, latest, W!get_unjittered_rtt, W!get_min_rtt, W!is_copa)
          /\ W!new_rtt_sample(latest, now - sample_time)

Ack ==
    /\ ~aborted /\ last_ack_time < now
    /\ \E n \in 0 .. next_seq - 1 : \E latest \in M!Latest(n) :
          /\ W!new_rtt_sample(latest, now - sample_time)
          /\ M!AckReading(n, latest, W!get_unjittered_rtt', W!get_min_rtt', W!is_copa')

Tick == M!Tick /\ UNCHANGED rtt_window

Next == init \/ onPktSent \/ Ack \/ Tick

Spec == Init /\ [][Next]_vars
------------------------------------------------------------------------------
\* Properties

\* Every reading the controller acts on is one that Markovian allows: what is
\* shown of Markovian holds of the flow, and MarkovianCC's assertion
\* get_unjittered_rtt() >= min_rtt never fails.
ImplementsMarkovian == M!Spec

\* After probing the packets are paced by an RTT that was measured no longer
\* than half a smoothed RTT before the last ack, unless by that ack itself,
\* although the pacing interval is kept from ack to ack and onPktSent() uses it.
PacedByFreshRtt ==
    ~aborted /\ num_acked >= 2 * num_probe_pkts =>
        \E i \in 1 .. Len(hist) :
            /\ hist[i].val = cur_intersend.rtt
            /\ i = Len(hist) \/ hist[i].time >= last_ack_time - srtt \div 2

\* The mode that delta was updated in is the verdict of is_copa() on the
\* samples up to the last ack; init() forgets both at once.
ModeFollowsQueue ==
    utility_mode = "AUTO_MODE" /\ ~aborted =>
        (delta.mode = "DEFAULT_MODE" <=> num_acked = 0 \/ W!is_copa)

------------------------------------------------------------------------------
\* The inductive invariant behind the others, besides those of the two parts

OneClock ==
    /\ now \in 0 .. MaxTime /\ sample_time \in 0 .. now
    /\ hist # <<>> => sample_time = last_ack_time

PacedByStanding ==
    ~aborted /\ num_acked >= 2 * num_probe_pkts =>
        hist # <<>> /\ cur_intersend.rtt = W!get_unjittered_rtt

IInv == OneClock /\ PacedByStanding /\ ModeFollowsQueue
=============================================================================

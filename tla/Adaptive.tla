------------------------------- MODULE Adaptive -------------------------------
(***************************************************************************)
(* AdaptiveCC (User-space/copaP/ADC.{hh,cc}), the controller that is       *)
(* Copa+: the default mode, which follows a target window and looks once   *)
(* per probe cycle whether other flows compete; the competitive mode,      *)
(* which always increases the window and cuts it after a loss; and how one *)
(* becomes the other.  The controller outlives its flows: a flow's clock   *)
(* starts at 0 again, but init() does not reset all that is timed by it.   *)
(*                                                                         *)
(* Times are ticks.  Windows and the smoothed interval of losses are       *)
(* rounded down to whole packets and ticks.  Data the mode does not depend *)
(* on is abstracted: FFT() and the comparison with the target window may   *)
(* turn out either way, an ack may or may not reveal a loss (Markovian     *)
(* models how), the amount of a step of the window (velocity, theta,       *)
(* alpha, delta) and the receive rate that an entry jumps to are any.      *)
(* Slow start is the one of "do_ss:".                                      *)
(***************************************************************************)
EXTENDS Integers

CONSTANTS UtilityModes,     \* configurations: AUTO_MODE, CONSTANT_DELTA, OTHER_MODE
          num_probe_pkts,   \* 10: the window while probing
          init_min_rtt,     \* min_rtt set by init(): external or very large
          Rtt,              \* RTT samples that can be measured
          MinRtt,           \* none of them, nor init_min_rtt, is less
          FirstCycle,       \* 1000 ms: a probe cycle of a new flow, at least
          CycleRtts,        \* 20: a probe cycle in RTTs
          Steps,            \* amounts by which an ack may move the window
          Jumps,            \* windows that the receive rate times the largest RTT
                            \*   may suggest on entering the competitive mode
          NumFlows,         \* bound on the flows
          MaxTime,          \* bound on a flow's clock
          MaxWindow         \* bound on the window

ASSUME AdaptiveAssumption ==
    /\ UtilityModes \subseteq {"AUTO_MODE", "CONSTANT_DELTA", "OTHER_MODE"}
    /\ num_probe_pkts \in Nat /\ num_probe_pkts >= 2
    /\ Rtt \subseteq Nat /\ MinRtt \in Nat \ {0} /\ \A r \in Rtt : r >= MinRtt
    /\ init_min_rtt \in Nat /\ init_min_rtt >= MinRtt
    /\ FirstCycle \in Nat /\ CycleRtts \in Nat
    /\ Steps \subseteq Nat /\ Jumps \subseteq Nat
    /\ NumFlows \in Nat /\ MaxTime \in Nat /\ MaxWindow \in Nat

VARIABLES utility_mode,     \* read once from the configuration
          flow, now,        \* the flow and its clock (cur_tick)
          min_rtt,          \* also global_rtt_min, which is the same after an ack
          default_delta,    \* whether delta is the default one
          window,           \* _the_window
          paced,            \* the window cur_intersend_time was computed from,
                            \*   0 for no pacing interval
          slow_start,
          num_acked,        \* num_pkts_acked, up to the end of probing
          probe,            \* the probe cycle: probe_cycle_start, cycle, and in
                            \*   which modes the samples in its arrays were taken
                            \*   (in none: P_cnt = 0)
          mode,             \* compete_mode, pkt_loss_time,
                            \*   smooth_pkt_loss_interval, last_max_cwnd, and
                            \*   whether RTTs were added up (RTTcount > 0)
          divided,          \* history: something was divided by zero
          dwell,            \* history: time since the mode last changed, up to
                            \*   Settled
          cuts              \* history: cuts of the window in this flow

config == <<utility_mode, flow>>
vars == <<config, now, min_rtt, default_delta, window, paced, slow_start,
          num_acked, probe, mode, divided, dwell, cuts>>

MaxOf(a, b) == IF a >= b THEN a ELSE b
MinOf(a, b) == IF a <= b THEN a ELSE b

\* The mode can change again; more time makes no difference.
Settled == MaxOf(CycleRtts, 3) * MinRtt + 1

\* The first two RTTs only probe.
ProbeAcks == 2 * num_probe_pkts - 1

FreshProbe == [start |-> 0, length |-> FirstCycle, taken |-> {}]

NeverCompeted ==
    [on |-> FALSE, loss_time |-> 0, smooth |-> 0, last_max |-> 0, rtts |-> FALSE]

Init ==
    /\ utility_mode \in UtilityModes
    /\ flow = 1 /\ now = 0
    /\ min_rtt = init_min_rtt
    /\ default_delta = (utility_mode # "CONSTANT_DELTA")
    /\ window = num_probe_pkts /\ paced = 0 /\ slow_start = TRUE
    /\ num_acked = 0
    /\ probe = FreshProbe /\ mode = NeverCompeted
    /\ divided = FALSE /\ dwell = 0 /\ cuts = 0

\* init(): the mode and all that belongs to it stay.
init ==
    /\ min_rtt' = init_min_rtt
    /\ default_delta' = (default_delta \/ utility_mode # "CONSTANT_DELTA")
    /\ window' = num_probe_pkts /\ paced' = 0 /\ slow_start' = TRUE
    /\ num_acked' = 0
    /\ probe' = FreshProbe
    /\ UNCHANGED <<utility_mode, mode, divided, dwell>>

\* A flow ends, and later another one begins with a clock of its own.
StartFlow ==
    /\ flow < NumFlows
    /\ flow' = flow + 1 /\ now' = 0 /\ cuts' = 0
    /\ init

\* CTCP starts afresh after a silence.
AckTimeout ==
    /\ init
    /\ UNCHANGED <<flow, now, cuts>>

------------------------------------------------------------------------------
\* onACK(), in the order of its parts

\* The least RTT since init().  With the default delta it is the least of the
\* window, which the first ack sets to its own RTT, whatever init() set.
MinRttAfter(latest) ==
    IF default_delta /\ num_acked = 0 THEN latest ELSE MinOf(min_rtt, latest)

\* The first ack begins the first probe cycle, in seconds or RTTs.
Begun(p, min) ==
    [start |-> IF p.start = 0 THEN now ELSE p.start,
     length |-> IF p.length = FirstCycle THEN MaxOf(FirstCycle, CycleRtts * min) ELSE p.length,
     taken |-> p.taken]

\* Mutant: no loss need have been seen.
LeavesUnhurt(m) ==
    m.on /\ m.loss_time > 0 /\ now - m.loss_time > 2 * m.smooth /\ window > m.last_max

\* The competition has gone: no loss for twice the usual interval (which is
\* what smooth / 2 + (now - loss_time) / 2 > 1.5 * smooth says), although the
\* window is larger than at the last.
Leaves(m) ==
    /\ m.on /\ m.loss_time > 0 /\ m.smooth > 0
    /\ now - m.loss_time > 2 * m.smooth
    /\ window > m.last_max

LeftMode(m) == [m EXCEPT !.on = FALSE, !.loss_time = 0, !.smooth = 0]

\* Mutant: the arrays are not cleared.
LeftProbeUncleared(p, min) == [p EXCEPT !.start = now, !.length = CycleRtts * min]

LeftProbe(p, min) == [start |-> now, length |-> CycleRtts * min, taken |-> {}]

Sampled(p, m) == IF p.start < now THEN [p EXCEPT !.taken = @ \cup {m.on}] ELSE p

CycleOver(p) == p.start + p.length < now

\* Mutant: pkt_loss_time is not set.
EnteredUntimed(m, w) ==
    [m EXCEPT !.on = TRUE, !.last_max = IF utility_mode = "AUTO_MODE" THEN w ELSE @]

\* FFT() has found competition; w is the window after the jump.
Entered(m, w) ==
    [m EXCEPT !.on = TRUE, !.loss_time = now,
              !.last_max = IF utility_mode = "AUTO_MODE" THEN w ELSE @]

\* update_intersend_time(): what the window w and slow start may become.  Slow
\* start ends when the window reaches the target; without a queue there is none.
Moves(w, on, queue) ==
    IF slow_start
    THEN {[window |-> w + 1, slow_start |-> ss] : ss \in {TRUE, ~queue}}
    ELSE {[window |-> v, slow_start |-> FALSE] :
            v \in {w + s : s \in Steps}
                 \cup IF queue /\ ~on THEN {MaxOf(2, w - s) : s \in Steps} ELSE {}}

\* Mutant: every loss is reacted to.
HeedsAlways(m, lost, rtt) == m.on /\ lost

\* A loss is reacted to no sooner than a standing RTT after the last.
Heeds(m, lost, rtt) == m.on /\ lost /\ now - m.loss_time > rtt

\* Mutant: the time of the loss is not kept.
CutUntimed(m, w) ==
    [m EXCEPT !.smooth = IF @ = 0 THEN now - m.loss_time
                         ELSE (@ + (now - m.loss_time)) \div 2,
              !.last_max = w, !.rtts = FALSE]

CutMode(m, w) ==
    [m EXCEPT !.smooth = IF @ = 0 THEN now - m.loss_time
                         ELSE (@ + (now - m.loss_time)) \div 2,
              !.loss_time = now, !.last_max = w, !.rtts = FALSE]

CutWindow(w) == MaxOf(2, (17 * w) \div 20)

\* Mutant: the cut is paced like the window before it.
PacedBeforeCut(w) == w

\* The window that the pacing interval after a cut is computed from
PacedByCut(w) == CutWindow(w)

onACK(latest, rtt, lost) ==
    LET min == MinRttAfter(latest)
        m1 == [mode EXCEPT !.rtts = @ \/ mode.on]
        p1 == Begun(probe, min)
        leaves == Leaves(m1)
        m2 == IF leaves THEN LeftMode(m1) ELSE m1
        p2 == Sampled(IF leaves THEN LeftProbe(p1, min) ELSE p1, m2)
        over == CycleOver(p2)
        judged == over /\ ~m2.on
        steady == num_acked >= ProbeAcks
    IN  \E competition \in IF judged THEN BOOLEAN ELSE {FALSE}, jump \in Jumps :
        LET jumps == competition /\ utility_mode = "AUTO_MODE"
            w3 == IF jumps THEN MaxOf(jump, window) ELSE window
            m3 == IF competition THEN Entered(m2, w3) ELSE m2
            cut == Heeds(m3, lost, rtt)
        IN  \E moved \in IF steady THEN Moves(w3, m3.on, rtt > min)
                         ELSE {[window |-> w3, slow_start |-> slow_start]} :
            LET w4 == moved.window
            IN  /\ min_rtt' = min
                /\ default_delta' = (default_delta \/ (judged /\ ~jumps))
                /\ probe' = IF ~over THEN p2
                            ELSE [start |-> now, taken |-> {},
                                  length |-> IF judged /\ ~jumps THEN CycleRtts * min
                                             ELSE p2.length]
                /\ slow_start' = moved.slow_start
                /\ mode' = IF cut THEN CutMode(m3, w4) ELSE m3
                /\ window' = IF cut THEN CutWindow(w4) ELSE w4
                /\ paced' = IF cut THEN PacedByCut(w4) ELSE IF steady THEN w4 ELSE paced
                /\ divided' = (divided \/ (over /\ p2.taken = {}) \/ (cut /\ ~m3.rtts))
                /\ num_acked' = MinOf(num_acked + 1, ProbeAcks)
                /\ cuts' = IF cut THEN cuts + 1 ELSE cuts
                /\ dwell' = IF mode'.on = mode.on THEN dwell ELSE 0

\* An ack with RTT latest, and the standing RTT of the window, which is a
\* sample of it and no more than the latest
Ack ==
    /\ \E latest, rtt \in Rtt, lost \in BOOLEAN :
          /\ latest <= now
          /\ MinRttAfter(latest) <= rtt /\ rtt <= latest
          /\ onACK(latest, rtt, lost)
    /\ window' <= MaxWindow
    /\ UNCHANGED <<config, now>>

Tick ==
    /\ now < MaxTime
    /\ now' = now + 1 /\ dwell' = MinOf(dwell + 1, Settled)
    /\ UNCHANGED <<config, min_rtt, default_delta, window, paced, slow_start,
                   num_acked, probe, mode, divided, cuts>>

Next == StartFlow \/ AckTimeout \/ Ack \/ Tick

Spec == Init /\ [][Next]_vars
------------------------------------------------------------------------------
\* Properties

TypeOK ==
    /\ utility_mode \in UtilityModes /\ flow \in Nat /\ now \in Nat
    /\ min_rtt \in Nat /\ min_rtt >= MinRtt
    /\ default_delta \in BOOLEAN /\ slow_start \in BOOLEAN /\ divided \in BOOLEAN
    /\ window \in Nat /\ window >= 2 /\ paced \in Nat
    /\ num_acked \in 0 .. ProbeAcks
    /\ probe \in [start : Nat, length : Nat, taken : SUBSET BOOLEAN]
    /\ mode \in [on : BOOLEAN, loss_time : Nat, smooth : Nat, last_max : Nat, rtts : BOOLEAN]
    /\ dwell \in 0 .. Settled /\ cuts \in Nat

\* The competitive mode does not flutter: the default mode lasts longer than a
\* probe cycle, the competitive mode longer than three RTTs, whatever acks,
\* losses, timeouts and new flows come between, and although loss times of a
\* flow are read in the next.
Switch == INSTANCE ModeSwitch WITH
    competing <- mode.on,
    DefaultFor <- CycleRtts * MinRtt, CompeteFor <- 3 * MinRtt,
    Settled <- Settled

DoesNotFlutter == Switch!Spec

\* The pacing interval is never left behind by a change of the window: neither
\* by the jump into the competitive mode nor by a cut, both of which can come
\* while the first RTTs still probe and no ack sets it.
PacedByWindow == paced \in {0, window}

\* FFT() looks for competition in samples of the default mode only: the arrays
\* hold samples of the mode the controller is in, whatever ends the other one.
JudgesDefaultOnly == probe.taken \subseteq {mode.on}

\* The averages over a cycle and over the RTTs between losses are taken of at
\* least one sample: no window or rate becomes infinite or undefined.
NeverDividesByZero == ~divided

\* The window is cut at most once per RTT in a flow, although the time of the
\* last cut is forgotten with the mode and outlives the flow.
CutsAreSpaced == cuts * (MinRtt + 1) <= now

------------------------------------------------------------------------------
\* What makes the properties inductive

\* A probe cycle is long enough, and in the default mode began in it.
CycleTimed ==
    /\ probe.start <= now
    /\ probe.length = FirstCycle \/ probe.length >= CycleRtts * MinRtt
    /\ ~mode.on /\ probe.start # 0 /\ dwell < Settled => now - probe.start <= dwell

\* The competitive mode began at the last loss time or, if that was a loss,
\* more than an RTT before; and losses heeded are more than an RTT apart.
LossTimed ==
    /\ ~mode.on => mode.loss_time = 0 /\ mode.smooth = 0
    /\ mode.on /\ mode.smooth = 0 /\ dwell < Settled => now - mode.loss_time <= dwell
    /\ mode.on /\ mode.smooth # 0 =>
          /\ mode.smooth > MinRtt
          /\ dwell < Settled => (now - mode.loss_time) + MinRtt < dwell

\* While the first RTTs probe, only a cut paces, and a window below that of the
\* last cut keeps the mode.
ProbingPaced ==
    num_acked < ProbeAcks /\ paced # 0 => mode.on /\ window <= mode.last_max

\* The cuts of a flow had passed by the last loss time.
CutsTimed == mode.on /\ cuts # 0 => cuts * (MinRtt + 1) <= mode.loss_time

IInv ==
    /\ TypeOK /\ CycleTimed /\ LossTimed /\ ProbingPaced /\ CutsTimed
    /\ PacedByWindow /\ JudgesDefaultOnly /\ NeverDividesByZero /\ CutsAreSpaced
=============================================================================

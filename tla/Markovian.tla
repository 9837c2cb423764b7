------------------------------- MODULE Markovian -------------------------------
(***************************************************************************)
(* MarkovianCC (User-space/copaP/markoviancc.{hh,cc}), the controller that  *)
(* is Copa: the window that follows rtt / (queueing delay * delta), its     *)
(* velocity, slow start, the competitive mode that turns delta into an      *)
(* AIMD, and ReduceOnLoss (estimators.{hh,cc}).                             *)
(*                                                                          *)
(* The RTT readings of an ack are any that satisfy what RttWindow shows of  *)
(* them: min_rtt <= standing rtt <= the newest sample.  The doubles become  *)
(* integers: a window counts units of 1 / Unit packet, and instead of delta *)
(* its inverse is kept, in units of 1 / InvUnit; quotients are rounded      *)
(* down.  A pacing interval 0.5 * rtt / window is kept as its two terms.    *)
(* Estimators that no decision reads (rtt_unacked, interarrival, is_uniform *)
(* and the prev_* statistics) are left out.                                 *)
(***************************************************************************)
EXTENDS Integers, FiniteSets

CONSTANTS utility_mode,     \* how delta is chosen, from the configuration
          do_slow_start,    \* "do_ss:"
          ConfigInv,        \* 1 / delta as configured
          DefaultInv,       \* 1 / default_delta
          InvUnit, Unit,    \* the units of 1 / delta and of the window
          num_probe_pkts,   \* 10: the window while probing
          external_min_rtt, \* from the handshake, 0 if none
          Rtt,              \* RTT samples that can be measured
          MinRtt,           \*   and the least of them
          MinPkts,          \* 20: ReduceOnLoss judges more packets than this
          AckTimeout,       \* 2000 ms: CTCP calls init() after such a silence
          MaxTime,          \* bound on the clock
          MaxSent,          \* bound on the packets sent
          MaxWindow         \* bound on the window

ASSUME MarkovianAssumption ==
    /\ utility_mode \in {"CONSTANT_DELTA", "MAX_THROUGHPUT", "TCP_COOP", "AUTO_MODE"}
    /\ do_slow_start \in BOOLEAN
    /\ ConfigInv \in Nat \ {0} /\ DefaultInv \in Nat \ {0}
    /\ InvUnit \in Nat \ {0} /\ Unit \in Nat \ {0}
    /\ num_probe_pkts \in Nat /\ num_probe_pkts >= 2
    /\ external_min_rtt \in Nat
    /\ Rtt \subseteq Nat /\ MinRtt \in Nat \ {0} /\ \A r \in Rtt : r >= MinRtt
    /\ MinPkts \in Nat /\ AckTimeout \in Nat
    /\ MaxTime \in Nat \ {0} /\ MaxSent \in Nat /\ MaxWindow \in Nat

VARIABLES now,              \* cur_tick, time since the flow began
          last_ack_time,    \* CTCP's, for its timeout
          next_seq,         \* the next packet CTCP announces
          unacked,          \* unacknowledged_packets: number and sent_time
          window,           \* _the_window
          slow_start,
          delta,            \* inv, mode, and the times of the last changes
          velocity,         \* update_amt, update_dir, prev_update_dir and
                            \*   last_update_time
          cur_intersend, intersend,     \* cur_intersend_time, _intersend_time
          num_acked, num_lost, num_sent,
          rol,              \* reduce_on_loss: num_lost, num_pkts, prev_win_time
          aborted,          \* an assertion failed
          streak,           \* history: RTTs in a row that moved the window one
                            \*   way, and that way
          cuts              \* history: how often the window was cut

cc == <<unacked, window, slow_start, delta, velocity, cur_intersend, intersend,
        num_acked, num_lost, num_sent, rol, streak, cuts>>
vars == <<now, last_ack_time, next_seq, cc, aborted>>

MaxOf(a, b) == IF a >= b THEN a ELSE b
MinOf(a, b) == IF a <= b THEN a ELSE b
Sign(n) == IF n > 0 THEN 1 ELSE IF n < 0 THEN -1 ELSE 0

Interval(rtt, w) == [rtt |-> rtt, window |-> w]
NoInterval == Interval(0, 0)

Probing == Unit * num_probe_pkts

\* What init() sets, whether at the start of a flow or after a silence
FreshVelocity == [amt |-> 1, dir |-> 1, prev |-> 1, time |-> 0]
FreshRol == [lost |-> 0, pkts |-> 0, time |-> 0]
FreshInterval ==
    IF external_min_rtt = 0 THEN NoInterval ELSE Interval(2 * external_min_rtt, Probing)
FreshDelta(inv) ==
    [inv |-> IF utility_mode = "CONSTANT_DELTA" THEN inv ELSE InvUnit,
     mode |-> "DEFAULT_MODE", time |-> 0, time_loss |-> 0]

NoStreak == [len |-> 0, dir |-> 1]

Init ==
    /\ now = 1 /\ last_ack_time = 1 /\ next_seq = 0
    /\ unacked = {}
    /\ window = Probing /\ slow_start = TRUE
    /\ delta = FreshDelta(ConfigInv)
    /\ velocity = FreshVelocity
    /\ cur_intersend = NoInterval /\ intersend = FreshInterval
    /\ num_acked = 0 /\ num_lost = 0 /\ num_sent = 0
    /\ rol = FreshRol
    /\ aborted = FALSE
    /\ streak = NoStreak /\ cuts = 0

init ==
    /\ ~aborted /\ now - last_ack_time > AckTimeout
    /\ last_ack_time' = now
    /\ unacked' = {}
    /\ window' = Probing /\ slow_start' = TRUE
    /\ delta' = FreshDelta(delta.inv)
    /\ velocity' = FreshVelocity
    /\ cur_intersend' = NoInterval /\ intersend' = FreshInterval
    /\ num_acked' = 0 /\ num_lost' = 0 /\ num_sent' = 0
    /\ rol' = FreshRol
    /\ streak' = NoStreak
    /\ UNCHANGED <<now, next_seq, aborted, cuts>>

onPktSent ==
    /\ ~aborted /\ next_seq < MaxSent
    /\ unacked' = unacked \cup {[seq |-> next_seq, sent |-> now]}
    /\ next_seq' = next_seq + 1
    /\ num_sent' = num_sent + 1
    /\ intersend' = cur_intersend
    /\ UNCHANGED <<now, last_ack_time, window, slow_start, delta, velocity, cur_intersend,
                   num_acked, num_lost, rol, aborted, streak, cuts>>

------------------------------------------------------------------------------
\* update_delta(): d after an ack with the given RTT, or (with RTT 0) after
\* the loss of packets that the ack revealed

UpdatedMode(d, copa) ==
    IF utility_mode # "AUTO_MODE" THEN d.mode
    ELSE IF copa THEN "DEFAULT_MODE" ELSE "LOSS_SENSITIVE_MODE"

\* Default mode: delta returns to its default, but for an RTT after a loss.
ByDefault(d, rtt) ==
    IF d.time = 0 \/ d.time_loss + rtt < now
    THEN [d EXCEPT !.inv = DefaultInv, !.time = now]
    ELSE d

\* Mutant: the time of the last growth is not kept.
ByLossUntimed(d, lost, rtt) ==
    LET inv == IF d.time = 0 THEN DefaultInv ELSE d.inv
    IN  IF lost /\ d.time_loss + rtt < now
        THEN [d EXCEPT !.inv = MaxOf(inv \div 2, DefaultInv), !.time_loss = now]
        ELSE IF d.time + rtt < now
        THEN [d EXCEPT !.inv = MaxOf(inv + InvUnit, DefaultInv)]
        ELSE [d EXCEPT !.inv = MaxOf(inv, DefaultInv)]

\* Competing: 1 / delta is halved by a loss and grows by one per RTT.
ByLoss(d, lost, rtt) ==
    LET inv == IF d.time = 0 THEN DefaultInv ELSE d.inv
    IN  IF lost /\ d.time_loss + rtt < now
        THEN [d EXCEPT !.inv = MaxOf(inv \div 2, DefaultInv), !.time_loss = now]
        ELSE IF d.time + rtt < now
        THEN [d EXCEPT !.inv = MaxOf(inv + InvUnit, DefaultInv), !.time = now]
        ELSE [d EXCEPT !.inv = MaxOf(inv, DefaultInv)]

update_delta(d, lost, rtt, copa) ==
    LET e == [d EXCEPT !.mode = UpdatedMode(d, copa)]
    IN  IF e.mode = "DEFAULT_MODE" /\ utility_mode # "TCP_COOP"
        THEN ByDefault(e, rtt)
        ELSE ByLoss(e, lost, rtt)

------------------------------------------------------------------------------
\* update_intersend_time()

\* The first two RTTs only probe.
IsProbing == num_acked < 2 * num_probe_pkts - 1

\* w >= target_window = rtt / (queuing_delay * delta), infinite without a queue
AboveTarget(w, inv, rtt, min_rtt) ==
    w * (rtt - min_rtt) * InvUnit >= Unit * rtt * inv

\* "assert(false)": with a queue, slow start goes on only if do_ss was given.
SlowStartFails(rtt, min_rtt) ==
    ~IsProbing /\ slow_start /\ ~do_slow_start /\ rtt # min_rtt

\* An RTT has passed since the last look at the direction.
RttIsOver(latest) == velocity.time + latest < now

\* Mutant: the direction is not looked at.
TurnedNever(latest) ==
    IF ~RttIsOver(latest) THEN velocity
    ELSE [velocity EXCEPT !.amt = 2 * @, !.time = now, !.dir = 0]

\* The velocity doubles if the window moved on in the same direction.
Turned(latest) ==
    IF ~RttIsOver(latest) THEN velocity
    ELSE IF velocity.prev * velocity.dir > 0
    THEN [velocity EXCEPT !.amt = 2 * @, !.time = now, !.dir = 0]
    ELSE [velocity EXCEPT !.amt = 1, !.prev = -@, !.time = now, !.dir = 0]

\* Mutant: the velocity is not held against the window.
CappedNever(amt, w, inv) == amt

\* More than window * delta is halved, once.
Capped(amt, w, inv) ==
    MaxOf(IF amt * Unit * inv > w * InvUnit THEN amt \div 2 ELSE amt, 1)

\* update_amt / (delta * _the_window)
Step(amt, w, inv) == (amt * inv * Unit * Unit) \div (InvUnit * w)

\* The window and the velocity after an ack that finds delta's inverse inv
Moved(inv, rtt, min_rtt, latest) ==
    LET turned == Turned(latest)
        amt == Capped(turned.amt, window, inv)
        dir == IF AboveTarget(window, inv, rtt, min_rtt) THEN -1 ELSE 1
    IN  [window |-> window + dir * Step(amt, window, inv),
         velocity |-> [turned EXCEPT !.amt = amt, !.dir = @ + dir]]

\* Mutant: no lower bound.
AtLeastAnything(w) == w

AtLeastTwo(w) == MaxOf(2 * Unit, w)

------------------------------------------------------------------------------
\* ReduceOnLoss::update(), called for each of k packets lost and once for the
\* ack: the first call that makes more than MinPkts judges them, and what the
\* later calls count stays.

Judges(k, latest) == now > rol.time + 2 * latest /\ rol.pkts + k + 1 > MinPkts

\* The number of the call that judges
Call == MaxOf(1, MinPkts + 1 - rol.pkts)

\* More than 30% of the packets were lost.
TooMany(k) == 10 * (rol.lost + MinOf(Call, k)) > 3 * (rol.pkts + Call)

\* Mutant: prev_win_time is not set.
RolAfterUntimed(k, latest) ==
    IF Judges(k, latest)
    THEN [lost |-> k - MinOf(Call, k), pkts |-> k + 1 - Call, time |-> rol.time]
    ELSE [lost |-> rol.lost + k, pkts |-> rol.pkts + k + 1, time |-> rol.time]

RolAfter(k, latest) ==
    IF Judges(k, latest)
    THEN [lost |-> k - MinOf(Call, k), pkts |-> k + 1 - Call, time |-> now]
    ELSE [lost |-> rol.lost + k, pkts |-> rol.pkts + k + 1, time |-> rol.time]

------------------------------------------------------------------------------
\* onACK()

\* What an ack of packet n can report: of a packet still known the time since
\* it was sent, of any other any RTT.
Latest(n) ==
    LET known == {p \in unacked : p.seq = n}
    IN  {r \in Rtt : r < now /\ \A p \in known : r = now - p.sent}

\* The packets an ack of packet n takes for lost
Skipped(n) ==
    IF \E p \in unacked : p.seq = n THEN {p \in unacked : p.seq < n} ELSE {}

\* Mutant: the packets skipped stay in the map.
RemainingSkipped(n) == {p \in unacked : p.seq # n}

Remaining(n) == {p \in unacked : p.seq # n} \ Skipped(n)

AfterCut(w, cut) == IF cut THEN AtLeastTwo((7 * w) \div 10) ELSE w

\* Mutant: a cut of the window leaves the pacing interval as it was.
IntervalBeforeCut(rtt, w, cut) == Interval(rtt, w)

\* update_intersend_time() and a cut both end by setting the interval.
NewInterval(rtt, w, cut) == Interval(rtt, AfterCut(w, cut))

onACK(n, latest, rtt, min_rtt, copa) ==
    LET d == update_delta(delta, FALSE, latest, copa)
        steady == ~IsProbing /\ ~slow_start
        moved == Moved(d.inv, rtt, min_rtt, latest)
        w == IF IsProbing THEN window
             ELSE AtLeastTwo(IF slow_start THEN window + Unit ELSE moved.window)
        k == Cardinality(Skipped(n))
        cut == Judges(k, latest) /\ TooMany(k)
    IN  /\ delta' = IF k > 0 THEN update_delta(d, TRUE, 0, copa) ELSE d
        /\ velocity' = IF steady THEN moved.velocity ELSE velocity
        /\ slow_start' = (slow_start /\ (IsProbing \/ ~AboveTarget(window + Unit, d.inv, rtt, min_rtt)))
        /\ window' = AfterCut(w, cut)
        /\ IF ~IsProbing \/ cut
           THEN cur_intersend' = NewInterval(rtt, w, cut) /\ intersend' = cur_intersend'
           ELSE UNCHANGED <<cur_intersend, intersend>>
        /\ rol' = RolAfter(k, latest)
        /\ num_lost' = num_lost + k
        /\ num_acked' = num_acked + 1
        /\ unacked' = Remaining(n)
        /\ streak' = IF steady /\ RttIsOver(latest)
                     THEN [len |-> IF velocity.dir = 0 THEN 0
                                   ELSE IF Sign(velocity.dir) = streak.dir THEN streak.len + 1
                                   ELSE 1,
                           dir |-> Sign(velocity.dir)]
                     ELSE streak
        /\ cuts' = IF cut THEN cuts + 1 ELSE cuts

\* An ack of packet n, given the RTT it shows and the readings that the RTT
\* window takes from it
AckReading(n, latest, rtt, min_rtt, copa) ==
    /\ aborted' = SlowStartFails(rtt, min_rtt)
    /\ IF aborted' THEN UNCHANGED cc ELSE onACK(n, latest, rtt, min_rtt, copa)
    /\ window' <= MaxWindow
    /\ last_ack_time' = now
    /\ num_sent' = num_sent
    /\ UNCHANGED <<now, next_seq>>

\* The acks CTCP passes on, in any order, late, or more than once.  Each has
\* a clock reading of its own, for a poll comes between.
Ack ==
    /\ ~aborted /\ last_ack_time < now
    /\ \E n \in 0 .. next_seq - 1, rtt, min_rtt \in Rtt, copa \in BOOLEAN :
          \E latest \in Latest(n) :
             /\ min_rtt <= rtt /\ rtt <= latest
             /\ AckReading(n, latest, rtt, min_rtt, copa)

Tick ==
    /\ ~aborted /\ now < MaxTime
    /\ now' = now + 1
    /\ UNCHANGED <<last_ack_time, next_seq, cc, aborted>>

Next == init \/ onPktSent \/ Ack \/ Tick

Spec == Init /\ [][Next]_vars
------------------------------------------------------------------------------
\* Properties

DeltaType ==
    [inv : Nat \ {0}, mode : {"DEFAULT_MODE", "LOSS_SENSITIVE_MODE"}, time : Nat, time_loss : Nat]

VelocityType == [amt : Nat \ {0}, dir : Int, prev : {-1, 1}, time : Nat]

TypeOK ==
    /\ now \in 1 .. MaxTime /\ last_ack_time \in 1 .. now
    /\ next_seq \in 0 .. MaxSent
    /\ IsFiniteSet(unacked) /\ unacked \subseteq [seq : 0 .. MaxSent, sent : 1 .. MaxTime]
    /\ window \in 2 * Unit .. MaxOf(MaxWindow, Probing)
    /\ delta \in DeltaType
    /\ velocity \in VelocityType /\ velocity.time <= now
    /\ num_acked \in Nat /\ num_lost \in Nat /\ num_sent \in 0 .. next_seq
    /\ rol.pkts \in Nat /\ rol.lost \in 0 .. rol.pkts /\ rol.time \in 0 .. now
    /\ cuts \in Nat /\ {slow_start, aborted} \subseteq BOOLEAN

\* Velocity is earned: update_amt is 2^k at most when the window moved on
\* balance in one direction for the last k RTTs, and k RTTs have passed.
\* (init() gives the first one away, and after an RTT that moved the window
\* nowhere the direction is a guess.)
VelocityEarned ==
    velocity.amt <= 2 ^ streak.len /\ streak.len * MinRtt <= velocity.time

\* The pacing interval is never left behind by a change of the window, be it
\* by the target, slow start, or ReduceOnLoss; only while probing is there none.
PacedByWindow ==
    /\ cur_intersend = NoInterval \/ cur_intersend.window = window
    /\ num_acked >= 2 * num_probe_pkts => cur_intersend # NoInterval
    /\ intersend \in {cur_intersend, FreshInterval}

\* Competition is bounded by time: however long the other flows lose packets
\* and this one does not, 1 / delta has grown by no more than one per RTT.
AggressionBounded ==
    num_acked > 0 => (delta.inv - DefaultInv) * MinRtt <= InvUnit * delta.time

\* A packet is taken for lost at most once, and not while it is waited for.
NoPacketLostTwice == num_lost + Cardinality(unacked) <= num_sent

Spacing == MinOf(2 * MinRtt, AckTimeout) + 1

\* The window is cut no more often than once per two RTTs, although onACK()
\* asks once per packet and init() forgets the time of the last cut: more than
\* two RTTs, or else more than the ack timeout, come between two cuts.
CutsAreRare == cuts * Spacing <= now

\* The velocity is held against window * delta when it is used and not when it
\* is gained: an ack moves the window by one packet at most, unless its velocity
\* is 1 (and the packets 1 / (delta * window)) or the ack has just halved it.
\* (What is halved is not compared again.  With one ack per RTT the velocity
\* stays above a window that it brings down, and may move it by any number.)
Doubled == velocity'.amt > velocity.amt
Kept == velocity'.amt = velocity.amt /\ velocity'.time = velocity.time

AckMovesOnePacket ==
    [][ velocity'.amt > 1 /\ (Doubled \/ Kept) /\ ~slow_start /\ cuts' = cuts
          => window' - window <= Unit /\ window - window' <= Unit ]_vars

\* "will make Copa/Copa+ use a constant delta of 1.0" (README.md:58)
DeltaIsConstant == utility_mode = "CONSTANT_DELTA" => delta.inv = ConfigInv

------------------------------------------------------------------------------
\* The inductive invariant behind the others.  delta has not changed since the
\* last ack, and was set to its default by the first.

ClockOK ==
    /\ now \in Nat /\ last_ack_time \in Nat /\ last_ack_time <= now
    /\ delta.time <= last_ack_time /\ delta.time_loss <= last_ack_time

DeltaOK ==
    /\ delta \in DeltaType /\ ClockOK
    /\ num_acked \in Nat /\ (num_acked = 0 => delta.time = 0)
    /\ AggressionBounded

\* The time of the last cut bounds their number; init() forgets it, but comes
\* late enough after the last ack for one more.
CutsSpaced ==
    /\ rol.time <= last_ack_time
    /\ rol.time > 0 => cuts * Spacing <= rol.time
    /\ rol.time = 0 => cuts = 0 \/ (cuts + 1) * Spacing <= last_ack_time

\* prev_update_dir is the way of the streak, or there is none and no velocity.
StreakOK ==
    /\ streak \in [len : Nat, dir : {-1, 0, 1}]
    /\ streak.dir \in {0, velocity.prev}
    /\ streak.dir = 0 => velocity.amt = 1
    /\ VelocityEarned

IInv ==
    DeltaOK /\ TypeOK /\ PacedByWindow /\ NoPacketLostTwice /\ CutsSpaced /\ StreakOK
=============================================================================

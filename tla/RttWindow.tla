------------------------------ MODULE RttWindow ------------------------------
(***************************************************************************)
(* RTTWindow and ExtremeWindow of User-space/copaP/rtt-window.{hh,cc}: four *)
(* sliding-window extremes of the RTT samples (the minimum RTT, the         *)
(* "standing" RTT over half a smoothed RTT, and the minimum and maximum     *)
(* over four smoothed RTTs that is_copa() compares).                        *)
(*                                                                          *)
(* A deque of (time, rtt) pairs is modelled by the set of the indices its   *)
(* pairs have in `hist', the samples taken since clear(): the deque's order *)
(* is the order of the indices, its back is the largest and its front the   *)
(* smallest of them.  `hist' beyond the deques and `live' (the samples a    *)
(* window that drops by age alone would still hold) are history variables   *)
(* that no guard and no other variable depends on.                          *)
(*                                                                          *)
(* Times and RTTs are integers where the code has doubles; srtt and its     *)
(* half are rounded down.                                                   *)
(***************************************************************************)
EXTENDS Integers, Sequences, FiniteSetsExt

CONSTANTS Rtt,          \* RTT samples that can be measured
          Gap,          \* time between two samples; the clock never runs back
          MinHistory,   \* 10e3 in the code
          HistFactor,   \* 100 in the code: min_rtt is kept for 100 RTTs
          SrttGain,     \* 16 in the code: 1 / srtt_alpha
          DblMax,       \* numeric_limits<double>::max()
          DblMin,       \* numeric_limits<double>::min(), above 0 and below any RTT
          MaxSamples    \* bound on the samples taken between two clear()

ASSUME RttWindowAssumption ==
    /\ Gap \subseteq Nat
    /\ MinHistory \in Nat /\ HistFactor \in Nat
    /\ SrttGain \in Nat \ {0}
    /\ DblMax \in Nat /\ DblMin \in Nat
    /\ Rtt \subseteq Nat
    /\ \A r \in Rtt : DblMin < r /\ r < DblMax
    /\ MaxSamples \in Nat

Window == {"min_rtt", "unjittered_rtt", "is_copa_min", "is_copa_max"}

\* The find_min argument each window is constructed with
find_min(w) == w # "is_copa_max"

VARIABLES hist,         \* history: all samples since clear()
          vals,         \* vals[w]: the deque of window w, as indices of hist
          extreme,      \* extreme[w]: the cached extreme of window w
          srtt,         \* the smoothed RTT, 0 before the first sample
          latest_rtt,   \* the last sample, which clear() does not reset
          if_compete,   \* whether min_rtt is kept for one srtt only
          now,          \* time of the last sample
          live          \* history: what a window dropping by age alone holds

vars == <<hist, vals, extreme, srtt, latest_rtt, if_compete, now, live>>

MaxOf(a, b) == IF a >= b THEN a ELSE b
MinOf(a, b) == IF a <= b THEN a ELSE b

\* clear(): what an empty window reports
ClearedExtreme == [w \in Window |-> IF find_min(w) THEN DblMax ELSE DblMin]

Init ==
    /\ hist = <<>>
    /\ vals = [w \in Window |-> {}]
    /\ live = [w \in Window |-> {}]
    /\ extreme = ClearedExtreme
    /\ srtt = 0 /\ latest_rtt = 0 /\ now = 0
    /\ if_compete = FALSE

------------------------------------------------------------------------------
\* ExtremeWindow

\* v is strictly more extreme than u in window w
Beats(w, v, u) == IF find_min(w) THEN v < u ELSE v > u

\* Mutant: the beaten values are not popped.
PushedWithoutPop(w, h, n, dq) == dq \cup {n}

\* new_sample(): pop the values at the back that the new sample h[n] beats,
\* stopping at the first one it does not beat, and push the new sample.
Pushed(w, h, n, dq) ==
    {i \in dq : \E j \in dq : j >= i /\ ~Beats(w, h[n].val, h[j].val)} \cup {n}

\* The extreme new_sample() holds before it deletes old history
PushedExtreme(w, v, e) == IF Beats(w, v, e) THEN v ELSE e

\* Mutant: the cut-off is off by one.
AgedTooLate(h, n, dq, cutoff) ==
    {i \in dq : i = n \/ \E j \in dq : j <= i /\ h[j].time >= cutoff - 1}

\* clear_old_hist(): pop the front while it is older than the cut-off and is
\* not the only one left (the back is the new sample n).
Aged(h, n, dq, cutoff) ==
    {i \in dq : i = n \/ \E j \in dq : j <= i /\ h[j].time >= cutoff}

\* Mutant: a popped value that equals the cached extreme does not count.
AgedExtremeStrict(w, h, dq, aged, e) ==
    IF \E i \in dq \ aged : Beats(w, h[i].val, e) THEN h[Min(aged)].val ELSE e

\* clear_old_hist(): the front is the new extreme when a popped value was at
\* least as extreme as the cached one
AgedExtreme(w, h, dq, aged, e) ==
    IF \E i \in dq \ aged : ~Beats(w, e, h[i].val)
    THEN h[Min(aged)].val
    ELSE e

------------------------------------------------------------------------------
\* RTTWindow

NextSrtt(s, rtt) ==
    LET base == IF s = 0 THEN rtt ELSE s
    IN  (rtt + (SrttGain - 1) * base) \div SrttGain

\* Mutant: the shorter windows are not cut to max_time.
WindowLengthUncapped(w, s) ==
    CASE w = "min_rtt" -> IF if_compete THEN s
                          ELSE MaxOf(MinHistory, HistFactor * extreme["min_rtt"])
      [] w = "unjittered_rtt" -> 2 * s
      [] w \in {"is_copa_min", "is_copa_max"} -> 4 * s

\* Mutant: min_rtt is not kept for MinHistory at least.
WindowLengthNoHistory(w, s) ==
    LET max_time == IF if_compete THEN s ELSE HistFactor * extreme["min_rtt"]
    IN  IF w = "min_rtt" THEN max_time
        ELSE MinOf(max_time, IF w = "unjittered_rtt" THEN s \div 2 ELSE 4 * s)

\* max_time of window w: uses the new srtt, and the min_rtt from BEFORE this
\* sample
WindowLength(w, s) ==
    LET max_time == IF if_compete THEN s
                    ELSE MaxOf(MinHistory, HistFactor * extreme["min_rtt"])
    IN  CASE w = "min_rtt" -> max_time
          [] w = "unjittered_rtt" -> MinOf(max_time, s \div 2)
          [] w \in {"is_copa_min", "is_copa_max"} -> MinOf(max_time, 4 * s)

new_rtt_sample(rtt, gap) ==
    LET n == Len(hist) + 1
        t == now + gap
        h == Append(hist, [time |-> t, val |-> rtt])
        s == NextSrtt(srtt, rtt)
        cutoff(w) == t - WindowLength(w, s)
        pushed == [w \in Window |-> Pushed(w, h, n, vals[w])]
        aged == [w \in Window |-> Aged(h, n, pushed[w], cutoff(w))]
    IN  /\ n <= MaxSamples
        /\ now' = t
        /\ hist' = h
        /\ srtt' = s
        /\ latest_rtt' = rtt
        /\ vals' = aged
        /\ extreme' = [w \in Window |->
                          AgedExtreme(w, h, pushed[w], aged[w],
                                      PushedExtreme(w, rtt, extreme[w]))]
        /\ live' = [w \in Window |-> Aged(h, n, live[w] \cup {n}, cutoff(w))]
        /\ UNCHANGED if_compete

\* Mutant: clear() forgets to empty the deques.
clear_keeping_deques ==
    /\ hist' = <<>>
    /\ live' = [w \in Window |-> {}]
    /\ extreme' = ClearedExtreme
    /\ srtt' = 0 /\ now' = 0 /\ if_compete' = FALSE
    /\ UNCHANGED <<vals, latest_rtt>>

clear ==
    /\ hist' = <<>>
    /\ vals' = [w \in Window |-> {}]
    /\ live' = [w \in Window |-> {}]
    /\ extreme' = ClearedExtreme
    /\ srtt' = 0
    /\ if_compete' = FALSE
    /\ now' = 0     \* no time before clear() is left to compare with
    /\ UNCHANGED latest_rtt

change_window(IC) ==
    /\ if_compete' = IC
    /\ UNCHANGED <<hist, vals, extreme, srtt, latest_rtt, now, live>>

Next ==
    \/ \E rtt \in Rtt, gap \in Gap : new_rtt_sample(rtt, gap)
    \/ clear
    \/ \E IC \in BOOLEAN : change_window(IC)

Spec == Init /\ [][Next]_vars

\* The readings the controllers take
get_min_rtt == extreme["min_rtt"]
get_unjittered_rtt == extreme["unjittered_rtt"]

\* is_copa(): min of the last four RTTs < min_rtt + 10% of the range above it
is_copa == 10 * (extreme["is_copa_min"] - extreme["min_rtt"])
             < extreme["is_copa_max"] - extreme["min_rtt"]

------------------------------------------------------------------------------
\* Properties

TypeOK ==
    /\ hist \in Seq([time : Nat, val : Nat])
    /\ vals \in [Window -> SUBSET (1 .. Len(hist))]
    /\ live \in [Window -> SUBSET (1 .. Len(hist))]
    /\ extreme \in [Window -> Nat]
    /\ srtt \in Nat /\ latest_rtt \in Nat /\ now \in Nat
    /\ if_compete \in BOOLEAN

\* The clock: samples are in time order and none is later than `now'.
InTimeOrder(h) ==
    \A i, j \in 1 .. Len(h) : i <= j => h[i].time <= h[j].time

TimeOrdered ==
    InTimeOrder(hist) /\ \A i \in 1 .. Len(hist) : hist[i].time <= now

\* "Since `rtts` is a monotonically increasing array, the value at the front
\* contains the minimum" (rtt-window.cc:38).
Sorted(w, h, dq) == \A i, j \in dq : i < j => ~Beats(w, h[j].val, h[i].val)

\* Every deque is sorted and holds the newest sample.
Monotone ==
    \A w \in Window :
        /\ hist # <<>> => Len(hist) \in vals[w]
        /\ Sorted(w, hist, vals[w])

\* A sample still in the time window has a sample at least as extreme and at
\* least as young in the deque.
Dominates(w, h, dq, lv) ==
    \A i \in lv : \E j \in dq : j >= i /\ ~Beats(w, h[i].val, h[j].val)

\* Nothing a deque gave up can matter again.
Dominated ==
    \A w \in Window :
        vals[w] \subseteq live[w] /\ Dominates(w, hist, vals[w], live[w])

\* The cached extreme is the front of the deque, whatever was popped at
\* either end and whether or not clear_old_hist() recomputed it.
CacheIsFront ==
    \A w \in Window :
        extreme[w] = IF hist = <<>> THEN ClearedExtreme[w]
                     ELSE hist[Min(vals[w])].val

\* The windows over shorter times are the tails of the min_rtt window.
Nested ==
    /\ vals["unjittered_rtt"] \subseteq vals["min_rtt"]
    /\ vals["is_copa_min"] \subseteq vals["min_rtt"]

\* The inductive invariant
IInv == TypeOK /\ TimeOrdered /\ Monotone /\ Dominated /\ CacheIsFront /\ Nested

\* What a window reports is the extreme over ALL samples still in its time
\* window, although the deque forgets most of them (rtt-window.hh:14-17).
ExtremeIsExact ==
    hist # <<>> =>
        \A w \in Window :
            /\ \E i \in live[w] : hist[i].val = extreme[w]
            /\ \A i \in live[w] : ~Beats(w, hist[i].val, extreme[w])

\* The assertion of onACK (markoviancc.cc:216): the standing RTT is never
\* below the minimum RTT, so that the queueing delay computed from the two is
\* not negative.
UnjitteredAboveMin == get_unjittered_rtt >= get_min_rtt

\* What the controllers take for granted of the readings after a sample: they
\* are RTTs that were measured, and in this order.
ReadingsOrdered ==
    hist # <<>> =>
        /\ {get_min_rtt, get_unjittered_rtt} \subseteq Rtt
        /\ get_min_rtt <= get_unjittered_rtt /\ get_unjittered_rtt <= latest_rtt

\* What ReadingsOrdered needs besides IInv: the newest sample is latest_rtt.
LatestIsNewest ==
    /\ \A i \in 1 .. Len(hist) : hist[i].val \in Rtt
    /\ hist # <<>> => hist[Len(hist)].val = latest_rtt

\* The range is_copa() takes 10% of is not negative, and the value compared
\* with it lies inside the range.
IsCopaInRange ==
    hist # <<>> =>
        /\ extreme["min_rtt"] <= extreme["is_copa_min"]
        /\ extreme["is_copa_min"] <= extreme["is_copa_max"]

\* The standing RTT never survives its half smoothed RTT: unless it is the
\* newest sample's, some sample that young has this value.
StandingIsFresh ==
    hist # <<>> =>
        \E i \in 1 .. Len(hist) :
            /\ hist[i].val = get_unjittered_rtt
            /\ i = Len(hist) \/ hist[i].time >= now - srtt \div 2

\* min_rtt rises only by clear(), in competition, or when every sample of its
\* value has been in the window for longer than MinHistory.
MinRttRemembers ==
    [][ extreme'["min_rtt"] > extreme["min_rtt"]
          => \/ hist' = <<>>
             \/ if_compete
             \/ \A i \in live["min_rtt"] :
                   hist[i].val = extreme["min_rtt"]
                     => hist[i].time < now' - MinHistory ]_vars

\* Each of the four windows implements the naive sliding window.
MinRttWindow == INSTANCE SlidingExtreme WITH
    FindMin <- TRUE, NoExtreme <- DblMax,
    live <- live["min_rtt"], extreme <- extreme["min_rtt"]
UnjitteredWindow == INSTANCE SlidingExtreme WITH
    FindMin <- TRUE, NoExtreme <- DblMax,
    live <- live["unjittered_rtt"], extreme <- extreme["unjittered_rtt"]
IsCopaMinWindow == INSTANCE SlidingExtreme WITH
    FindMin <- TRUE, NoExtreme <- DblMax,
    live <- live["is_copa_min"], extreme <- extreme["is_copa_min"]
IsCopaMaxWindow == INSTANCE SlidingExtreme WITH
    FindMin <- FALSE, NoExtreme <- DblMin,
    live <- live["is_copa_max"], extreme <- extreme["is_copa_max"]

ImplementsNaive ==
    MinRttWindow!Spec /\ UnjitteredWindow!Spec /\ IsCopaMinWindow!Spec /\ IsCopaMaxWindow!Spec
=============================================================================

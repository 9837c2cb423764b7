---------------------------- MODULE AdaptiveProofs ----------------------------
(***************************************************************************)
(* AdaptiveCC for every RTT, loss pattern and outcome of FFT(), any number  *)
(* of flows and acks: its mode does not flutter, what it computes when the  *)
(* mode changes is defined, and the window is paced and cut as it should.   *)
(***************************************************************************)
EXTENDS Adaptive, TLAPS

USE AdaptiveAssumption DEF AdaptiveAssumption

ModeType == [on : BOOLEAN, loss_time : Nat, smooth : Nat, last_max : Nat, rtts : BOOLEAN]
ProbeType == [start : Nat, length : Nat, taken : SUBSET BOOLEAN]

\* Arithmetic
LEMMA MulNat == \A a, b \in Nat : a * b \in Nat
  BY SMTT(30)

LEMMA MulMono == \A a, b, c \in Nat : a <= b => c * a <= c * b
  BY SMTT(30)

LEMMA OneMoreCut == \A c, m \in Nat : (c + 1) * (m + 1) = c * (m + 1) + (m + 1)
  BY SMTT(30)

LEMMA SettledIsLate ==
  Settled \in Nat /\ Settled > CycleRtts * MinRtt /\ Settled > 3 * MinRtt /\ Settled > 0
<1> DEFINE A == CycleRtts * MinRtt
           B == 3 * MinRtt
           S == MaxOf(CycleRtts, 3) * MinRtt
<1>1. A \in Nat /\ B \in Nat /\ S \in Nat
  BY MulNat DEF MaxOf
<1>2. S = A \/ S = B
  BY DEF MaxOf
<1>3. MinRtt * CycleRtts <= MinRtt * MaxOf(CycleRtts, 3) /\ MinRtt * 3 <= MinRtt * MaxOf(CycleRtts, 3)
  BY MulMono DEF MaxOf
<1>4. A <= S /\ B <= S
  BY <1>3, SMTT(30) DEF MaxOf
<1> HIDE DEF A, B, S
<1>5. S + 1 > A /\ S + 1 > B /\ S + 1 > 0 /\ S + 1 \in Nat
  BY <1>1, <1>4
<1> QED
  BY <1>5 DEF A, B, S, Settled

\* A cycle of CycleRtts RTTs is no shorter than of as many of the least.
LEMMA CycleLong == \A m \in Nat : m >= MinRtt => CycleRtts * m \in Nat /\ CycleRtts * m >= CycleRtts * MinRtt
  BY MulNat, MulMono

\* A cut leaves a window of at least two packets, and none larger.
LEMMA CutShrinks == \A w \in Nat : w >= 2 => CutWindow(w) \in Nat /\ CutWindow(w) >= 2 /\ CutWindow(w) <= w
  BY SMTT(30) DEF CutWindow, MaxOf

LEMMA MovesTyped ==
  ASSUME NEW w \in Nat, w >= 2, slow_start \in BOOLEAN, NEW on, NEW queue \in BOOLEAN,
         NEW v \in Moves(w, on, queue)
  PROVE  v.window \in Nat /\ v.window >= 2 /\ v.slow_start \in BOOLEAN
<1>1. CASE slow_start
  <2>1. PICK ss \in {TRUE, ~queue} : v = [window |-> w + 1, slow_start |-> ss]
    BY <1>1, Zenon DEF Moves
  <2>2. ss \in BOOLEAN
    OBVIOUS
  <2> QED
    BY <2>1, <2>2
<1>2. CASE ~slow_start
  <2>1. PICK x \in {w + s : s \in Steps}
                    \cup IF queue /\ ~on THEN {MaxOf(2, w - s) : s \in Steps} ELSE {} :
           v = [window |-> x, slow_start |-> FALSE]
    BY <1>2 DEF Moves
  <2>2. x \in Nat /\ x >= 2
    BY DEF MaxOf
  <2> QED
    BY <2>1, <2>2
<1> QED
  BY <1>1, <1>2

LEMMA MinRttTyped ==
  ASSUME TypeOK, NEW latest \in Rtt
  PROVE  MinRttAfter(latest) \in Nat /\ MinRttAfter(latest) >= MinRtt
  BY DEF TypeOK, MinRttAfter, MinOf

\* The changes of the mode
LEMMA LeftModeIs ==
  ASSUME NEW m \in ModeType
  PROVE  /\ LeftMode(m) \in ModeType
         /\ ~LeftMode(m).on /\ LeftMode(m).loss_time = 0 /\ LeftMode(m).smooth = 0
  BY DEF ModeType, LeftMode

LEMMA EnteredIs ==
  ASSUME NEW m \in ModeType, NEW w \in Nat, now \in Nat
  PROVE  /\ Entered(m, w) \in ModeType
         /\ Entered(m, w).on /\ Entered(m, w).loss_time = now /\ Entered(m, w).smooth = m.smooth
<1>1. m.last_max \in Nat
  BY DEF ModeType
<1> DEFINE l == IF utility_mode = "AUTO_MODE" THEN w ELSE m.last_max
<1>2. l \in Nat
  BY <1>1
<1>3. Entered(m, w) = [m EXCEPT !.on = TRUE, !.loss_time = now, !.last_max = l]
  BY DEF Entered
<1> HIDE DEF l
<1> QED
  BY <1>2, <1>3 DEF ModeType

LEMMA CutModeIs ==
  ASSUME NEW m \in ModeType, NEW w \in Nat, now \in Nat, m.loss_time < now
  PROVE  /\ CutMode(m, w) \in ModeType
         /\ CutMode(m, w).on = m.on /\ CutMode(m, w).loss_time = now
         /\ CutMode(m, w).last_max = w
         /\ CutMode(m, w).smooth = IF m.smooth = 0 THEN now - m.loss_time
                                   ELSE (m.smooth + (now - m.loss_time)) \div 2
<1> DEFINE s == IF m.smooth = 0 THEN now - m.loss_time
                ELSE (m.smooth + (now - m.loss_time)) \div 2
<1>1. m.smooth \in Nat /\ m.loss_time \in Nat
  BY DEF ModeType
<1>2. s \in Nat
  BY <1>1
<1>3. CutMode(m, w) = [m EXCEPT !.smooth = s, !.loss_time = now, !.last_max = w, !.rtts = FALSE]
  BY DEF CutMode
<1> HIDE DEF s
<1>4. /\ CutMode(m, w) \in ModeType
      /\ CutMode(m, w).on = m.on /\ CutMode(m, w).loss_time = now
      /\ CutMode(m, w).last_max = w /\ CutMode(m, w).smooth = s
  BY <1>2, <1>3 DEF ModeType
<1> QED
  BY <1>4 DEF s

------------------------------------------------------------------------------
(* What an ack does.  m3 and w3 are the mode and the window before the window *)
(* is moved and a loss heeded, w4 is the moved window.                        *)

LongEnough(length) == length = FirstCycle \/ length >= CycleRtts * MinRtt

\* The ack ends the competitive mode.
Leaving(m3, w3) ==
    /\ mode.on /\ mode.loss_time > 0 /\ mode.smooth > 0
    /\ now - mode.loss_time > 2 * mode.smooth /\ window > mode.last_max
    /\ ~m3.on /\ m3.loss_time = 0 /\ m3.smooth = 0
    /\ w3 = window
    /\ probe'.start = now /\ probe'.taken = {}

\* The ack ends a cycle of the default mode, and FFT() finds competition.
Entering(m3) ==
    /\ ~mode.on /\ probe.start # 0
    /\ \E length \in Nat : length >= CycleRtts * MinRtt /\ probe.start + length < now
    /\ m3.on /\ m3.loss_time = now /\ m3.smooth = mode.smooth
    /\ probe'.start = now /\ probe'.taken = {}

\* The mode stays.
Staying(m3, w3) ==
    /\ m3.on = mode.on /\ m3.loss_time = mode.loss_time /\ m3.smooth = mode.smooth
    /\ m3.last_max = mode.last_max /\ (mode.on => m3.rtts)
    /\ w3 = window
    /\ probe'.start = now \/ (probe'.start = probe.start /\ probe.start # 0)
    /\ probe'.taken \subseteq probe.taken \cup {mode.on}

Outcome(rtt, m3, w3, w4, cut) ==
    /\ now > 0 /\ rtt >= MinRtt
    /\ m3 \in ModeType /\ w3 \in Nat /\ w3 >= 2 /\ w4 \in Nat /\ w4 >= 2
    /\ Leaving(m3, w3) \/ Entering(m3) \/ Staying(m3, w3)
    /\ probe' \in ProbeType /\ LongEnough(probe'.length) /\ probe'.start <= now
    /\ cut \in BOOLEAN /\ (cut => m3.on /\ now - m3.loss_time > rtt)
    /\ mode' = IF cut THEN CutMode(m3, w4) ELSE m3
    /\ window' = IF cut THEN CutWindow(w4) ELSE w4
    /\ paced' = IF cut \/ num_acked >= ProbeAcks THEN window' ELSE paced
    /\ num_acked < ProbeAcks => w4 = w3
    /\ cuts' = IF cut THEN cuts + 1 ELSE cuts
    /\ dwell' = IF m3.on = mode.on THEN dwell ELSE 0
    /\ divided' = (divided \/ (cut /\ ~m3.rtts))
    /\ num_acked' = MinOf(num_acked + 1, ProbeAcks)
    /\ min_rtt' \in Nat /\ min_rtt' >= MinRtt
    /\ default_delta' \in BOOLEAN /\ slow_start' \in BOOLEAN

LEMMA AckOutcome ==
  ASSUME TypeOK, CycleTimed, NEW latest \in Rtt, NEW rtt \in Rtt, NEW lost \in BOOLEAN,
         latest <= now, MinRttAfter(latest) <= rtt, onACK(latest, rtt, lost)
  PROVE  \E m3 \in ModeType, w3, w4 \in Nat, cut \in BOOLEAN : Outcome(rtt, m3, w3, w4, cut)
<1> DEFINE min == MinRttAfter(latest)
           m1 == [mode EXCEPT !.rtts = @ \/ mode.on]
           p1 == Begun(probe, min)
           leaves == Leaves(m1)
           m2 == IF leaves THEN LeftMode(m1) ELSE m1
           p2 == Sampled(IF leaves THEN LeftProbe(p1, min) ELSE p1, m2)
           over == CycleOver(p2)
           judged == over /\ ~m2.on
           steady == num_acked >= ProbeAcks
           Jumped(competition) == competition /\ utility_mode = "AUTO_MODE"
           Window3(competition, jump) == IF Jumped(competition) THEN MaxOf(jump, window) ELSE window
           Mode3(competition, jump) ==
             IF competition THEN Entered(m2, Window3(competition, jump)) ELSE m2
           CutOf(m) == Heeds(m, lost, rtt)
<1>1. PICK competition \in IF judged THEN BOOLEAN ELSE {FALSE}, jump \in Jumps :
        \E moved \in IF steady THEN Moves(Window3(competition, jump),
                                          Mode3(competition, jump).on, rtt > min)
                     ELSE {[window |-> Window3(competition, jump), slow_start |-> slow_start]} :
          LET w4 == moved.window
              w3 == Window3(competition, jump)
              m3 == Mode3(competition, jump)
              jumps == Jumped(competition)
              cut == CutOf(m3)
          IN  /\ min_rtt' = min
              /\ default_delta' = (default_delta \/ (judged /\ ~jumps))
              /\ probe' = IF ~over THEN p2
                          ELSE [start |-> now, taken |-> {},
                                length |-> IF judged /\ ~jumps THEN CycleRtts * min
                                           ELSE p2.length]
              /\ slow_start' = moved.slow_start
              /\ mode' = IF cut THEN CutMode(m3, w4) ELSE m3
              /\ window' = IF cut THEN CutWindow(w4) ELSE w4
              /\ paced' = IF cut THEN PacedByCut(w4) ELSE IF steady THEN w4 ELSE paced
              /\ divided' = (divided \/ (over /\ p2.taken = {}) \/ (cut /\ ~m3.rtts))
              /\ num_acked' = MinOf(num_acked + 1, ProbeAcks)
              /\ cuts' = IF cut THEN cuts + 1 ELSE cuts
              /\ dwell' = IF mode'.on = mode.on THEN dwell ELSE 0
  BY Zenon DEF onACK
<1>2. /\ min \in Nat /\ min >= MinRtt /\ rtt \in Nat /\ rtt >= MinRtt /\ rtt >= min
      /\ CycleRtts * min \in Nat /\ CycleRtts * min >= CycleRtts * MinRtt
      /\ CycleRtts * MinRtt \in Nat
  BY MinRttTyped, CycleLong, MulNat DEF TypeOK
<1>3. /\ now \in Nat /\ now > 0 /\ window \in Nat /\ window >= 2 /\ num_acked \in Nat
      /\ slow_start \in BOOLEAN /\ default_delta \in BOOLEAN /\ paced \in Nat /\ dwell \in Nat
  BY DEF TypeOK
<1>4. /\ mode.on \in BOOLEAN /\ mode.loss_time \in Nat /\ mode.smooth \in Nat
      /\ mode.last_max \in Nat /\ mode.rtts \in BOOLEAN
      /\ mode = [on |-> mode.on, loss_time |-> mode.loss_time, smooth |-> mode.smooth,
                 last_max |-> mode.last_max, rtts |-> mode.rtts]
  BY DEF TypeOK
<1>5. /\ m1 \in ModeType /\ m1.on = mode.on /\ m1.loss_time = mode.loss_time
      /\ m1.smooth = mode.smooth /\ m1.last_max = mode.last_max /\ (mode.on => m1.rtts)
  <2>1. m1 = [on |-> mode.on, loss_time |-> mode.loss_time, smooth |-> mode.smooth,
              last_max |-> mode.last_max, rtts |-> mode.rtts \/ mode.on]
    BY <1>4
  <2> QED
    BY <1>4, <2>1 DEF ModeType
<1>6. /\ p1 \in ProbeType /\ p1.start = (IF probe.start = 0 THEN now ELSE probe.start)
      /\ p1.length >= CycleRtts * MinRtt /\ p1.taken = probe.taken /\ p1.start <= now
      /\ p1.start > 0
  <2>1. /\ probe.start \in Nat /\ probe.length \in Nat /\ probe.taken \in SUBSET BOOLEAN
        /\ probe = [start |-> probe.start, length |-> probe.length, taken |-> probe.taken]
    BY DEF TypeOK
  <2>2. p1 = [start |-> IF probe.start = 0 THEN now ELSE probe.start,
              length |-> IF probe.length = FirstCycle THEN MaxOf(FirstCycle, CycleRtts * min)
                         ELSE probe.length,
              taken |-> probe.taken]
    BY DEF Begun
  <2>3. /\ p1.length \in Nat /\ p1.length >= CycleRtts * MinRtt
    <3> DEFINE A == CycleRtts * min
               B == CycleRtts * MinRtt
    <3>1. A \in Nat /\ B \in Nat /\ A >= B
      BY <1>2
    <3>2. probe.length = FirstCycle \/ probe.length >= B
      BY DEF CycleTimed
    <3>3. p1.length = IF probe.length = FirstCycle THEN MaxOf(FirstCycle, A) ELSE probe.length
      BY <2>2
    <3> HIDE DEF A, B, p1
    <3>4. p1.length \in Nat /\ p1.length >= B
      BY <2>1, <3>1, <3>2, <3>3 DEF MaxOf
    <3> QED
      BY <3>4 DEF B
  <2>4. p1.start = (IF probe.start = 0 THEN now ELSE probe.start) /\ p1.taken = probe.taken
    BY <2>2
  <2>5. p1 = [start |-> p1.start, length |-> p1.length, taken |-> p1.taken]
    BY <2>2
  <2> HIDE DEF p1
  <2>6. p1.start \in Nat /\ p1.start <= now /\ p1.start > 0
    BY <1>3, <2>1, <2>4 DEF CycleTimed
  <2> QED
    BY <2>1, <2>3, <2>4, <2>5, <2>6 DEF ProbeType
<1> HIDE DEF m1, p1
\* The mode and the probe cycle after the competitive mode may have been left
<1>7. ASSUME leaves
      PROVE  /\ mode.on /\ mode.loss_time > 0 /\ mode.smooth > 0
             /\ now - mode.loss_time > 2 * mode.smooth /\ window > mode.last_max
             /\ m2 \in ModeType /\ ~m2.on /\ m2.loss_time = 0 /\ m2.smooth = 0
             /\ p2 \in ProbeType /\ p2.start = now /\ p2.taken = {}
             /\ p2.length >= CycleRtts * MinRtt /\ ~over
  <2>1. /\ mode.on /\ mode.loss_time > 0 /\ mode.smooth > 0
        /\ now - mode.loss_time > 2 * mode.smooth /\ window > mode.last_max
    BY <1>5, <1>7 DEF Leaves
  <2>2. m2 = LeftMode(m1)
    BY <1>7
  <2>3. m2 \in ModeType /\ ~m2.on /\ m2.loss_time = 0 /\ m2.smooth = 0
    BY <1>5, <2>2, LeftModeIs
  <2>4. p2 = [start |-> now, length |-> CycleRtts * min, taken |-> {}]
    <3>1. p2 = Sampled(LeftProbe(p1, min), m2)
      BY <1>7
    <3>2. LeftProbe(p1, min).start = now
      BY DEF LeftProbe
    <3>3. p2 = LeftProbe(p1, min)
      BY <1>3, <3>1, <3>2 DEF Sampled
    <3> QED
      BY <3>3 DEF LeftProbe
  <2>5. p2 \in ProbeType /\ p2.start = now /\ p2.taken = {} /\ p2.length = CycleRtts * min
    BY <1>2, <1>3, <2>4 DEF ProbeType
  <2>6. ~over
    BY <1>2, <1>3, <2>5 DEF CycleOver
  <2> QED
    BY <1>2, <2>1, <2>3, <2>5, <2>6
<1>8. ASSUME ~leaves
      PROVE  /\ m2 = m1
             /\ p2 \in ProbeType /\ p2.start = p1.start /\ p2.length = p1.length
             /\ p2.taken \subseteq probe.taken \cup {mode.on}
             /\ over => p2.taken # {}
  <2>1. m2 = m1 /\ p2 = Sampled(p1, m1)
    BY <1>8
  <2>2. CASE p1.start < now
    <3>1. p2 = [p1 EXCEPT !.taken = @ \cup {m1.on}]
      BY <2>1, <2>2 DEF Sampled
    <3>2. /\ p2 \in ProbeType /\ p2.start = p1.start /\ p2.length = p1.length
          /\ p2.taken = p1.taken \cup {m1.on}
      BY <1>4, <1>5, <1>6, <3>1 DEF ProbeType
    <3> QED
      BY <1>5, <1>6, <2>1, <3>2
  <2>3. CASE ~(p1.start < now)
    <3>1. p2 = p1
      BY <2>1, <2>3 DEF Sampled
    <3>2. p1.start \in Nat /\ p1.length \in Nat
      BY <1>6 DEF ProbeType
    <3>3. ~over
      BY <1>3, <2>3, <3>1, <3>2 DEF CycleOver
    <3> QED
      BY <1>6, <2>1, <3>1, <3>3
  <2> QED
    BY <2>2, <2>3
<1> HIDE DEF leaves, m2, p2, over
<1> DEFINE jumps == Jumped(competition)
           w3 == Window3(competition, jump)
           m3 == Mode3(competition, jump)
           cut == CutOf(m3)
<1>9. w3 \in Nat /\ w3 >= 2 /\ (~competition => w3 = window)
  BY <1>3 DEF MaxOf
<1>10. m2 \in ModeType /\ p2 \in ProbeType /\ p2.length >= CycleRtts * MinRtt /\ p2.start <= now
  BY <1>5, <1>6, <1>7, <1>8, <1>3
<1>11. m3 \in ModeType
  BY <1>3, <1>9, <1>10, EnteredIs
\* Competition is only found at the end of a cycle of the default mode.
<1>12. competition => judged
  OBVIOUS
<1>13. competition =>
         /\ ~mode.on /\ ~leaves /\ over
         /\ m3.on /\ m3.loss_time = now /\ m3.smooth = mode.smooth
  <2> SUFFICES ASSUME competition
               PROVE  /\ ~mode.on /\ ~leaves /\ over
                      /\ m3.on /\ m3.loss_time = now /\ m3.smooth = mode.smooth
    OBVIOUS
  <2>1. over /\ ~m2.on
    BY <1>12
  <2>2. ~leaves /\ m2 = m1
    BY <1>7, <1>8, <2>1
  <2>3. m3 = Entered(m2, w3)
    OBVIOUS
  <2> HIDE DEF m3, w3
  <2>4. m3.on /\ m3.loss_time = now /\ m3.smooth = m2.smooth
    BY <1>3, <1>9, <1>10, <2>3, EnteredIs
  <2> QED
    BY <1>5, <2>1, <2>2, <2>4
<1>14. ~competition => m3 = m2 /\ w3 = window
  BY <1>9
<1> HIDE DEF w3, m3, jumps, Jumped, Window3, Mode3
<1>15. PICK moved \in IF steady THEN Moves(w3, m3.on, rtt > min)
                      ELSE {[window |-> w3, slow_start |-> slow_start]} :
         /\ min_rtt' = min
         /\ default_delta' = (default_delta \/ (judged /\ ~jumps))
         /\ probe' = IF ~over THEN p2
                     ELSE [start |-> now, taken |-> {},
                           length |-> IF judged /\ ~jumps THEN CycleRtts * min ELSE p2.length]
         /\ slow_start' = moved.slow_start
         /\ mode' = IF cut THEN CutMode(m3, moved.window) ELSE m3
         /\ window' = IF cut THEN CutWindow(moved.window) ELSE moved.window
         /\ paced' = IF cut THEN PacedByCut(moved.window)
                     ELSE IF steady THEN moved.window ELSE paced
         /\ divided' = (divided \/ (over /\ p2.taken = {}) \/ (cut /\ ~m3.rtts))
         /\ num_acked' = MinOf(num_acked + 1, ProbeAcks)
         /\ cuts' = IF cut THEN cuts + 1 ELSE cuts
         /\ dwell' = IF mode'.on = mode.on THEN dwell ELSE 0
  BY <1>1 DEF w3, m3, jumps
<1> DEFINE w4 == moved.window
<1>16. w4 \in Nat /\ w4 >= 2 /\ moved.slow_start \in BOOLEAN /\ (~steady => w4 = w3)
  <2>1. CASE steady
    <3> DEFINE queue == rtt > min
    <3>1. moved \in Moves(w3, m3.on, queue)
      BY <2>1
    <3>2. queue \in BOOLEAN
      OBVIOUS
    <3> HIDE DEF queue, min, cut
    <3>3. moved.window \in Nat /\ moved.window >= 2 /\ moved.slow_start \in BOOLEAN
      BY <1>3, <1>9, <3>1, <3>2, MovesTyped
    <3> QED
      BY <2>1, <3>3
  <2>2. CASE ~steady
    BY <1>3, <1>9, <2>2
  <2> QED
    BY <2>1, <2>2
<1>17. cut \in BOOLEAN /\ (cut => m3.on /\ lost /\ now - m3.loss_time > rtt)
  <2>1. m3.on \in BOOLEAN
    BY <1>11 DEF ModeType
  <2> QED
    BY <2>1 DEF Heeds
<1> HIDE DEF w4, cut, steady
<1>18. /\ mode' = (IF cut THEN CutMode(m3, w4) ELSE m3)
       /\ window' = (IF cut THEN CutWindow(w4) ELSE w4)
       /\ cuts' = (IF cut THEN cuts + 1 ELSE cuts)
       /\ num_acked' = MinOf(num_acked + 1, ProbeAcks)
       /\ min_rtt' \in Nat /\ min_rtt' >= MinRtt /\ slow_start' \in BOOLEAN
  BY <1>2, <1>15, <1>16 DEF w4
<1>19. default_delta' \in BOOLEAN
  BY <1>3, <1>15
<1>20. paced' = IF cut \/ steady THEN window' ELSE paced
  BY <1>15, <1>18 DEF PacedByCut, w4
<1>21. mode'.on = m3.on
  <2>1. CASE cut
    <3>1. m3.loss_time \in Nat /\ m3.loss_time < now
      BY <1>2, <1>3, <1>11, <1>17, <2>1 DEF ModeType
    <3> QED
      BY <1>3, <1>11, <1>16, <1>18, <2>1, <3>1, CutModeIs
  <2>2. CASE ~cut
    BY <1>18, <2>2
  <2> QED
    BY <2>1, <2>2
<1>22. dwell' = IF m3.on = mode.on THEN dwell ELSE 0
  BY <1>15, <1>21
<1>23. divided' = (divided \/ (cut /\ ~m3.rtts))
  <2>1. over => p2.taken # {}
    BY <1>7, <1>8
  <2> QED
    BY <1>15, <2>1
<1>24. /\ probe' \in ProbeType /\ LongEnough(probe'.length) /\ probe'.start <= now
       /\ over => probe'.start = now /\ probe'.taken = {}
       /\ ~over => probe' = p2
  <2>1. CASE over
    <3>1. PICK l \in {CycleRtts * min, p2.length} :
            probe' = [start |-> now, taken |-> {}, length |-> l]
      BY <1>15, <2>1
    <3>2. l \in Nat /\ l >= CycleRtts * MinRtt
      BY <1>2, <1>10, <3>1 DEF ProbeType
    <3> QED
      BY <1>3, <2>1, <3>1, <3>2 DEF ProbeType, LongEnough
  <2>2. CASE ~over
    BY <1>10, <1>15, <2>2 DEF LongEnough
  <2> QED
    BY <2>1, <2>2
<1>25. Leaving(m3, w3) \/ Entering(m3) \/ Staying(m3, w3)
  <2>1. CASE leaves
    BY <1>7, <1>12, <1>13, <1>14, <1>24, <2>1 DEF Leaving
  <2>2. CASE competition
    <3>1. probe.start # 0 /\ p1.start = probe.start
      BY <1>3, <1>6, <1>8, <1>10, <1>13, <2>2 DEF over, CycleOver, ProbeType
    <3>2. p1.length \in Nat /\ p1.length >= CycleRtts * MinRtt /\ probe.start + p1.length < now
      BY <1>3, <1>6, <1>8, <1>13, <2>2, <3>1 DEF over, CycleOver, ProbeType
    <3> QED
      BY <1>13, <1>24, <2>2, <3>1, <3>2 DEF Entering
  <2>3. CASE ~leaves /\ ~competition
    <3>1. m3 = m1 /\ w3 = window
      BY <1>8, <1>14, <2>3
    <3>2. probe'.start = now \/ (probe'.start = probe.start /\ probe.start # 0)
      BY <1>6, <1>8, <1>24, <2>3
    <3>3. probe'.taken \subseteq probe.taken \cup {mode.on}
      BY <1>8, <1>24, <2>3
    <3> QED
      BY <1>5, <3>1, <3>2, <3>3 DEF Staying
  <2> QED
    BY <2>1, <2>2, <2>3
<1>26. paced' = IF cut \/ num_acked >= ProbeAcks THEN window' ELSE paced
  BY <1>20 DEF steady
<1>27. num_acked < ProbeAcks => w4 = w3
  BY <1>3, <1>16 DEF steady, ProbeAcks
<1>28. now > 0 /\ rtt >= MinRtt /\ (cut => m3.on /\ now - m3.loss_time > rtt)
  BY <1>2, <1>3, <1>17
<1>29. Outcome(rtt, m3, w3, w4, cut)
  BY <1>9, <1>11, <1>16, <1>17, <1>18, <1>19, <1>22, <1>23, <1>24, <1>25, <1>26, <1>27, <1>28,
     Zenon DEF Outcome
<1> QED
  BY <1>9, <1>11, <1>16, <1>17, <1>29

------------------------------------------------------------------------------
(* Invariance *)

LEMMA ModeFields ==
  ASSUME NEW m \in ModeType
  PROVE  /\ m.on \in BOOLEAN /\ m.loss_time \in Nat /\ m.smooth \in Nat
         /\ m.last_max \in Nat /\ m.rtts \in BOOLEAN
  BY DEF ModeType

LEMMA InitIInv == Init => IInv
<1> SUFFICES ASSUME Init PROVE IInv
  OBVIOUS
<1>1. Settled \in Nat
  BY SettledIsLate
<1>2. TypeOK
  <2>1. utility_mode \in UtilityModes /\ default_delta \in BOOLEAN /\ slow_start \in BOOLEAN
    BY DEF Init
  <2>2. probe \in ProbeType /\ mode \in ModeType
    BY DEF Init, ProbeType, ModeType, NeverCompeted, FreshProbe
  <2>3. /\ flow = 1 /\ now = 0 /\ min_rtt = init_min_rtt /\ window = num_probe_pkts /\ paced = 0
        /\ num_acked = 0 /\ divided = FALSE /\ dwell = 0 /\ cuts = 0
    BY DEF Init
  <2>4. num_acked \in 0 .. ProbeAcks /\ dwell \in 0 .. Settled
    BY <1>1, <2>3 DEF ProbeAcks
  <2> QED
    BY <2>1, <2>2, <2>3, <2>4 DEF TypeOK, ProbeType, ModeType
<1>3. CycleTimed /\ LossTimed /\ ProbingPaced /\ CutsTimed
  BY DEF Init, CycleTimed, LossTimed, ProbingPaced, CutsTimed, NeverCompeted, FreshProbe
<1>4. PacedByWindow /\ JudgesDefaultOnly /\ NeverDividesByZero
  BY DEF Init, PacedByWindow, JudgesDefaultOnly, NeverDividesByZero, FreshProbe
<1>5. CutsAreSpaced
  BY DEF Init, CutsAreSpaced
<1> QED
  BY <1>2, <1>3, <1>4, <1>5 DEF IInv

\* init() keeps what is timed by the mode.
LEMMA InitFlowKeeps ==
  ASSUME IInv, init, flow' \in Nat, now' \in Nat, now' <= now, cuts' \in Nat,
         cuts' = 0 \/ (cuts' = cuts /\ now' = now)
  PROVE  IInv'
<1> USE DEF init
<1>1. TypeOK'
  BY DEF IInv, TypeOK, FreshProbe, ProbeAcks
<1>2. now \in Nat /\ mode \in ModeType /\ dwell \in Nat /\ Settled' = Settled
  BY SettledIsLate DEF IInv, TypeOK, ModeType, Settled, MaxOf
<1>3. CycleTimed'
  BY <1>2 DEF IInv, CycleTimed, FreshProbe
<1>4. LossTimed'
  BY <1>2, ModeFields DEF IInv, LossTimed
<1>5. ProbingPaced' /\ PacedByWindow' /\ JudgesDefaultOnly' /\ NeverDividesByZero'
  BY DEF IInv, ProbingPaced, PacedByWindow, JudgesDefaultOnly, NeverDividesByZero, FreshProbe
<1>6. CutsTimed' /\ CutsAreSpaced'
  <2>1. CASE cuts' = 0
    <3>1. cuts' * (MinRtt + 1) = 0
      BY <2>1
    <3> QED
      BY <1>2, <2>1, <3>1 DEF CutsTimed, CutsAreSpaced
  <2>2. CASE cuts' = cuts /\ now' = now
    BY <2>2 DEF IInv, CutsTimed, CutsAreSpaced
  <2> QED
    BY <2>1, <2>2
<1> QED
  BY <1>1, <1>3, <1>4, <1>5, <1>6 DEF IInv

LEMMA TickKeeps ==
  ASSUME IInv, Tick
  PROVE  IInv'
<1> USE DEF Tick
<1>1. /\ now \in Nat /\ mode \in ModeType /\ dwell \in Nat /\ Settled' = Settled /\ Settled \in Nat
      /\ dwell' = (IF dwell < Settled THEN dwell + 1 ELSE Settled) /\ dwell <= Settled
      /\ probe.start \in Nat /\ cuts \in Nat /\ now' = now + 1
  BY SettledIsLate DEF IInv, TypeOK, ModeType, MinOf, Settled
<1>2. TypeOK'
  BY <1>1 DEF IInv, TypeOK, config
<1>3. CycleTimed'
  BY <1>1 DEF IInv, CycleTimed
<1>4. LossTimed'
  BY <1>1, ModeFields DEF IInv, LossTimed
<1>5. ProbingPaced' /\ PacedByWindow' /\ JudgesDefaultOnly' /\ NeverDividesByZero' /\ CutsTimed'
  BY DEF IInv, ProbingPaced, PacedByWindow, JudgesDefaultOnly, NeverDividesByZero, CutsTimed
<1>6. CutsAreSpaced'
  <2>1. cuts * (MinRtt + 1) \in Nat
    BY <1>1, MulNat
  <2> QED
    BY <1>1, <2>1 DEF IInv, CutsAreSpaced
<1> QED
  BY <1>2, <1>3, <1>4, <1>5, <1>6 DEF IInv

\* An ack keeps the invariant.
LEMMA AckKeepsTypes ==
  ASSUME IInv, NEW rtt \in Nat, NEW m3 \in ModeType, NEW w3 \in Nat, NEW w4 \in Nat,
         NEW cut \in BOOLEAN, Outcome(rtt, m3, w3, w4, cut), UNCHANGED <<config, now>>
  PROVE  /\ TypeOK' /\ mode' \in ModeType /\ mode'.on = m3.on
         /\ cut => mode'.loss_time = now /\ mode'.last_max = w4
                   /\ mode'.smooth = IF m3.smooth = 0 THEN now - m3.loss_time
                                     ELSE (m3.smooth + (now - m3.loss_time)) \div 2
<1>1. /\ now \in Nat /\ dwell \in Nat /\ dwell <= Settled /\ Settled \in Nat /\ Settled' = Settled
      /\ window \in Nat /\ paced \in Nat /\ cuts \in Nat /\ divided \in BOOLEAN
      /\ num_acked \in Nat /\ ProbeAcks \in Nat /\ ProbeAcks' = ProbeAcks
  BY SettledIsLate DEF IInv, TypeOK, Settled, ProbeAcks
<1>2. m3.on \in BOOLEAN /\ m3.loss_time \in Nat /\ m3.smooth \in Nat /\ m3.rtts \in BOOLEAN
  BY ModeFields
<1>3. cut => m3.loss_time < now
  BY <1>1, <1>2 DEF Outcome
<1>4. /\ mode' \in ModeType /\ mode'.on = m3.on
      /\ cut => mode'.loss_time = now /\ mode'.last_max = w4
                /\ mode'.smooth = IF m3.smooth = 0 THEN now - m3.loss_time
                                  ELSE (m3.smooth + (now - m3.loss_time)) \div 2
  <2>1. CASE cut
    <3>1. mode' = CutMode(m3, w4)
      BY <2>1 DEF Outcome
    <3> QED
      BY <1>1, <1>3, <2>1, <3>1, CutModeIs
  <2>2. CASE ~cut
    BY <2>2 DEF Outcome
  <2> QED
    BY <2>1, <2>2
<1>5. window' \in Nat /\ window' >= 2 /\ paced' \in Nat
  BY <1>1, CutShrinks DEF Outcome
<1>6. num_acked' \in 0 .. ProbeAcks' /\ dwell' \in 0 .. Settled' /\ cuts' \in Nat
  BY <1>1 DEF Outcome, MinOf
<1>7. divided' \in BOOLEAN
  BY <1>1, <1>2 DEF Outcome
<1>8. /\ min_rtt' \in Nat /\ min_rtt' >= MinRtt /\ probe' \in ProbeType
      /\ default_delta' \in BOOLEAN /\ slow_start' \in BOOLEAN
  BY DEF Outcome
<1>9. utility_mode' \in UtilityModes /\ flow' \in Nat /\ now' \in Nat
  BY DEF IInv, TypeOK, config
<1>10. TypeOK'
  BY <1>4, <1>5, <1>6, <1>7, <1>8, <1>9 DEF TypeOK, ModeType, ProbeType
<1> QED
  BY <1>4, <1>10

LEMMA AckKeepsCycleTimed ==
  ASSUME IInv, NEW rtt \in Nat, NEW m3 \in ModeType, NEW w3 \in Nat, NEW w4 \in Nat,
         NEW cut \in BOOLEAN, Outcome(rtt, m3, w3, w4, cut), UNCHANGED <<config, now>>
  PROVE  CycleTimed'
<1>1. /\ now \in Nat /\ now' = now /\ dwell \in Nat /\ Settled' = Settled /\ probe.start \in Nat
      /\ mode.on \in BOOLEAN /\ m3.on \in BOOLEAN
  BY ModeFields DEF IInv, TypeOK, Settled
<1>2. probe'.start \in Nat /\ probe'.start <= now /\ LongEnough(probe'.length)
  BY DEF Outcome, ProbeType
<1>3. mode'.on = m3.on /\ dwell' \in Nat
  BY AckKeepsTypes DEF TypeOK
<1>4. ~mode'.on /\ probe'.start # 0 /\ dwell' < Settled => now - probe'.start <= dwell'
  <2>1. CASE probe'.start = now
    BY <1>1, <1>3, <2>1
  <2>2. CASE probe'.start # now
    <3>1. Staying(m3, w3)
      BY <2>2 DEF Outcome, Leaving, Entering
    <3>2. m3.on = mode.on /\ probe'.start = probe.start /\ dwell' = dwell
      BY <2>2, <3>1 DEF Staying, Outcome
    <3> QED
      BY <1>1, <1>3, <3>2 DEF IInv, CycleTimed
  <2> QED
    BY <2>1, <2>2
<1> QED
  BY <1>1, <1>2, <1>4 DEF CycleTimed, LongEnough

\* The time in a mode when it is left
LEMMA DwellsLong ==
  ASSUME IInv, NEW m3 \in ModeType, NEW w3 \in Nat
  PROVE  /\ Leaving(m3, w3) => dwell > 3 * MinRtt
         /\ Entering(m3) => dwell > CycleRtts * MinRtt
<1>1. /\ now \in Nat /\ dwell \in Nat /\ dwell <= Settled /\ Settled \in Nat
      /\ mode.on \in BOOLEAN /\ mode.loss_time \in Nat /\ mode.smooth \in Nat /\ probe.start \in Nat
  BY SettledIsLate DEF IInv, TypeOK
<1>2. ASSUME Leaving(m3, w3) PROVE dwell > 3 * MinRtt
  <2>1. mode.on /\ mode.smooth # 0 /\ now - mode.loss_time > 2 * mode.smooth
    BY <1>1, <1>2 DEF Leaving
  <2>2. mode.smooth > MinRtt
    BY <2>1 DEF IInv, LossTimed
  <2>3. CASE dwell < Settled
    <3>1. (now - mode.loss_time) + MinRtt < dwell
      BY <2>1, <2>3 DEF IInv, LossTimed
    <3> QED
      BY <1>1, <2>1, <2>2, <3>1
  <2>4. CASE ~(dwell < Settled)
    BY <1>1, <2>4, SettledIsLate
  <2> QED
    BY <2>3, <2>4
<1>3. ASSUME Entering(m3) PROVE dwell > CycleRtts * MinRtt
  <2> DEFINE C == CycleRtts * MinRtt
  <2>1. C \in Nat /\ Settled > C
    BY MulNat, SettledIsLate
  <2>2. PICK length \in Nat : length >= C /\ probe.start + length < now
    BY <1>3 DEF Entering
  <2>3. dwell < Settled => now - probe.start <= dwell
    BY <1>3 DEF Entering, IInv, CycleTimed
  <2> HIDE DEF C
  <2>4. dwell > C
    BY <1>1, <2>1, <2>2, <2>3
  <2> QED
    BY <2>4 DEF C
<1> QED
  BY <1>2, <1>3

LEMMA AckKeepsLossTimed ==
  ASSUME IInv, NEW rtt \in Nat, NEW m3 \in ModeType, NEW w3 \in Nat, NEW w4 \in Nat,
         NEW cut \in BOOLEAN, Outcome(rtt, m3, w3, w4, cut), UNCHANGED <<config, now>>
  PROVE  LossTimed'
<1>1. /\ now \in Nat /\ now' = now /\ dwell \in Nat /\ Settled' = Settled /\ Settled \in Nat
      /\ mode.on \in BOOLEAN /\ mode.loss_time \in Nat /\ mode.smooth \in Nat
      /\ m3.on \in BOOLEAN /\ m3.loss_time \in Nat /\ m3.smooth \in Nat /\ rtt >= MinRtt
  BY SettledIsLate, ModeFields DEF IInv, TypeOK, ModeType, Outcome, Settled
\* What LossTimed says of a mode, entered so long ago
<1> DEFINE Timed(m, d) ==
             /\ ~m.on => m.loss_time = 0 /\ m.smooth = 0
             /\ m.on /\ m.smooth = 0 /\ d < Settled => now - m.loss_time <= d
             /\ m.on /\ m.smooth # 0 =>
                   /\ m.smooth > MinRtt
                   /\ d < Settled => (now - m.loss_time) + MinRtt < d
<1>2. Timed(mode, dwell)
  BY DEF IInv, LossTimed
<1>3. dwell' \in Nat
  BY AckKeepsTypes DEF TypeOK
<1>4. Timed(m3, dwell')
  <2>1. CASE Leaving(m3, w3)
    BY <2>1 DEF Leaving
  <2>2. CASE Entering(m3)
    <3>1. m3.on /\ m3.loss_time = now /\ m3.smooth = 0
      BY <1>2, <2>2 DEF Entering
    <3> QED
      BY <1>1, <1>3, <3>1
  <2>3. CASE Staying(m3, w3)
    <3>1. /\ m3.on = mode.on /\ m3.loss_time = mode.loss_time /\ m3.smooth = mode.smooth
          /\ dwell' = dwell
      BY <2>3 DEF Staying, Outcome
    <3> QED
      BY <1>2, <3>1
  <2> QED
    BY <2>1, <2>2, <2>3 DEF Outcome
<1>5. Timed(mode', dwell')
  <2>1. CASE ~cut
    BY <1>4, <2>1 DEF Outcome
  <2>2. CASE cut
    <3>1. /\ mode'.on = m3.on /\ mode'.loss_time = now
          /\ mode'.smooth = IF m3.smooth = 0 THEN now - m3.loss_time
                            ELSE (m3.smooth + (now - m3.loss_time)) \div 2
      BY <2>2, AckKeepsTypes
    <3>2. m3.on /\ now - m3.loss_time > MinRtt
      <4>1. m3.on /\ now - m3.loss_time > rtt
        BY <2>2 DEF Outcome
      <4> QED
        BY <1>1, <4>1
    <3>3. mode'.smooth \in Nat /\ mode'.smooth > MinRtt
      <4>1. mode'.smooth > MinRtt
        BY <1>1, <1>4, <3>1, <3>2
      <4>2. mode' \in ModeType
        BY AckKeepsTypes
      <4> QED
        BY <4>1, <4>2, ModeFields
    <3>4. dwell' < Settled => MinRtt < dwell'
      BY <1>1, <1>3, <1>4, <3>2
    <3>5. mode'.on /\ mode'.smooth # 0 /\ now - mode'.loss_time = 0
      BY <1>1, <3>1, <3>2, <3>3
    <3> QED
      BY <1>1, <1>3, <3>3, <3>4, <3>5
  <2> QED
    BY <2>1, <2>2
<1> QED
  BY <1>1, <1>5 DEF LossTimed

LEMMA AckKeepsPacing ==
  ASSUME IInv, NEW rtt \in Nat, NEW m3 \in ModeType, NEW w3 \in Nat, NEW w4 \in Nat,
         NEW cut \in BOOLEAN, Outcome(rtt, m3, w3, w4, cut), UNCHANGED <<config, now>>
  PROVE  PacedByWindow' /\ ProbingPaced'
<1>1. /\ num_acked \in Nat /\ ProbeAcks \in Nat /\ ProbeAcks' = ProbeAcks /\ paced \in Nat
      /\ window \in Nat /\ mode.on \in BOOLEAN /\ mode.last_max \in Nat
  BY DEF IInv, TypeOK, ProbeAcks
<1>2. CASE cut \/ num_acked >= ProbeAcks
  <2>1. paced' = window'
    BY <1>2 DEF Outcome
  <2>2. num_acked < ProbeAcks =>
          mode'.on /\ mode'.last_max = w4 /\ window' \in Nat /\ window' <= w4
    BY <1>1, <1>2, CutShrinks, AckKeepsTypes DEF Outcome
  <2>3. num_acked' < ProbeAcks => num_acked < ProbeAcks
    BY <1>1 DEF Outcome, MinOf
  <2> QED
    BY <1>1, <2>1, <2>2, <2>3 DEF PacedByWindow, ProbingPaced
<1>3. CASE ~cut /\ num_acked < ProbeAcks
  <2>1. paced' = paced /\ window' = w3 /\ mode' = m3
    BY <1>1, <1>3 DEF Outcome
  <2>2. CASE paced = 0
    BY <2>1, <2>2 DEF PacedByWindow, ProbingPaced
  <2>3. CASE paced # 0
    <3>1. mode.on /\ window <= mode.last_max /\ paced = window
      BY <1>3, <2>3 DEF IInv, ProbingPaced, PacedByWindow
    <3>2. Staying(m3, w3)
      BY <1>1, <3>1 DEF Outcome, Leaving, Entering
    <3>3. w3 = window /\ m3.on /\ m3.last_max = mode.last_max
      BY <3>1, <3>2 DEF Staying
    <3> QED
      BY <2>1, <3>1, <3>3 DEF PacedByWindow, ProbingPaced
  <2> QED
    BY <2>2, <2>3
<1> QED
  BY <1>1, <1>2, <1>3

LEMMA AckKeepsSamples ==
  ASSUME IInv, NEW rtt \in Nat, NEW m3 \in ModeType, NEW w3 \in Nat, NEW w4 \in Nat,
         NEW cut \in BOOLEAN, Outcome(rtt, m3, w3, w4, cut), UNCHANGED <<config, now>>
  PROVE  JudgesDefaultOnly' /\ NeverDividesByZero'
<1>1. JudgesDefaultOnly'
  <2>1. mode'.on = m3.on
    BY AckKeepsTypes
  <2>2. CASE probe'.taken = {}
    BY <2>2 DEF JudgesDefaultOnly
  <2>3. CASE probe'.taken # {}
    <3>1. Staying(m3, w3)
      BY <2>3 DEF Outcome, Leaving, Entering
    <3>2. m3.on = mode.on /\ probe'.taken \subseteq probe.taken \cup {mode.on}
      BY <3>1 DEF Staying
    <3> QED
      BY <2>1, <3>2 DEF IInv, JudgesDefaultOnly
  <2> QED
    BY <2>2, <2>3
<1>2. NeverDividesByZero'
  <2>1. /\ now \in Nat /\ m3.loss_time \in Nat /\ m3.rtts \in BOOLEAN /\ ~divided
        /\ mode.on \in BOOLEAN /\ rtt \in Nat
    BY ModeFields DEF IInv, TypeOK, NeverDividesByZero
  <2>2. CASE ~cut
    BY <2>1, <2>2 DEF Outcome, NeverDividesByZero
  <2>3. CASE cut
    <3>1. m3.on /\ now - m3.loss_time > rtt
      BY <2>3 DEF Outcome
    <3>2. Staying(m3, w3)
      BY <2>1, <3>1 DEF Outcome, Leaving, Entering
    <3>3. m3.rtts
      BY <3>1, <3>2 DEF Staying
    <3> QED
      BY <2>1, <3>3 DEF Outcome, NeverDividesByZero
  <2> QED
    BY <2>2, <2>3
<1> QED
  BY <1>1, <1>2

LEMMA AckKeepsCuts ==
  ASSUME IInv, NEW rtt \in Nat, NEW m3 \in ModeType, NEW w3 \in Nat, NEW w4 \in Nat,
         NEW cut \in BOOLEAN, Outcome(rtt, m3, w3, w4, cut), UNCHANGED <<config, now>>
  PROVE  CutsTimed' /\ CutsAreSpaced'
<1>1. /\ now \in Nat /\ now' = now /\ cuts \in Nat /\ m3.loss_time \in Nat /\ rtt >= MinRtt
      /\ mode.on \in BOOLEAN /\ m3.on \in BOOLEAN
  BY ModeFields DEF IInv, TypeOK, Outcome
<1> DEFINE Spent == cuts * (MinRtt + 1)
           Spent1 == (cuts + 1) * (MinRtt + 1)
<1>2. Spent \in Nat /\ Spent <= now /\ Spent1 = Spent + (MinRtt + 1) /\ (cuts = 0 => Spent = 0)
  <2>1. cuts = 0 => Spent = 0
    OBVIOUS
  <2> QED
    BY <1>1, <2>1, MulNat, OneMoreCut DEF IInv, CutsAreSpaced
<1>3. mode.on /\ cuts # 0 => Spent <= mode.loss_time
  BY DEF IInv, CutsTimed
<1>4. m3.on => Spent <= m3.loss_time \/ cuts = 0
  <2>1. CASE Leaving(m3, w3)
    BY <2>1 DEF Leaving
  <2>2. CASE Entering(m3)
    BY <1>2, <2>2 DEF Entering
  <2>3. CASE Staying(m3, w3)
    BY <1>3, <2>3 DEF Staying
  <2> QED
    BY <2>1, <2>2, <2>3 DEF Outcome
<1> HIDE DEF Spent, Spent1
<1>5. CASE cut
  <2>1. m3.on /\ now - m3.loss_time > rtt /\ cuts' = cuts + 1
    BY <1>5 DEF Outcome
  <2>2. Spent1 <= now
    BY <1>1, <1>2, <1>4, <2>1
  <2>3. mode'.loss_time = now
    BY <1>5, AckKeepsTypes
  <2>4. cuts' * (MinRtt + 1) = Spent1
    BY <2>1 DEF Spent1
  <2> QED
    BY <1>1, <2>2, <2>3, <2>4 DEF CutsTimed, CutsAreSpaced
<1>6. CASE ~cut
  <2>1. cuts' = cuts /\ mode' = m3
    BY <1>6 DEF Outcome
  <2>2. cuts' * (MinRtt + 1) = Spent
    BY <2>1 DEF Spent
  <2> QED
    BY <1>1, <1>2, <1>4, <2>1, <2>2 DEF CutsTimed, CutsAreSpaced
<1> QED
  BY <1>5, <1>6

LEMMA AckKeeps ==
  ASSUME IInv, Ack
  PROVE  IInv'
<1>1. PICK latest \in Rtt, rtt \in Rtt, lost \in BOOLEAN :
        /\ latest <= now /\ MinRttAfter(latest) <= rtt
        /\ onACK(latest, rtt, lost)
  BY DEF Ack
<1>2. PICK m3 \in ModeType, w3 \in Nat, w4 \in Nat, cut \in BOOLEAN :
        Outcome(rtt, m3, w3, w4, cut)
  BY <1>1, AckOutcome DEF IInv
<1>3. rtt \in Nat /\ UNCHANGED <<config, now>>
  BY DEF Ack
<1>4. TypeOK' /\ CycleTimed' /\ LossTimed'
  BY <1>2, <1>3, AckKeepsTypes, AckKeepsCycleTimed, AckKeepsLossTimed
<1>5. ProbingPaced' /\ PacedByWindow' /\ JudgesDefaultOnly' /\ NeverDividesByZero'
  BY <1>2, <1>3, AckKeepsPacing, AckKeepsSamples
<1>6. CutsTimed' /\ CutsAreSpaced'
  BY <1>2, <1>3, AckKeepsCuts
<1> QED
  BY <1>4, <1>5, <1>6 DEF IInv

LEMMA StepIInv == IInv /\ [Next]_vars => IInv'
<1> SUFFICES ASSUME IInv, [Next]_vars PROVE IInv'
  OBVIOUS
<1>1. flow \in Nat /\ now \in Nat /\ cuts \in Nat
  BY DEF IInv, TypeOK
<1>2. CASE StartFlow
  <2>1. init /\ flow' \in Nat /\ now' = 0 /\ cuts' = 0
    BY <1>1, <1>2 DEF StartFlow
  <2> QED
    BY <1>1, <2>1, InitFlowKeeps
<1>3. CASE AckTimeout
  <2>1. init /\ flow' \in Nat /\ now' = now /\ cuts' = cuts
    BY <1>1, <1>3 DEF AckTimeout
  <2> QED
    BY <1>1, <2>1, InitFlowKeeps
<1>4. CASE Ack
  BY <1>4, AckKeeps
<1>5. CASE Tick
  BY <1>5, TickKeeps
<1>6. CASE UNCHANGED vars
  BY <1>6 DEF vars, config, IInv, TypeOK, CycleTimed, LossTimed, ProbingPaced, CutsTimed,
              PacedByWindow, JudgesDefaultOnly, NeverDividesByZero, CutsAreSpaced,
              Settled, ProbeAcks
<1> QED
  BY <1>2, <1>3, <1>4, <1>5, <1>6 DEF Next

\* The invariant of the controller holds in every reachable state.
THEOREM Invariance == Spec => []IInv
  BY InitIInv, StepIInv, PTL DEF Spec

\* Every variable has its type, whatever acks, losses, timeouts and new flows
\* come: min_rtt stays a possible RTT and the window at least two packets.
THEOREM TypeCorrect == Spec => []TypeOK
<1>1. IInv => TypeOK
  BY DEF IInv
<1> QED
  BY <1>1, Invariance, PTL

\* What update_intersend_time() and the cut of onACK() leave in
\* cur_intersend_time belongs to the window, also while the first RTTs probe.
THEOREM Pacing == Spec => []PacedByWindow
<1>1. IInv => PacedByWindow
  BY DEF IInv
<1> QED
  BY <1>1, Invariance, PTL

\* FFT() is given samples of the default mode only.
THEOREM Judging == Spec => []JudgesDefaultOnly
<1>1. IInv => JudgesDefaultOnly
  BY DEF IInv
<1> QED
  BY <1>1, Invariance, PTL

\* onACK() divides neither by P_cnt = 0 nor by RTTcount = 0.
THEOREM Defined == Spec => []NeverDividesByZero
<1>1. IInv => NeverDividesByZero
  BY DEF IInv
<1> QED
  BY <1>1, Invariance, PTL

\* onACK() cuts the window at most once per RTT of a flow.
THEOREM Cutting == Spec => []CutsAreSpaced
<1>1. IInv => CutsAreSpaced
  BY DEF IInv
<1> QED
  BY <1>1, Invariance, PTL

\* The controller implements ModeSwitch: a change of compete_mode comes only
\* after the time that the mode has to last.
THEOREM NoFlutter == Spec => DoesNotFlutter
<1>1. Init => Switch!Init
  BY DEF Init, Switch!Init, NeverCompeted
<1>2. IInv /\ [Next]_vars => [Switch!Next]_(Switch!vars)
  <2> SUFFICES ASSUME IInv, [Next]_vars PROVE [Switch!Next]_(Switch!vars)
    OBVIOUS
  <2> USE DEF Switch!Next, Switch!vars
  <2>1. dwell \in Nat /\ Settled \in Nat /\ dwell <= Settled /\ mode.on \in BOOLEAN
    BY SettledIsLate DEF IInv, TypeOK
  <2>2. CASE StartFlow \/ AckTimeout
    BY <2>2 DEF StartFlow, AckTimeout, init
  <2>3. CASE Ack
    <3>1. PICK latest \in Rtt, rtt \in Rtt, lost \in BOOLEAN :
            /\ latest <= now /\ MinRttAfter(latest) <= rtt
            /\ onACK(latest, rtt, lost)
      BY <2>3 DEF Ack
    <3>2. PICK m3 \in ModeType, w3 \in Nat, w4 \in Nat, cut \in BOOLEAN :
            Outcome(rtt, m3, w3, w4, cut)
      BY <3>1, AckOutcome DEF IInv
    <3>3. rtt \in Nat /\ UNCHANGED <<config, now>>
      BY <2>3 DEF Ack
    <3>4. mode'.on = m3.on /\ dwell' = IF m3.on = mode.on THEN dwell ELSE 0
      <4>1. dwell' = IF m3.on = mode.on THEN dwell ELSE 0
        BY <3>2 DEF Outcome
      <4> QED
        BY <3>2, <3>3, <4>1, AckKeepsTypes
    <3>5. CASE Leaving(m3, w3)
      <4>1. mode.on /\ ~m3.on /\ m3.on \in BOOLEAN /\ dwell > 3 * MinRtt
        BY <3>5, DwellsLong, ModeFields DEF Leaving
      <4> QED
        BY <3>4, <4>1 DEF Switch!Leave
    <3>6. CASE Entering(m3)
      <4>1. ~mode.on /\ m3.on /\ dwell > CycleRtts * MinRtt
        BY <3>6, DwellsLong DEF Entering
      <4> QED
        BY <3>4, <4>1 DEF Switch!Enter
    <3>7. CASE Staying(m3, w3)
      BY <3>4, <3>7 DEF Staying
    <3> QED
      BY <3>2, <3>5, <3>6, <3>7 DEF Outcome
  <2>4. CASE Tick
    BY <2>1, <2>4 DEF Tick, Switch!Wait, MinOf
  <2>5. CASE UNCHANGED vars
    BY <2>5 DEF vars
  <2> QED
    BY <2>2, <2>3, <2>4, <2>5 DEF Next
<1> QED
  BY <1>1, <1>2, Invariance, PTL DEF Spec, DoesNotFlutter, Switch!Spec
=============================================================================

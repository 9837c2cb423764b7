----------------------------- MODULE TcpCopaProofs -----------------------------
(***************************************************************************)
(* What holds of the modes of TcpCopa for every RTT, period length and      *)
(* pattern of losses: the default mode lasts, leaving the competition is    *)
(* earned, and the window it regains is its own.                            *)
(***************************************************************************)
EXTENDS TcpCopa, TLAPS

USE TcpCopaAssumption DEF TcpCopaAssumption

\* A period of Check RTTs, each between the least and the greatest
LEMMA Periods ==
  ASSUME NEW min \in Rtt
  PROVE  /\ Check * min \in Nat /\ Check * MinRtt \in Nat /\ Check * MaxRtt \in Nat
         /\ Check * MinRtt <= Check * min /\ Check * min <= Check * MaxRtt
<1>1. \A a, b, c \in Nat : a <= b => c * a <= c * b
  BY SMTT(30)
<1>2. \A a, c \in Nat : c * a \in Nat
  BY SMTT(30)
<1>3. min \in Nat /\ MinRtt <= min /\ min <= MaxRtt
  OBVIOUS
<1> QED
  BY <1>1, <1>2, <1>3

LEMMA InitIInv == Init => IInv
<1> SUFFICES ASSUME Init PROVE IInv
  OBVIOUS
<1>1. TypeOK
  <2>1. /\ now \in Nat \ {0} /\ cWnd \in Nat \ {0}
        /\ m_congState \in {"CA_OPEN", "CA_RECOVERY", "CA_LOSS"}
    BY DEF Init
  <2>2. /\ isSlowStart = TRUE /\ defaultMode = TRUE /\ cpModeInitial = TRUE /\ sampled = FALSE
    BY DEF Init
  <2>3. {isSlowStart, defaultMode, cpModeInitial, sampled} \subseteq BOOLEAN
    BY <2>2
  <2>4. /\ m_Wmax \in Nat /\ m_itv \in Nat /\ peak \in Nat
        /\ tLoss \in 0 .. now /\ tZero \in 0 .. now /\ lastCheck \in 0 .. now
        /\ since \in 1 .. now
        /\ m_RTTstanding \in Nat /\ losses \in 0 .. 2
    BY DEF Init
  <2> QED
    BY <2>1, <2>3, <2>4 DEF TypeOK
<1>2. SamplesOfThisMode /\ LossesKnown /\ WindowsOfThisCompetition
  BY DEF Init, SamplesOfThisMode, LossesKnown, WindowsOfThisCompetition
<1> QED
  BY <1>1, <1>2 DEF IInv

\* What an ack makes of the mode, and the window w it leaves
ModeFlags ==
  /\ isSlowStart \in BOOLEAN /\ defaultMode \in BOOLEAN
  /\ cpModeInitial \in BOOLEAN /\ sampled \in BOOLEAN

ModeNumbers ==
  /\ m_Wmax \in Nat /\ m_itv \in Nat
  /\ tLoss \in 0 .. now /\ tZero \in 0 .. now /\ lastCheck \in 0 .. now
  /\ since \in 1 .. now
  /\ m_RTTstanding \in Nat /\ losses \in 0 .. 2

ModeType == ModeFlags /\ ModeNumbers

LEMMA AckMode ==
  ASSUME IInv, now' = now, NEW w \in 0 .. MaxWindow, PktsAcked(w) \/ NotReported(w)
  PROVE  /\ ModeType' /\ SamplesOfThisMode' /\ LossesKnown'
         /\ w >= cWnd
         /\ ~defaultMode' => \/ ~defaultMode /\ w = cWnd /\ m_Wmax' = m_Wmax
                             \/ defaultMode /\ m_Wmax' = w
<1> DEFINE Goal == /\ ModeType' /\ SamplesOfThisMode' /\ LossesKnown'
                   /\ w >= cWnd
                   /\ ~defaultMode' => \/ ~defaultMode /\ w = cWnd /\ m_Wmax' = m_Wmax
                                       \/ defaultMode /\ m_Wmax' = w
<1>1. /\ ModeType /\ SamplesOfThisMode /\ LossesKnown
      /\ now \in Nat \ {0} /\ cWnd \in Nat \ {0}
  BY DEF IInv, TypeOK, ModeType, ModeFlags, ModeNumbers
<1>2. CASE NotReported(w)
  BY <1>1, <1>2 DEF NotReported, ModeType, ModeFlags, ModeNumbers, SamplesOfThisMode, LossesKnown
<1>3. ASSUME PktsAcked(w) PROVE m_RTTstanding' \in Nat
  BY <1>3 DEF PktsAcked
<1>4. CASE PktsAcked(w) /\ isSlowStart
  BY <1>1, <1>3, <1>4
  DEF PktsAcked, ModeType, ModeFlags, ModeNumbers, SamplesOfThisMode, LossesKnown
<1>5. CASE PktsAcked(w) /\ ~isSlowStart
  <2>1. isSlowStart' = FALSE /\ m_RTTstanding' \in Nat /\ isSlowStart = FALSE
    BY <1>1, <1>3, <1>5 DEF PktsAcked, ModeType, ModeFlags, ModeNumbers
  <2>2. PICK min \in Rtt :
          Collect(min, w) \/ Stay(min, w) \/ Enter(min, w) \/ Compete(min, w) \/ Leave(min, w)
    BY <1>5 DEF PktsAcked, opModeForCopaplus
  <2> DEFINE P == Check * min
             Q == Check * MaxRtt
  <2>3. P \in Nat /\ Q \in Nat /\ P <= Q
    BY Periods
  <2>4. CASE Collect(min, w)
    <3>1. /\ defaultMode /\ now - lastCheck < P /\ sampled' = TRUE /\ w = cWnd
          /\ UNCHANGED <<defaultMode, cpModeInitial, m_Wmax, m_itv, tLoss, tZero, lastCheck,
                         since, losses>>
      <4>1. ~(now - lastCheck >= P)
        BY <2>4 DEF Collect, PeriodOver
      <4>2. now - lastCheck < P
        <5> HIDE DEF P
        <5> QED
          BY <1>1, <2>3, <4>1 DEF ModeType, ModeFlags, ModeNumbers
      <4> QED
        BY <2>4, <4>2 DEF Collect
    <3>2. lastCheck >= since \/ since < Q
      <4> HIDE DEF P, Q
      <4> QED
        BY <1>1, <2>3, <3>1 DEF ModeType, ModeFlags, ModeNumbers, SamplesOfThisMode
    <3>3. Q' = Q
      OBVIOUS
    <3>4. SamplesOfThisMode'
      BY <1>1, <2>1, <3>1, <3>2 DEF SamplesOfThisMode
    <3>5. ModeType'
      <4>1. ModeFlags'
        BY <1>1, <2>1, <3>1 DEF ModeType, ModeFlags
      <4>2. ModeNumbers'
        BY <1>1, <2>1, <3>1 DEF ModeType, ModeNumbers
      <4> QED
        BY <4>1, <4>2 DEF ModeType
    <3>6. LossesKnown' /\ defaultMode' /\ w >= cWnd
      BY <1>1, <3>1 DEF LossesKnown
    <3> QED
      BY <3>4, <3>5, <3>6
  <2>5. CASE Stay(min, w)
    <3>1. /\ w = cWnd /\ sampled' = FALSE /\ lastCheck' = now /\ defaultMode
          /\ UNCHANGED <<defaultMode, cpModeInitial, m_Wmax, m_itv, tLoss, tZero, since, losses>>
      BY <2>5 DEF Stay
    <3>2. ModeType'
      <4>1. ModeFlags'
        BY <1>1, <2>1, <3>1 DEF ModeType, ModeFlags
      <4>2. ModeNumbers'
        BY <1>1, <2>1, <3>1 DEF ModeType, ModeNumbers
      <4> QED
        BY <4>1, <4>2 DEF ModeType
    <3>3. SamplesOfThisMode' /\ LossesKnown' /\ defaultMode' /\ w >= cWnd
      BY <1>1, <2>1, <3>1 DEF ModeType, ModeFlags, ModeNumbers, SamplesOfThisMode, LossesKnown
    <3> QED
      BY <3>2, <3>3
  <2>6. CASE Enter(min, w)
    <3>1. w >= cWnd /\ m_Wmax' = w /\ w \in Nat
      <4>1. PICK estimate \in 0 .. Jump : w = MaxOf(cWnd, estimate)
        BY <2>6 DEF Enter, Begins
      <4>2. w >= cWnd
        BY <1>1, <4>1 DEF MaxOf
      <4> QED
        BY <2>6, <4>2 DEF Enter, Begins
    <3>2. /\ sampled' = FALSE /\ lastCheck' = now /\ since' = now
          /\ defaultMode /\ defaultMode' = FALSE /\ cpModeInitial' = FALSE
          /\ UNCHANGED <<m_itv, tLoss, tZero, losses>>
      BY <2>6 DEF Enter
    <3>3. ModeType'
      <4>1. ModeFlags'
        BY <1>1, <2>1, <3>1, <3>2 DEF ModeType, ModeFlags
      <4>2. ModeNumbers'
        BY <1>1, <2>1, <3>1, <3>2 DEF ModeType, ModeNumbers
      <4> QED
        BY <4>1, <4>2 DEF ModeType
    <3>4. SamplesOfThisMode' /\ LossesKnown'
      BY <1>1, <2>1, <3>2 DEF SamplesOfThisMode, LossesKnown
    <3> QED
      BY <3>1, <3>2, <3>3, <3>4
  <2>7. CASE Compete(min, w)
    <3>1. /\ ~defaultMode /\ w = cWnd /\ sampled' = FALSE /\ lastCheck' = now
          /\ UNCHANGED <<defaultMode, cpModeInitial, m_Wmax, m_itv, tLoss, tZero, since, losses>>
      BY <2>7 DEF Compete
    <3>2. ModeType'
      <4>1. ModeFlags'
        BY <1>1, <2>1, <3>1 DEF ModeType, ModeFlags
      <4>2. ModeNumbers'
        BY <1>1, <2>1, <3>1 DEF ModeType, ModeNumbers
      <4> QED
        BY <4>1, <4>2 DEF ModeType
    <3>3. SamplesOfThisMode' /\ LossesKnown' /\ ~defaultMode' /\ w >= cWnd
      BY <1>1, <2>1, <3>1 DEF ModeType, ModeFlags, ModeNumbers, SamplesOfThisMode, LossesKnown
    <3> QED
      BY <3>1, <3>2, <3>3
  <2>8. CASE Leave(min, w)
    <3>1. /\ defaultMode' = TRUE /\ m_Wmax' = 0 /\ tLoss' = 0 /\ tZero' = 0 /\ m_itv' = 0
          /\ w = cWnd /\ since' = now /\ losses' = 0 /\ cpModeInitial' = cpModeInitial
      BY <2>8 DEF Leave, Forget
    <3>2. \/ sampled' = FALSE /\ lastCheck' = now
          \/ now < P /\ sampled' = TRUE /\ lastCheck' = 0
      <4>1. CASE now - 0 >= P
        BY <2>8, <4>1 DEF Leave, FirstPeriod, PeriodOver
      <4>2. CASE ~(now - 0 >= P)
        <5>1. sampled' = TRUE /\ lastCheck' = 0
          BY <2>8, <4>2 DEF Leave, FirstPeriod, PeriodOver
        <5>2. now < P
          <6> HIDE DEF P
          <6> QED
            BY <1>1, <2>3, <4>2
        <5> QED
          BY <5>1, <5>2
      <4> QED
        BY <4>1, <4>2
    <3>3. sampled' => lastCheck' >= since' \/ since' < Q
      <4> HIDE DEF P, Q
      <4> QED
        BY <1>1, <2>3, <3>1, <3>2
    <3>4. SamplesOfThisMode'
      BY <1>1, <2>1, <3>1, <3>2, <3>3 DEF SamplesOfThisMode
    <3>5. ModeType'
      <4>1. ModeFlags'
        BY <1>1, <2>1, <3>1, <3>2 DEF ModeType, ModeFlags
      <4>2. ModeNumbers'
        BY <1>1, <2>1, <3>1, <3>2 DEF ModeType, ModeNumbers
      <4> QED
        BY <4>1, <4>2 DEF ModeType
    <3>6. LossesKnown' /\ defaultMode' /\ w >= cWnd
      BY <1>1, <3>1 DEF LossesKnown
    <3> QED
      BY <3>4, <3>5, <3>6
  <2> QED
    BY <2>2, <2>4, <2>5, <2>6, <2>7, <2>8
<1> QED
  BY <1>1, <1>2, <1>4, <1>5 DEF ModeType, ModeFlags, ModeNumbers

\* What a loss makes of the mode
LEMMA LossMode ==
  ASSUME IInv, GetSsThresh, now' = now,
         UNCHANGED <<isSlowStart, defaultMode, cpModeInitial, lastCheck, sampled, since,
                     m_RTTstanding>>
  PROVE  /\ ModeType' /\ SamplesOfThisMode' /\ LossesKnown'
         /\ m_Wmax' \in {m_Wmax, cWnd}
<1>1. /\ ModeType /\ SamplesOfThisMode /\ LossesKnown
      /\ now \in Nat \ {0} /\ cWnd \in Nat \ {0}
  BY DEF IInv, TypeOK, ModeType, ModeFlags, ModeNumbers
<1>2. Interval \in Nat /\ (tLoss = 0 => Interval = m_itv)
  BY <1>1 DEF Interval, Half, ModeType, ModeFlags, ModeNumbers
<1>3. /\ m_itv' = Interval /\ tLoss' = now
      /\ (m_Wmax' = cWnd /\ tZero' = now) \/ (m_Wmax' = m_Wmax /\ tZero' = tZero)
      /\ losses' = MinOf(losses + 1, 2)
  BY DEF GetSsThresh
<1>4. losses' \in 1 .. 2 /\ (losses >= 1 => losses' = 2)
  BY <1>1, <1>3 DEF MinOf, ModeType, ModeFlags, ModeNumbers
<1>5. ModeType'
  BY <1>1, <1>2, <1>3, <1>4 DEF ModeType, ModeFlags, ModeNumbers
<1>6. SamplesOfThisMode'
  BY <1>1 DEF SamplesOfThisMode
<1>7. LossesKnown'
  BY <1>1, <1>2, <1>3, <1>4 DEF LossesKnown, ModeType, ModeFlags, ModeNumbers
<1> QED
  BY <1>3, <1>5, <1>6, <1>7

LEMMA StepIInv == IInv /\ [Next]_vars => IInv'
<1> SUFFICES ASSUME IInv, [Next]_vars PROVE IInv'
  OBVIOUS
<1>1. /\ ModeType /\ WindowsOfThisCompetition
      /\ now \in Nat \ {0} /\ cWnd \in Nat \ {0} /\ peak \in Nat
      /\ m_congState \in {"CA_OPEN", "CA_RECOVERY", "CA_LOSS"}
      /\ defaultMode \in BOOLEAN /\ m_Wmax \in Nat
  BY DEF IInv, TypeOK, ModeType, ModeFlags, ModeNumbers
\* It is enough to keep the modes, and to bound the windows.
<1>2. ASSUME ModeType', SamplesOfThisMode', LossesKnown', WindowsOfThisCompetition',
             now' \in Nat \ {0}, cWnd' \in Nat \ {0}, peak' \in Nat,
             m_congState' \in {"CA_OPEN", "CA_RECOVERY", "CA_LOSS"}
      PROVE  IInv'
  BY <1>2 DEF IInv, TypeOK, ModeType, ModeFlags, ModeNumbers
\* An ack leaves a window that the peak follows.
<1>3. ASSUME now' = now, NEW w \in 0 .. MaxWindow, PktsAcked(w) \/ NotReported(w), Peak,
             cWnd' \in Nat, cWnd' >= w \/ (defaultMode' /\ cWnd' >= 2),
             m_congState' \in {"CA_OPEN", "CA_RECOVERY", "CA_LOSS"},
             m_congState' # "CA_LOSS" => cWnd' >= 2 \/ m_congState' = m_congState
      PROVE  IInv'
  <2>1. /\ ModeType' /\ SamplesOfThisMode' /\ LossesKnown' /\ w >= cWnd
        /\ ~defaultMode' => \/ ~defaultMode /\ w = cWnd /\ m_Wmax' = m_Wmax
                            \/ defaultMode /\ m_Wmax' = w
    BY <1>3, AckMode
  <2>2. defaultMode' \in BOOLEAN
    BY <2>1 DEF ModeType, ModeFlags, ModeNumbers
  <2>3. cWnd' >= 1 /\ (m_congState' # "CA_LOSS" => cWnd' >= 2)
    BY <1>1, <1>3, <2>1 DEF WindowsOfThisCompetition
  <2>4. peak' = IF defaultMode' THEN 0 ELSE IF defaultMode THEN cWnd' ELSE MaxOf(peak, cWnd')
    BY <1>3 DEF Peak
  <2>5. peak' \in Nat
    BY <1>1, <1>3, <2>4 DEF MaxOf
  <2>6. ~defaultMode' => m_Wmax' \in 1 .. peak' /\ cWnd' <= peak'
    BY <1>1, <1>3, <2>1, <2>2, <2>4 DEF WindowsOfThisCompetition, MaxOf
  <2>7. WindowsOfThisCompetition'
    BY <2>3, <2>6 DEF WindowsOfThisCompetition
  <2> QED
    BY <1>1, <1>2, <1>3, <2>1, <2>3, <2>5, <2>7
<1>4. CASE NewAck
  <2>1. PICK w \in 0 .. MaxWindow :
          /\ PktsAcked(w) \/ NotReported(w)
          /\ cWnd' \in IncreaseWindow(w, isSlowStart', defaultMode')
    BY <1>4 DEF NewAck
  <2>2. now' = now /\ Peak /\ m_congState' \in {"CA_OPEN", "CA_LOSS"}
    BY <1>4 DEF NewAck
  <2>3. SamplesOfThisMode' /\ ModeType'
    BY <2>1, <2>2, AckMode
  <2>4. PICK v \in Int : cWnd' = MaxOf(2, v) /\ (v >= w \/ (defaultMode' /\ ~isSlowStart'))
    BY <2>1, <2>3 DEF IncreaseWindow, copaModifyWindow, MinOf, ModeType, ModeFlags, ModeNumbers
  <2>5. cWnd' \in Nat /\ cWnd' >= 2 /\ (cWnd' >= w \/ defaultMode')
    BY <2>4 DEF MaxOf
  <2> QED
    BY <1>3, <2>1, <2>2, <2>5
<1>5. CASE DupAck
  <2>1. PICK w \in 0 .. MaxWindow : PktsAcked(w) /\ cWnd' = w
    BY <1>5 DEF DupAck
  <2>2. now' = now /\ Peak /\ m_congState' = m_congState
    BY <1>5 DEF DupAck
  <2> QED
    BY <1>1, <1>3, <2>1, <2>2
<1>6. CASE EnterRecovery
  <2>1. /\ ModeType' /\ SamplesOfThisMode' /\ LossesKnown' /\ m_Wmax' \in {m_Wmax, cWnd}
    BY <1>6, LossMode DEF EnterRecovery
  <2>2. /\ m_congState = "CA_OPEN" /\ m_congState' = "CA_RECOVERY" /\ cWnd' = SsThresh
        /\ now' = now /\ peak' = peak /\ defaultMode' = defaultMode
    BY <1>6 DEF EnterRecovery
  <2>3. cWnd >= 2 /\ cWnd' \in Nat /\ cWnd' >= 2 /\ cWnd' <= cWnd
    BY <1>1, <2>2 DEF WindowsOfThisCompetition, SsThresh, MaxOf
  <2>4. WindowsOfThisCompetition'
    BY <1>1, <2>1, <2>2, <2>3 DEF WindowsOfThisCompetition
  <2> QED
    BY <1>1, <1>2, <2>1, <2>2, <2>3, <2>4
<1>7. CASE Retransmit
  <2>1. /\ m_congState' = "CA_LOSS" /\ cWnd' = 1 /\ now' = now /\ peak' = peak
        /\ UNCHANGED <<isSlowStart, m_RTTstanding, defaultMode, cpModeInitial, lastCheck,
                       sampled, since>>
    BY <1>7 DEF Retransmit
  <2>2. /\ ModeType' /\ SamplesOfThisMode' /\ LossesKnown' /\ m_Wmax' \in {m_Wmax, cWnd}
    <3>1. CASE GetSsThresh
      BY <2>1, <3>1, LossMode
    <3>2. CASE UNCHANGED <<m_itv, tLoss, m_Wmax, tZero, losses>>
      BY <1>1, <2>1, <3>2 DEF IInv, ModeType, ModeFlags, ModeNumbers, SamplesOfThisMode, LossesKnown
    <3> QED
      BY <1>7, <3>1, <3>2 DEF Retransmit
  <2>3. WindowsOfThisCompetition'
    BY <1>1, <2>1, <2>2 DEF WindowsOfThisCompetition
  <2> QED
    BY <1>1, <1>2, <2>1, <2>2, <2>3
<1>8. CASE Tick
  <2>1. /\ now' = now + 1
        /\ UNCHANGED <<m_congState, cWnd, isSlowStart, m_RTTstanding, defaultMode, cpModeInitial,
                       m_Wmax, m_itv, tLoss, tZero, lastCheck, sampled, since, losses, peak>>
    BY <1>8 DEF Tick, mode
  <2>2. ModeType'
    BY <1>1, <2>1 DEF ModeType, ModeFlags, ModeNumbers
  <2>3. SamplesOfThisMode' /\ LossesKnown' /\ WindowsOfThisCompetition'
    BY <2>1 DEF IInv, SamplesOfThisMode, LossesKnown, WindowsOfThisCompetition
  <2> QED
    BY <1>1, <1>2, <2>1, <2>2, <2>3
<1>9. CASE UNCHANGED vars
  BY <1>9 DEF vars, mode, IInv, TypeOK, SamplesOfThisMode, LossesKnown, WindowsOfThisCompetition
<1> QED
  BY <1>4, <1>5, <1>6, <1>7, <1>8, <1>9 DEF Next

------------------------------------------------------------------------------
\* The theorems

\* The invariant of the modes holds in every reachable state.
THEOREM Invariance == Spec => []IInv
  BY InitIInv, StepIInv, PTL DEF Spec

\* opModeForCopaplus(): m_Wmax, the window whose return ends the competition,
\* is always one that this competition has had.
THEOREM OwnWindow == Spec => []RegainsItsWindow
<1>1. IInv => RegainsItsWindow
  BY DEF IInv, WindowsOfThisCompetition, RegainsItsWindow
<1> QED
  BY <1>1, Invariance, PTL

\* An ack is the only step that changes the mode.
LEMMA ModeSwitches ==
  ASSUME IInv, [Next]_vars, defaultMode' # defaultMode
  PROVE  \E w \in 0 .. MaxWindow, min \in Rtt : Enter(min, w) \/ Leave(min, w)
<1>1. ASSUME NEW w \in 0 .. MaxWindow, PktsAcked(w) \/ NotReported(w)
      PROVE  \E min \in Rtt : Enter(min, w) \/ Leave(min, w)
  BY <1>1 DEF PktsAcked, NotReported, opModeForCopaplus, Collect, Stay, Compete
<1>2. CASE NewAck
  BY <1>1, <1>2 DEF NewAck
<1>3. CASE DupAck
  BY <1>1, <1>3 DEF DupAck
<1> QED
  BY <1>2, <1>3 DEF Next, EnterRecovery, Retransmit, Tick, vars, mode

\* opModeForCopaplus(): a default mode that began after the first Check RTTs of
\* the simulation lasts for a whole period, right after a competition too.
THEOREM DefaultModeLasts == Spec => DefaultLasts
<1> DEFINE Lasts == defaultMode /\ ~defaultMode'
                      => now - since >= Check * MinRtt \/ since < Check * MaxRtt
<1>1. ASSUME IInv, [Next]_vars PROVE Lasts
  <2> SUFFICES ASSUME defaultMode, ~defaultMode'
               PROVE  now - since >= Check * MinRtt \/ since < Check * MaxRtt
    OBVIOUS
  <2>1. PICK w \in 0 .. MaxWindow, min \in Rtt : Enter(min, w)
    BY <1>1, ModeSwitches DEF Leave
  <2>2. sampled /\ now - lastCheck >= Check * min
    BY <2>1 DEF Enter, PeriodOver
  <2>3. /\ now \in Nat /\ lastCheck \in Nat /\ since \in Nat
        /\ lastCheck >= since \/ since < Check * MaxRtt
    BY <1>1, <2>2 DEF IInv, TypeOK, SamplesOfThisMode
  <2> DEFINE P == Check * min
             M == Check * MinRtt
             Q == Check * MaxRtt
  <2>4. P \in Nat /\ M \in Nat /\ M <= P
    BY Periods
  <2> HIDE DEF P, M, Q
  <2>5. now - since >= M \/ since < Q
    BY <2>2, <2>3, <2>4 DEF P, Q
  <2> QED
    BY <2>5 DEF M, Q
<1>2. IInv /\ [Next]_vars => [Lasts]_vars
  BY <1>1
<1> QED
  BY <1>2, Invariance, PTL DEF Spec, DefaultLasts

\* opModeForCopaplus() and GetSsThresh(): a competition is left on the evidence
\* of two losses that no earlier competition was left on.
THEOREM LeavingEarned == Spec => LeavingIsEarned
<1> DEFINE Earned == ~defaultMode /\ defaultMode' => losses = 2
<1>1. ASSUME IInv, [Next]_vars PROVE Earned
  <2> SUFFICES ASSUME ~defaultMode, defaultMode' PROVE losses = 2
    OBVIOUS
  <2>1. PICK w \in 0 .. MaxWindow, min \in Rtt : Leave(min, w)
    BY <1>1, ModeSwitches DEF Enter
  <2> QED
    BY <1>1, <2>1 DEF Leave, Regained, IInv, LossesKnown
<1>2. IInv /\ [Next]_vars => [Earned]_vars
  BY <1>1
<1> QED
  BY <1>2, Invariance, PTL DEF Spec, LeavingIsEarned

=============================================================================

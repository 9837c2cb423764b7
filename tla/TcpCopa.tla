------------------------------- MODULE TcpCopa -------------------------------
(***************************************************************************)
(* Copa+ inside ns-3, TcpCopa of src/internet/model/tcp-copa.{h,cc}, in the *)
(* configuration that its attributes call final (iscopaModify, enableComp,  *)
(* cpVersion 1), as TcpSocketBase with SACK calls it.  It is not a port of  *)
(* AdaptiveCC line by line: the competitive mode is entered after a period  *)
(* of Check RTTs in the default mode, is for m_Wmax, the window of the last *)
(* loss, and is left when no loss came for twice the smoothed interval      *)
(* between losses.                                                          *)
(*                                                                          *)
(* What the window does between losses (the velocity, theta, alpha and the  *)
(* target rate) is a choice of a step, up or down in the default mode and   *)
(* never down while competing.  The verdict of modeSwitch() on its samples  *)
(* is a choice, too: it adds to `simi', which is never initialised.  A      *)
(* window counts segments, and interval halves are rounded up: the ns of    *)
(* the program are far below a tick.                                        *)
(***************************************************************************)
EXTENDS Integers

CONSTANTS Check,            \* 20: RTTs of one period of samples
          Rtt,              \* RTTs that the windows of PktsAcked() can report
          MinRtt, MaxRtt,   \*   and the least and the greatest of them
          Step,             \* bound: segments an ack moves the window by
          Jump,             \* bound: thrMax * globalRttMax, in segments
          MaxWindow,        \* bound on the window
          MaxTime           \* bound on the clock of the simulation

ASSUME TcpCopaAssumption ==
    /\ Check \in Nat \ {0}
    /\ MinRtt \in Nat \ {0} /\ MaxRtt \in Nat
    /\ Rtt \subseteq MinRtt .. MaxRtt
    /\ Step \in Nat /\ Jump \in Nat /\ MaxWindow \in Nat /\ MaxTime \in Nat

VARIABLES now,              \* Simulator::Now(), from the start of the simulation
          m_congState,      \* of the socket; CA_DISORDER counts as CA_OPEN
          cWnd,
          isSlowStart, defaultMode,
          cpModeInitial,    \* a competition is still to be set up
          m_Wmax,           \* the window to regain
          m_itv,            \* smoothed interval between losses
          tLoss, tZero,     \* the last loss, and the last that set m_Wmax
          lastCheck,        \* when the period of samples began
          sampled,          \* rttArray holds samples
          m_RTTstanding,
          since,            \* history: when this mode began
          losses,           \* history: losses since the competition was left,
                            \*   counted up to two
          peak              \* history: the largest window of this competition

mode == <<defaultMode, cpModeInitial, m_Wmax, m_itv, tLoss, tZero, lastCheck, sampled, since,
          losses, peak>>
vars == <<now, m_congState, cWnd, isSlowStart, m_RTTstanding, mode>>

MaxOf(a, b) == IF a >= b THEN a ELSE b
MinOf(a, b) == IF a <= b THEN a ELSE b
Half(n) == (n + 1) \div 2

Init ==
    /\ now = 1 /\ cWnd = 2 /\ m_congState = "CA_OPEN"
    /\ isSlowStart = TRUE /\ defaultMode = TRUE
    /\ cpModeInitial = TRUE
    /\ m_Wmax = 0 /\ m_itv = 0 /\ tLoss = 0 /\ tZero = 0 /\ lastCheck = 0
    /\ sampled = FALSE
    /\ m_RTTstanding = MaxTime      \* Time::Max ()
    /\ since = 1 /\ losses = 0 /\ peak = 0

------------------------------------------------------------------------------
\* opModeForCopaplus(): what an ack after slow start makes of the mode, with
\* the given m_RTTmin, and the window w that it leaves to IncreaseWindow()

PeriodOver(begun, min) == now - begun >= Check * min

\* The window is regained and twice the usual interval has passed since the
\* last loss (the code holds the mean of both against 1.5 times the interval).
Regained == ~defaultMode /\ m_itv > 0 /\ now - tLoss >= 2 * m_itv /\ cWnd > m_Wmax

\* Mutant: a competition is set up once only.
BeginsOnce(w) ==
    IF cpModeInitial
    THEN /\ \E estimate \in 0 .. Jump : w = MaxOf(cWnd, estimate)
         /\ m_Wmax' = w
    ELSE w = cWnd /\ UNCHANGED m_Wmax

\* A competition begins with the window that the best throughput gives with
\* the greatest RTT, if that is more, and is for that window.
Begins(w) ==
    /\ \E estimate \in 0 .. Jump : w = MaxOf(cWnd, estimate)
    /\ m_Wmax' = w

\* In the default mode acks are samples until the period is over; then the
\* verdict of modeSwitch() is for this mode or against it.  Without a sample
\* there is nothing to judge.
Collect(min, w) ==
    /\ defaultMode /\ ~PeriodOver(lastCheck, min)
    /\ sampled' = TRUE
    /\ w = cWnd
    /\ UNCHANGED <<defaultMode, cpModeInitial, m_Wmax, m_itv, tLoss, tZero, lastCheck, since,
                   losses>>

Stay(min, w) ==
    /\ defaultMode /\ PeriodOver(lastCheck, min)
    /\ sampled' = FALSE /\ lastCheck' = now
    /\ w = cWnd
    /\ UNCHANGED <<defaultMode, cpModeInitial, m_Wmax, m_itv, tLoss, tZero, since, losses>>

Enter(min, w) ==
    /\ defaultMode /\ PeriodOver(lastCheck, min) /\ sampled
    /\ sampled' = FALSE /\ lastCheck' = now
    /\ defaultMode' = FALSE
    /\ Begins(w) /\ cpModeInitial' = FALSE
    /\ since' = now
    /\ UNCHANGED <<m_itv, tLoss, tZero, losses>>

\* While competing every ack begins a new period, in vain.
Compete(min, w) ==
    /\ ~defaultMode /\ ~Regained
    /\ sampled' = FALSE /\ lastCheck' = now
    /\ w = cWnd
    /\ UNCHANGED <<defaultMode, cpModeInitial, m_Wmax, m_itv, tLoss, tZero, since, losses>>

\* Mutant: the interval between losses is kept.
ForgetWindow == m_Wmax' = 0 /\ tLoss' = 0 /\ tZero' = 0 /\ UNCHANGED m_itv

Forget == m_Wmax' = 0 /\ tLoss' = 0 /\ tZero' = 0 /\ m_itv' = 0

\* Mutant: the ack that leaves is a sample of the period that began at 0.
FirstPeriodSampled(min) == sampled' = TRUE /\ lastCheck' = 0

\* The period is taken to have begun with the simulation: either that is long
\* ago and the period begins now, or this ack is a sample of it.
FirstPeriod(min) ==
    IF PeriodOver(0, min)
    THEN sampled' = FALSE /\ lastCheck' = now
    ELSE sampled' = TRUE /\ lastCheck' = 0

Leave(min, w) ==
    /\ Regained
    /\ defaultMode' = TRUE
    /\ Forget /\ FirstPeriod(min)
    /\ w = cWnd
    /\ since' = now /\ losses' = 0
    /\ UNCHANGED cpModeInitial

opModeForCopaplus(w) ==
    \E min \in Rtt :
        Collect(min, w) \/ Stay(min, w) \/ Enter(min, w) \/ Compete(min, w) \/ Leave(min, w)

------------------------------------------------------------------------------
\* The callbacks

\* An RTT is known from the handshake on.  Slow start ends for good with the
\* first ack that finds the rate above the target; the mode is looked at from
\* the next ack on.
PktsAcked(w) ==
    /\ m_RTTstanding' \in Rtt
    /\ IF isSlowStart
       THEN /\ isSlowStart' \in BOOLEAN
            /\ since' = now
            /\ w = cWnd
            /\ UNCHANGED <<defaultMode, cpModeInitial, m_Wmax, m_itv, tLoss, tZero, lastCheck,
                           sampled, losses>>
       ELSE /\ opModeForCopaplus(w)
            /\ UNCHANGED isSlowStart

\* After reordering an ack may be covered by the duplicates before it.
NotReported(w) ==
    /\ m_congState = "CA_OPEN"
    /\ w = cWnd
    /\ UNCHANGED <<isSlowStart, m_RTTstanding, defaultMode, cpModeInitial, m_Wmax, m_itv, tLoss,
                   tZero, lastCheck, sampled, since, losses>>

\* The windows that copaModifyWindow() makes of w
copaModifyWindow(w, default) ==
    IF default THEN (w - Step) .. MinOf(2 * w, w + Step) ELSE w .. (w + Step)

IncreaseWindow(w, slowStart, default) ==
    {MaxOf(2, v) : v \in IF slowStart THEN w .. (w + 1) ELSE copaModifyWindow(w, default)}

\* Of a loss GetSsThresh() takes the interval in either mode, the window only
\* while competing and once per RTT.
Interval ==
    IF tLoss = 0 THEN m_itv
    ELSE IF m_itv = 0 THEN now - tLoss
    ELSE Half(m_itv + now - tLoss)

GetSsThresh ==
    /\ m_itv' = Interval
    /\ tLoss' = now
    /\ IF ~defaultMode /\ now - tZero > m_RTTstanding
       THEN m_Wmax' = cWnd /\ tZero' = now
       ELSE UNCHANGED <<m_Wmax, tZero>>
    /\ losses' = MinOf(losses + 1, 2)

\* Mutant: no lower bound.
SsThreshUnbounded == (85 * cWnd) \div 100

SsThresh == MaxOf((85 * cWnd) \div 100, 2)

Peak ==
    peak' = IF defaultMode' THEN 0 ELSE IF defaultMode THEN cWnd' ELSE MaxOf(peak, cWnd')

------------------------------------------------------------------------------
\* What TcpSocketBase does

\* An ack of new data, which ends the recovery if it covers all that was sent
\* before; the window it leads to is bounded.
NewAck ==
    /\ \E w \in 0 .. MaxWindow :
          /\ PktsAcked(w) \/ NotReported(w)
          /\ cWnd' \in IncreaseWindow(w, isSlowStart', defaultMode')
    /\ cWnd' <= MaxWindow
    /\ Peak
    /\ m_congState' \in IF m_congState = "CA_LOSS" THEN {"CA_LOSS", "CA_OPEN"} ELSE {"CA_OPEN"}
    /\ UNCHANGED now

\* A duplicate ack, or a partial one during recovery
DupAck ==
    /\ \E w \in 0 .. MaxWindow : PktsAcked(w) /\ cWnd' = w
    /\ Peak
    /\ UNCHANGED <<now, m_congState>>

\* Enough duplicate acks
EnterRecovery ==
    /\ m_congState = "CA_OPEN" /\ m_congState' = "CA_RECOVERY"
    /\ GetSsThresh
    /\ cWnd' = SsThresh
    /\ UNCHANGED <<now, isSlowStart, m_RTTstanding, defaultMode, cpModeInitial, lastCheck,
                   sampled, since, peak>>

\* The retransmission timer expires, in CA_LOSS perhaps for a packet that it
\* has retransmitted before.
Retransmit ==
    /\ \/ GetSsThresh
       \/ m_congState = "CA_LOSS" /\ UNCHANGED <<m_itv, tLoss, m_Wmax, tZero, losses>>
    /\ m_congState' = "CA_LOSS"
    /\ cWnd' = 1
    /\ UNCHANGED <<now, isSlowStart, m_RTTstanding, defaultMode, cpModeInitial, lastCheck,
                   sampled, since, peak>>

Tick ==
    /\ now < MaxTime /\ now' = now + 1
    /\ UNCHANGED <<m_congState, cWnd, isSlowStart, m_RTTstanding, mode>>

Next == NewAck \/ DupAck \/ EnterRecovery \/ Retransmit \/ Tick

Spec == Init /\ [][Next]_vars

------------------------------------------------------------------------------
\* Properties

TypeOK ==
    /\ now \in Nat \ {0} /\ cWnd \in Nat \ {0}
    /\ m_congState \in {"CA_OPEN", "CA_RECOVERY", "CA_LOSS"}
    /\ {isSlowStart, defaultMode, cpModeInitial, sampled} \subseteq BOOLEAN
    /\ m_Wmax \in Nat /\ m_itv \in Nat /\ peak \in Nat
    /\ tLoss \in 0 .. now /\ tZero \in 0 .. now /\ lastCheck \in 0 .. now
    /\ since \in 1 .. now
    /\ m_RTTstanding \in Nat /\ losses \in 0 .. 2

\* The default mode lasts a whole period of samples before it gives way to
\* competition, even if an earlier competition has just ended and whatever
\* became of the minimum RTT in between.  Only in the first Check RTTs of the
\* simulation, which every period is taken to have begun with, may it be cut
\* short.
DefaultLasts ==
    [][ defaultMode /\ ~defaultMode'
          => now - since >= Check * MinRtt \/ since < Check * MaxRtt ]_vars

\* A competition is left only when an interval between two losses is known
\* that no earlier competition has used: two losses have come since then
\* (though both may have come before this one began).
LeavingIsEarned == [][ ~defaultMode /\ defaultMode' => losses = 2 ]_vars

\* The window to regain is one that this competition has had: none that an
\* earlier one left behind, and not 0, which the next ack would exceed.
RegainsItsWindow == ~defaultMode => m_Wmax \in 1 .. peak

------------------------------------------------------------------------------
\* The inductive invariant behind the others

\* Samples are taken in the default mode after slow start, in a period that
\* did not begin before the mode.
SamplesOfThisMode ==
    /\ sampled => defaultMode /\ ~isSlowStart
    /\ isSlowStart => defaultMode /\ lastCheck = 0
    /\ lastCheck = 0 \/ lastCheck >= since
    /\ sampled => lastCheck >= since \/ since < Check * MaxRtt

LossesKnown == (tLoss > 0 => losses >= 1) /\ (m_itv > 0 => losses = 2)

WindowsOfThisCompetition ==
    /\ ~defaultMode => m_Wmax \in 1 .. peak /\ cWnd <= peak
    /\ m_congState # "CA_LOSS" => cWnd >= 2

IInv == TypeOK /\ SamplesOfThisMode /\ LossesKnown /\ WindowsOfThisCompetition
=============================================================================

---------------------------- MODULE CopaFlowProofs ----------------------------
(***************************************************************************)
(* The flow implements its two parts: its windows are RttWindow's, and the  *)
(* controller that acts on them is Markovian.                               *)
(***************************************************************************)
EXTENDS CopaFlow, TLAPS

\* What is proved of the windows, for the windows of the flow
WP == INSTANCE RttWindowProofs WITH now <- sample_time, Gap <- 0 .. MaxTime

\* The definitions of WP are those of W.
LEMMA SameSample ==
    ASSUME NEW rtt, NEW gap
    PROVE  W!new_rtt_sample(rtt, gap) <=> WP!new_rtt_sample(rtt, gap)
BY DEF W!new_rtt_sample, W!NextSrtt, W!WindowLength, W!MaxOf, W!MinOf, W!Pushed, W!Aged, W!AgedExtreme,
       W!PushedExtreme, W!Beats, W!find_min, W!Window, W!Min,
       WP!new_rtt_sample, WP!NextSrtt, WP!WindowLength, WP!MaxOf, WP!MinOf, WP!Pushed, WP!Aged,
       WP!AgedExtreme, WP!PushedExtreme, WP!Beats, WP!find_min, WP!Window, WP!Min

LEMMA SameRest ==
    /\ W!Init <=> WP!Init
    /\ W!clear <=> WP!clear
    /\ W!ReadingsOrdered <=> WP!ReadingsOrdered
    /\ W!StandingIsFresh <=> WP!StandingIsFresh
    /\ W!vars = WP!vars
BY DEF W!Init, W!clear, W!ReadingsOrdered, W!StandingIsFresh, W!vars, W!ClearedExtreme, W!find_min,
       W!Window, W!get_min_rtt, W!get_unjittered_rtt,
       WP!Init, WP!clear, WP!ReadingsOrdered, WP!StandingIsFresh, WP!vars, WP!ClearedExtreme,
       WP!find_min, WP!Window, WP!get_min_rtt, WP!get_unjittered_rtt

\* A step of the flow is one of its windows, or leaves them alone.
LEMMA WindowStep == OneClock /\ [Next]_vars => [WP!Next]_(WP!vars)
<1> SUFFICES ASSUME OneClock, [Next]_vars PROVE [WP!Next]_(WP!vars)
  OBVIOUS
<1>1. CASE init
  BY <1>1, SameRest DEF init, WP!Next
<1>2. CASE onPktSent \/ Tick \/ UNCHANGED vars
  BY <1>2 DEF onPktSent, Tick, vars, rtt_window, WP!vars
<1>3. CASE Ack
  <2>1. PICK n \in 0 .. next_seq - 1 :
          \E latest \in M!Latest(n) : W!new_rtt_sample(latest, now - sample_time)
    BY <1>3 DEF Ack
  <2>2. PICK latest \in Rtt : W!new_rtt_sample(latest, now - sample_time)
    BY <2>1 DEF M!Latest
  <2>3. now - sample_time \in 0 .. MaxTime
    BY CopaFlowAssumption DEF OneClock, M!MarkovianAssumption
  <2> QED BY <2>2, <2>3, SameSample DEF WP!Next
<1> QED BY <1>1, <1>2, <1>3 DEF Next

\* Both parts have one clock: a sample is taken whenever an ack is processed,
\* and none while there is no ack to date it.
LEMMA StepClock == OneClock /\ [Next]_vars => OneClock'
<1> SUFFICES ASSUME OneClock, [Next]_vars PROVE OneClock'
  OBVIOUS
<1> USE CopaFlowAssumption DEF OneClock, M!MarkovianAssumption
<1>1. CASE init
  BY <1>1 DEF init, M!init, W!clear
<1>2. CASE onPktSent
  BY <1>2 DEF onPktSent, M!onPktSent, rtt_window
<1>3. CASE Tick
  BY <1>3 DEF Tick, M!Tick, rtt_window
<1>4. CASE Ack
  <2>1. PICK latest : /\ W!new_rtt_sample(latest, now - sample_time)
                      /\ last_ack_time' = now /\ now' = now
    BY <1>4 DEF Ack, M!AckReading
  <2>2. sample_time' = sample_time + (now - sample_time)
    BY <2>1 DEF W!new_rtt_sample
  <2> QED BY <2>1, <2>2
<1>5. CASE UNCHANGED vars
  BY <1>5 DEF vars, M!vars, rtt_window
<1> QED BY <1>1, <1>2, <1>3, <1>4, <1>5 DEF Next

LEMMA InitClock == Init => OneClock
BY CopaFlowAssumption DEF Init, M!Init, W!Init, OneClock, M!MarkovianAssumption

\* The RTT windows of a flow are those of RttWindow, with its samples.
THEOREM ImplementsWindows == Spec => W!Spec
<1>1. Init => W!Init
  BY DEF Init
<1>2. OneClock /\ [Next]_vars => [W!Next]_(W!vars)
  <2> SUFFICES ASSUME OneClock, [Next]_vars PROVE [W!Next]_(W!vars)
    OBVIOUS
  <2>1. [WP!Next]_(WP!vars)
    BY WindowStep
  <2>2. WP!Next => W!Next
    <3>1. WP!clear => W!clear
      BY SameRest
    <3>2. \A rtt, gap : WP!new_rtt_sample(rtt, gap) => W!new_rtt_sample(rtt, gap)
      BY SameSample
    <3>3. \A IC : WP!change_window(IC) => W!change_window(IC)
      BY DEF WP!change_window, W!change_window
    <3> QED BY <3>1, <3>2, <3>3 DEF WP!Next, W!Next
  <2> QED BY <2>1, <2>2 DEF W!vars, WP!vars
<1> QED BY <1>1, <1>2, InitClock, StepClock, PTL DEF Spec, W!Spec

\* What RttWindow is shown to satisfy holds of the windows of the flow.
LEMMA WindowsSpec == Spec => WP!Spec
<1>1. Init => WP!Init
  BY SameRest DEF Init
<1> QED BY <1>1, WindowStep, InitClock, StepClock, PTL DEF Spec, WP!Spec

LEMMA WindowAssumption == WP!RttWindowAssumption
BY CopaFlowAssumption DEF W!RttWindowAssumption, WP!RttWindowAssumption

LEMMA WindowReadings == Spec => [](OneClock /\ W!ReadingsOrdered /\ W!StandingIsFresh)
<1>1. WP!Spec => []WP!ReadingsOrdered
  BY WindowAssumption, WP!ReadingsHold DEF WP!RttWindowAssumption
<1>2. WP!Spec => []WP!StandingIsFresh
  BY WindowAssumption, WP!Fresh DEF WP!RttWindowAssumption
<1>3. W!ReadingsOrdered <=> WP!ReadingsOrdered
  BY SameRest
<1>4. W!StandingIsFresh <=> WP!StandingIsFresh
  BY SameRest
<1> QED BY <1>1, <1>2, <1>3, <1>4, WindowsSpec, InitClock, StepClock, PTL DEF Spec

------------------------------------------------------------------------------
\* The controller

\* An ack of the flow is an ack of Markovian: the readings after the sample
\* are RTTs, and in the order it takes for granted.
LEMMA AckImplements == OneClock /\ W!ReadingsOrdered' /\ Ack => M!Ack
<1> SUFFICES ASSUME OneClock, W!ReadingsOrdered', Ack PROVE M!Ack
  OBVIOUS
<1> DEFINE rtt == W!get_unjittered_rtt'
           min_rtt == W!get_min_rtt'
           copa == W!is_copa'
<1>1. PICK n \in 0 .. next_seq - 1 :
        \E l \in M!Latest(n) :
           /\ W!new_rtt_sample(l, now - sample_time)
           /\ M!AckReading(n, l, rtt, min_rtt, copa)
  BY DEF Ack
<1>2. PICK latest \in M!Latest(n) :
        /\ W!new_rtt_sample(latest, now - sample_time)
        /\ M!AckReading(n, latest, rtt, min_rtt, copa)
  BY <1>1
<1>3. hist' # <<>> /\ latest_rtt' = latest
  <2> DEFINE e == [time |-> sample_time + (now - sample_time), val |-> latest]
  <2>1. hist' = Append(hist, e) /\ latest_rtt' = latest
    BY <1>2 DEF W!new_rtt_sample
  <2> QED BY <2>1
<1>4. rtt \in Rtt /\ min_rtt \in Rtt /\ min_rtt <= rtt /\ rtt <= latest
  BY <1>3 DEF W!ReadingsOrdered
<1>5. copa \in BOOLEAN
  BY DEF W!is_copa
<1>6. ~aborted /\ last_ack_time < now
  BY DEF Ack
<1> HIDE DEF rtt, min_rtt, copa
<1> QED BY <1>1, <1>2, <1>4, <1>5, <1>6 DEF M!Ack

LEMMA StepImplements == OneClock /\ W!ReadingsOrdered' /\ [Next]_vars => [M!Next]_(M!vars)
<1>1. init => M!init
  BY DEF init
<1>2. onPktSent => M!onPktSent
  BY DEF onPktSent
<1>3. Tick => M!Tick
  BY DEF Tick
<1>4. UNCHANGED vars => UNCHANGED M!vars
  BY DEF vars
<1> QED BY <1>1, <1>2, <1>3, <1>4, AckImplements DEF Next, M!Next

\* The flow implements Markovian: the readings of the windows are always such
\* as the controller was proved about, the assertion about them included.
THEOREM Refinement == Spec => ImplementsMarkovian
<1>1. Init => M!Init
  BY DEF Init
<1>2. OneClock /\ W!ReadingsOrdered' /\ [Next]_vars => [M!Next]_(M!vars)
  BY StepImplements
<1> QED BY <1>1, <1>2, WindowReadings, PTL DEF Spec, M!Spec, ImplementsMarkovian

\* What is proved of Markovian, for the controller of the flow
MP == INSTANCE MarkovianProofs

\* The definitions of MP are those of M.
LEMMA SameAck ==
    ASSUME NEW n, NEW latest, NEW rtt, NEW min_rtt, NEW copa
    PROVE  M!AckReading(n, latest, rtt, min_rtt, copa)
             <=> MP!AckReading(n, latest, rtt, min_rtt, copa)
<1>1. \A d, lost, r, c : M!update_delta(d, lost, r, c) = MP!update_delta(d, lost, r, c)
  BY DEF M!update_delta, MP!update_delta, M!UpdatedMode, MP!UpdatedMode, M!ByDefault,
     MP!ByDefault, M!ByLoss, MP!ByLoss, M!MaxOf, MP!MaxOf
<1>2. \A inv : M!Moved(inv, rtt, min_rtt, latest) = MP!Moved(inv, rtt, min_rtt, latest)
  BY DEF M!Moved, MP!Moved, M!Turned, MP!Turned, M!RttIsOver, MP!RttIsOver, M!Capped,
     MP!Capped, M!AboveTarget, MP!AboveTarget, M!Step, MP!Step, M!MaxOf, MP!MaxOf
<1>3. /\ \A k : M!RolAfter(k, latest) = MP!RolAfter(k, latest)
      /\ \A k : M!Judges(k, latest) = MP!Judges(k, latest)
      /\ \A k : M!TooMany(k) = MP!TooMany(k)
  BY DEF M!RolAfter, MP!RolAfter, M!Judges, MP!Judges, M!TooMany, MP!TooMany, M!Call,
     MP!Call, M!MaxOf, MP!MaxOf, M!MinOf, MP!MinOf
<1>4. /\ \A w, cut : M!AfterCut(w, cut) = MP!AfterCut(w, cut)
      /\ \A w, cut : M!NewInterval(rtt, w, cut) = MP!NewInterval(rtt, w, cut)
      /\ \A w : M!AtLeastTwo(w) = MP!AtLeastTwo(w)
      /\ \A d : M!Sign(d) = MP!Sign(d)
  BY DEF M!AfterCut, MP!AfterCut, M!NewInterval, MP!NewInterval, M!Interval, MP!Interval,
     M!AtLeastTwo, MP!AtLeastTwo, M!MaxOf, MP!MaxOf, M!Sign, MP!Sign
<1>5. /\ M!Skipped(n) = MP!Skipped(n) /\ M!Remaining(n) = MP!Remaining(n)
      /\ M!IsProbing = MP!IsProbing
      /\ M!RttIsOver(latest) = MP!RttIsOver(latest)
      /\ \A w, inv : M!AboveTarget(w, inv, rtt, min_rtt) = MP!AboveTarget(w, inv, rtt, min_rtt)
      /\ M!SlowStartFails(rtt, min_rtt) = MP!SlowStartFails(rtt, min_rtt)
  BY DEF M!Skipped, MP!Skipped, M!Remaining, MP!Remaining, M!IsProbing, MP!IsProbing,
     M!RttIsOver, MP!RttIsOver, M!AboveTarget, MP!AboveTarget, M!SlowStartFails,
     MP!SlowStartFails
<1>6. M!Cardinality(M!Skipped(n)) = MP!Cardinality(MP!Skipped(n))
  BY <1>5 DEF M!Cardinality, MP!Cardinality
<1>7. M!onACK(n, latest, rtt, min_rtt, copa) <=> MP!onACK(n, latest, rtt, min_rtt, copa)
  BY <1>1, <1>2, <1>3, <1>4, <1>5, <1>6 DEF M!onACK, MP!onACK
<1> QED BY <1>5, <1>7 DEF M!AckReading, MP!AckReading, M!cc, MP!cc

LEMMA SameActions ==
    /\ M!Init <=> MP!Init
    /\ M!init <=> MP!init
    /\ M!onPktSent <=> MP!onPktSent
    /\ M!Tick <=> MP!Tick
BY DEF M!Init, M!init, M!onPktSent, M!Tick, M!NoInterval, M!Interval, M!Probing,
       M!FreshVelocity, M!FreshRol, M!FreshInterval, M!FreshDelta, M!NoStreak, M!vars, M!cc,
              MP!Init, MP!init, MP!onPktSent, MP!Tick, MP!NoInterval, MP!Interval, MP!Probing,
       MP!FreshVelocity, MP!FreshRol, MP!FreshInterval, MP!FreshDelta, MP!NoStreak, MP!vars,
       MP!cc

\* An action of Markovian is one of MP.
LEMMA SameNext == M!Next => MP!Next
<1>1. M!Ack => MP!Ack
  <2>1. \A n : M!Latest(n) = MP!Latest(n)
    BY DEF M!Latest, MP!Latest
  <2> QED BY <2>1, SameAck DEF M!Ack, MP!Ack
<1> QED BY <1>1, SameActions DEF M!Next, MP!Next

\* What Markovian is shown to satisfy holds of the flow.
LEMMA ControllerSpec == Spec => MP!Spec
<1>1. Init => MP!Init
  BY SameActions DEF Init
<1>2. OneClock /\ W!ReadingsOrdered' /\ [Next]_vars => [MP!Next]_(MP!vars)
  BY StepImplements, SameNext DEF M!vars, MP!vars, M!cc, MP!cc
<1> QED BY <1>1, <1>2, WindowReadings, PTL DEF Spec, MP!Spec

LEMMA ControllerAssumption == MP!MarkovianAssumption
BY CopaFlowAssumption DEF M!MarkovianAssumption, MP!MarkovianAssumption

LEMMA ControllerInvariant == Spec => []MP!IInv
<1>1. MP!Spec => []MP!IInv
  BY ControllerAssumption, MP!Invariance DEF MP!MarkovianAssumption
<1> QED BY <1>1, ControllerSpec, PTL

\* With the readings of the real windows, for every pattern of losses: 1 / delta
\* grows by no more than one per RTT, packets are paced by the window, the
\* velocity is earned, no packet is taken for lost twice, and the window is cut
\* no more than once per two RTTs.
THEOREM Inherited ==
    Spec => [](/\ M!AggressionBounded /\ M!PacedByWindow /\ M!VelocityEarned
               /\ M!NoPacketLostTwice /\ M!CutsAreRare)
<1>1. /\ MP!AggressionBounded => M!AggressionBounded
      /\ MP!PacedByWindow => M!PacedByWindow
      /\ MP!VelocityEarned => M!VelocityEarned
  BY DEF M!AggressionBounded, MP!AggressionBounded, M!PacedByWindow, MP!PacedByWindow,
         M!NoInterval, MP!NoInterval, M!Interval, MP!Interval, M!FreshInterval, MP!FreshInterval,
         M!Probing, MP!Probing, M!VelocityEarned, MP!VelocityEarned
<1>2. MP!NoPacketLostTwice => M!NoPacketLostTwice
  BY DEF M!NoPacketLostTwice, MP!NoPacketLostTwice, M!Cardinality, MP!Cardinality
<1>3. MP!CutsAreRare => M!CutsAreRare
  BY DEF M!CutsAreRare, MP!CutsAreRare, M!Spacing, MP!Spacing, M!MinOf, MP!MinOf
<1> USE ControllerAssumption DEF MP!MarkovianAssumption
<1>4. MP!Spec => []MP!AggressionBounded
  BY MP!Aggression
<1>5. MP!Spec => []MP!PacedByWindow
  BY MP!Paced
<1>6. MP!Spec => []MP!VelocityEarned
  BY MP!Earned
<1>7. MP!Spec => []MP!NoPacketLostTwice
  BY MP!LostOnce
<1>8. MP!Spec => []MP!CutsAreRare
  BY MP!RareCuts
<1> QED BY <1>1, <1>2, <1>3, <1>4, <1>5, <1>6, <1>7, <1>8, ControllerSpec, PTL

------------------------------------------------------------------------------
\* What only the two parts together have

\* A record with the fields of delta
HasFields(d) == d = [inv |-> d.inv, mode |-> d.mode, time |-> d.time, time_loss |-> d.time_loss]

Verdict(copa) == IF copa THEN "DEFAULT_MODE" ELSE "LOSS_SENSITIVE_MODE"

\* update_delta() sets the mode by the verdict it is given, whatever else it
\* changes.
LEMMA ModeUpdated ==
    ASSUME NEW d, HasFields(d), NEW lost, NEW rtt, NEW copa, utility_mode = "AUTO_MODE"
    PROVE  LET e == M!update_delta(d, lost, rtt, copa)
           IN  HasFields(e) /\ e.mode = Verdict(copa)
<1> DEFINE m == M!UpdatedMode(d, copa)
           c == [d EXCEPT !.mode = m]
<1>1. m = Verdict(copa)
  BY DEF M!UpdatedMode, Verdict
<1>2. c = [inv |-> d.inv, mode |-> m, time |-> d.time, time_loss |-> d.time_loss]
  BY DEF HasFields
<1> HIDE DEF m
<1>3. HasFields(M!ByDefault(c, rtt)) /\ M!ByDefault(c, rtt).mode = m
  BY <1>2 DEF M!ByDefault, HasFields
<1>4. HasFields(M!ByLoss(c, lost, rtt)) /\ M!ByLoss(c, lost, rtt).mode = m
  BY <1>2 DEF M!ByLoss, HasFields
<1> HIDE DEF c
<1> QED BY <1>1, <1>3, <1>4 DEF M!update_delta, c, m

\* An ack that is processed to its end paces by the standing RTT it has just
\* read, and leaves the mode at the verdict it has just read.
LEMMA AckReads ==
    ASSUME MP!IInv, Ack, ~aborted'
    PROVE  /\ num_acked \in Nat /\ num_acked' = num_acked + 1 /\ hist' # <<>>
           /\ ~M!IsProbing => cur_intersend'.rtt = W!get_unjittered_rtt'
           /\ utility_mode = "AUTO_MODE" => delta'.mode = Verdict(W!is_copa')
<1> DEFINE rtt == W!get_unjittered_rtt'
           min_rtt == W!get_min_rtt'
           copa == W!is_copa'
<1>1. PICK n, latest :
        W!new_rtt_sample(latest, now - sample_time)
          /\ M!AckReading(n, latest, rtt, min_rtt, copa)
  BY DEF Ack
<1>2. M!onACK(n, latest, rtt, min_rtt, copa)
  BY <1>1 DEF M!AckReading
<1>3. hist' # <<>>
  BY <1>1 DEF W!new_rtt_sample
<1>4. num_acked \in Nat /\ HasFields(delta)
  BY DEF MP!IInv, MP!TypeOK, MP!DeltaOK, MP!DeltaType, HasFields
<1> HIDE DEF rtt, min_rtt, copa
<1>5. num_acked' = num_acked + 1
  BY <1>2 DEF M!onACK
<1>6. ASSUME ~M!IsProbing PROVE cur_intersend'.rtt = rtt
  BY <1>2, <1>6 DEF M!onACK, M!NewInterval, M!Interval
<1>7. ASSUME utility_mode = "AUTO_MODE" PROVE delta'.mode = Verdict(copa)
  <2> DEFINE d == M!update_delta(delta, FALSE, latest, copa)
             e == M!update_delta(d, TRUE, 0, copa)
  <2>1. delta' = d \/ delta' = e
    BY <1>2 DEF M!onACK
  <2>2. HasFields(d) /\ d.mode = Verdict(copa)
    BY <1>4, <1>7, ModeUpdated
  <2> HIDE DEF d
  <2>3. e.mode = Verdict(copa)
    BY <1>7, <2>2, ModeUpdated
  <2> QED BY <2>1, <2>2, <2>3
<1> QED BY <1>3, <1>4, <1>5, <1>6, <1>7 DEF rtt, copa

LEMMA StepPaced == MP!IInv /\ PacedByStanding /\ [Next]_vars => PacedByStanding'
<1> SUFFICES ASSUME MP!IInv, PacedByStanding, [Next]_vars,
                    ~aborted', num_acked' >= 2 * num_probe_pkts
             PROVE  hist' # <<>> /\ cur_intersend'.rtt = W!get_unjittered_rtt'
  BY DEF PacedByStanding
<1> USE CopaFlowAssumption DEF M!MarkovianAssumption
<1>1. CASE init
  BY <1>1 DEF init, M!init
<1>2. CASE onPktSent
  BY <1>2 DEF onPktSent, M!onPktSent, rtt_window, PacedByStanding, W!get_unjittered_rtt
<1>3. CASE Tick
  BY <1>3 DEF Tick, M!Tick, M!cc, rtt_window, PacedByStanding, W!get_unjittered_rtt
<1>4. CASE Ack
  <2>1. num_acked \in Nat /\ num_acked' = num_acked + 1
    BY <1>4, AckReads
  <2>2. ~M!IsProbing
    BY <2>1 DEF M!IsProbing
  <2> QED BY <1>4, <2>2, AckReads
<1>5. CASE UNCHANGED vars
  BY <1>5 DEF vars, M!vars, M!cc, rtt_window, PacedByStanding, W!get_unjittered_rtt
<1> QED BY <1>1, <1>2, <1>3, <1>4, <1>5 DEF Next

LEMMA StepMode == MP!IInv /\ ModeFollowsQueue /\ [Next]_vars => ModeFollowsQueue'
<1> SUFFICES ASSUME MP!IInv, ModeFollowsQueue, [Next]_vars,
                    utility_mode = "AUTO_MODE", ~aborted'
             PROVE  delta'.mode = "DEFAULT_MODE" <=> num_acked' = 0 \/ W!is_copa'
  BY DEF ModeFollowsQueue
<1>1. CASE init
  BY <1>1 DEF init, M!init, M!FreshDelta
<1>2. CASE onPktSent
  BY <1>2 DEF onPktSent, M!onPktSent, rtt_window, ModeFollowsQueue, W!is_copa
<1>3. CASE Tick
  BY <1>3 DEF Tick, M!Tick, M!cc, rtt_window, ModeFollowsQueue, W!is_copa
<1>4. CASE Ack
  BY <1>4, AckReads DEF Verdict
<1>5. CASE UNCHANGED vars
  BY <1>5 DEF vars, M!vars, M!cc, rtt_window, ModeFollowsQueue, W!is_copa
<1> QED BY <1>1, <1>2, <1>3, <1>4, <1>5 DEF Next

THEOREM Invariance == Spec => []IInv
<1>1. Init => PacedByStanding /\ ModeFollowsQueue
  BY CopaFlowAssumption DEF Init, M!Init, M!FreshDelta, M!MarkovianAssumption, PacedByStanding,
     ModeFollowsQueue
<1> QED BY <1>1, StepPaced, StepMode, ControllerInvariant, InitClock, StepClock, PTL
        DEF Spec, IInv

\* delta is always updated in the mode that the samples call for.
THEOREM ModeFollows == Spec => []ModeFollowsQueue
<1>1. IInv => ModeFollowsQueue
  BY DEF IInv
<1> QED BY <1>1, Invariance, PTL

\* After probing a flow sends at the rate of an RTT that was measured within
\* half a smoothed RTT of the last ack, or by that ack.
THEOREM PacedFresh == Spec => []PacedByFreshRtt
<1>1. IInv /\ W!StandingIsFresh => PacedByFreshRtt
  BY DEF IInv, OneClock, PacedByStanding, W!StandingIsFresh, PacedByFreshRtt
<1> QED BY <1>1, Invariance, WindowReadings, PTL
=============================================================================

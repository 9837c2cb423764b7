---------------------------- MODULE HandshakeProofs ----------------------------
(***************************************************************************)
(* What Handshake guarantees for every timeout, propagation time, number    *)
(* of flows and network: the inductive invariant, and from it that only a   *)
(* stale echo or a failed reception can teach the controller a minimum RTT  *)
(* below the propagation time.                                              *)
(***************************************************************************)
EXTENDS Handshake, TLAPS

USE HandshakeAssumption DEF HandshakeAssumption, Never, NoRtt

LEMMA OlderIsAge == \A a \in 0 .. MaxAge : Older(a) \in 0 .. MaxAge /\ Older(a) >= a
  BY DEF Older

LEMMA OlderMonotone ==
  \A a, b \in 0 .. MaxAge : a <= b => Older(a) <= Older(b)
  BY DEF Older

LEMMA InitIInv == Init => IInv
<1> SUFFICES ASSUME Init PROVE IInv
  OBVIOUS
<1>1. NetTypeOK
  BY DEF Init, NetTypeOK
<1>f. FlagsTypeOK
  BY DEF Init, FlagsTypeOK
<1>2. TypeOK /\ Timers /\ FirstFlow
  BY <1>1, <1>f DEF Init, TypeOK, Timers, FirstFlow
<1>3. OneAnswer /\ NoneOlder
  BY DEF Init, OneAnswer, NoneOlder
<1>4. OnlyStaleMisleads
  BY DEF Init, OnlyStaleMisleads, MinRttIsPossible
<1> QED
  BY <1>2, <1>3, <1>4 DEF IInv

\* Only SendProbe and EndFlow add a datagram; time and the receiver change one.
LEMMA StepNet == TypeOK /\ Next => NetTypeOK'
<1> SUFFICES ASSUME TypeOK, Next PROVE NetTypeOK'
  OBVIOUS
<1>1. \A a \in 0 .. MaxAge : Older(a) \in 0 .. MaxAge
  BY DEF Older
<1>2. net \subseteq Datagram
  BY DEF TypeOK, NetTypeOK
<1>3. ASSUME net' \subseteq net \/ net' = net
      PROVE  net' \subseteq Datagram
  BY <1>2, <1>3
<1>4. CASE SendProbe
  BY <1>4, <1>2 DEF SendProbe, NetTypeOK, Datagram
<1>5. CASE EndFlow
  BY <1>5, <1>2 DEF EndFlow, NetTypeOK, Datagram
<1>6. CASE Echo
  <2>1. PICK m \in net :
            \/ net' = (net \ {m}) \cup {[m EXCEPT !.kind = "reply"]}
            \/ net' = net \cup {[m EXCEPT !.kind = "reply"]}
    BY <1>6 DEF Echo
  <2>2. [m EXCEPT !.kind = "reply"] \in Datagram
    BY <1>2 DEF Datagram
  <2> QED
    BY <2>1, <2>2, <1>2 DEF NetTypeOK
<1>7. CASE Tick
  <2>1. ASSUME NEW m \in net
        PROVE  [m EXCEPT !.age = Older(m.age)] \in Datagram
    BY <1>1, <1>2 DEF Datagram
  <2>2. net' = {[m EXCEPT !.age = Older(m.age)] : m \in net}
    BY <1>7 DEF Tick
  <2> QED
    BY <2>1, <2>2 DEF NetTypeOK
<1>8. CASE ReceiveReply \/ ReceiveOther \/ DataReceive \/ Lose
  BY <1>8, <1>3 DEF ReceiveReply, ReceiveOther, DataReceive, Lose, Delivered, NetTypeOK
<1>9. CASE StartFlow \/ SkipProbe \/ PollTimeout \/ ReceiveError
  BY <1>9, <1>3 DEF StartFlow, SkipProbe, PollTimeout, ReceiveError, NetTypeOK
<1> QED
  BY <1>4, <1>5, <1>6, <1>7, <1>8, <1>9 DEF Next, Sender

LEMMA StepFlags == TypeOK /\ Next => FlagsTypeOK'
  BY DEF TypeOK, FlagsTypeOK, Next, Sender, StartFlow, SendProbe, SkipProbe, PollTimeout,
         ReceiveReply, ReceiveOther, ReceiveError, DataReceive, EndFlow, Echo, Lose, Tick

LEMMA StepTimers == IInv /\ Next => TypeOK' /\ Timers' /\ FirstFlow'
<1> SUFFICES ASSUME IInv, Next PROVE TypeOK' /\ Timers' /\ FirstFlow'
  OBVIOUS
<1> USE DEF IInv
<1>net. NetTypeOK' /\ FlagsTypeOK'
  BY StepNet, StepFlags
<1>1. CASE StartFlow
  <2>1. TypeOK'
    BY <1>net, <1>1 DEF StartFlow, TypeOK, Timers
  <2>2. Timers'
    BY <1>net, <1>1 DEF StartFlow, TypeOK, Timers
  <2>3. FirstFlow'
    BY <1>net, <1>1 DEF StartFlow, TypeOK, FirstFlow
  <2> QED
    BY <2>1, <2>2, <2>3
<1>2. CASE SendProbe
  BY <1>net, <1>2 DEF SendProbe, Poll, TypeOK, Timers, FirstFlow
<1>3. CASE SkipProbe
  BY <1>net, <1>3 DEF SkipProbe, Poll, TypeOK, Timers, FirstFlow
<1>4. CASE PollTimeout
  BY <1>net, <1>4 DEF PollTimeout, TypeOK, Timers, FirstFlow
<1>5. CASE ReceiveReply
  <2>1. TypeOK'
    BY <1>net, <1>5 DEF ReceiveReply, Delivered, Establish, SetMinRtt, TypeOK, Timers
  <2>2. Timers'
    BY <1>net, <1>5 DEF ReceiveReply, Establish, TypeOK, Timers
  <2>3. FirstFlow'
    BY <1>net, <1>5 DEF ReceiveReply, Establish, TypeOK, FirstFlow
  <2> QED
    BY <2>1, <2>2, <2>3
<1>6. CASE ReceiveOther
  <2>1. TypeOK'
    BY <1>net, <1>6 DEF ReceiveOther, Delivered, TypeOK
  <2>2. Timers'
    BY <1>net, <1>6 DEF ReceiveOther, TypeOK, Timers
  <2>3. FirstFlow'
    BY <1>net, <1>6 DEF ReceiveOther, TypeOK, Timers, FirstFlow
  <2> QED
    BY <2>1, <2>2, <2>3
<1>7. CASE ReceiveError
  BY <1>net, <1>7 DEF ReceiveError, Establish, SetMinRtt, TypeOK, Timers, FirstFlow
<1>8. CASE DataReceive
  BY <1>net, <1>8 DEF DataReceive, Delivered, TypeOK, Timers, FirstFlow
<1>9. CASE EndFlow
  BY <1>net, <1>9 DEF EndFlow, TypeOK, Timers, FirstFlow
<1>10. CASE Echo
  BY <1>net, <1>10 DEF Echo, TypeOK, Timers, FirstFlow
<1>11. CASE Lose
  BY <1>net, <1>11 DEF Lose, TypeOK, Timers, FirstFlow
<1>12. CASE Tick
  BY <1>net, <1>12, OlderIsAge DEF Tick, Older, TypeOK, Timers, FirstFlow
<1> QED
  BY <1>1, <1>2, <1>3, <1>4, <1>5, <1>6, <1>7, <1>8, <1>9, <1>10, <1>11, <1>12
     DEF Next, Sender

\* The datagrams after a step: those before it, perhaps fewer, perhaps aged or
\* echoed, and the probe SendProbe sends.
LEMMA StepOneAnswer == IInv /\ Next => OneAnswer'
<1> SUFFICES ASSUME IInv, Next, errors' = 0, ~resent', ~Duplicates,
                    NEW m \in net', Answers(m)
             PROVE  /\ InHandshake' /\ probeAge' # Never
                    /\ \A n \in net' : Answers(n) => n = m
  BY DEF OneAnswer
<1>1. errors = 0 /\ ~resent /\ errors \in 0 .. MaxErrors
  BY DEF IInv, TypeOK, FlagsTypeOK, Next, Sender, StartFlow, SendProbe, SkipProbe,
         PollTimeout, ReceiveReply, ReceiveOther, ReceiveError, DataReceive, EndFlow,
         Echo, Lose, Tick
<1>2. ASSUME NEW a \in net, Answers(a)
      PROVE  /\ InHandshake /\ probeAge # Never
             /\ \A b \in net : Answers(b) => b = a
  BY <1>1, <1>2 DEF IInv, OneAnswer
<1>3. CASE StartFlow
  BY <1>2, <1>3 DEF StartFlow, InHandshake
<1>4. CASE SendProbe
  <2>1. probeAge = Never
    BY <1>4 DEF SendProbe
  <2>2. \A a \in net' : Answers(a) => a = [kind |-> "probe", age |-> 0]
    BY <1>2, <1>4, <2>1 DEF SendProbe
  <2> QED
    BY <1>4, <2>2 DEF SendProbe, Poll, InHandshake
<1>5. CASE SkipProbe \/ PollTimeout
  BY <1>2, <1>5 DEF SkipProbe, Poll, PollTimeout, InHandshake
<1>6. CASE ReceiveReply
  <2>1. PICK a \in net : Answers(a) /\ net' = net \ {a}
    BY <1>6 DEF ReceiveReply, Delivered, Answers
  <2> QED
    BY <1>2, <2>1
<1>7. CASE ReceiveOther
  BY <1>2, <1>7 DEF ReceiveOther, Delivered, InHandshake
<1>8. CASE ReceiveError
  BY <1>1, <1>8 DEF ReceiveError
<1>9. CASE DataReceive
  BY <1>2, <1>9 DEF DataReceive, Delivered, InHandshake
<1>10. CASE EndFlow
  BY <1>2, <1>10 DEF EndFlow, InHandshake, Answers
<1>11. CASE Echo
  <2>1. PICK a \in net : Answers(a) /\ net' = (net \ {a}) \cup {[a EXCEPT !.kind = "reply"]}
    BY <1>11 DEF Echo, Answers
  <2>2. \A b \in net' : Answers(b) => b = [a EXCEPT !.kind = "reply"]
    BY <1>2, <2>1
  <2>3. pc' = pc /\ probeAge' = probeAge
    BY <1>11 DEF Echo
  <2> QED
    BY <1>2, <2>1, <2>2, <2>3 DEF InHandshake
<1>12. CASE Lose
  BY <1>2, <1>12 DEF Lose, InHandshake
<1>13. CASE Tick
  <2> DEFINE aged(a) == [a EXCEPT !.age = Older(a.age)]
  <2>1. net' = {aged(a) : a \in net} /\ pc' = pc
    BY <1>13 DEF Tick
  <2>2. \A a \in net : Answers(aged(a)) <=> Answers(a)
    BY DEF IInv, TypeOK, NetTypeOK, Datagram, Answers
  <2>3. PICK a \in net : m = aged(a) /\ Answers(a)
    BY <2>1, <2>2
  <2>4. probeAge' # Never
    <3>1. probeAge \in 0 .. MaxAge
      BY <1>2, <2>3 DEF IInv, TypeOK
    <3> QED
      BY <3>1, <1>13, OlderIsAge DEF Tick
  <2>5. \A n \in net' : Answers(n) => n = m
    <3> HIDE DEF aged
    <3> QED
      BY <1>2, <2>1, <2>2, <2>3
  <2> QED
    BY <1>2, <2>1, <2>3, <2>4, <2>5 DEF InHandshake
<1> QED
  BY <1>3, <1>4, <1>5, <1>6, <1>7, <1>8, <1>9, <1>10, <1>11, <1>12, <1>13 DEF Next, Sender

\* What is not stale after a step was not stale before it.
LEMMA StaleStays == IInv /\ Next /\ NothingStale' => NothingStale
  BY DEF IInv, TypeOK, FlagsTypeOK, NothingStale, Next, Sender, StartFlow, SendProbe,
         SkipProbe, PollTimeout, ReceiveReply, ReceiveOther, ReceiveError, DataReceive,
         EndFlow, Echo, Lose, Tick

LEMMA StepNoneOlder == IInv /\ Next => NoneOlder'
<1> SUFFICES ASSUME IInv, Next, NothingStale', InHandshake', ~multi_send',
                    NEW m \in net', Answers(m)
             PROVE  probeAge' # Never /\ m.age <= probeAge'
  BY DEF NoneOlder
<1>1. NothingStale
  BY StaleStays
<1>2. ASSUME NEW a \in net, Answers(a), InHandshake, ~multi_send
      PROVE  probeAge # Never /\ a.age <= probeAge
  BY <1>1, <1>2 DEF IInv, NoneOlder
<1>3. net \subseteq Datagram /\ probeAge \in {Never} \cup 0 .. MaxAge
  BY DEF IInv, TypeOK, NetTypeOK
<1>4. CASE StartFlow
  <2>1. flow = 0 \/ flow >= 1
    BY DEF IInv, TypeOK
  <2>2. CASE flow = 0
    BY <1>4, <2>2 DEF IInv, FirstFlow, StartFlow
  <2>3. CASE flow >= 1
    <3>1. ~(flow' <= 1)
      BY <1>4, <2>3 DEF StartFlow, IInv, TypeOK
    <3>2. errors = 0 /\ ~resent /\ ~Duplicates
      BY <1>4, <3>1 DEF StartFlow, NothingStale
    <3>3. ~InHandshake /\ net' = net
      BY <1>4 DEF StartFlow, InHandshake
    <3> QED
      BY <3>2, <3>3 DEF IInv, OneAnswer
  <2> QED
    BY <2>1, <2>2, <2>3
<1>5. CASE SendProbe
  <2>1. probeAge = Never /\ ~multi_send
    BY <1>5 DEF SendProbe
  <2>2. m = [kind |-> "probe", age |-> 0]
    BY <1>2, <1>5, <2>1 DEF SendProbe, InHandshake
  <2> QED
    BY <1>5, <2>2 DEF SendProbe
<1>6. CASE SkipProbe \/ PollTimeout \/ ReceiveOther \/ ReceiveError \/ Lose
  BY <1>2, <1>6 DEF SkipProbe, Poll, PollTimeout, ReceiveOther, ReceiveError, Establish,
                    Delivered, Lose, InHandshake
<1>7. CASE ReceiveReply \/ DataReceive \/ EndFlow
  BY <1>7 DEF ReceiveReply, Establish, DataReceive, EndFlow, InHandshake
<1>8. CASE Echo
  <2>1. pc' = pc /\ probeAge' = probeAge /\ multi_send' = multi_send
    BY <1>8 DEF Echo
  <2>2. PICK a \in net :
            /\ a.kind = "probe"
            /\ m \in net \/ m = [a EXCEPT !.kind = "reply"]
    BY <1>8 DEF Echo
  <2>3. Answers(a)
    BY <2>2 DEF Answers
  <2>4. a \in Datagram
    BY <1>3
  <2>5. [a EXCEPT !.kind = "reply"].age = a.age
    BY <2>4 DEF Datagram
  <2> QED
    BY <1>2, <2>1, <2>2, <2>3, <2>5 DEF InHandshake
<1>9. CASE Tick
  <2>1. PICK a \in net : m = [a EXCEPT !.age = Older(a.age)]
    BY <1>9 DEF Tick
  <2>2. m.age = Older(a.age) /\ Answers(a) /\ a.age \in 0 .. MaxAge
    BY <1>3, <2>1 DEF Datagram, Answers
  <2>3. pc' = pc /\ multi_send' = multi_send
    BY <1>9 DEF Tick
  <2>4. probeAge # Never /\ a.age <= probeAge
    BY <1>2, <2>2, <2>3 DEF InHandshake
  <2>5. probeAge' = Older(probeAge) /\ probeAge \in 0 .. MaxAge
    BY <1>3, <1>9, <2>4 DEF Tick
  <2> QED
    BY <2>2, <2>4, <2>5, OlderMonotone, OlderIsAge
<1> QED
  BY <1>4, <1>5, <1>6, <1>7, <1>8, <1>9 DEF Next, Sender

\* An echo is accepted only after BaseRtt, and the probe is no younger.
LEMMA StepMisleads == IInv /\ Next => OnlyStaleMisleads'
<1> SUFFICES ASSUME IInv, Next, NothingStale' PROVE MinRttIsPossible'
  BY DEF OnlyStaleMisleads
<1>1. NothingStale /\ MinRttIsPossible
  BY StaleStays DEF IInv, OnlyStaleMisleads
<1>2. CASE ReceiveReply
  <2>1. PICK m \in net : m.kind = "reply" /\ m.age >= BaseRtt
    BY <1>2 DEF ReceiveReply, Arrived
  <2>2. m.age \in Nat /\ Answers(m)
    BY <2>1 DEF IInv, TypeOK, NetTypeOK, Datagram, Answers
  <2>3. ~multi_send => m.age <= probeAge
    BY <1>1, <1>2, <2>2 DEF IInv, NoneOlder, InHandshake, ReceiveReply
  <2>4. /\ probeAge \in Int
        /\ external_min_rtt' = IF ~multi_send /\ probeAge < external_min_rtt
                               THEN probeAge ELSE external_min_rtt
    BY <1>2 DEF ReceiveReply, Establish, SetMinRtt, IInv, TypeOK
  <2> QED
    BY <1>1, <2>1, <2>2, <2>3, <2>4 DEF MinRttIsPossible
<1>3. CASE ReceiveError
  BY <1>3 DEF ReceiveError, NothingStale, IInv, TypeOK
<1>4. CASE ~ReceiveReply /\ ~ReceiveError
  <2>1. external_min_rtt' = external_min_rtt
    BY <1>4 DEF Next, Sender, StartFlow, SendProbe, SkipProbe, PollTimeout, ReceiveOther,
                DataReceive, EndFlow, Echo, Lose, Tick
  <2> QED
    BY <1>1, <2>1 DEF MinRttIsPossible
<1> QED
  BY <1>2, <1>3, <1>4

LEMMA Stutter == IInv /\ UNCHANGED vars => IInv'
  BY DEF vars, IInv, TypeOK, NetTypeOK, FlagsTypeOK, Timers, FirstFlow, OneAnswer,
         NoneOlder, OnlyStaleMisleads, NothingStale, MinRttIsPossible, InHandshake

LEMMA StepIInv == IInv /\ [Next]_vars => IInv'
  BY StepTimers, StepOneAnswer, StepNoneOlder, StepMisleads, Stutter DEF IInv

\* The invariant of the handshakes (tcp_handshake(), ctcp.hh:107).
THEOREM Invariance == Spec => []IInv
  BY InitIInv, StepIInv, PTL DEF Spec

\* Every variable keeps its type, and no bound is exceeded.
THEOREM TypeCorrect == Spec => []TypeOK
<1>1. IInv => TypeOK
  BY DEF IInv
<1> QED
  BY Invariance, <1>1, PTL

\* Only a stale echo or a failed reception misleads the controller: its
\* minimum RTT is otherwise at least the propagation time (ctcp.hh:151).
THEOREM OnlyStale == Spec => []OnlyStaleMisleads
<1>1. IInv => OnlyStaleMisleads
  BY DEF IInv
<1> QED
  BY Invariance, <1>1, PTL

\* A single flow without failed receptions never learns an impossible RTT,
\* although the network may lose, delay, reorder and duplicate.
THEOREM SingleFlow ==
  ASSUME NumCycles = 1, MaxErrors = 0
  PROVE  Spec => []MinRttIsPossible
<1>1. IInv => MinRttIsPossible
  BY DEF IInv, TypeOK, OnlyStaleMisleads, NothingStale
<1> QED
  BY Invariance, <1>1, PTL

\* Lost probes and echoes are made good in time (ctcp.hh:131).
THEOREM Refreshed == Spec => []ProbeRefreshed
<1>1. IInv => ProbeRefreshed
  BY DEF IInv, Timers, TypeOK, ProbeRefreshed
<1> QED
  BY Invariance, <1>1, PTL
=============================================================================

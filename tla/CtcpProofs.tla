------------------------------ MODULE CtcpProofs ------------------------------
(***************************************************************************)
(* What CTCP's sending loop guarantees for every train length, window,      *)
(* pacing interval and timeout, whatever the network does: the bound on     *)
(* unacknowledged packets, the meaning of largest_ack, and pacing over the  *)
(* whole flow.                                                              *)
(***************************************************************************)
EXTENDS Ctcp, FiniteSetTheorems, TLAPS

\* Arithmetic: trains are told apart by remainders, and pacing multiplies.
LEMMA SmallMultiple ==
  ASSUME NEW t \in Nat \ {0}, NEW k \in Int, -t < t * k, t * k < t
  PROVE  k = 0
<1>1. CASE k >= 1
  <2>1. t * k >= t
    BY <1>1, SMT
  <2> QED
    BY <2>1, SMT
<1>2. CASE k <= -1
  <2>1. t * k <= -t
    BY <1>2, SMT
  <2> QED
    BY <2>1, SMT
<1> QED
  BY <1>1, <1>2, SMT

\* Division with remainder, and that it is the only one.
LEMMA DivMod ==
  ASSUME NEW s \in Nat, NEW t \in Nat \ {0}
  PROVE  s \div t \in Int /\ s % t \in 0 .. t - 1 /\ s = t * (s \div t) + (s % t)
<1>1. s \div t \in Int
  BY SMT
<1>2. s % t \in 0 .. t - 1
  BY SMT
<1>3. s = t * (s \div t) + (s % t)
  BY SMTT(60)
<1> QED
  BY <1>1, <1>2, <1>3

LEMMA ModUnique ==
  ASSUME NEW t \in Nat \ {0}, NEW q \in Int, NEW r \in 0 .. t - 1, t * q + r \in Nat
  PROVE  (t * q + r) % t = r
<1> DEFINE s == t * q + r
           d == s \div t
           m == s % t
<1>1. d \in Int /\ m \in 0 .. t - 1 /\ s = t * d + m
  BY DivMod
<1>2. t * (d - q) = r - m
  <2> HIDE DEF d, m
  <2> QED
    BY <1>1, SMT
<1>3. -t < r - m /\ r - m < t
  <2> HIDE DEF d, m
  <2> QED BY <1>1, SMT
<1>4. d - q \in Int
  <2> HIDE DEF d, m
  <2> QED BY <1>1, SMT
<1>5. d - q = 0
  <2> HIDE DEF d, m
  <2> QED BY <1>2, <1>3, <1>4, SmallMultiple
<1>6. m = r
  <2> HIDE DEF d, m
  <2> QED BY <1>1, <1>2, <1>4, <1>5, SMT
<1> QED
  BY <1>6 DEF m, s

LEMMA ModStep ==
  ASSUME NEW s \in Nat, NEW t \in Nat \ {0}
  PROVE  (s + 1) % t = IF s % t = t - 1 THEN 0 ELSE (s % t) + 1
<1> DEFINE q == s \div t
           r == s % t
<1>1. q \in Int /\ r \in 0 .. t - 1 /\ s = t * q + r
  BY DivMod
<1> HIDE DEF q, r
<1>2. CASE r = t - 1
  <2>1. s + 1 = t * (q + 1) + 0
    BY <1>1, <1>2, SMT
  <2>2. q + 1 \in Int /\ 0 \in 0 .. t - 1 /\ t * (q + 1) + 0 \in Nat
    BY <1>1, <2>1, SMT
  <2>3. (t * (q + 1) + 0) % t = 0
    BY <2>2, ModUnique
  <2> QED
    BY <1>2, <2>1, <2>3 DEF r
<1>3. CASE r # t - 1
  <2>1. s + 1 = t * q + (r + 1)
    BY <1>1, SMT
  <2>2. r + 1 \in 0 .. t - 1 /\ t * q + (r + 1) \in Nat
    BY <1>1, <1>3, <2>1, SMT
  <2>3. (t * q + (r + 1)) % t = r + 1
    BY <1>1, <2>2, ModUnique
  <2> QED
    BY <1>3, <2>1, <2>3 DEF r
<1> QED
  BY <1>2, <1>3

LEMMA MulMono == \A a, b, c \in Nat : a <= b => c * a <= c * b
  BY SMT

LEMMA Distribute == \A a, b, c \in Int : (a + b) * c = a * c + b * c
  BY SMT

LEMMA MulNat == \A a, b \in Nat : a * b \in Nat
  BY SMT

------------------------------------------------------------------------------
USE CtcpAssumption DEF CtcpAssumption, Forever

\* The packets of the train begun: where the next packet stands in its train
LEMMA TrainFacts ==
  ASSUME seq_num \in Nat
  PROVE  /\ TrainDone \in 0 .. train_length - 1
         /\ StartsTrain <=> TrainDone = 0
         /\ TrainFirst + TrainDone = seq_num /\ TrainFirst \in Int
<1>1. TrainDone \in 0 .. train_length - 1
  BY DivMod DEF TrainDone
<1> QED
  BY <1>1 DEF TrainDone, TrainFirst, StartsTrain

\* One packet further: in the same train, or at the start of the next
LEMMA NextInTrain ==
  ASSUME seq_num \in Nat, seq_num' = seq_num + 1
  PROVE  \/ TrainDone = train_length - 1 /\ StartsTrain' /\ TrainFirst' = seq_num + 1
         \/ /\ TrainDone < train_length - 1 /\ ~StartsTrain'
            /\ TrainFirst' = TrainFirst
<1>1. TrainDone' = IF TrainDone = train_length - 1 THEN 0 ELSE TrainDone + 1
  BY ModStep DEF TrainDone
<1>2. StartsTrain' <=> TrainDone' = 0
  BY DEF StartsTrain, TrainDone
<1>3. TrainFirst' = seq_num' - TrainDone'
  BY DEF TrainFirst
<1>4. TrainFirst = seq_num - TrainDone /\ TrainDone \in 0 .. train_length - 1
  BY TrainFacts DEF TrainFirst
<1> QED
  BY <1>1, <1>2, <1>3, <1>4

LEMMA InitCounts == Init => TrainsBegun /\ CountsOwnEchoes /\ NeverUndercounts
<1> SUFFICES ASSUME Init PROVE TrainsBegun /\ CountsOwnEchoes /\ NeverUndercounts
  OBVIOUS
<1>1. IsFiniteSet({}) /\ Cardinality({}) = 0
  BY FS_EmptySet
<1>2. {h \in net : h.own} = {}
  BY DEF Init
<1>3. /\ cc \in CCType
      /\ cc.unacked = {} /\ cc.sent = 0 /\ cc.acked = 0 /\ cc.lost = 0
  BY DEF Init, FreshCC, CCType
<1>4. IsFiniteSet(net) /\ transmitted = 0 /\ seq_num = 0 /\ dups = 0 /\ errors = 0
  BY DEF Init
<1>5. TrainsBegun
  BY <1>1, <1>3, <1>4 DEF TrainsBegun
<1>6. CountsOwnEchoes
  <2>1. Cardinality({h \in net : h.own}) = 0
    BY <1>1, <1>2
  <2> QED
    BY <1>4, <2>1 DEF CountsOwnEchoes
<1>7. NeverUndercounts
  <2>1. Cardinality(cc.unacked) = 0
    BY <1>1, <1>3
  <2> QED
    BY <1>3, <2>1 DEF NeverUndercounts
<1> QED
  BY <1>5, <1>6, <1>7

LEMMA InitIInv == Init => IInv
<1> SUFFICES ASSUME Init PROVE IInv
  OBVIOUS
<1>1. TypeOK
  BY DEF Init, TypeOK
<1>2. HeadersSent
  BY DEF Init, HeadersSent, Foreign
<1>3. StartsTrain
  <2>1. train_length * 0 + 0 = 0
    BY SMT
  <2>2. (train_length * 0 + 0) % train_length = 0
    BY <2>1, ModUnique
  <2> QED
    BY <2>1, <2>2 DEF Init, StartsTrain
<1>4. MinIntersend \in Nat /\ 0 * MinIntersend = 0
  BY SMT
<1>5. MaxWindow \in Nat /\ train_length \in Nat
  OBVIOUS
<1> QED
  BY <1>1, <1>2, <1>3, <1>4, <1>5, InitCounts
  DEF Init, IInv, AckedIsReal, TrainFits, UnackedBound, TrainPaced, PacingRespected
\* What a reception does to the sender, the controller aside
LEMMA ProcessEffect ==
  ASSUME NEW h, Process(h)
  PROVE  /\ pc' = "top"
         /\ \/ /\ h.own /\ cur_time' = now /\ last_ack_time' = now
               /\ transmitted' = transmitted + 1
               /\ largest_ack' = MaxOf(largest_ack, h.seq + 1)
               /\ base' = MaxOf(base, h.seq + 1)
            \/ UNCHANGED <<cur_time, last_ack_time, transmitted, largest_ack, base>>
  BY DEF Process

LEMMA StepRate == TypeOK /\ Next => window' \in Windows /\ intersend' \in Intersends
<1> SUFFICES ASSUME TypeOK, Next PROVE window' \in Windows /\ intersend' \in Intersends
  OBVIOUS
<1>1. window \in Windows /\ intersend \in Intersends
  BY DEF TypeOK
<1>2. ASSUME AnyRate \/ UNCHANGED rate
      PROVE  window' \in Windows /\ intersend' \in Intersends
  BY <1>1, <1>2 DEF AnyRate, rate
<1>3. CASE SendPacket
  BY <1>2, <1>3 DEF SendPacket, onPktSent
<1>4. ASSUME NEW h, Process(h) PROVE AnyRate \/ UNCHANGED rate
  BY <1>4 DEF Process, onACK, rate
<1>5. CASE Receive \/ ReceiveError
  BY <1>2, <1>4, <1>5 DEF Receive, ReceiveError
<1>6. CASE Finish \/ Round \/ AckTimedOut \/ TimedOutAtEnd \/ StartPoll \/ NothingReceived \/ Tick
  BY <1>2, <1>6 DEF Finish, Round, AckTimedOut, TimedOutAtEnd, StartPoll, NothingReceived, Tick
<1> QED
  BY <1>3, <1>5, <1>6 DEF Next, Sender

LEMMA StepType == TypeOK /\ HeadersSent /\ Next => TypeOK'
<1> SUFFICES ASSUME TypeOK, HeadersSent, Next PROVE TypeOK'
  OBVIOUS
<1>0. window' \in Windows /\ intersend' \in Intersends
  BY StepRate
<1>1. ASSUME NEW h \in net \cup {buf}, Process(h), UNCHANGED <<now, seq_num, last_send_time, pollEnd>>,
             dups' \in 0 .. MaxDups, errors' \in 0 .. MaxErrors
      PROVE  TypeOK'
  <2>1. h.own => h.seq \in Nat
    BY DEF HeadersSent
  <2> QED
    BY <1>0, <1>1, <2>1, ProcessEffect DEF TypeOK, MaxOf
<1>2. CASE Finish
  BY <1>0, <1>2 DEF Finish, TypeOK, sender
<1>3. CASE Round
  BY <1>0, <1>3 DEF Round, TypeOK, sender
<1>4. CASE AckTimedOut
  BY <1>0, <1>4 DEF AckTimedOut, TypeOK
<1>5. CASE TimedOutAtEnd
  BY <1>0, <1>5 DEF TimedOutAtEnd, TypeOK, sender
<1>6. CASE SendPacket
  <2>1. intersend \in Nat
    BY DEF TypeOK
  <2> QED
    BY <1>0, <1>6, <2>1 DEF SendPacket, TypeOK
<1>7. CASE StartPoll
  <2>1. /\ last_send_time' \in Nat /\ cur_time' = now /\ pc' = "poll"
        /\ UNCHANGED <<now, seq_num, largest_ack, last_ack_time, transmitted, base, dups, errors>>
    BY <1>7 DEF StartPoll, TypeOK
  <2>2. pollEnd' \in {Forever} \cup Nat
    <3>1. PollTimeout(last_send_time') \in Int
      <4>1. intersend * train_length \in Int /\ window \in Nat /\ now \in Int /\ last_send_time' \in Int
        BY <2>1, MulNat DEF TypeOK
      <4> QED
        BY <4>1 DEF PollTimeout, MinOf
    <3>2. pollEnd' = IF PollTimeout(last_send_time') < 0 THEN Forever
                     ELSE now + PollTimeout(last_send_time')
      BY <1>7 DEF StartPoll
    <3>3. now \in Nat
      BY DEF TypeOK
    <3> QED
      BY <3>1, <3>2, <3>3
  <2> QED
    BY <1>0, <2>1, <2>2 DEF TypeOK
<1>8. CASE NothingReceived
  BY <1>0, <1>8 DEF NothingReceived, TypeOK, sender
<1>9. CASE Receive
  BY <1>1, <1>9 DEF Receive, TypeOK
<1>10. CASE ReceiveError
  BY <1>1, <1>10 DEF ReceiveError, TypeOK
<1>11. CASE Tick
  BY <1>0, <1>11 DEF Tick, TypeOK, sender
<1> QED
  BY <1>2, <1>3, <1>4, <1>5, <1>6, <1>7, <1>8, <1>9, <1>10, <1>11 DEF Next, Sender

\* The steps that send no packet leave the train where it is.
LEMMA SeqUnchanged == Next => SendPacket \/ seq_num' = seq_num
  BY DEF Next, Sender, Finish, Round, AckTimedOut, TimedOutAtEnd, StartPoll, NothingReceived,
         Receive, ReceiveError, Tick, sender

LEMMA StepHeaders == TypeOK /\ HeadersSent /\ Next => HeadersSent'
<1> SUFFICES ASSUME TypeOK, HeadersSent, Next PROVE HeadersSent'
  OBVIOUS
<1>1. seq_num \in Nat
  BY DEF TypeOK
<1>2. CASE SendPacket
  <2>1. /\ buf' = Header(seq_num, cur_time) /\ net' = net \cup {buf'}
        /\ seq_num' = seq_num + 1
    BY <1>2 DEF SendPacket
  <2>2. buf'.seq = seq_num
    BY <2>1 DEF Header
  <2> QED
    BY <1>1, <2>1, <2>2 DEF HeadersSent
<1>3. CASE ~SendPacket
  <2>1. seq_num' = seq_num
    BY <1>3, SeqUnchanged
  <2>2. net' \cup {buf'} \subseteq net \cup {buf}
    BY <1>3 DEF Next, Sender, Finish, Round, AckTimedOut, TimedOutAtEnd, StartPoll,
                NothingReceived, Receive, ReceiveError, Tick
  <2> QED
    BY <2>1, <2>2 DEF HeadersSent
<1> QED
  BY <1>2, <1>3

LEMMA StepAcked ==
  TypeOK /\ HeadersSent /\ AckedIsReal /\ Next => AckedIsReal' /\ base' >= base
<1> SUFFICES ASSUME TypeOK, HeadersSent, AckedIsReal, Next PROVE AckedIsReal' /\ base' >= base
  OBVIOUS
<1>1. /\ seq_num \in Nat /\ base \in Nat /\ largest_ack \in Int
      /\ base - 1 <= largest_ack /\ largest_ack <= base /\ base <= seq_num
  BY DEF TypeOK, AckedIsReal
<1>2. ASSUME NEW h \in net \cup {buf}, Process(h), seq_num' = seq_num
      PROVE  AckedIsReal' /\ base' >= base
  <2>1. h.own => h.seq \in Nat /\ h.seq < seq_num
    BY DEF HeadersSent
  <2> QED
    BY <1>1, <1>2, <2>1, ProcessEffect DEF AckedIsReal, MaxOf
<1>3. CASE Receive \/ ReceiveError
  BY <1>2, <1>3 DEF Receive, ReceiveError
<1>4. CASE AckTimedOut
  BY <1>1, <1>4 DEF AckTimedOut, AckedIsReal
<1>5. CASE SendPacket
  BY <1>1, <1>5 DEF SendPacket, AckedIsReal
<1>6. CASE Finish \/ Round \/ TimedOutAtEnd \/ StartPoll \/ NothingReceived \/ Tick
  <2>1. UNCHANGED <<seq_num, largest_ack, base>>
    BY <1>6 DEF Finish, Round, TimedOutAtEnd, StartPoll, NothingReceived, Tick, sender
  <2> QED
    BY <1>1, <2>1 DEF AckedIsReal
<1> QED
  BY <1>3, <1>4, <1>5, <1>6 DEF Next, Sender

LEMMA LaterBase ==
  \A b, c \in Nat : b <= c => \A s, m \in Int : s - b <= m => s - c <= m
  OBVIOUS

\* The window is looked at when a train starts; a packet more than it admits
\* comes from largest_ack, a train less one from the rest of the train.
LEMMA StepUnacked == IInv /\ Next => TrainFits' /\ UnackedBound'
<1> SUFFICES ASSUME IInv, Next PROVE TrainFits' /\ UnackedBound'
  OBVIOUS
<1>1. /\ seq_num \in Nat /\ base \in Nat /\ largest_ack \in Int /\ largest_ack <= base
      /\ MaxWindow \in Nat /\ seq_num - base <= MaxWindow + train_length
      /\ ~StartsTrain => TrainFirst - base <= MaxWindow
  BY DEF IInv, TypeOK, AckedIsReal, TrainFits, UnackedBound
<1>2. base' \in Nat /\ base <= base'
  BY StepAcked, StepType DEF IInv, TypeOK
<1>3. /\ TrainDone \in 0 .. train_length - 1 /\ (StartsTrain <=> TrainDone = 0)
      /\ TrainFirst + TrainDone = seq_num /\ TrainFirst \in Int
  BY <1>1, TrainFacts
<1>4. CASE SendPacket
  <2>1. seq_num' = seq_num + 1 /\ base' = base
    BY <1>4 DEF SendPacket
  <2>2. TrainFirst - base <= MaxWindow
    <3>1. CASE StartsTrain
      <4>1. seq_num < largest_ack + 1 + window /\ window \in Windows
        BY <1>4, <3>1 DEF SendPacket, MaySend, IInv, TypeOK
      <4>2. window \in Nat /\ window <= MaxWindow
        BY <4>1
      <4> QED
        BY <1>1, <1>3, <3>1, <4>1, <4>2
    <3>2. CASE ~StartsTrain
      BY <1>1, <3>2
    <3> QED
      BY <3>1, <3>2
  <2>3. \/ TrainDone = train_length - 1 /\ StartsTrain' /\ TrainFirst' = seq_num + 1
        \/ TrainDone < train_length - 1 /\ ~StartsTrain' /\ TrainFirst' = TrainFirst
    BY <1>1, <2>1, NextInTrain
  <2> QED
    BY <1>1, <1>3, <2>1, <2>2, <2>3 DEF TrainFits, UnackedBound
<1>5. CASE seq_num' = seq_num
  <2>2. (StartsTrain' <=> StartsTrain) /\ TrainFirst' = TrainFirst
    BY <1>5 DEF StartsTrain, TrainFirst, TrainDone
  <2>3. \A s, m \in Int : s - base <= m => s - base' <= m
    BY <1>1, <1>2, LaterBase
  <2>4. TrainFits'
    BY <1>1, <1>3, <2>2, <2>3 DEF TrainFits
  <2>5. UnackedBound'
    BY <1>1, <1>5, <2>3 DEF UnackedBound
  <2> QED
    BY <2>4, <2>5
<1> QED
  BY <1>4, <1>5, SeqUnchanged

\* last_send_time counts the pacing intervals of the packets sent, and is only
\* ever moved to a reading of the clock; a train starts when that reading
\* leaves room for all of it.
LEMMA StepPaced == IInv /\ Next => TrainPaced' /\ PacingRespected'
<1> SUFFICES ASSUME IInv, Next PROVE TrainPaced' /\ PacingRespected'
  OBVIOUS
<1> DEFINE paced == seq_num * MinIntersend
           trainPaced == (TrainFirst + train_length) * MinIntersend
<1>1. /\ seq_num \in Nat /\ now \in Nat /\ cur_time \in Nat /\ cur_time <= now
      /\ last_send_time \in Nat
      /\ MinIntersend \in Nat /\ intersend \in Nat /\ MinIntersend <= intersend
  BY DEF IInv, TypeOK
<1>2. /\ TrainDone \in 0 .. train_length - 1 /\ (StartsTrain <=> TrainDone = 0)
      /\ TrainFirst + TrainDone = seq_num /\ TrainFirst \in Int
  BY <1>1, TrainFacts
<1>3. paced \in Nat /\ paced <= last_send_time /\ paced <= cur_time
  BY <1>1, MulNat DEF IInv, TrainPaced
<1>4. ~StartsTrain => trainPaced <= cur_time
  BY DEF IInv, TrainPaced
<1>5. CASE SendPacket
  <2>1. /\ seq_num' = seq_num + 1 /\ cur_time' = cur_time /\ now' = now
        /\ last_send_time' = last_send_time + intersend
    BY <1>5 DEF SendPacket
  <2>2. (seq_num + 1) * MinIntersend = paced + MinIntersend
    BY <1>1, Distribute
  <2>3. trainPaced <= cur_time
    <3>1. CASE StartsTrain
      <4>1. last_send_time + intersend * train_length <= cur_time
        BY <1>2, <1>5, <3>1 DEF SendPacket, MaySend
      <4>2. TrainFirst = seq_num
        BY <1>2, <3>1
      <4>3. trainPaced = paced + train_length * MinIntersend
        BY <1>1, <4>2, Distribute
      <4>4. train_length * MinIntersend <= train_length * intersend
        BY <1>1, MulMono
      <4>5. /\ train_length * intersend = intersend * train_length
            /\ train_length * intersend \in Nat /\ train_length * MinIntersend \in Nat
        BY <1>1, MulNat
      <4> HIDE DEF paced, trainPaced
      <4> QED
        BY <1>1, <1>3, <4>1, <4>3, <4>4, <4>5
    <3>2. CASE ~StartsTrain
      BY <1>4, <3>2
    <3> QED
      BY <3>1, <3>2
  <2>4. (seq_num + 1) * MinIntersend <= trainPaced
    <3>1. seq_num + 1 <= TrainFirst + train_length
      BY <1>1, <1>2
    <3>2. seq_num + 1 \in Nat /\ TrainFirst + train_length \in Nat
      BY <1>1, <1>2, <3>1
    <3>3. MinIntersend * (seq_num + 1) <= MinIntersend * (TrainFirst + train_length)
      BY <1>1, <3>1, <3>2, MulMono
    <3> QED
      BY <1>1, <3>2, <3>3
  <2>5. (seq_num + 1) * MinIntersend <= cur_time
    <3>1. (seq_num + 1) * MinIntersend \in Int /\ trainPaced \in Int
      BY <1>1, <1>2
    <3> HIDE DEF trainPaced
    <3> QED
      BY <1>1, <2>3, <2>4, <3>1
  <2>6. (seq_num + 1) * MinIntersend <= last_send_time + intersend
    <3> HIDE DEF paced
    <3> QED
      BY <1>1, <1>3, <2>2
  <2>7. ~StartsTrain' => TrainFirst' = TrainFirst
    BY <1>1, <2>1, NextInTrain
  <2>8. seq_num' * MinIntersend <= now'
    BY <1>1, <2>1, <2>2, <1>3, <2>5
  <2> QED
    BY <2>1, <2>3, <2>5, <2>6, <2>7, <2>8 DEF TrainPaced, PacingRespected
<1>6. CASE ~SendPacket
  <2>1. seq_num' = seq_num
    BY <1>6, SeqUnchanged
  <2>2. (StartsTrain' <=> StartsTrain) /\ TrainFirst' = TrainFirst
    BY <2>1 DEF StartsTrain, TrainFirst, TrainDone
  <2>3. /\ cur_time' \in Nat /\ cur_time' >= cur_time
        /\ now' \in Nat /\ now' >= now
    <3>1. ASSUME NEW h, Process(h) PROVE cur_time' = now \/ cur_time' = cur_time
      BY <3>1 DEF Process
    <3>2. CASE Receive \/ ReceiveError
      <4>1. now' = now
        BY <3>2 DEF Receive, ReceiveError
      <4>2. cur_time' = now \/ cur_time' = cur_time
        BY <3>1, <3>2 DEF Receive, ReceiveError
      <4> QED
        BY <1>1, <4>1, <4>2
    <3>3. CASE ~Receive /\ ~ReceiveError
      <4>1. now' = now \/ now' = now + 1
        BY <1>6, <3>3 DEF Next, Sender, Finish, Round, AckTimedOut, TimedOutAtEnd, StartPoll,
                          NothingReceived, Tick
      <4>2. cur_time' = now \/ cur_time' = cur_time
        BY <1>6, <3>3 DEF Next, Sender, Finish, Round, AckTimedOut, TimedOutAtEnd, StartPoll,
                          NothingReceived, Tick
      <4> QED
        BY <1>1, <4>1, <4>2
    <3> QED
      BY <3>2, <3>3
  <2>4. last_send_time' \in {last_send_time, cur_time, now}
    BY <1>6 DEF Next, Sender, Finish, Round, AckTimedOut, TimedOutAtEnd, StartPoll,
                NothingReceived, Receive, ReceiveError, Tick, sender
  <2>5. paced <= last_send_time' /\ paced <= cur_time' /\ paced <= now'
    <3> HIDE DEF paced
    <3> QED
      BY <1>1, <1>3, <2>3, <2>4
  <2>6. ~StartsTrain => trainPaced <= cur_time'
    <3>1. trainPaced \in Int
      BY <1>1, <1>2
    <3> HIDE DEF trainPaced
    <3> QED
      BY <1>1, <1>4, <2>3, <3>1
  <2> QED
    BY <2>1, <2>2, <2>5, <2>6 DEF TrainPaced, PacingRespected
<1> QED
  BY <1>5, <1>6

------------------------------------------------------------------------------
\* The counts

\* What a set with one element more or less counts
LEMMA OneMoreElement ==
  ASSUME NEW S, IsFiniteSet(S), NEW x, x \notin S
  PROVE  /\ IsFiniteSet(S \cup {x}) /\ Cardinality(S) \in Nat
         /\ Cardinality(S \cup {x}) = Cardinality(S) + 1
  BY FS_AddElement, FS_CardinalityType

LEMMA OneElementLess ==
  ASSUME NEW S, IsFiniteSet(S), NEW x \in S
  PROVE  /\ IsFiniteSet(S \ {x}) /\ Cardinality(S) \in Nat
         /\ Cardinality(S \ {x}) = Cardinality(S) - 1
  BY FS_RemoveElement, FS_CardinalityType

LEMMA CCSent ==
  ASSUME cc \in CCType, NEW u \in SUBSET Nat, NEW m \in Nat,
         cc' = [cc EXCEPT !.unacked = u, !.sent = m]
  PROVE  /\ cc' \in CCType
         /\ cc'.unacked = u /\ cc'.sent = m /\ cc'.acked = cc.acked /\ cc'.lost = cc.lost
         /\ cc'.named = cc.named
  BY DEF CCType

LEMMA CCAcked ==
  ASSUME cc \in CCType, NEW u \in SUBSET Nat, NEW a \in Nat, NEW l \in Nat, NEW x \in Int,
         cc' = [cc EXCEPT !.unacked = u, !.lost = l, !.acked = a, !.named = x]
  PROVE  /\ cc' \in CCType
         /\ cc'.unacked = u /\ cc'.sent = cc.sent /\ cc'.acked = a /\ cc'.lost = l
         /\ cc'.named = x
  BY DEF CCType

LEMMA CCNamed ==
  ASSUME cc \in CCType, NEW a \in Nat, NEW x \in Int,
         cc' = [cc EXCEPT !.acked = a, !.named = x]
  PROVE  /\ cc' \in CCType
         /\ cc'.unacked = cc.unacked /\ cc'.sent = cc.sent /\ cc'.acked = a /\ cc'.lost = cc.lost
         /\ cc'.named = x
  BY DEF CCType

\* An ack moves packets from unacked to acked and lost.
LEMMA AckCounts ==
  ASSUME TrainsBegun, NeverUndercounts, NEW ack \in Int, onACK(ack)
  PROVE  /\ cc' \in CCType
         /\ cc'.unacked \subseteq cc.unacked /\ IsFiniteSet(cc'.unacked)
         /\ NeverUndercounts'
<1> DEFINE n == ack - 1
           older == {x \in cc.unacked : x < n}
           rest == cc.unacked \ (older \cup {n})
           o == Cardinality(older)
           a == cc.acked + 1
           l == cc.lost + o
           u == Cardinality(cc.unacked)
<1>1. /\ cc.unacked \in SUBSET Nat /\ cc.sent \in Nat /\ cc.acked \in Nat /\ cc.lost \in Nat
      /\ IsFiniteSet(cc.unacked)
      /\ cc \in CCType /\ n \in Int
  BY DEF TrainsBegun, CCType
<1>2. older \subseteq cc.unacked /\ rest \subseteq cc.unacked
  OBVIOUS
<1>3. IsFiniteSet(older) /\ IsFiniteSet(rest) /\ o \in Nat /\ u \in Nat /\ Cardinality(rest) \in Nat
  BY <1>1, <1>2, FS_Subset, FS_CardinalityType
<1>4. cc.sent <= cc.acked + cc.lost + u
  BY DEF NeverUndercounts
<1>5. CASE n \in cc.unacked
  <2>1. cc' = [cc EXCEPT !.unacked = rest, !.lost = l, !.acked = a, !.named = n]
    BY <1>5 DEF onACK
  <2>2. a \in Nat /\ l \in Nat /\ rest \in SUBSET Nat
    BY <1>1, <1>2, <1>3
  <2>3. /\ cc' \in CCType
        /\ cc'.unacked = rest /\ cc'.sent = cc.sent /\ cc'.acked = a /\ cc'.lost = l
    <3> HIDE DEF rest, l, a, n
    <3> QED
      BY <1>1, <2>1, <2>2, CCAcked
  <2>4. Cardinality(rest) = u - o - 1
    <3> DEFINE newer == cc.unacked \ older
               c == Cardinality(newer)
    <3>1. IsFiniteSet(newer) /\ n \in newer /\ rest = newer \ {n}
      BY <1>1, <1>5, FS_Subset
    <3>2. c \in Nat /\ Cardinality(rest) = c - 1
      <4> HIDE DEF newer, rest
      <4> QED
        BY <3>1, OneElementLess
    <3>3. c = u - Cardinality(cc.unacked \cap older)
      BY <1>1, <1>3, FS_Difference
    <3>4. cc.unacked \cap older = older
      BY <1>2
    <3>5. c = u - o
      BY <3>3, <3>4
    <3> HIDE DEF c, u, o, rest
    <3> QED
      BY <1>3, <3>2, <3>5
  <2>5. cc.sent <= a + l + Cardinality(rest)
    <3> HIDE DEF u, o, rest
    <3> QED
      BY <1>1, <1>3, <1>4, <2>4
  <2> HIDE DEF rest, a, l
  <2> QED
    BY <1>2, <1>3, <2>3, <2>5 DEF NeverUndercounts
<1>6. CASE n \notin cc.unacked
  <2>1. cc' = [cc EXCEPT !.acked = a, !.named = n]
    BY <1>6 DEF onACK
  <2>2. a \in Nat
    BY <1>1
  <2>3. /\ cc' \in CCType
        /\ cc'.unacked = cc.unacked /\ cc'.sent = cc.sent /\ cc'.acked = a /\ cc'.lost = cc.lost
    <3> HIDE DEF a, n
    <3> QED
      BY <1>1, <2>1, <2>2, CCNamed
  <2>4. cc.sent <= a + cc.lost + u
    <3> HIDE DEF u
    <3> QED
      BY <1>1, <1>3, <1>4
  <2> HIDE DEF a
  <2> QED
    BY <1>1, <2>3, <2>4 DEF NeverUndercounts
<1> QED
  BY <1>5, <1>6

\* A train begun is one the controller does not wait for yet.
LEMMA SendCounts ==
  ASSUME TrainsBegun, NeverUndercounts, seq_num \in Nat, seq_num' = seq_num + 1,
         StartsTrain, onPktSent(seq_num \div train_length)
  PROVE  /\ cc' \in CCType
         /\ IsFiniteSet(cc'.unacked) /\ \A n \in cc'.unacked : n * train_length < seq_num'
         /\ NeverUndercounts'
<1> DEFINE k == seq_num \div train_length
           more == cc.unacked \cup {k}
           m == cc.sent + 1
           u == Cardinality(cc.unacked)
<1>1. /\ cc.unacked \in SUBSET Nat /\ cc.sent \in Nat /\ cc.acked \in Nat /\ cc.lost \in Nat
      /\ IsFiniteSet(cc.unacked) /\ \A n \in cc.unacked : n * train_length < seq_num
      /\ cc \in CCType /\ cc.named \in Int
  BY DEF TrainsBegun, CCType
<1>2. k \in Nat /\ k * train_length = seq_num
  <2>1. k \in Int /\ seq_num = train_length * k + (seq_num % train_length)
    BY DivMod
  <2>2. seq_num % train_length = 0
    BY DEF StartsTrain
  <2>3. k \in Nat
    BY SMT
  <2> HIDE DEF k
  <2> QED
    BY <2>1, <2>2, <2>3, SMT
<1> HIDE DEF k
<1>3. k \notin cc.unacked
  <2> SUFFICES ASSUME k \in cc.unacked PROVE FALSE
    OBVIOUS
  <2>1. k * train_length < seq_num
    BY <1>1
  <2> QED
    BY <1>2, <2>1
<1>4. IsFiniteSet(more) /\ u \in Nat /\ Cardinality(more) = u + 1
  BY <1>1, <1>3, OneMoreElement
<1>5. /\ cc' \in CCType
      /\ cc'.unacked = more /\ cc'.sent = m /\ cc'.acked = cc.acked /\ cc'.lost = cc.lost
  <2>1. cc' = [cc EXCEPT !.unacked = more, !.sent = m]
    BY DEF onPktSent, k
  <2>2. more \in SUBSET Nat /\ m \in Nat
    BY <1>1, <1>2
  <2> HIDE DEF more, m
  <2> QED
    BY <1>1, <2>1, <2>2, CCSent
<1>6. \A n \in more : n * train_length < seq_num'
  <2> TAKE n \in more
  <2>1. CASE n = k
    BY <1>2, <2>1
  <2>2. CASE n \in cc.unacked
    <3>1. n * train_length < seq_num /\ n \in Nat
      BY <1>1, <2>2
    <3>2. n * train_length \in Nat
      BY <3>1, MulNat
    <3> QED
      BY <3>1, <3>2
  <2> QED
    BY <2>1, <2>2
<1>7. m <= cc.acked + cc.lost + Cardinality(more)
  <2>1. cc.sent <= cc.acked + cc.lost + u
    BY DEF NeverUndercounts
  <2> HIDE DEF u, more
  <2> QED
    BY <1>1, <1>4, <2>1
<1> HIDE DEF more, m
<1> QED
  BY <1>4, <1>5, <1>6, <1>7 DEF NeverUndercounts

LEMMA StepCounts == IInv /\ Next => TrainsBegun' /\ CountsOwnEchoes' /\ NeverUndercounts'
<1> SUFFICES ASSUME IInv, Next PROVE TrainsBegun' /\ CountsOwnEchoes' /\ NeverUndercounts'
  OBVIOUS
<1> DEFINE Own == {h \in net : h.own}
           CC == CCType
           Known == \A n \in cc.unacked : n * train_length < seq_num
<1>1. /\ TrainsBegun /\ CountsOwnEchoes /\ NeverUndercounts /\ HeadersSent
      /\ seq_num \in Nat /\ transmitted \in Nat /\ dups \in Nat /\ errors \in Nat
      /\ IsFiniteSet(net) /\ cc \in CC /\ IsFiniteSet(cc.unacked) /\ Known
  BY DEF IInv, TypeOK, TrainsBegun
<1>2. IsFiniteSet(Own) /\ Cardinality(Own) \in Nat
  <2>1. Own \subseteq net
    OBVIOUS
  <2> QED
    BY <1>1, <2>1, FS_Subset, FS_CardinalityType
\* Neither counts nor packets change.
<1>3. CASE Finish \/ Round \/ TimedOutAtEnd \/ StartPoll \/ NothingReceived \/ Tick
  <2>1. UNCHANGED <<net, cc, seq_num, transmitted, dups, errors>>
    BY <1>3 DEF Finish, Round, TimedOutAtEnd, StartPoll, NothingReceived, Tick, sender
  <2> QED
    BY <1>1, <2>1 DEF TrainsBegun, CountsOwnEchoes, NeverUndercounts
<1>4. CASE AckTimedOut
  <2>1. UNCHANGED <<net, seq_num, transmitted, dups, errors>> /\ cc' = FreshCC
    BY <1>4 DEF AckTimedOut
  <2>2. IsFiniteSet({}) /\ Cardinality({}) = 0
    BY FS_EmptySet
  <2>3. /\ cc' \in CC /\ cc'.unacked = {} /\ cc'.sent = 0 /\ cc'.acked = 0 /\ cc'.lost = 0
    BY <2>1 DEF FreshCC, CCType
  <2>4. TrainsBegun'
    BY <1>1, <2>1, <2>2, <2>3 DEF TrainsBegun
  <2>5. NeverUndercounts'
    BY <2>2, <2>3 DEF NeverUndercounts
  <2> QED
    BY <1>1, <2>1, <2>4, <2>5 DEF CountsOwnEchoes
<1>5. CASE SendPacket
  <2> DEFINE new == Header(seq_num, cur_time)
  <2>1. /\ net' = net \cup {new} /\ seq_num' = seq_num + 1
        /\ UNCHANGED <<transmitted, dups, errors>>
        /\ IF StartsTrain THEN onPktSent(seq_num \div train_length) ELSE UNCHANGED <<cc, rate>>
    BY <1>5 DEF SendPacket
  <2>2. new.own = TRUE /\ new.seq = seq_num
    BY DEF Header
  <2>3. new \notin net
    BY <1>1, <2>2 DEF HeadersSent
  <2>4. Own' = Own \cup {new} /\ new \notin Own
    BY <2>1, <2>2, <2>3
  <2>5. IsFiniteSet(net')
    <3> HIDE DEF new
    <3> QED
      BY <1>1, <2>1, FS_AddElement
  <2>6. Cardinality(Own') = Cardinality(Own) + 1
    <3> HIDE DEF new, Own
    <3> QED
      BY <1>2, <2>4, OneMoreElement
  <2>7. CountsOwnEchoes'
    <3> DEFINE c == Cardinality(Own)
    <3>1. transmitted + c - (seq_num + dups) \in 0 .. errors
      BY <1>1 DEF CountsOwnEchoes
    <3>2. transmitted + Cardinality(Own') - (seq_num' + dups) \in 0 .. errors
      <4> HIDE DEF Own
      <4> QED
        BY <1>1, <1>2, <2>1, <2>6, <3>1
    <3> QED
      BY <2>1, <3>2 DEF CountsOwnEchoes
  <2>8. cc' \in CC /\ IsFiniteSet(cc'.unacked) /\ Known' /\ NeverUndercounts'
    <3>1. CASE StartsTrain
      BY <1>1, <2>1, <3>1, SendCounts
    <3>2. CASE ~StartsTrain
      <4>1. cc' = cc
        BY <2>1, <3>2
      <4>2. \A n \in cc.unacked : n * train_length < seq_num + 1
        <5> TAKE n \in cc.unacked
        <5>1. n \in Nat /\ n * train_length < seq_num
          BY <1>1 DEF CCType
        <5>2. n * train_length \in Nat
          BY <5>1, MulNat
        <5> QED
          BY <1>1, <5>1, <5>2
      <4> QED
        BY <1>1, <2>1, <4>1, <4>2 DEF NeverUndercounts
    <3> QED
      BY <3>1, <3>2
  <2> QED
    BY <2>5, <2>7, <2>8 DEF TrainsBegun
\* A header processed counts if it is the flow's own.
<1>6. ASSUME NEW h, h \in net \cup {buf}, Process(h), seq_num' = seq_num
      PROVE  /\ cc' \in CC /\ IsFiniteSet(cc'.unacked) /\ Known' /\ NeverUndercounts'
             /\ transmitted' = IF h.own THEN transmitted + 1 ELSE transmitted
  <2>1. CASE h.own
    <3>1. transmitted' = transmitted + 1
      BY <1>6, <2>1 DEF Process
    <3>2. h.seq \in Nat
      BY <1>1, <1>6, <2>1 DEF HeadersSent
    <3>3. CASE h.seq % train_length = 0
      <4> DEFINE ack == (h.seq + 1) \div train_length
      <4>1. onACK(ack)
        BY <1>6, <2>1, <3>3 DEF Process
      <4>2. ack \in Int
        BY <3>2, DivMod
      <4> HIDE DEF ack
      <4>3. /\ cc' \in CC /\ cc'.unacked \subseteq cc.unacked /\ IsFiniteSet(cc'.unacked)
            /\ NeverUndercounts'
        BY <1>1, <4>1, <4>2, AckCounts
      <4> QED
        BY <1>1, <1>6, <2>1, <3>1, <4>3
    <3>4. CASE h.seq % train_length # 0
      <4>1. cc' = cc
        BY <1>6, <2>1, <3>4 DEF Process
      <4> QED
        BY <1>1, <1>6, <2>1, <3>1, <4>1 DEF NeverUndercounts
    <3> QED
      BY <3>3, <3>4
  <2>2. CASE ~h.own
    <3>1. cc' = cc /\ transmitted' = transmitted
      BY <1>6, <2>2 DEF Process
    <3> QED
      BY <1>1, <1>6, <2>2, <3>1 DEF NeverUndercounts
  <2> QED
    BY <2>1, <2>2
<1>7. CASE Receive
  <2>1. PICK h \in net :
          /\ \/ net' = net \ {h} /\ UNCHANGED dups
             \/ h.own /\ dups' = dups + 1 /\ UNCHANGED net
          /\ Process(h)
    BY <1>7 DEF Receive
  <2>2. seq_num' = seq_num /\ errors' = errors
    BY <1>7 DEF Receive
  <2>3. /\ cc' \in CC /\ IsFiniteSet(cc'.unacked) /\ Known' /\ NeverUndercounts'
        /\ transmitted' = IF h.own THEN transmitted + 1 ELSE transmitted
    BY <1>6, <2>1, <2>2
  <2>4. IsFiniteSet(net')
    BY <1>1, <2>1, FS_RemoveElement
  <2> DEFINE c == Cardinality(Own)
  <2>5. transmitted + c - (seq_num + dups) \in 0 .. errors
    BY <1>1 DEF CountsOwnEchoes
  <2>6. CASE net' = net \ {h} /\ dups' = dups /\ h.own
    <3>1. Own' = Own \ {h} /\ h \in Own
      BY <2>6
    <3>2. Cardinality(Own') = c - 1
      <4> HIDE DEF Own
      <4> QED
        BY <1>2, <3>1, OneElementLess
    <3>3. transmitted' + Cardinality(Own') - (seq_num + dups) \in 0 .. errors
      <4> HIDE DEF Own
      <4> QED
        BY <1>1, <1>2, <2>3, <2>5, <2>6, <3>2
    <3> QED
      BY <2>2, <2>3, <2>4, <2>6, <3>3 DEF TrainsBegun, CountsOwnEchoes
  <2>7. CASE net' = net \ {h} /\ dups' = dups /\ ~h.own
    <3>1. Own' = Own
      BY <2>7
    <3> QED
      BY <1>1, <2>2, <2>3, <2>4, <2>7, <3>1 DEF TrainsBegun, CountsOwnEchoes
  <2>8. CASE h.own /\ dups' = dups + 1 /\ net' = net
    <3>1. transmitted' + c - (seq_num + dups') \in 0 .. errors
      <4> HIDE DEF Own
      <4> QED
        BY <1>1, <1>2, <2>3, <2>5, <2>8
    <3>2. Own' = Own
      BY <2>8
    <3> QED
      BY <2>2, <2>3, <2>4, <2>8, <3>1, <3>2 DEF TrainsBegun, CountsOwnEchoes
  <2> QED
    BY <2>1, <2>6, <2>7, <2>8
<1>8. CASE ReceiveError
  <2>1. /\ errors' = errors + 1 /\ Process(buf)
        /\ UNCHANGED <<seq_num, net, dups>>
    BY <1>8 DEF ReceiveError
  <2>2. /\ cc' \in CC /\ IsFiniteSet(cc'.unacked) /\ Known' /\ NeverUndercounts'
        /\ transmitted' = IF buf.own THEN transmitted + 1 ELSE transmitted
    BY <1>6, <2>1
  <2> DEFINE c == Cardinality(Own)
  <2>3. transmitted' + c - (seq_num + dups) \in 0 .. errors'
    <3>1. transmitted + c - (seq_num + dups) \in 0 .. errors
      BY <1>1 DEF CountsOwnEchoes
    <3>2. transmitted' = transmitted \/ transmitted' = transmitted + 1
      BY <2>2
    <3> HIDE DEF Own
    <3> QED
      BY <1>1, <1>2, <2>1, <3>1, <3>2
  <2> QED
    BY <1>1, <2>1, <2>2, <2>3 DEF TrainsBegun, CountsOwnEchoes
<1> QED
  BY <1>3, <1>4, <1>5, <1>7, <1>8 DEF Next, Sender

LEMMA StepIInv == IInv /\ [Next]_vars => IInv'
<1>1. CASE Next
  <2>1. IInv => TypeOK' /\ HeadersSent' /\ AckedIsReal'
    BY <1>1, StepType, StepHeaders, StepAcked DEF IInv
  <2> QED
    BY <1>1, <2>1, StepUnacked, StepPaced, StepCounts DEF IInv
<1>2. CASE UNCHANGED vars
  BY <1>2 DEF vars, sender, rate, IInv, TypeOK, HeadersSent, AckedIsReal, TrainFits, UnackedBound,
              TrainPaced, PacingRespected, StartsTrain, TrainFirst, TrainDone,
              TrainsBegun, CountsOwnEchoes, NeverUndercounts
<1> QED
  BY <1>1, <1>2

\* The invariant of the sending loop (send_data(), ctcp.hh:204).
THEOREM Invariance == Spec => []IInv
  BY InitIInv, StepIInv, PTL DEF Spec

\* Every variable keeps its type.
THEOREM TypeCorrect == Spec => []TypeOK
<1>1. IInv => TypeOK
  BY DEF IInv
<1> QED
  BY Invariance, <1>1, PTL

\* The comment at ctcp.hh:216 is right for every controller and network: the
\* packets not acked or given up are at most a window and a train.
THEOREM Unacked == Spec => []UnackedBound
<1>1. IInv => UnackedBound
  BY DEF IInv
<1> QED
  BY Invariance, <1>1, PTL

\* largest_ack is what was acked or given up, to within a packet, and was sent.
THEOREM Acked == Spec => []AckedIsReal
<1>1. IInv => AckedIsReal
  BY DEF IInv
<1> QED
  BY Invariance, <1>1, PTL

\* A flow never sends faster, on the whole, than the smallest pacing interval
\* its controller asks for (ctcp.hh:218, 227 and 237).
THEOREM Paced == Spec => []PacingRespected
<1>1. IInv => PacingRespected
  BY DEF IInv
<1> QED
  BY Invariance, <1>1, PTL

\* num_packets_transmitted counts every echo of the flow's packets and their
\* duplicates, no other flow's, and at most one more for every failed reception
\* (ctcp.hh:249, 259 and 288).
THEOREM EchoesCounted == Spec => []CountsOwnEchoes
<1>1. IInv => CountsOwnEchoes
  BY DEF IInv
<1> QED
  BY Invariance, <1>1, PTL

\* The controller loses track of no packet it was told of (ctcp.hh:232 and
\* 298), whichever of them an ack names.
THEOREM NothingMissed == Spec => []NeverUndercounts
<1>1. IInv => NeverUndercounts
  BY DEF IInv
<1> QED
  BY Invariance, <1>1, PTL

------------------------------------------------------------------------------
\* The calls of the controller

LEMMA DivUnique ==
  ASSUME NEW t \in Nat \ {0}, NEW q \in Int, NEW r \in 0 .. t - 1, t * q + r \in Nat
  PROVE  (t * q + r) \div t = q
<1> DEFINE s == t * q + r
           d == s \div t
<1>1. d \in Int /\ s = t * d + r
  <2>1. s \in Nat /\ d \in Int /\ s = t * d + (s % t)
    BY DivMod
  <2>2. s % t = r
    BY ModUnique
  <2> QED
    BY <2>1, <2>2
<1>2. d - q \in Int /\ t * (d - q) = 0
  <2> HIDE DEF d
  <2> QED
    BY <1>1, SMT
<1>3. d - q = 0
  <2> HIDE DEF d
  <2> QED
    BY <1>2, SmallMultiple
<1> HIDE DEF d
<1>4. d = q
  BY <1>1, <1>3
<1> QED
  BY <1>4 DEF d

LEMMA DivStep ==
  ASSUME NEW s \in Nat, NEW t \in Nat \ {0}
  PROVE  (s + 1) \div t = IF s % t = t - 1 THEN (s \div t) + 1 ELSE s \div t
<1> DEFINE q == s \div t
           r == s % t
<1>1. q \in Int /\ r \in 0 .. t - 1 /\ s = t * q + r
  BY DivMod
<1> HIDE DEF q, r
<1>2. CASE r = t - 1
  <2>1. s + 1 = t * (q + 1) + 0
    BY <1>1, <1>2, SMT
  <2>2. (t * (q + 1) + 0) \div t = q + 1
    BY <1>1, <2>1, DivUnique
  <2> QED
    BY <1>2, <2>1, <2>2 DEF q, r
<1>3. CASE r # t - 1
  <2>1. s + 1 = t * q + (r + 1)
    BY <1>1, SMT
  <2>2. (t * q + (r + 1)) \div t = q
    BY <1>1, <1>3, <2>1, DivUnique
  <2> QED
    BY <1>3, <2>1, <2>2 DEF q, r
<1> QED
  BY <1>2, <1>3

\* The first packet of a train announces it, the others announce nothing.
LEMMA AnnouncedStep ==
  ASSUME seq_num \in Nat, seq_num' = seq_num + 1
  PROVE  /\ StartsTrain => Announced = seq_num \div train_length /\ Announced' = Announced + 1
         /\ ~StartsTrain => Announced' = Announced
<1> DEFINE q == seq_num \div train_length
           r == seq_num % train_length
<1>1. q \in Int /\ r \in 0 .. train_length - 1
  BY DivMod
<1>2. q' = IF r = train_length - 1 THEN q + 1 ELSE q
  BY DivStep
<1>3. (seq_num % train_length)' = IF r = train_length - 1 THEN 0 ELSE r + 1
  BY ModStep
<1>4. /\ StartsTrain <=> r = 0
      /\ StartsTrain' <=> (seq_num % train_length)' = 0
  BY DEF StartsTrain
<1>5. /\ Announced = q + (IF StartsTrain THEN 0 ELSE 1)
      /\ Announced' = q' + (IF StartsTrain' THEN 0 ELSE 1)
  BY DEF Announced
<1> HIDE DEF q, r
<1> QED
  BY <1>1, <1>2, <1>3, <1>4, <1>5 DEF q

\* What the ack of a train's first packet names was announced.
LEMMA NamesAnnounced ==
  ASSUME seq_num \in Nat, NEW s \in Nat, s < seq_num, s % train_length = 0
  PROVE  ((s + 1) \div train_length) - 1
            \in (IF train_length = 1 THEN 0 ELSE -1) .. Announced - 1
<1> DEFINE m == s \div train_length
           q == seq_num \div train_length
           r == seq_num % train_length
           n == (s + 1) \div train_length
<1>1. m \in Int /\ s = train_length * m /\ n \in Int
  <2>1. /\ m \in Int /\ s = train_length * m + (s % train_length)
        /\ n \in Int
    BY DivMod
  <2> HIDE DEF m, n
  <2> QED
    BY <2>1, SMT
<1>2. q \in Int /\ r \in 0 .. train_length - 1 /\ seq_num = train_length * q + r
  BY DivMod
<1>3. n = IF train_length = 1 THEN m + 1 ELSE m
  <2>1. n = IF s % train_length = train_length - 1 THEN m + 1 ELSE m
    BY DivStep
  <2> HIDE DEF m, n
  <2> QED
    BY <2>1
<1>4. Announced = q + (IF r = 0 THEN 0 ELSE 1)
  BY DEF Announced, StartsTrain
<1> HIDE DEF m, q, r, n
<1>5. m >= 0
  <2> SUFFICES ASSUME m <= -1 PROVE FALSE
    BY <1>1
  <2>1. train_length * m <= -train_length
    BY <1>1, SMT
  <2> QED
    BY <1>1, <2>1
<1>6. m <= q
  <2> SUFFICES ASSUME m >= q + 1 PROVE FALSE
    BY <1>1, <1>2
  <2>1. train_length * m >= train_length * q + train_length
    <3>1. train_length * (m - q) >= train_length
      BY <1>1, <1>2, SMT
    <3> QED
      BY <1>1, <1>2, <3>1, SMT
  <2> QED
    BY <1>1, <1>2, <2>1
<1>7. CASE train_length = 1
  <2>1. s = m /\ seq_num = q /\ r = 0
    BY <1>1, <1>2, <1>7
  <2> QED
    BY <1>1, <1>2, <1>3, <1>4, <1>5, <1>7, <2>1 DEF n
<1>8. CASE train_length # 1
  BY <1>1, <1>2, <1>3, <1>4, <1>5, <1>6, <1>8 DEF n
<1> QED
  BY <1>7, <1>8

LEMMA InitEngine == Init => Calls!Init
<1> SUFFICES ASSUME Init PROVE Calls!Init
  OBVIOUS
<1>1. seq_num = 0
  BY DEF Init
<1>2. 0 \div train_length = 0 /\ 0 % train_length = 0
  <2>1. train_length * 0 + 0 = 0 /\ 0 \in 0 .. train_length - 1
    BY SMT
  <2> QED
    BY <2>1, DivUnique, ModUnique
<1>3. Announced = 0
  BY <1>1, <1>2 DEF Announced, StartsTrain
<1> QED
  BY <1>3 DEF Init, Calls!Init, FreshCC

\* What follows a reception is an ack, an end of the silence, or nothing.
LEMMA ProcessCalls ==
  ASSUME IInv, NEW h \in net \cup {buf}, Process(h), UNCHANGED <<now, seq_num>>
  PROVE  [Calls!Next]_(Calls!vars)
<1>1. /\ seq_num \in Nat /\ cc \in CCType
      /\ h.own => h.seq \in Nat /\ h.seq < seq_num
  BY DEF IInv, TypeOK, HeadersSent, TrainsBegun
<1>2. Announced' = Announced
  BY DEF Announced, StartsTrain
<1>3. CASE ~h.own
  BY <1>2, <1>3 DEF Process, Calls!vars
<1>4. CASE h.own /\ h.seq % train_length # 0
  <2>1. Calls!Heard
    BY <1>2, <1>4 DEF Process, Calls!Heard
  <2> QED
    BY <2>1 DEF Calls!Next
<1>5. CASE h.own /\ h.seq % train_length = 0
  <2> DEFINE n == ((h.seq + 1) \div train_length) - 1
             older == {x \in cc.unacked : x < n}
  <2>1. n \in (IF train_length = 1 THEN 0 ELSE -1) .. Announced - 1
    BY <1>1, <1>5, NamesAnnounced
  <2>2. last_ack_time' = now /\ onACK((h.seq + 1) \div train_length)
    BY <1>5 DEF Process
  <2>3. cc' = IF n \in cc.unacked
              THEN [cc EXCEPT !.unacked = cc.unacked \ (older \cup {n}),
                              !.lost = cc.lost + Cardinality(older),
                              !.acked = cc.acked + 1, !.named = n]
              ELSE [cc EXCEPT !.acked = cc.acked + 1, !.named = n]
    BY <2>2 DEF onACK
  <2>4. n \in Int
    <3>1. (h.seq + 1) \div train_length \in Int
      BY <1>1, <1>5, DivMod
    <3> QED
      BY <3>1
  <2>5. cc.unacked \ (older \cup {n}) = {p \in cc.unacked : p > n}
    <3>1. cc.unacked \in SUBSET Nat
      BY <1>1 DEF CCType
    <3> HIDE DEF n
    <3> QED
      BY <2>4, <3>1
  <2> HIDE DEF n, older
  <2>6. /\ cc'.unacked = IF n \in cc.unacked THEN {p \in cc.unacked : p > n} ELSE cc.unacked
        /\ cc'.acked = cc.acked + 1 /\ cc'.named = n
    BY <1>1, <2>3, <2>5 DEF CCType
  <2>7. Calls!onACK(n)
    BY <1>2, <2>2, <2>6 DEF Calls!onACK
  <2> QED
    BY <2>1, <2>7 DEF Calls!Next
<1> QED
  BY <1>3, <1>4, <1>5

LEMMA StepEngine == IInv /\ [Next]_vars => [Calls!Next]_(Calls!vars)
<1> SUFFICES ASSUME IInv, [Next]_vars PROVE [Calls!Next]_(Calls!vars)
  OBVIOUS
<1>1. seq_num \in Nat /\ cc \in CCType
  BY DEF IInv, TypeOK, TrainsBegun
<1>2. seq_num' = seq_num => Announced' = Announced
  BY DEF Announced, StartsTrain
<1>3. CASE UNCHANGED vars \/ Finish \/ Round \/ TimedOutAtEnd \/ StartPoll \/ NothingReceived
  BY <1>2, <1>3 DEF vars, sender, Finish, Round, TimedOutAtEnd, StartPoll, NothingReceived,
                    Calls!vars
<1>4. CASE AckTimedOut
  <2>1. Calls!init
    BY <1>2, <1>4 DEF AckTimedOut, Silent, FreshCC, Calls!init
  <2> QED
    BY <2>1 DEF Calls!Next
<1>5. CASE SendPacket
  <2>1. /\ seq_num' = seq_num + 1 /\ now' = now /\ last_ack_time' = last_ack_time
        /\ IF StartsTrain THEN onPktSent(seq_num \div train_length) ELSE cc' = cc
    BY <1>5 DEF SendPacket
  <2>2. CASE StartsTrain
    <3>1. Announced = seq_num \div train_length /\ Announced' = Announced + 1
      BY <1>1, <2>1, <2>2, AnnouncedStep
    <3>2. cc' = [cc EXCEPT !.unacked = cc.unacked \cup {Announced}, !.sent = cc.sent + 1]
      BY <2>1, <2>2, <3>1 DEF onPktSent
    <3>3. /\ cc'.unacked = cc.unacked \cup {Announced}
          /\ cc'.acked = cc.acked /\ cc'.named = cc.named
      BY <1>1, <3>2 DEF CCType
    <3>4. Calls!onPktSent
      BY <2>1, <3>1, <3>3 DEF Calls!onPktSent
    <3> QED
      BY <3>4 DEF Calls!Next
  <2>3. CASE ~StartsTrain
    <3>1. Announced' = Announced
      BY <1>1, <2>1, <2>3, AnnouncedStep
    <3> QED
      BY <2>1, <2>3, <3>1 DEF Calls!vars
  <2> QED
    BY <2>2, <2>3
<1>6. CASE Receive
  <2>1. PICK h \in net : Process(h)
    BY <1>6 DEF Receive
  <2> QED
    BY <1>6, <2>1, ProcessCalls DEF Receive
<1>7. CASE ReceiveError
  BY <1>7, ProcessCalls DEF ReceiveError
<1>8. CASE Tick
  <2>1. Calls!Tick
    BY <1>2, <1>8 DEF Tick, sender, Calls!Tick
  <2> QED
    BY <2>1 DEF Calls!Next
<1> QED
  BY <1>3, <1>4, <1>5, <1>6, <1>7, <1>8 DEF Next, Sender

\* Whatever the network loses, repeats, reorders or brings from another flow,
\* send_data() (ctcp.hh:204) calls its controller as Engine says.
THEOREM EngineKept == Spec => ImplementsEngine
<1>1. Init => Calls!Init
  BY InitEngine
<1>2. IInv /\ [Next]_vars => [Calls!Next]_(Calls!vars)
  BY StepEngine
<1> QED
  BY <1>1, <1>2, Invariance, PTL DEF Spec, ImplementsEngine, Calls!Spec
=============================================================================

---------------------------- MODULE SenderProofs -----------------------------
(***************************************************************************)
(* Theorems about Sender, for every set of windows, every number of flows   *)
(* and packets, and every network.                                          *)
(***************************************************************************)
EXTENDS Sender, FiniteSetTheorems, FunctionTheorems, TLAPS

USE SenderAssumption DEF SenderAssumption

\* ControllersOK holds at the start of the first flow, with either controller.
LEMMA InitControllers == Init => ControllersOK
<1> SUFFICES ASSUME Init PROVE ControllersOK
  OBVIOUS
<1>1. NetTypes
  <2>1. /\ flow \in Nat /\ now \in Nat \ {0} /\ seq_num \in Nat /\ largest_ack \in Int
        /\ last_ack_time \in Nat /\ dups \in Nat /\ errors \in Nat /\ last_received \in Nat
    BY DEF Init
  <2>2. /\ cctype \in {"remy", "tcp"} /\ path = {} /\ echoes = {} /\ buf = {} /\ acked = {}
        /\ misread \in BOOLEAN /\ overtaken \in BOOLEAN
    BY DEF Init
  <2> QED
    BY <2>1, <2>2 DEF NetTypes
<1>2. window \in Nat /\ RemyTypes /\ memory.last_tick_sent = 0 /\ exited = FALSE
  <2>1. memory = Remy!NoMemory /\ unacknowledged_packets = Remy!Empty
    BY DEF Init, Remy!Init
  <2>2. memory \in Memory /\ memory.last_tick_sent = 0
    BY <2>1 DEF Memory, Remy!NoMemory
  <2>3. DOMAIN unacknowledged_packets \subseteq Nat
    BY <2>1 DEF Remy!Empty
  <2>4. window = 2 /\ exited = FALSE /\ exited \in BOOLEAN
    BY DEF Init, Remy!Init
  <2> QED
    BY <2>2, <2>3, <2>4 DEF RemyTypes
<1>3. AimdTypes /\ window = 2 /\ m_issthresh = 1 /\ m_bSlowStart
  BY DEF Init, AimdTypes, Aimd!Init
<1>4. SentBefore /\ SentInOrder /\ Stamped /\ AckedForgotten /\ KnowsItsPackets
  BY DEF Init, SentBefore, SentInOrder, Stamped, AckedForgotten, KnowsItsPackets, headers, datagrams
<1> QED
  BY <1>1, <1>2, <1>3, <1>4 DEF ControllersOK, TypeOK, SampleOfThisFlow, OnlyOneController,
     MinRttIsPossible, ExitHasCause, ThresholdOfOne, WindowAtLeastTwo

\* init() of either controller: no sample is left, the window is 2, and what
\* RemyCC knows of its packets stays (init() in RemyCC and DefaultCC).
LEMMA InitCallback ==
    ASSUME TypeOK, OnlyOneController, init
    PROVE  /\ window' = 2
           /\ unacknowledged_packets' = unacknowledged_packets /\ exited' = exited
           /\ memory'.last_tick_sent = 0
           /\ RemyTypes' /\ AimdTypes'
           /\ cctype = "tcp" => m_issthresh' >= 1 /\ m_bSlowStart'
<1>1. ASSUME cctype = "remy"
      PROVE  /\ window' = 2 /\ UNCHANGED <<unacknowledged_packets, exited, aimd>>
             /\ memory' \in Memory /\ memory'.last_tick_sent = 0
  <2>1. /\ memory' = Remy!Reset(memory) /\ window' = 2
        /\ UNCHANGED <<unacknowledged_packets, exited>> /\ UNCHANGED aimd
    BY <1>1 DEF init, Remy!init
  <2>2. memory \in Memory
    BY DEF TypeOK, RemyTypes
  <2>3. memory' \in Memory /\ memory'.last_tick_sent = 0
    BY <2>1, <2>2 DEF Remy!Reset, Memory
  <2> QED
    BY <2>1, <2>3
<1>2. ASSUME cctype = "tcp"
      PROVE  /\ window' = 2 /\ UNCHANGED remy
             /\ m_issthresh' = 1 /\ m_bSlowStart' = TRUE
             /\ UNCHANGED <<m_iDupACKCount, m_iLastACK, cuts>>
             /\ memory.last_tick_sent = 0
  BY <1>2 DEF init, OnlyOneController, Aimd!init
<1>3. RemyTypes' /\ memory'.last_tick_sent = 0 /\ UNCHANGED <<unacknowledged_packets, exited>>
  BY <1>1, <1>2 DEF TypeOK, NetTypes, RemyTypes, remy
<1>4. AimdTypes' /\ (cctype = "tcp" => m_issthresh' >= 1 /\ m_bSlowStart')
  <2>1. CASE cctype = "remy"
    BY <1>1, <2>1 DEF TypeOK, AimdTypes, aimd
  <2>2. CASE cctype = "tcp"
    <3>1. m_issthresh' \in Nat /\ m_issthresh' >= 1 /\ m_bSlowStart' /\ m_bSlowStart' \in BOOLEAN
      BY <1>2, <2>2
    <3>2. m_iDupACKCount' \in Nat /\ m_iLastACK' \in Nat /\ cuts' \in Nat
      BY <1>2, <2>2 DEF TypeOK, AimdTypes
    <3> QED
      BY <3>1, <3>2 DEF AimdTypes
  <2> QED
    BY <2>1, <2>2 DEF TypeOK, NetTypes
<1> QED
  BY <1>1, <1>2, <1>3, <1>4 DEF TypeOK, NetTypes

\* The next flow: everything about the earlier one is gone but RemyCC's
\* records and DefaultCC's count of duplicates.
LEMMA StartFlowStep == ControllersOK /\ StartFlow => ControllersOK'
<1> SUFFICES ASSUME ControllersOK, StartFlow PROVE ControllersOK'
  OBVIOUS
<1>1. TypeOK /\ OnlyOneController /\ init
  BY DEF ControllersOK, StartFlow
<1>2. NetTypes'
  <2>1. /\ flow' \in Nat /\ now' \in Nat \ {0} /\ seq_num' \in Nat /\ largest_ack' \in Int
        /\ last_ack_time' \in Nat /\ dups' \in Nat /\ errors' \in Nat /\ last_received' \in Nat
    BY <1>1 DEF StartFlow, TypeOK, NetTypes
  <2>2. /\ cctype' \in {"remy", "tcp"} /\ path' = {} /\ echoes' = {} /\ buf' = {} /\ acked' = {}
        /\ misread' \in BOOLEAN /\ overtaken' \in BOOLEAN
    BY <1>1 DEF StartFlow, TypeOK, NetTypes
  <2> QED
    BY <2>1, <2>2 DEF NetTypes
<1>3. SentBefore' /\ SentInOrder' /\ Stamped' /\ AckedForgotten' /\ KnowsItsPackets'
  BY DEF StartFlow, SentBefore, SentInOrder, Stamped, AckedForgotten, KnowsItsPackets, headers, datagrams
<1>4. ~exited' /\ cctype' = cctype
  BY <1>1, InitCallback DEF StartFlow
<1> QED
  BY <1>1, <1>2, <1>3, <1>4, InitCallback DEF ControllersOK, TypeOK, SampleOfThisFlow,
     OnlyOneController, MinRttIsPossible, ExitHasCause, ThresholdOfOne, WindowAtLeastTwo

\* The ack timeout: the datagrams on the way and RemyCC's records stay.
LEMMA AckTimedOutStep == ControllersOK /\ AckTimedOut => ControllersOK'
<1> SUFFICES ASSUME ControllersOK, AckTimedOut PROVE ControllersOK'
  OBVIOUS
<1>1. TypeOK /\ OnlyOneController /\ init /\ ~exited
  BY DEF ControllersOK, AckTimedOut
<1>2. NetTypes'
  <2>1. misread' \in BOOLEAN
    BY DEF AckTimedOut
  <2>2. UNCHANGED <<cctype, now, flow, seq_num, net, acked, overtaken, last_received>>
    BY DEF AckTimedOut
  <2>3. largest_ack' = seq_num - 1 /\ last_ack_time' = now
    BY DEF AckTimedOut
  <2> QED
    BY <1>1, <2>1, <2>2, <2>3 DEF TypeOK, NetTypes, net
<1>3. SentBefore' /\ SentInOrder' /\ Stamped' /\ AckedForgotten' /\ KnowsItsPackets'
  BY <1>1, InitCallback DEF ControllersOK, AckTimedOut, SentBefore, SentInOrder, Stamped,
     AckedForgotten, KnowsItsPackets, headers, datagrams, net
<1>4. ~exited' /\ cctype' = cctype
  BY <1>1, InitCallback DEF AckTimedOut
<1> QED
  BY <1>1, <1>2, <1>3, <1>4, InitCallback DEF ControllersOK, TypeOK, SampleOfThisFlow,
     OnlyOneController, MinRttIsPossible, ExitHasCause, ThresholdOfOne, WindowAtLeastTwo

\* A packet sent is recorded with its time, whatever was recorded under its
\* number before; the others keep their records.
LEMMA SendPacketStep == ControllersOK /\ SendPacket => ControllersOK'
<1> SUFFICES ASSUME ControllersOK, SendPacket PROVE ControllersOK'
  OBVIOUS
<1> DEFINE new == Packet(seq_num, now)
<1>1. /\ new.seq = seq_num /\ new.sent = now /\ new.received = 0
      /\ new \in [seq : {seq_num}, sent : {now}, received : {0}]
      /\ path' = path \cup {new} /\ buf' = {new}
      /\ UNCHANGED <<cctype, now, flow, largest_ack, last_ack_time, echoes, dups, errors, history>>
      /\ seq_num' = seq_num + 1
  BY DEF SendPacket, Packet
<1> HIDE DEF new
<1>2. headers' \subseteq headers \cup {new}
  BY <1>1 DEF headers, datagrams
<1>3. TypeOK /\ NetTypes /\ SentBefore
  BY DEF ControllersOK, TypeOK
<1>4. UNCHANGED <<window, memory, exited, aimd>>
  BY DEF SendPacket, onPktSent, Remy!onPktSent, remy
<1>5. ASSUME cctype = "remy"
      PROVE  /\ DOMAIN unacknowledged_packets' = DOMAIN unacknowledged_packets \cup {seq_num}
             /\ unacknowledged_packets'[seq_num] = now
             /\ \A s \in DOMAIN unacknowledged_packets :
                   s # seq_num => unacknowledged_packets'[s] = unacknowledged_packets[s]
  BY <1>5 DEF SendPacket, onPktSent, Remy!onPktSent, Remy!With
<1>6. ASSUME cctype = "tcp"
      PROVE  unacknowledged_packets' = unacknowledged_packets
  BY <1>6 DEF SendPacket, onPktSent, remy
<1>7. NetTypes'
  BY <1>1, <1>3 DEF NetTypes, Header, history
<1>8. RemyTypes' /\ AimdTypes' /\ window' \in Nat
  BY <1>3, <1>4, <1>5, <1>6 DEF TypeOK, NetTypes, RemyTypes, AimdTypes, aimd
<1>9. SentBefore'
  <2> SUFFICES ASSUME NEW p \in headers' 
               PROVE  p.seq < seq_num' /\ p.sent <= now' /\ p.received <= now'
    BY DEF SentBefore
  <2>1. CASE p \in headers
    <3>1. /\ p.seq \in Nat /\ p.seq < seq_num
          /\ p.sent <= now /\ p.received <= now
      BY <1>3, <2>1 DEF SentBefore, NetTypes, Header, headers, datagrams
    <3> QED
      BY <1>1, <1>3, <3>1 DEF NetTypes
  <2> QED
    BY <1>1, <1>2, <1>3, <2>1 DEF NetTypes
<1>10. SentInOrder'
  <2> SUFFICES ASSUME NEW p \in headers', NEW q \in headers', p.seq < q.seq
               PROVE  p.sent <= q.sent
    BY DEF SentInOrder
  <2>1. \A d \in headers : d.seq \in Nat /\ d.sent \in Nat /\ d.seq < seq_num /\ d.sent <= now
    BY <1>3 DEF SentBefore, NetTypes, Header, headers, datagrams
  <2>2. CASE p \in headers /\ q \in headers
    BY <2>2 DEF ControllersOK, SentInOrder
  <2> QED
    BY <1>1, <1>2, <1>3, <2>1, <2>2 DEF NetTypes
<1>11. Stamped'
  BY <1>1, <1>3 DEF ControllersOK, Stamped, NetTypes, history
<1>12. AckedForgotten'
  <2>1. \A s \in acked : s \in Nat /\ s < seq_num
    BY <1>3 DEF ControllersOK, AckedForgotten, NetTypes
  <2> QED
    BY <1>1, <1>3, <1>5, <2>1 DEF ControllersOK, AckedForgotten, NetTypes, history
<1>13. KnowsItsPackets'
  <2> SUFFICES ASSUME cctype = "remy", NEW p \in headers', p.seq \notin acked
               PROVE  /\ p.seq \in DOMAIN unacknowledged_packets'
                      /\ unacknowledged_packets'[p.seq] = p.sent
    BY <1>1 DEF KnowsItsPackets, headers, datagrams, history
  <2>1. CASE p \in headers
    <3>1. p.seq < seq_num /\ p.seq \in Nat /\ seq_num \in Nat
      BY <1>3, <2>1 DEF SentBefore, NetTypes, Header, headers, datagrams
    <3> QED
      BY <1>5, <2>1, <3>1 DEF ControllersOK, KnowsItsPackets, headers, datagrams
  <2> QED
    BY <1>1, <1>2, <1>5, <2>1
<1>14. SampleOfThisFlow'
  <2> SUFFICES ASSUME memory.last_tick_sent # 0
               PROVE  /\ memory.last_seq <= memory.largest_ack
                      /\ memory.last_tick_sent <= now
                      /\ memory.last_receiver_timestamp <= last_received
                      /\ ~misread => memory.last_receiver_timestamp > 0
                      /\ \A p \in headers' :
                            p.seq > memory.last_seq => p.sent >= memory.last_tick_sent
    BY <1>1, <1>4 DEF SampleOfThisFlow, history
  <2> QED
    BY <1>1, <1>2, <1>3 DEF ControllersOK, SampleOfThisFlow, TypeOK, RemyTypes, Memory, NetTypes
<1>15. /\ OnlyOneController' /\ MinRttIsPossible' /\ ExitHasCause'
       /\ ThresholdOfOne' /\ WindowAtLeastTwo'
  BY <1>1, <1>4 DEF ControllersOK, history, aimd, OnlyOneController, MinRttIsPossible,
     ExitHasCause, ThresholdOfOne, WindowAtLeastTwo
<1> QED
  BY <1>7, <1>8, <1>9, <1>10, <1>11, <1>12, <1>13, <1>14, <1>15 DEF ControllersOK, TypeOK

\* The receiver's echo names its packet.
LEMMA EchoPacketStep == ControllersOK /\ EchoPacket => ControllersOK'
<1> SUFFICES ASSUME ControllersOK, EchoPacket PROVE ControllersOK'
  OBVIOUS
<1>1. TypeOK /\ NetTypes
  BY DEF ControllersOK, TypeOK
<1>2. PICK p \in path : Delivered(path, p, path') /\ echoes' = echoes \cup {Echo(p, now)}
  BY DEF EchoPacket
<1>3. UNCHANGED <<cctype, now, ctcp, buf, errors, history, window, remy, aimd>>
  BY DEF EchoPacket
<1>4. path' \subseteq path /\ dups' \in Nat
  BY <1>1, <1>2 DEF Delivered, NetTypes
<1>5. /\ Echo(p, now).seq = p.seq /\ Echo(p, now).sent = p.sent
      /\ Echo(p, now).received = now /\ now > 0 /\ Echo(p, now) \in Header
  BY <1>1 DEF Echo, NetTypes, Header
<1>6. \A d \in headers' : \E c \in headers :
         /\ d.seq = c.seq /\ d.sent = c.sent
         /\ d.received = c.received \/ d.received = now
  BY <1>2, <1>3, <1>4, <1>5 DEF headers, datagrams
<1>7. TypeOK'
  BY <1>1, <1>2, <1>3, <1>4, <1>5
  DEF TypeOK, NetTypes, RemyTypes, AimdTypes, ctcp, history, remy, aimd
<1>8. SentBefore' /\ SentInOrder'
  BY <1>1, <1>3, <1>6 DEF ControllersOK, NetTypes, SentBefore, SentInOrder, ctcp
<1>9. Stamped'
  BY <1>2, <1>3, <1>5 DEF ControllersOK, Stamped, history
<1>10. AckedForgotten' /\ KnowsItsPackets'
  BY <1>3, <1>6 DEF ControllersOK, AckedForgotten, KnowsItsPackets, headers, datagrams, ctcp, history, remy
<1>11. SampleOfThisFlow'
  BY <1>3, <1>6 DEF ControllersOK, SampleOfThisFlow, history, remy
<1>12. /\ OnlyOneController' /\ MinRttIsPossible' /\ ExitHasCause'
       /\ ThresholdOfOne' /\ WindowAtLeastTwo'
  BY <1>3 DEF ControllersOK, history, remy, aimd, OnlyOneController, MinRttIsPossible,
     ExitHasCause, ThresholdOfOne, WindowAtLeastTwo
<1> QED
  BY <1>7, <1>8, <1>9, <1>10, <1>11, <1>12 DEF ControllersOK

LEMMA TimedOutStep == ControllersOK /\ TimedOut => ControllersOK'
<1> SUFFICES ASSUME ControllersOK, TimedOut PROVE ControllersOK'
  OBVIOUS
<1>1. /\ TypeOK /\ NetTypes /\ RemyTypes /\ AimdTypes
      /\ cctype = "tcp" /\ now' \in Nat \ {0} /\ now' >= now
  BY SenderAssumption DEF ControllersOK, TypeOK, NetTypes, TimedOut
<1>2. UNCHANGED <<cctype, ctcp, net, history, remy>>
  BY DEF TimedOut
<1>3. Aimd!Halved \in Nat /\ Aimd!Halved >= 2
  BY <1>1 DEF TypeOK, Aimd!Halved
<1>4. /\ m_issthresh' = Aimd!Halved /\ m_bSlowStart' = TRUE /\ window' = 2
      /\ UNCHANGED <<m_iDupACKCount, m_iLastACK, cuts>>
  BY DEF TimedOut, Aimd!onTimeout
<1>5. TypeOK' /\ ThresholdOfOne' /\ WindowAtLeastTwo'
  BY <1>1, <1>2, <1>3, <1>4 DEF TypeOK, NetTypes, RemyTypes, AimdTypes, ThresholdOfOne,
     WindowAtLeastTwo, ctcp, net, history, remy
<1>6. \A d \in headers : d.sent \in Nat /\ d.received \in Nat
  BY <1>1 DEF NetTypes, Header, headers, datagrams
<1>7. SentBefore' /\ SentInOrder' /\ Stamped' /\ AckedForgotten' /\ KnowsItsPackets'
  BY <1>1, <1>2, <1>6 DEF ControllersOK, SentBefore, SentInOrder, Stamped, AckedForgotten,
     KnowsItsPackets, headers, datagrams, NetTypes, ctcp, net, history, remy
<1>8. /\ SampleOfThisFlow' /\ OnlyOneController' /\ MinRttIsPossible'
      /\ ExitHasCause'
  BY <1>1, <1>2 DEF ControllersOK, SampleOfThisFlow, OnlyOneController, MinRttIsPossible,
     ExitHasCause, headers, datagrams, net, history, remy
<1> QED
  BY <1>5, <1>7, <1>8 DEF ControllersOK

LEMMA TickStep == ControllersOK /\ Tick => ControllersOK'
<1> SUFFICES ASSUME ControllersOK, Tick PROVE ControllersOK'
  OBVIOUS
<1>1. TypeOK /\ NetTypes /\ RemyTypes /\ now' = now + 1 /\ ~exited
  BY DEF ControllersOK, TypeOK, Tick
<1>2. UNCHANGED <<cctype, ctcp, net, history, window, remy, aimd>>
  BY DEF Tick
<1>3. TypeOK'
  BY <1>1, <1>2 DEF TypeOK, NetTypes, RemyTypes, AimdTypes, ctcp, net, history, remy, aimd
<1>4. \A d \in headers : d.sent \in Nat /\ d.received \in Nat
  BY <1>1 DEF NetTypes, Header, headers, datagrams
<1>5. SentBefore' /\ SentInOrder' /\ Stamped' /\ AckedForgotten' /\ KnowsItsPackets'
  BY <1>1, <1>2, <1>4 DEF ControllersOK, SentBefore, SentInOrder, Stamped, AckedForgotten,
     KnowsItsPackets, headers, datagrams, NetTypes, ctcp, net, history, remy
<1>6. SampleOfThisFlow'
  BY <1>1, <1>2 DEF ControllersOK, SampleOfThisFlow, headers, datagrams, NetTypes, RemyTypes,
     Memory, net, history, remy
<1>7. /\ OnlyOneController' /\ MinRttIsPossible' /\ ExitHasCause'
      /\ ThresholdOfOne' /\ WindowAtLeastTwo'
  BY <1>1, <1>2 DEF ControllersOK, history, remy, aimd, OnlyOneController, MinRttIsPossible,
     ExitHasCause, ThresholdOfOne, WindowAtLeastTwo
<1> QED
  BY <1>3, <1>5, <1>6, <1>7 DEF ControllersOK

\* ACKAction() leaves two packets at least, from a window of 1 in slow start.
LEMMA AckAction ==
    ASSUME NEW w \in Nat, w >= 1, AimdTypes, Aimd!ACKAction(w)
    PROVE  window' \in Nat /\ window' >= w /\ window' >= 2 /\ m_bSlowStart' \in BOOLEAN
<1>1. CASE m_bSlowStart
  <2>1. window' = w + 1 /\ m_bSlowStart' = (w + 1 < m_issthresh)
    BY <1>1 DEF Aimd!ACKAction
  <2>2. m_bSlowStart' \in BOOLEAN
    BY <2>1
  <2> QED
    BY <2>1, <2>2
<1>2. CASE ~m_bSlowStart
  <2>1. window' \in {x \in {w, w + 1} : w = 1 => x = 2} /\ m_bSlowStart' = m_bSlowStart
    BY <1>2 DEF Aimd!ACKAction
  <2> QED
    BY <2>1 DEF AimdTypes
<1> QED
  BY <1>1, <1>2

\* DefaultCC::onACK() keeps the window at two packets or more.
LEMMA AimdAck ==
    ASSUME AimdTypes, window \in Nat, window >= 2, m_issthresh >= 1,
           m_issthresh = 1 /\ m_iDupACKCount >= 3 => m_bSlowStart,
           NEW ack \in Nat, Aimd!onACK(ack)
    PROVE  /\ AimdTypes' /\ window' \in Nat /\ window' >= 2 /\ m_issthresh' >= 1
           /\ m_issthresh' = 1 /\ m_iDupACKCount' >= 3 => m_bSlowStart'
<1> DEFINE Goal == /\ AimdTypes' /\ window' \in Nat /\ window' >= 2 /\ m_issthresh' >= 1
                   /\ m_issthresh' = 1 /\ m_iDupACKCount' >= 3 => m_bSlowStart'
<1>1. ASSUME Aimd!RepeatedACK PROVE Goal
  <2>1. m_iDupACKCount' = m_iDupACKCount + 1 /\ m_iLastACK' = m_iLastACK
    BY <1>1 DEF Aimd!RepeatedACK
  <2>2. CASE m_iDupACKCount' = 3 /\ Aimd!DupACKAction
    <3>1. Aimd!Halved \in Nat /\ Aimd!Halved >= 2
      BY DEF Aimd!Halved
    <3>2. /\ m_issthresh' = Aimd!Halved /\ window' = Aimd!Halved + 3
          /\ cuts' = cuts + 1 /\ m_bSlowStart' = FALSE
      BY <2>2 DEF Aimd!DupACKAction
    <3>3. m_bSlowStart' \in BOOLEAN
      BY <3>2
    <3> QED
      BY <2>1, <3>1, <3>2, <3>3 DEF AimdTypes
  <2>3. CASE /\ m_iDupACKCount' > 3 /\ window' = window + 1
             /\ UNCHANGED <<m_issthresh, m_bSlowStart, cuts>>
    BY <2>1, <2>3 DEF AimdTypes
  <2>4. CASE /\ m_iDupACKCount' < 3 /\ Aimd!ACKAction(window)
             /\ UNCHANGED <<m_issthresh, cuts>>
    <3>1. window' \in Nat /\ window' >= 2 /\ m_bSlowStart' \in BOOLEAN
      BY <2>4, AckAction
    <3> QED
      BY <2>1, <2>4, <3>1 DEF AimdTypes
  <2> QED
    BY <1>1, <2>2, <2>3, <2>4 DEF Aimd!RepeatedACK
<1>2. ASSUME Aimd!NewACK(ack) PROVE Goal
  <2> DEFINE w == IF m_iDupACKCount >= 3 THEN m_issthresh ELSE window
  <2>1. w \in Nat /\ w >= 1
    BY DEF AimdTypes
  <2>2. /\ m_iDupACKCount' = 1 /\ m_iLastACK' = ack /\ Aimd!ACKAction(w)
        /\ UNCHANGED <<m_issthresh, cuts>>
    BY <1>2 DEF Aimd!NewACK
  <2> HIDE DEF w
  <2>3. window' \in Nat /\ window' >= 2 /\ m_bSlowStart' \in BOOLEAN
    BY <2>1, <2>2, AckAction
  <2> QED
    BY <2>2, <2>3 DEF AimdTypes
<1> QED
  BY <1>1, <1>2 DEF Aimd!onACK

\* RemyCC::onACK() for the first ack of a packet: its record goes, the
\* others stay, and the sample is of this packet.
LEMMA RemyFirstAck ==
    ASSUME TypeOK, NEW e \in headers, ~exited,
           e.seq \in DOMAIN unacknowledged_packets, unacknowledged_packets[e.seq] = e.sent,
           Remy!onACK(e.seq + 1, e.received)
    PROVE  /\ window' \in Nat
           /\ unacknowledged_packets' =
                 [s \in DOMAIN unacknowledged_packets \ {e.seq} |-> unacknowledged_packets[s]]
           /\ \/ Remy!FirstSample(e.seq, e.sent, e.received)
              \/ Remy!AveragedSample(e.seq, e.sent, e.received)
              \/ Remy!OtherSample(e.seq, e.sent)
<1>1. e.seq \in Nat /\ e.seq + 1 - 1 = e.seq
  BY DEF TypeOK, NetTypes, Header, headers, datagrams
<1> QED
  BY <1>1 DEF Remy!onACK, Remy!StillUnacked

\* What the three kinds of sample do to the memory
LEMMA RemySample ==
    ASSUME TypeOK, SentBefore, SentInOrder, SampleOfThisFlow, MinRttIsPossible,
           NEW e \in headers, ~exited, NEW m \in BOOLEAN, misread => m,
           m \/ (now >= e.sent + Delay /\ e.received > 0),
           \/ Remy!FirstSample(e.seq, e.sent, e.received)
           \/ Remy!AveragedSample(e.seq, e.sent, e.received)
           \/ Remy!OtherSample(e.seq, e.sent),
           NEW r \in Nat, r >= last_received, r >= e.received
    PROVE  /\ memory' \in Memory /\ exited' \in BOOLEAN
           /\ m \/ memory'.min_rtt >= Delay
           /\ memory'.last_seq <= memory'.largest_ack
           /\ memory'.last_tick_sent <= now
           /\ memory'.last_receiver_timestamp <= r
           /\ \A p \in headers :
                 p.seq > memory'.last_seq => p.sent >= memory'.last_tick_sent
           /\ m \/ memory'.last_receiver_timestamp > 0
           /\ exited' => \/ e.received < last_received \/ m
                         \/ now > MaxRatio * memory'.min_rtt \/ now > MaxInterval
<1> DEFINE Goal ==
           /\ memory' \in Memory /\ exited' \in BOOLEAN
           /\ m \/ memory'.min_rtt >= Delay
           /\ memory'.last_seq <= memory'.largest_ack
           /\ memory'.last_tick_sent <= now
           /\ memory'.last_receiver_timestamp <= r
           /\ \A p \in headers :
                 p.seq > memory'.last_seq => p.sent >= memory'.last_tick_sent
           /\ m \/ memory'.last_receiver_timestamp > 0
           /\ exited' => \/ e.received < last_received \/ m
                         \/ now > MaxRatio * memory'.min_rtt \/ now > MaxInterval
<1>1. /\ e.seq \in Nat /\ e.sent \in Nat /\ e.sent # 0 /\ e.received \in Nat /\ now \in Nat
      /\ last_received \in Nat /\ exited = FALSE
      /\ e.sent <= now /\ e.received <= now /\ MaxInterval \in Nat
  BY DEF TypeOK, NetTypes, Header, RemyTypes, SentBefore, headers, datagrams
<1>2. /\ memory.last_tick_sent \in Nat /\ memory.last_receiver_timestamp \in Nat
      /\ memory.last_seq \in Nat /\ memory.min_rtt \in Int /\ memory.largest_ack \in Nat
      /\ memory \in Memory
  BY DEF TypeOK, RemyTypes, Memory
<1>3. \A p \in headers : p.seq \in Nat /\ p.sent \in Nat /\ (p.seq > e.seq => p.sent >= e.sent)
  <2>1. \A p \in headers : p.seq \in Nat /\ p.sent \in Nat
    BY DEF TypeOK, NetTypes, Header, headers, datagrams
  <2> QED
    BY <1>1, <2>1 DEF SentInOrder
<1> DEFINE largest == Remy!MaxOf(memory.largest_ack, e.seq)
           rtt == now - e.sent
           least == Remy!MinOf(memory.min_rtt, rtt)
<1>4. /\ largest \in Nat /\ largest >= e.seq /\ largest >= memory.largest_ack
      /\ rtt \in Nat /\ rtt < now /\ (m \/ rtt >= Delay) /\ least \in Int
      /\ least = rtt \/ least = memory.min_rtt
  BY <1>1, <1>2 DEF Remy!MaxOf, Remy!MinOf
<1>5. MaxRatio * least \in Int /\ (rtt >= MaxRatio * least => now > MaxRatio * least)
  <2> HIDE DEF rtt, least
  <2>1. MaxRatio * least \in Int
    BY <1>4
  <2> QED
    BY <1>1, <1>4, <2>1
<1>6. ASSUME Remy!FirstSample(e.seq, e.sent, e.received) PROVE Goal
  <2>1. /\ memory' = [last_tick_sent |-> e.sent, last_receiver_timestamp |-> e.received,
                      last_seq |-> e.seq, min_rtt |-> rtt, largest_ack |-> largest]
        /\ exited' = FALSE
    BY <1>1, <1>6 DEF Remy!FirstSample
  <2> HIDE DEF largest, rtt, least
  <2>2. /\ memory'.last_tick_sent = e.sent /\ memory'.last_receiver_timestamp = e.received
        /\ memory'.last_seq = e.seq /\ memory'.min_rtt = rtt /\ memory'.largest_ack = largest
        /\ memory' \in Memory
    BY <1>1, <1>4, <2>1 DEF Memory
  <2>3. exited' \in BOOLEAN
    BY <2>1
  <2> QED
    BY <1>1, <1>3, <1>4, <2>1, <2>2, <2>3
<1>7. ASSUME memory.last_tick_sent # 0
      PROVE  /\ m \/ (memory.min_rtt >= Delay /\ least >= Delay)
             /\ m \/ memory.last_receiver_timestamp > 0
             /\ memory.last_seq <= memory.largest_ack /\ memory.last_tick_sent <= now
             /\ memory.last_receiver_timestamp <= last_received
             /\ \A p \in headers : p.seq > memory.last_seq => p.sent >= memory.last_tick_sent
  BY <1>2, <1>4, <1>7 DEF SampleOfThisFlow, MinRttIsPossible
<1>8. ASSUME Remy!AveragedSample(e.seq, e.sent, e.received) PROVE Goal
  <2>1. /\ memory.last_tick_sent # 0 /\ e.seq - 1 = memory.largest_ack
        /\ memory' = [last_tick_sent |-> e.sent, last_receiver_timestamp |-> e.received,
                      last_seq |-> e.seq, min_rtt |-> least, largest_ack |-> largest]
        /\ Remy!UseWhisker(e.sent, Remy!Unaverageable(e.sent, e.received))
    BY <1>8 DEF Remy!AveragedSample, Remy!Follows
  <2> HIDE DEF largest, rtt, least
  <2>2. /\ memory'.last_tick_sent = e.sent /\ memory'.last_receiver_timestamp = e.received
        /\ memory'.last_seq = e.seq /\ memory'.min_rtt = least /\ memory'.largest_ack = largest
        /\ memory' \in Memory
    BY <1>1, <1>4, <2>1 DEF Memory
  <2>3. e.sent >= memory.last_tick_sent
    BY <1>1, <1>2, <1>7, <2>1
  <2>4. /\ exited' \in BOOLEAN
        /\ exited' => \/ Remy!Unaverageable(e.sent, e.received)
                      \/ now > MaxRatio * least
    <3>1. exited' \in IF Remy!Unaverageable(e.sent, e.received) \/ rtt >= MaxRatio * least
                      THEN BOOLEAN ELSE {exited}
      BY <2>1 DEF Remy!UseWhisker, least, rtt
    <3>2. CASE Remy!Unaverageable(e.sent, e.received) \/ rtt >= MaxRatio * least
      BY <1>5, <3>1, <3>2
    <3>3. CASE ~(Remy!Unaverageable(e.sent, e.received) \/ rtt >= MaxRatio * least)
      BY <1>1, <3>1, <3>3
    <3> QED
      BY <3>2, <3>3
  <2>5. ASSUME Remy!Unaverageable(e.sent, e.received), ~m
        PROVE  e.received < last_received \/ now > MaxInterval
    BY <1>1, <1>2, <1>7, <2>1, <2>3, <2>5 DEF Remy!Unaverageable
  <2> QED
    BY <1>1, <1>3, <1>4, <1>7, <2>1, <2>2, <2>4, <2>5
<1>9. ASSUME Remy!OtherSample(e.seq, e.sent) PROVE Goal
  <2>1. /\ memory.last_tick_sent # 0 /\ Remy!UseWhisker(e.sent, FALSE)
        /\ memory' = [memory EXCEPT !.min_rtt = least, !.largest_ack = largest]
    BY <1>1, <1>9 DEF Remy!OtherSample
  <2> HIDE DEF largest, rtt, least
  <2>2. /\ memory'.last_tick_sent = memory.last_tick_sent
        /\ memory'.last_receiver_timestamp = memory.last_receiver_timestamp
        /\ memory'.last_seq = memory.last_seq /\ memory'.min_rtt = least
        /\ memory'.largest_ack = largest /\ memory' \in Memory
    BY <1>2, <1>4, <2>1 DEF Memory
  <2>3. exited' \in BOOLEAN /\ (exited' => now > MaxRatio * least)
    <3>1. exited' \in IF rtt >= MaxRatio * least THEN BOOLEAN ELSE {exited}
      BY <2>1 DEF Remy!UseWhisker, least, rtt
    <3>2. CASE rtt >= MaxRatio * least
      BY <1>5, <3>1, <3>2
    <3>3. CASE ~(rtt >= MaxRatio * least)
      BY <1>1, <3>1, <3>3
    <3> QED
      BY <3>2, <3>3
  <2> QED
    BY <1>1, <1>2, <1>3, <1>4, <1>7, <2>1, <2>2, <2>3
<1> QED
  BY <1>6, <1>8, <1>9

\* What follows a reception, failed or not: the first ack of a packet gives
\* RemyCC a sample, any later one is unknown to it.
LEMMA ProcessStep ==
    ASSUME ControllersOK, ~exited, NEW h \in headers, Process(h),
           NetTypes', Stamped', headers' \subseteq headers, misread => misread',
           h.seq \notin acked =>
               \/ misread'
               \/ /\ now >= h.sent + Delay /\ h.received > 0
                  /\ h.received < last_received => overtaken',
           last_received' >= last_received, last_received' >= h.received
    PROVE  ControllersOK'
<1>1. /\ TypeOK /\ NetTypes /\ RemyTypes /\ AimdTypes /\ window \in Nat
      /\ SentBefore /\ SentInOrder /\ AckedForgotten /\ KnowsItsPackets
      /\ SampleOfThisFlow /\ OnlyOneController /\ MinRttIsPossible
      /\ ExitHasCause /\ ThresholdOfOne /\ WindowAtLeastTwo
  BY DEF ControllersOK, TypeOK
<1>2. /\ onACK(h.seq + 1, h.received) /\ acked' = acked \cup {h.seq}
      /\ UNCHANGED <<cctype, now, seq_num>>
  BY DEF Process
<1>3. /\ h.seq \in Nat /\ h.seq < seq_num /\ seq_num \in Nat
      /\ last_received \in Nat /\ last_received' \in Nat /\ misread' \in BOOLEAN
  BY <1>1 DEF NetTypes, Header, SentBefore, headers, datagrams
<1>4. SentBefore' /\ SentInOrder'
  BY <1>1, <1>2 DEF SentBefore, SentInOrder
<1>5. \A s \in acked' : s < seq_num'
  BY <1>1, <1>2, <1>3 DEF AckedForgotten
<1>6. CASE cctype = "remy"
  <2>1. Remy!onACK(h.seq + 1, h.received) /\ UNCHANGED aimd
    BY <1>2, <1>6 DEF onACK
  <2>2. AimdTypes' /\ OnlyOneController' /\ ThresholdOfOne' /\ WindowAtLeastTwo'
    BY <1>1, <1>2, <1>6, <2>1
    DEF AimdTypes, aimd, OnlyOneController, ThresholdOfOne, WindowAtLeastTwo
  <2>3. CASE h.seq \in DOMAIN unacknowledged_packets
    <3>1. h.seq \notin acked /\ unacknowledged_packets[h.seq] = h.sent
      BY <1>1, <1>6, <2>3 DEF AckedForgotten, KnowsItsPackets, headers, datagrams
    <3>2. /\ window' \in Nat
          /\ unacknowledged_packets' =
                [s \in DOMAIN unacknowledged_packets \ {h.seq} |-> unacknowledged_packets[s]]
          /\ \/ Remy!FirstSample(h.seq, h.sent, h.received)
             \/ Remy!AveragedSample(h.seq, h.sent, h.received)
             \/ Remy!OtherSample(h.seq, h.sent)
      BY <1>1, <2>1, <2>3, <3>1, RemyFirstAck
    <3>3. /\ memory' \in Memory /\ exited' \in BOOLEAN
          /\ misread' \/ memory'.min_rtt >= Delay
          /\ memory'.last_seq <= memory'.largest_ack
          /\ memory'.last_tick_sent <= now
          /\ memory'.last_receiver_timestamp <= last_received'
          /\ \A p \in headers :
                p.seq > memory'.last_seq => p.sent >= memory'.last_tick_sent
          /\ misread' \/ memory'.last_receiver_timestamp > 0
          /\ exited' => \/ h.received < last_received \/ misread'
                        \/ now > MaxRatio * memory'.min_rtt \/ now > MaxInterval
      BY <1>1, <1>3, <3>1, <3>2, RemySample
    <3>4. DOMAIN unacknowledged_packets' = DOMAIN unacknowledged_packets \ {h.seq}
      BY <3>2
    <3>5. RemyTypes'
      BY <1>1, <3>3, <3>4 DEF RemyTypes
    <3>6. AckedForgotten'
      BY <1>1, <1>2, <1>5, <1>6, <3>4 DEF AckedForgotten
    <3>7. KnowsItsPackets'
      BY <1>1, <1>2, <1>6, <3>2 DEF KnowsItsPackets, headers, datagrams
    <3>8. SampleOfThisFlow' /\ MinRttIsPossible'
      BY <1>2, <3>3 DEF SampleOfThisFlow, MinRttIsPossible
    <3>9. ExitHasCause'
      BY <1>2, <3>1, <3>3 DEF ExitHasCause
    <3> QED
      BY <1>4, <2>2, <3>2, <3>5, <3>6, <3>7, <3>8, <3>9 DEF ControllersOK, TypeOK
  <2>4. CASE h.seq \notin DOMAIN unacknowledged_packets
    <3>1. UNCHANGED <<window, unacknowledged_packets, memory, exited>>
      BY <1>3, <2>1, <2>4 DEF Remy!onACK
    <3>2. RemyTypes' /\ window' \in Nat
      BY <1>1, <3>1 DEF RemyTypes
    <3>3. AckedForgotten' /\ KnowsItsPackets'
      BY <1>1, <1>2, <1>5, <1>6, <2>4, <3>1
      DEF AckedForgotten, KnowsItsPackets, headers, datagrams
    <3>4. SampleOfThisFlow'
      <4>1. /\ memory.last_receiver_timestamp \in Nat
            /\ memory.last_tick_sent # 0 => memory.last_receiver_timestamp <= last_received'
        BY <1>1, <1>3 DEF RemyTypes, Memory, SampleOfThisFlow
      <4> QED
        BY <1>1, <1>2, <3>1, <4>1 DEF SampleOfThisFlow
    <3>5. MinRttIsPossible' /\ ExitHasCause'
      BY <1>1, <3>1 DEF MinRttIsPossible, ExitHasCause
    <3> QED
      BY <1>4, <2>2, <3>2, <3>3, <3>4, <3>5 DEF ControllersOK, TypeOK
  <2> QED
    BY <2>3, <2>4
<1>7. CASE cctype = "tcp"
  <2>1. Aimd!onACK(h.seq + 1) /\ UNCHANGED remy
    BY <1>2, <1>7 DEF onACK
  <2>2. /\ AimdTypes' /\ window' \in Nat /\ window' >= 2 /\ m_issthresh' >= 1
        /\ m_issthresh' = 1 /\ m_iDupACKCount' >= 3 => m_bSlowStart'
    <3>1. h.seq + 1 \in Nat
      BY <1>3
    <3>2. /\ window >= 2 /\ m_issthresh >= 1
          /\ m_issthresh = 1 /\ m_iDupACKCount >= 3 => m_bSlowStart
      BY <1>1, <1>7 DEF ThresholdOfOne, WindowAtLeastTwo
    <3> QED
      BY <1>1, <2>1, <3>1, <3>2, AimdAck
  <2>3. ThresholdOfOne' /\ WindowAtLeastTwo'
    BY <2>2 DEF ThresholdOfOne, WindowAtLeastTwo
  <2>4. RemyTypes' /\ OnlyOneController' /\ memory' = memory /\ ~exited' /\ memory.last_tick_sent = 0
    BY <1>1, <1>2, <1>7, <2>1 DEF RemyTypes, remy, OnlyOneController
  <2>5. AckedForgotten' /\ KnowsItsPackets' /\ SampleOfThisFlow' /\ MinRttIsPossible' /\ ExitHasCause'
    BY <1>2, <1>5, <1>7, <2>4
    DEF AckedForgotten, KnowsItsPackets, SampleOfThisFlow, MinRttIsPossible, ExitHasCause
  <2> QED
    BY <1>4, <2>2, <2>3, <2>4, <2>5 DEF ControllersOK, TypeOK
<1> QED
  BY <1>1, <1>6, <1>7 DEF NetTypes

\* An echo is taken: it was on its way for as long as the network needs.
LEMMA ReceiveStep == ControllersOK /\ Receive => ControllersOK'
<1> SUFFICES ASSUME ControllersOK, Receive PROVE ControllersOK'
  OBVIOUS
<1>1. NetTypes /\ Stamped
  BY DEF ControllersOK, TypeOK
<1>2. PICK e \in echoes :
         /\ now >= e.sent + Delay /\ Delivered(echoes, e, echoes') /\ buf' = {e} /\ Process(e)
         /\ overtaken' = (overtaken \/ e.received < last_received)
         /\ last_received' = Remy!MaxOf(last_received, e.received)
  BY DEF Receive
<1>3. UNCHANGED <<cctype, now, flow, seq_num, path, errors, misread>> /\ ~exited
  BY <1>2 DEF Receive, Process
<1>4. /\ last_ack_time' = now /\ acked' = acked \cup {e.seq}
      /\ largest_ack' = Remy!MaxOf(largest_ack, e.seq + 1)
  BY <1>2 DEF Process
<1>5. e \in Header /\ e.seq \in Nat /\ e.received \in Nat /\ e.received > 0 /\ last_received \in Nat
  BY <1>1 DEF NetTypes, Header, Stamped
<1>6. echoes' \subseteq echoes /\ dups' \in Nat /\ headers' \subseteq headers
  BY <1>1, <1>2, <1>3 DEF Delivered, NetTypes, headers, datagrams
<1>7. /\ last_received' \in Nat /\ last_received' >= last_received
      /\ last_received' >= e.received /\ largest_ack' \in Int
  BY <1>1, <1>2, <1>4, <1>5 DEF Remy!MaxOf, NetTypes
<1>8. overtaken' \in BOOLEAN /\ (e.received < last_received => overtaken')
  BY <1>1, <1>2 DEF NetTypes
<1>9. NetTypes'
  BY <1>1, <1>2, <1>3, <1>4, <1>5, <1>6, <1>7, <1>8 DEF NetTypes
<1>10. Stamped'
  BY <1>1, <1>2, <1>4, <1>5, <1>6, <1>7 DEF Stamped
<1>11. e \in headers
  BY DEF headers, datagrams
<1> QED
  BY <1>2, <1>3, <1>5, <1>6, <1>7, <1>8, <1>9, <1>10, <1>11, ProcessStep

\* A failed reception: the header of a packet not acked is one that was sent
\* last, and from then on the controller is misled.
LEMMA ReceiveErrorStep == ControllersOK /\ ReceiveError => ControllersOK'
<1> SUFFICES ASSUME ControllersOK, ReceiveError PROVE ControllersOK'
  OBVIOUS
<1>1. NetTypes /\ Stamped
  BY DEF ControllersOK, TypeOK
<1>2. PICK h \in buf : Process(h) /\ misread' = (misread \/ h.seq \notin acked)
  BY DEF ReceiveError
<1>3. /\ UNCHANGED <<cctype, now, flow, seq_num, path, echoes, buf, dups, overtaken, last_received>>
      /\ errors' = errors + 1 /\ ~exited
  BY <1>2 DEF ReceiveError, Process
<1>4. /\ last_ack_time' = now /\ acked' = acked \cup {h.seq}
      /\ largest_ack' = Remy!MaxOf(largest_ack, h.seq + 1)
  BY <1>2 DEF Process
<1>5. h.seq \in Nat /\ h.received <= last_received /\ last_received \in Nat
  BY <1>1 DEF NetTypes, Header, Stamped
<1>6. misread' \in BOOLEAN /\ (misread => misread') /\ (h.seq \notin acked => misread')
  BY <1>1, <1>2 DEF NetTypes
<1>7. NetTypes'
  <2>1. largest_ack' \in Int /\ last_ack_time' \in Nat
    BY <1>1, <1>4, <1>5 DEF Remy!MaxOf, NetTypes
  <2>4. errors' \in Nat
    BY <1>1, <1>3 DEF NetTypes
  <2>5. acked' \subseteq Nat
    BY <1>1, <1>4, <1>5 DEF NetTypes
  <2>2. /\ cctype' \in {"remy", "tcp"} /\ overtaken' \in BOOLEAN /\ misread' \in BOOLEAN
        /\ path' \cup echoes' \cup buf' \subseteq Header
    BY <1>1, <1>3, <1>6 DEF NetTypes
  <2>3. /\ flow' \in Nat /\ now' \in Nat \ {0} /\ seq_num' \in Nat /\ dups' \in Nat
        /\ last_received' \in Nat
    BY <1>1, <1>3 DEF NetTypes
  <2> QED
    BY <2>1, <2>2, <2>3, <2>4, <2>5 DEF NetTypes
<1>8. Stamped'
  BY <1>1, <1>3, <1>4 DEF Stamped
<1>9. h \in headers /\ headers' = headers
  BY <1>3 DEF headers, datagrams
<1> QED
  BY <1>2, <1>3, <1>5, <1>6, <1>7, <1>8, <1>9, ProcessStep

LEMMA StepControllers == ControllersOK /\ [Next]_vars => ControllersOK'
<1> SUFFICES ASSUME ControllersOK, [Next]_vars PROVE ControllersOK'
  OBVIOUS
<1>1. CASE UNCHANGED vars
  BY <1>1 DEF vars, ctcp, net, history, remy, aimd, ControllersOK, TypeOK, NetTypes, RemyTypes,
     AimdTypes, SentBefore, SentInOrder, Stamped, AckedForgotten, KnowsItsPackets,
     SampleOfThisFlow, OnlyOneController, MinRttIsPossible, ExitHasCause, ThresholdOfOne,
     WindowAtLeastTwo, headers, datagrams
<1> QED
  BY <1>1, StartFlowStep, AckTimedOutStep, TimedOutStep, SendPacketStep, EchoPacketStep,
     ReceiveStep, ReceiveErrorStep, TickStep DEF Next

------------------------------------------------------------------------------
\* The copies of each packet, and the acks that repeat a number

\* There are no more numbers than datagrams that bear them.
LEMMA NumbersOf ==
  ASSUME NEW S, IsFiniteSet(S)
  PROVE  LET T == {x.seq : x \in S}
         IN  IsFiniteSet(T) /\ Cardinality(T) <= Cardinality(S)
<1> DEFINE T == {x.seq : x \in S}
           f == [x \in S |-> x.seq]
<1>1. f \in Surjection(S, T)
  BY DEF Surjection
<1> QED
  BY <1>1, FS_Surjection

\* No packet vanishes, so there are as many copies as packets at least.
LEMMA CopiesOfAll == NetTypes /\ Everywhere => Copies \in Nat
<1> SUFFICES ASSUME NetTypes, Everywhere PROVE Copies \in Nat
  OBVIOUS
<1> DEFINE A == {x.seq : x \in path}
           B == {x.seq : x \in echoes}
           a == Cardinality(A)
           b == Cardinality(B)
           sent == 0 .. seq_num - 1
<1>1. IsFiniteSet(path) /\ IsFiniteSet(echoes) /\ IsFiniteSet(acked) /\ seq_num \in Nat
  BY DEF Everywhere, NetTypes
<1>2. /\ IsFiniteSet(A) /\ a <= Cardinality(path) /\ IsFiniteSet(B) /\ b <= Cardinality(echoes)
  BY <1>1, NumbersOf
<1>3. /\ a \in Nat /\ b \in Nat /\ Cardinality(path) \in Nat /\ Cardinality(echoes) \in Nat
      /\ Cardinality(acked) \in Nat
  BY <1>1, <1>2, FS_CardinalityType
<1>4. sent \subseteq A \cup B \cup acked
  BY DEF Everywhere, datagrams
<1>5. Cardinality(sent) = seq_num
  <2>1. Cardinality(sent) = IF 0 > seq_num - 1 THEN 0 ELSE seq_num - 1 - 0 + 1
    BY <1>1, FS_Interval
  <2> QED
    BY <1>1, <2>1
<1> HIDE DEF A, B, sent
<1>6. IsFiniteSet(A \cup B) /\ Cardinality(A \cup B) = a + b - Cardinality(A \cap B)
  BY <1>2, FS_Union
<1>7. /\ IsFiniteSet(A \cup B \cup acked)
      /\ Cardinality(A \cup B \cup acked)
           = Cardinality(A \cup B) + Cardinality(acked) - Cardinality((A \cup B) \cap acked)
  BY <1>1, <1>6, FS_Union
<1>8. Cardinality(A \cap B) \in Nat /\ Cardinality((A \cup B) \cap acked) \in Nat
  <2>1. IsFiniteSet(A \cap B) /\ IsFiniteSet((A \cup B) \cap acked)
    BY <1>2, <1>6, FS_Intersection
  <2> QED
    BY <2>1, FS_CardinalityType
<1>9. Cardinality(sent) <= Cardinality(A \cup B \cup acked)
  BY <1>4, <1>7, FS_Subset
<1> HIDE DEF a, b
<1> QED
  BY <1>1, <1>2, <1>3, <1>5, <1>6, <1>7, <1>8, <1>9 DEF Copies

\* A delivery takes a datagram away, or it has been duplicated.
LEMMA DeliveredSize ==
  ASSUME NEW s, IsFiniteSet(s), NEW x \in s, NEW rest, Delivered(s, x, rest), dups \in Nat
  PROVE  /\ IsFiniteSet(rest) /\ rest \subseteq s /\ s \ {x} \subseteq rest
         /\ Cardinality(s) \in Nat /\ Cardinality(rest) \in Nat /\ dups' \in Nat
         /\ Cardinality(rest) + 1 + dups <= Cardinality(s) + dups'
<1>1. Cardinality(s) \in Nat
  BY FS_CardinalityType
<1>2. CASE rest = s \ {x} /\ dups' = dups
  <2>1. IsFiniteSet(rest) /\ Cardinality(rest) = Cardinality(s) - 1
    BY <1>2, FS_RemoveElement
  <2>2. Cardinality(rest) \in Nat
    BY <2>1, FS_CardinalityType
  <2> QED
    BY <1>1, <1>2, <2>1, <2>2
<1>3. CASE rest = s /\ dups' = dups + 1
  BY <1>1, <1>3
<1> QED
  BY <1>2, <1>3 DEF Delivered

LEMMA AddedSize ==
  ASSUME NEW s, IsFiniteSet(s), NEW x
  PROVE  /\ IsFiniteSet(s \cup {x})
         /\ Cardinality(s) \in Nat /\ Cardinality(s \cup {x}) \in Nat
         /\ Cardinality(s \cup {x}) <= Cardinality(s) + 1
         /\ x \in s => Cardinality(s \cup {x}) = Cardinality(s)
         /\ x \notin s => Cardinality(s \cup {x}) = Cardinality(s) + 1
<1>1. IsFiniteSet(s \cup {x})
  BY FS_AddElement
<1>2. Cardinality(s) \in Nat /\ Cardinality(s \cup {x}) \in Nat
  BY <1>1, FS_CardinalityType
<1>3. Cardinality(s \cup {x}) = IF x \in s THEN Cardinality(s) ELSE Cardinality(s) + 1
  BY FS_AddElement
<1> QED
  BY <1>1, <1>2, <1>3

\* DefaultCC::onACK() counts a repetition only of the last number.
LEMMA RepeatsGrow ==
  ASSUME AimdTypes, NEW ack \in Nat, Aimd!onACK(ack)
  PROVE  /\ m_iLastACK' = ack /\ Repeats \in Nat /\ Repeats' \in Nat
         /\ Repeats' <= Repeats + 1
         /\ ack # m_iLastACK => Repeats' <= Repeats
<1>1. CASE ack = m_iLastACK
  <2>1. /\ m_iDupACKCount' = m_iDupACKCount + 1 /\ m_iLastACK' = m_iLastACK
        /\ \/ m_iDupACKCount' = 3 /\ cuts' = cuts + 1
           \/ m_iDupACKCount' # 3 /\ cuts' = cuts
    BY <1>1 DEF Aimd!onACK, Aimd!RepeatedACK, Aimd!DupACKAction, AimdTypes
  <2> QED
    BY <1>1, <2>1 DEF AimdTypes, Repeats
<1>2. CASE ack # m_iLastACK
  <2>1. m_iDupACKCount' = 1 /\ m_iLastACK' = ack /\ cuts' = cuts
    BY <1>2 DEF Aimd!onACK, Aimd!NewACK
  <2> QED
    BY <1>2, <2>1 DEF AimdTypes, Repeats
<1> QED
  BY <1>1, <1>2

LEMMA InitCopies == Init => CopiesOK
<1> SUFFICES ASSUME Init PROVE CopiesOK
  OBVIOUS
<1>1. /\ path = {} /\ echoes = {} /\ acked = {} /\ seq_num = 0 /\ flow = 1 /\ dups = 0
      /\ errors = 0 /\ cuts = 0 /\ m_iDupACKCount = 0 /\ m_iLastACK = 0
  BY DEF Init, Aimd!Init
<1>2. IsFiniteSet({}) /\ Cardinality({}) = 0
  BY FS_EmptySet
<1>3. Everywhere
  BY <1>1, <1>2 DEF Everywhere
<1>4. RepeatsCounted
  BY <1>1, <1>2 DEF RepeatsCounted, Repeats, Copies, FirstOfLaterFlow
<1> QED
  BY <1>3, <1>4 DEF CopiesOK

\* The ack of a header adds one at most to the packets acked and the
\* repetitions together, but for the one repetition that a later flow begins with.
LEMMA AckCounted ==
  ASSUME NetTypes, AimdTypes, Everywhere, RepeatsCounted, NEW h \in Header, Process(h)
  PROVE  /\ IsFiniteSet(acked') /\ Cardinality(acked') \in Nat /\ acked' # {}
         /\ Repeats' \in Nat /\ FirstOfLaterFlow' = 0
         /\ cctype' = "tcp" => m_iLastACK' - 1 \in acked'
         /\ Repeats' + Cardinality(acked')
              <= Repeats + Cardinality(acked) + FirstOfLaterFlow + 1
<1> DEFINE c == Cardinality(acked)
<1>1. /\ acked' = acked \cup {h.seq} /\ onACK(h.seq + 1, h.received)
      /\ cctype' = cctype /\ cctype \in {"remy", "tcp"} /\ flow' = flow
  BY DEF Process, NetTypes
<1>2. h.seq \in Nat /\ m_iLastACK \in Nat
  BY DEF Header, AimdTypes
<1>3. /\ IsFiniteSet(acked') /\ c \in Nat /\ Cardinality(acked') \in Nat
      /\ Cardinality(acked') <= c + 1
      /\ h.seq \in acked => Cardinality(acked') = c
  BY <1>1, AddedSize DEF Everywhere
<1>4. acked' # {} /\ FirstOfLaterFlow' = 0
  BY <1>1 DEF FirstOfLaterFlow
<1>5. /\ Repeats \in Nat /\ flow \in Nat /\ flow >= 1 /\ FirstOfLaterFlow \in {0, 1}
      /\ FirstOfLaterFlow = 0 /\ acked = {} => flow = 1
  BY DEF Repeats, AimdTypes, NetTypes, RepeatsCounted, FirstOfLaterFlow
<1>6. /\ Repeats' \in Nat /\ Repeats' <= Repeats + 1
      /\ h.seq \notin acked /\ FirstOfLaterFlow = 0 => Repeats' <= Repeats
      /\ cctype = "tcp" => m_iLastACK' = h.seq + 1
  <2>1. CASE cctype = "tcp"
    <3>1. Aimd!onACK(h.seq + 1) /\ h.seq + 1 \in Nat
      BY <1>1, <1>2, <2>1 DEF onACK
    <3>2. /\ m_iLastACK' = h.seq + 1 /\ Repeats' \in Nat /\ Repeats' <= Repeats + 1
          /\ h.seq + 1 # m_iLastACK => Repeats' <= Repeats
      BY <3>1, RepeatsGrow
    <3>3. ASSUME h.seq \notin acked, FirstOfLaterFlow = 0 PROVE h.seq + 1 # m_iLastACK
      <4>1. CASE acked = {}
        <5>1. m_iLastACK = 0
          BY <1>5, <2>1, <3>3, <4>1 DEF RepeatsCounted
        <5> QED
          BY <1>2, <5>1
      <4>2. CASE acked # {}
        <5>1. m_iLastACK - 1 \in acked
          BY <2>1, <4>2 DEF RepeatsCounted
        <5>2. h.seq # m_iLastACK - 1
          BY <3>3, <5>1
        <5> QED
          BY <1>2, <5>2
      <4> QED
        BY <4>1, <4>2
    <3> QED
      BY <3>2, <3>3
  <2>2. CASE cctype = "remy"
    <3>1. UNCHANGED aimd
      BY <1>1, <2>2 DEF onACK
    <3>2. Repeats' = Repeats
      BY <3>1 DEF aimd, Repeats
    <3> QED
      BY <1>5, <2>2, <3>2
  <2> QED
    BY <1>1, <2>1, <2>2
<1>7. cctype' = "tcp" => m_iLastACK' - 1 \in acked'
  BY <1>1, <1>2, <1>6
<1>8. Repeats' + Cardinality(acked') <= Repeats + c + FirstOfLaterFlow + 1
  <2>1. CASE h.seq \in acked
    BY <1>3, <1>5, <1>6, <2>1
  <2>2. CASE h.seq \notin acked /\ FirstOfLaterFlow = 0
    BY <1>3, <1>5, <1>6, <2>2
  <2>3. CASE FirstOfLaterFlow = 1
    BY <1>3, <1>5, <1>6, <2>3
  <2> QED
    BY <1>5, <2>1, <2>2, <2>3
<1> QED
  BY <1>3, <1>4, <1>6, <1>7, <1>8

\* The count is kept by every step: a repetition costs a duplicate or a failed
\* reception, or is the first ack of a flow, and what a flow leaves behind is no repetition to come.
LEMMA StepCopies == IInv /\ [Next]_vars => CopiesOK'
<1> SUFFICES ASSUME IInv, [Next]_vars PROVE CopiesOK'
  OBVIOUS
<1> DEFINE a == Cardinality(path)
           b == Cardinality(echoes)
           c == Cardinality(acked)
<1>1. /\ NetTypes /\ AimdTypes /\ AckedForgotten /\ SentBefore /\ Everywhere /\ RepeatsCounted
  BY DEF IInv, ControllersOK, CopiesOK, TypeOK
<1>2. /\ IsFiniteSet(path) /\ IsFiniteSet(echoes) /\ IsFiniteSet(acked)
      /\ cctype \in {"remy", "tcp"} /\ seq_num \in Nat /\ flow \in Nat /\ flow >= 1
      /\ dups \in Nat /\ errors \in Nat
      /\ Repeats + Copies + FirstOfLaterFlow <= dups + errors + flow - 1
      /\ FirstOfLaterFlow \in {0, 1}
      /\ Repeats \in Nat
  BY <1>1 DEF Everywhere, NetTypes, RepeatsCounted, FirstOfLaterFlow, Repeats, AimdTypes
<1>3. a \in Nat /\ b \in Nat /\ c \in Nat
  BY <1>2, FS_CardinalityType
<1>4. Copies = a + b + c - seq_num
  BY DEF Copies
<1>5. CASE StartFlow
  <2>1. /\ flow' = flow + 1 /\ seq_num' = 0 /\ path' = {} /\ echoes' = {} /\ acked' = {}
        /\ dups' = dups /\ errors' = errors /\ init
    BY <1>5 DEF StartFlow
  <2>2. UNCHANGED <<m_iDupACKCount, m_iLastACK, cuts>>
    BY <2>1 DEF init, Aimd!init, aimd
  <2>3. IsFiniteSet({}) /\ Cardinality({}) = 0
    BY FS_EmptySet
  <2>4. Everywhere'
    BY <2>1, <2>3 DEF Everywhere
  <2>5. Repeats' = Repeats /\ Copies' = 0 /\ FirstOfLaterFlow' = 1
    BY <1>2, <2>1, <2>2, <2>3 DEF Repeats, Copies, FirstOfLaterFlow
  <2>6. Copies \in Nat
    BY <1>1, CopiesOfAll
  <2>7. RepeatsCounted'
    <3>1. flow' >= 1 /\ flow' # 1
      BY <1>2, <2>1
    <3>2. Repeats' + Copies' + FirstOfLaterFlow' <= dups' + errors' + flow' - 1
      <4>1. Repeats <= dups + errors + flow - 1
        BY <1>2, <2>6
      <4>2. flow' = flow + 1 /\ dups' = dups /\ errors' = errors
        BY <2>1
      <4> QED
        BY <1>2, <2>5, <4>1, <4>2
    <3> QED
      BY <2>1, <3>1, <3>2 DEF RepeatsCounted
  <2> QED
    BY <2>4, <2>7 DEF CopiesOK
<1>6. CASE SendPacket
  <2> DEFINE new == Packet(seq_num, now)
  <2>1. /\ path' = path \cup {new} /\ seq_num' = seq_num + 1 /\ new.seq = seq_num
        /\ UNCHANGED <<cctype, flow, echoes, acked, dups, errors>>
    BY <1>6 DEF SendPacket, Packet, history
  <2>2. UNCHANGED <<m_iDupACKCount, m_iLastACK, cuts>>
    BY <1>6 DEF SendPacket, onPktSent, aimd
  <2> HIDE DEF new
  <2>3. /\ IsFiniteSet(path') /\ Cardinality(path') \in Nat /\ Cardinality(path') <= a + 1
    BY <1>2, <2>1, AddedSize
  <2>4. Everywhere'
    <3>1. ASSUME NEW s \in 0 .. seq_num' - 1
          PROVE  s \in acked' \/ \E p \in datagrams' : p.seq = s
      <4>1. CASE s = seq_num
        BY <2>1, <4>1 DEF datagrams
      <4>2. CASE s # seq_num
        <5>1. s \in 0 .. seq_num - 1
          BY <1>2, <2>1, <4>2
        <5> QED
          BY <1>1, <2>1, <5>1 DEF Everywhere, datagrams
      <4> QED
        BY <4>1, <4>2
    <3> QED
      BY <1>2, <2>1, <2>3, <3>1 DEF Everywhere
  <2>5. /\ Repeats' = Repeats /\ FirstOfLaterFlow' = FirstOfLaterFlow
        /\ Copies' = Cardinality(path') + b + c - (seq_num + 1)
    BY <2>1, <2>2 DEF Repeats, Copies, FirstOfLaterFlow
  <2>6. RepeatsCounted'
    <3>1. Copies' <= Copies /\ Copies \in Int /\ Copies' \in Int
      BY <1>2, <1>3, <1>4, <2>3, <2>5
    <3>2. Repeats' + Copies' + FirstOfLaterFlow' <= dups' + errors' + flow' - 1
      BY <1>2, <2>1, <2>5, <3>1
    <3> QED
      BY <1>1, <1>2, <2>1, <2>2, <3>2 DEF RepeatsCounted
  <2> QED
    BY <2>4, <2>6 DEF CopiesOK
<1>7. CASE EchoPacket
  <2>1. PICK p \in path : Delivered(path, p, path') /\ echoes' = echoes \cup {Echo(p, now)}
    BY <1>7 DEF EchoPacket
  <2>2. UNCHANGED <<cctype, flow, seq_num, errors, acked, m_iDupACKCount, m_iLastACK, cuts>>
    BY <1>7 DEF EchoPacket, ctcp, history, aimd
  <2> DEFINE new == Echo(p, now)
  <2>3. new.seq = p.seq
    BY DEF Echo
  <2> HIDE DEF new
  <2>4. /\ IsFiniteSet(path') /\ path \ {p} \subseteq path'
        /\ Cardinality(path') \in Nat /\ dups' \in Nat
        /\ Cardinality(path') + 1 + dups <= a + dups'
    BY <1>2, <2>1, DeliveredSize
  <2>5. /\ IsFiniteSet(echoes') /\ Cardinality(echoes') \in Nat /\ Cardinality(echoes') <= b + 1
    BY <1>2, <2>1, AddedSize
  <2>6. Everywhere'
    <3>1. ASSUME NEW d \in datagrams PROVE \E e \in datagrams' : e.seq = d.seq
      <4>1. new \in datagrams'
        BY <2>1 DEF new, datagrams
      <4>2. d = p \/ d \in datagrams'
        BY <2>1, <2>4 DEF datagrams
      <4> QED
        BY <2>3, <4>1, <4>2
    <3> QED
      BY <1>1, <1>2, <2>2, <2>4, <2>5, <3>1 DEF Everywhere
  <2>7. /\ Repeats' = Repeats /\ FirstOfLaterFlow' = FirstOfLaterFlow
        /\ Copies' = Cardinality(path') + Cardinality(echoes') + c - seq_num
    BY <2>2 DEF Repeats, Copies, FirstOfLaterFlow
  <2>8. RepeatsCounted'
    <3>1. Copies' + dups <= Copies + dups' /\ Copies \in Int /\ Copies' \in Int
      BY <1>2, <1>3, <1>4, <2>4, <2>5, <2>7
    <3>2. Repeats' + Copies' + FirstOfLaterFlow' <= dups' + errors' + flow' - 1
      BY <1>2, <2>2, <2>4, <2>7, <3>1
    <3> QED
      BY <1>1, <1>2, <2>2, <3>2 DEF RepeatsCounted
  <2> QED
    BY <2>6, <2>8 DEF CopiesOK
<1>8. CASE Receive
  <2>1. PICK e \in echoes : Delivered(echoes, e, echoes') /\ Process(e)
    BY <1>8 DEF Receive
  <2>2. UNCHANGED <<cctype, flow, seq_num, path, errors>> /\ acked \cup {e.seq} = acked'
    BY <1>8, <2>1 DEF Receive, Process
  <2>3. e \in Header
    BY <1>1 DEF NetTypes
  <2>4. /\ IsFiniteSet(echoes') /\ echoes \ {e} \subseteq echoes'
        /\ Cardinality(echoes') \in Nat /\ dups' \in Nat
        /\ Cardinality(echoes') + 1 + dups <= b + dups'
    BY <1>2, <2>1, DeliveredSize
  <2>5. /\ IsFiniteSet(acked') /\ Cardinality(acked') \in Nat /\ acked' # {}
        /\ Repeats' \in Nat /\ FirstOfLaterFlow' = 0
        /\ cctype' = "tcp" => m_iLastACK' - 1 \in acked'
        /\ Repeats' + Cardinality(acked') <= Repeats + c + FirstOfLaterFlow + 1
    BY <1>1, <2>1, <2>3, AckCounted
  <2>6. Everywhere'
    <3>1. \A d \in datagrams : d.seq \in acked' \/ d \in datagrams'
      BY <2>2, <2>4 DEF datagrams
    <3> QED
      BY <1>1, <1>2, <2>2, <2>4, <2>5, <3>1 DEF Everywhere
  <2>7. Copies' = a + Cardinality(echoes') + Cardinality(acked') - seq_num
    BY <2>2 DEF Copies
  <2>8. Repeats' + Copies' + FirstOfLaterFlow' <= dups' + errors' + flow' - 1
    BY <1>2, <1>3, <1>4, <2>2, <2>4, <2>5, <2>7
  <2>9. RepeatsCounted'
    BY <1>2, <2>2, <2>5, <2>8 DEF RepeatsCounted
  <2> QED
    BY <2>6, <2>9 DEF CopiesOK
<1>9. CASE ReceiveError
  <2>1. PICK h \in buf : Process(h)
    BY <1>9 DEF ReceiveError
  <2>2. /\ UNCHANGED <<cctype, flow, seq_num, path, echoes, dups>> /\ errors' = errors + 1
        /\ acked' = acked \cup {h.seq}
    BY <1>9, <2>1 DEF ReceiveError, Process
  <2>3. h \in Header
    BY <1>1 DEF NetTypes
  <2>4. /\ IsFiniteSet(acked') /\ Cardinality(acked') \in Nat /\ acked' # {}
        /\ Repeats' \in Nat /\ FirstOfLaterFlow' = 0
        /\ cctype' = "tcp" => m_iLastACK' - 1 \in acked'
        /\ Repeats' + Cardinality(acked') <= Repeats + c + FirstOfLaterFlow + 1
    BY <1>1, <2>1, <2>3, AckCounted
  <2>5. Everywhere'
    BY <1>1, <2>2, <2>4 DEF Everywhere, datagrams
  <2>6. Copies' = a + b + Cardinality(acked') - seq_num
    BY <2>2 DEF Copies
  <2>7. Repeats' + Copies' + FirstOfLaterFlow' <= dups' + errors' + flow' - 1
    BY <1>2, <1>3, <1>4, <2>2, <2>4, <2>6
  <2>8. RepeatsCounted'
    BY <1>2, <2>2, <2>4, <2>7 DEF RepeatsCounted
  <2> QED
    BY <2>5, <2>8 DEF CopiesOK
<1>10. CASE AckTimedOut \/ TimedOut \/ Tick \/ UNCHANGED vars
  <2>1. UNCHANGED <<cctype, flow, seq_num, path, echoes, dups, errors, acked,
                    m_iDupACKCount, m_iLastACK, cuts>>
    <3>1. CASE AckTimedOut
      BY <3>1 DEF AckTimedOut, init, Aimd!init, aimd, net, history
    <3>2. CASE TimedOut
      BY <3>2 DEF TimedOut, Aimd!onTimeout, ctcp, net, history
    <3>3. CASE Tick \/ UNCHANGED vars
      BY <3>3 DEF Tick, vars, ctcp, net, history, aimd
    <3> QED
      BY <1>10, <3>1, <3>2, <3>3
  <2> QED
    BY <1>1, <2>1 DEF CopiesOK, Everywhere, datagrams, RepeatsCounted, Repeats, Copies, FirstOfLaterFlow
<1> QED
  BY <1>5, <1>6, <1>7, <1>8, <1>9, <1>10 DEF Next

\* IInv is an invariant: the sequence of flows, timeouts, packets, echoes and
\* failed receptions of either controller, over any network.
THEOREM Invariance == Spec => []IInv
<1>1. Init => IInv
  BY InitControllers, InitCopies DEF IInv
<1>2. IInv /\ [Next]_vars => IInv'
  BY StepControllers, StepCopies DEF IInv
<1> QED
  BY <1>1, <1>2, PTL DEF Spec

\* RemyCC takes the RTT of each packet from that packet (onACK() of RemyCC).
THEOREM OwnPackets == Spec => []KnowsItsPackets
<1>1. IInv => KnowsItsPackets
  BY DEF IInv, ControllersOK
<1> QED
  BY <1>1, Invariance, PTL

\* The minimum RTT of RemyCC's memory is never below that of the network, unless
\* a failed reception since init() had it take for acked what no echo had come
\* back of (ctcp.hh:249).
THEOREM MinRttPossible == Spec => []MinRttIsPossible
<1>1. IInv => MinRttIsPossible
  BY DEF IInv, ControllersOK
<1> QED
  BY <1>1, Invariance, PTL

\* Without echoes that overtake each other and failed receptions that mislead it,
\* RemyCC finds a whisker for all its averages and ratios (use_whisker()) until
\* the flow has lasted longer than the longest RTT or interval they cover.
THEOREM ExitsHaveCause == Spec => []ExitHasCause
<1>1. IInv => ExitHasCause
  BY DEF IInv, ControllersOK
<1> QED
  BY <1>1, Invariance, PTL

\* DefaultCC's window never falls below two packets.
THEOREM TwoPackets == Spec => []WindowAtLeastTwo
<1>1. IInv => WindowAtLeastTwo
  BY DEF IInv, ControllersOK
<1> QED
  BY <1>1, Invariance, PTL

\* DefaultCC::onACK() halves its window once for every two acks that repeat the
\* last number, and each of these costs a duplicate, a failed reception or the
\* start of a flow.
THEOREM HalvesRarely == Spec => []HalvesForRepeats
<1>1. IInv => HalvesForRepeats
  <2> SUFFICES ASSUME IInv PROVE HalvesForRepeats
    OBVIOUS
  <2>1. /\ flow \in Nat /\ dups \in Nat /\ errors \in Nat /\ cuts \in Nat /\ Copies \in Nat
        /\ Repeats + Copies + FirstOfLaterFlow <= dups + errors + flow - 1
    BY CopiesOfAll DEF IInv, ControllersOK, CopiesOK, TypeOK, NetTypes, AimdTypes, RepeatsCounted
  <2>2. FirstOfLaterFlow \in {0, 1} /\ Repeats \in {2 * cuts, 2 * cuts + 1}
    BY <2>1 DEF FirstOfLaterFlow, Repeats
  <2> QED
    BY <2>1, <2>2 DEF HalvesForRepeats
<1> QED
  BY <1>1, Invariance, PTL

\* Every packet sent in the flow is on its way, echoed, or acked.
THEOREM NoneVanishes == Spec => []Everywhere
<1>1. IInv => Everywhere
  BY DEF IInv, CopiesOK
<1> QED
  BY <1>1, Invariance, PTL
=============================================================================

---------------------------- MODULE MarkovianProofs ----------------------------
(***************************************************************************)
(* What holds of MarkovianCC for every configuration, RTT and pattern of    *)
(* losses: 1 / delta grows by no more than one per RTT, the pacing interval *)
(* is that of the window, no packet is taken for lost twice, the window is  *)
(* cut no more than once per two RTTs, and a velocity is earned one RTT at  *)
(* a time and moves the window by at most a packet per ack.                 *)
(***************************************************************************)
EXTENDS Markovian, FiniteSetTheorems, FunctionTheorems, TLAPS

USE MarkovianAssumption DEF MarkovianAssumption

\* What AggressionBounded says of a record of delta
Bounded(d) == (d.inv - DefaultInv) * MinRtt <= InvUnit * d.time

\* Arithmetic: what one more unit of 1 / delta costs
LEMMA MulMono == \A a, b, c \in Nat : a <= b => c * a <= c * b
  BY SMTT(30)

LEMMA OneMore ==
  \A i, j, d, u, m, s, t \in Nat :
     (i - d) * m <= u * s /\ s + m <= t /\ j = i + u => (j - d) * m <= u * t
<1> SUFFICES ASSUME NEW i \in Nat, NEW j \in Nat, NEW d \in Nat, NEW u \in Nat,
                    NEW m \in Nat, NEW s \in Nat, NEW t \in Nat,
                    (i - d) * m <= u * s, s + m <= t, j = i + u
             PROVE  (j - d) * m <= u * t
  OBVIOUS
<1>1. (j - d) * m = (i - d) * m + u * m
  BY SMTT(30)
<1>2. u * (s + m) = u * s + u * m
  BY SMTT(30)
<1>3. u * (s + m) <= u * t
  BY MulMono
<1> DEFINE A == (i - d) * m
           B == u * m
           C == u * s
           D == u * t
           E == (j - d) * m
           F == u * (s + m)
<1>4. A \in Int /\ B \in Int /\ C \in Int /\ D \in Int /\ E = A + B /\ F = C + B /\ F <= D /\ A <= C
  BY <1>1, <1>2, <1>3
<1> HIDE DEF A, B, C, D, E, F
<1>5. E <= D
  BY <1>4
<1> QED
  BY <1>5 DEF E, D

LEMMA LessMore ==
  \A i, j, d, m, b \in Nat : (i - d) * m <= b /\ (j <= i \/ j <= d) => (j - d) * m <= b
<1> SUFFICES ASSUME NEW i \in Nat, NEW j \in Nat, NEW d \in Nat, NEW m \in Nat,
                    NEW b \in Nat, (i - d) * m <= b, j <= i \/ j <= d
             PROVE  (j - d) * m <= b
  OBVIOUS
<1>1. CASE j <= d
  BY <1>1, SMTT(30)
<1>2. CASE j <= i
  BY <1>2, SMTT(30)
<1> QED
  BY <1>1, <1>2

\* update_delta() keeps the bound if an RTT is given with every call that is
\* not about a loss, and a loss is told of for the first time.
LEMMA UpdateDelta ==
  ASSUME NEW d \in DeltaType, NEW lost \in BOOLEAN, NEW rtt \in Nat, NEW copa \in BOOLEAN,
         now \in Nat, d.time <= now, d.time_loss <= now,
         Bounded(d) \/ (d.time = 0 /\ ~lost /\ rtt < now),
         lost \/ rtt >= MinRtt, lost => d.time_loss + rtt < now
  PROVE  LET e == update_delta(d, lost, rtt, copa)
         IN  /\ e \in DeltaType /\ e.time <= now /\ e.time_loss <= now
             /\ Bounded(e)
             /\ ~lost => e.time_loss = d.time_loss
<1> DEFINE m == UpdatedMode(d, copa)
           i == IF d.time = 0 THEN DefaultInv ELSE d.inv
           New(inv, t, l) == [inv |-> inv, mode |-> m, time |-> t, time_loss |-> l]
<1>1. /\ d.inv \in Nat \ {0} /\ d.time \in Nat /\ d.time_loss \in Nat
      /\ d = [inv |-> d.inv, mode |-> d.mode, time |-> d.time, time_loss |-> d.time_loss]
  BY DEF DeltaType
<1>2. m \in {"DEFAULT_MODE", "LOSS_SENSITIVE_MODE"}
  BY DEF DeltaType, UpdatedMode
<1>3. i \in Nat \ {0} /\ (i = DefaultInv \/ i = d.inv)
  BY <1>1
<1>4. \A t \in Nat : (DefaultInv - DefaultInv) * MinRtt <= InvUnit * t
  <2> TAKE t \in Nat
  <2>1. (DefaultInv - DefaultInv) * MinRtt = 0
    OBVIOUS
  <2>2. InvUnit * t >= 0
    BY SMTT(30)
  <2> QED
    BY <2>1, <2>2
\* The record without a new delta is bounded too, competing or not.
<1>5. (i - DefaultInv) * MinRtt <= InvUnit * d.time
  <2>1. CASE d.time = 0
    BY <1>1, <1>4, <2>1
  <2>2. CASE d.time # 0
    BY <2>2 DEF Bounded
  <2> QED
    BY <2>1, <2>2
<1>6. InvUnit * d.time \in Nat
  BY <1>1, SMTT(30)
<1> DEFINE e == update_delta(d, lost, rtt, copa)
           Goal == /\ e \in DeltaType /\ e.time <= now /\ e.time_loss <= now
                   /\ Bounded(e) /\ (~lost => e.time_loss = d.time_loss)
<1>7. ASSUME NEW inv \in Nat \ {0}, NEW t \in Nat, NEW l \in Nat,
             e = New(inv, t, l), t <= now, l <= now, ~lost => l = d.time_loss,
             (inv - DefaultInv) * MinRtt <= InvUnit * t
      PROVE  Goal
  <2> HIDE DEF m, e
  <2> QED
    BY <1>2, <1>7 DEF DeltaType, Bounded
<1>8. Goal
  <2>1. CASE m = "DEFAULT_MODE" /\ utility_mode # "TCP_COOP"
    <3>1. e = ByDefault([d EXCEPT !.mode = m], rtt)
      BY <2>1 DEF update_delta
    <3>2. CASE d.time = 0 \/ d.time_loss + rtt < now
      <4>1. ByDefault([d EXCEPT !.mode = m], rtt) = New(DefaultInv, now, d.time_loss)
        BY <1>1, <3>2 DEF ByDefault, DeltaType
      <4> HIDE DEF New, e, Goal
      <4> QED
        BY <1>7, <1>1, <1>4, <3>1, <4>1
    <3>3. CASE ~(d.time = 0 \/ d.time_loss + rtt < now)
      <4>1. ByDefault([d EXCEPT !.mode = m], rtt) = New(d.inv, d.time, d.time_loss)
        BY <1>1, <3>3 DEF ByDefault, DeltaType
      <4>2. (d.inv - DefaultInv) * MinRtt <= InvUnit * d.time
        BY <1>5, <3>3
      <4> HIDE DEF New, e, Goal
      <4> QED
        BY <1>7, <1>1, <3>1, <4>1, <4>2
    <3> QED
      BY <3>2, <3>3
  <2>2. CASE ~(m = "DEFAULT_MODE" /\ utility_mode # "TCP_COOP")
    <3>1. e = ByLoss([d EXCEPT !.mode = m], lost, rtt)
      BY <2>2 DEF update_delta
    <3>2. CASE lost
      <4> DEFINE j == MaxOf(i \div 2, DefaultInv)
      <4>1. ByLoss([d EXCEPT !.mode = m], lost, rtt) = New(j, d.time, now)
        BY <1>1, <3>2 DEF ByLoss, DeltaType
      <4>2. j \in Nat \ {0} /\ (j <= i \/ j <= DefaultInv)
        BY <1>3 DEF MaxOf
      <4>3. (j - DefaultInv) * MinRtt <= InvUnit * d.time
        <5> HIDE DEF i, j
        <5> QED
          BY <1>3, <1>5, <1>6, <4>2, LessMore
      <4>4. now <= now /\ d.time <= now
        OBVIOUS
      <4> HIDE DEF New, e, Goal, j
      <4>5. e = New(j, d.time, now)
        BY <3>1, <4>1
      <4> QED
        BY <1>7, <1>1, <3>2, <4>2, <4>3, <4>4, <4>5, Zenon
    <3>3. CASE ~lost /\ d.time + rtt < now
      <4> DEFINE j == MaxOf(i + InvUnit, DefaultInv)
      <4>1. ByLoss([d EXCEPT !.mode = m], lost, rtt) = New(j, now, d.time_loss)
        BY <1>1, <3>3 DEF ByLoss, DeltaType
      <4>2. j \in Nat \ {0} /\ (j = i + InvUnit \/ j = DefaultInv)
        BY <1>3 DEF MaxOf
      <4>3. d.time + MinRtt <= now
        BY <1>1, <3>3
      <4> HIDE DEF i, j
      <4>4. (j - DefaultInv) * MinRtt <= InvUnit * now
        <5>1. CASE j = i + InvUnit
          <6>1. /\ i \in Nat /\ j \in Nat /\ DefaultInv \in Nat /\ InvUnit \in Nat
                /\ MinRtt \in Nat /\ d.time \in Nat /\ now \in Nat
            BY <1>1, <1>3, <4>2
          <6> QED
            BY <1>5, <4>3, <5>1, <6>1, OneMore
        <5>2. CASE j = DefaultInv
          <6>1. (DefaultInv - DefaultInv) * MinRtt <= InvUnit * now
            BY <1>4
          <6>2. InvUnit * now \in Nat
            BY SMTT(30)
          <6> QED
            BY <5>2, <4>2, <6>1, <6>2, LessMore
        <5> QED
          BY <4>2, <5>1, <5>2
      <4> HIDE DEF New, e, Goal, j
      <4> QED
        BY <1>7, <1>1, <3>1, <3>3, <4>1, <4>2, <4>4
    <3>4. CASE ~lost /\ ~(d.time + rtt < now)
      <4> DEFINE j == MaxOf(i, DefaultInv)
      <4>1. ByLoss([d EXCEPT !.mode = m], lost, rtt) = New(j, d.time, d.time_loss)
        BY <1>1, <3>4 DEF ByLoss, DeltaType
      <4>2. j \in Nat \ {0} /\ (j <= i \/ j <= DefaultInv)
        BY <1>3 DEF MaxOf
      <4>3. (j - DefaultInv) * MinRtt <= InvUnit * d.time
        <5> HIDE DEF i, j
        <5> QED
          BY <1>3, <1>5, <1>6, <4>2, LessMore
      <4> HIDE DEF New, e, Goal, j
      <4> QED
        BY <1>7, <1>1, <3>1, <3>4, <4>1, <4>2, <4>3
    <3> QED
      BY <3>2, <3>3, <3>4
  <2> QED
    BY <2>1, <2>2
<1> QED
  BY <1>8

LEMMA InitDelta == Init => DeltaOK
<1> SUFFICES ASSUME Init PROVE DeltaOK
  OBVIOUS
<1>1. delta \in DeltaType /\ delta.time = 0 /\ delta.time_loss = 0
  BY DEF Init, FreshDelta, DeltaType
<1> QED
  BY <1>1 DEF Init, DeltaOK, ClockOK, AggressionBounded

\* What an ack does to delta: one call of update_delta(), and a second one,
\* with RTT 0, if it reveals a loss.
LEMMA AckDelta ==
  ASSUME DeltaOK, last_ack_time < now, NEW n, NEW latest \in Latest(n), NEW rtt, NEW min_rtt,
         NEW copa \in BOOLEAN, onACK(n, latest, rtt, min_rtt, copa)
  PROVE  /\ delta' \in DeltaType /\ delta'.time <= now /\ delta'.time_loss <= now
         /\ Bounded(delta')
         /\ update_delta(delta, FALSE, latest, copa).inv \in Nat \ {0}
<1> DEFINE d == update_delta(delta, FALSE, latest, copa)
           k == Cardinality(Skipped(n))
<1>1. /\ delta \in DeltaType /\ now \in Nat /\ last_ack_time \in Nat
      /\ delta.time \in Nat /\ delta.time_loss \in Nat
      /\ delta.time <= last_ack_time /\ delta.time_loss <= last_ack_time
  BY DEF DeltaOK, ClockOK, DeltaType
<1>2. latest \in Nat /\ latest >= MinRtt /\ latest < now
  BY DEF Latest
<1>3. Bounded(delta) \/ delta.time = 0
  BY DEF DeltaOK, AggressionBounded, Bounded
<1>4. /\ d \in DeltaType /\ d.time <= now /\ d.time_loss <= now
      /\ Bounded(d) /\ d.time_loss = delta.time_loss
  <2>1. delta.time <= now /\ delta.time_loss <= now
    BY <1>1
  <2> QED
    BY <1>1, <1>2, <1>3, <2>1, UpdateDelta
<1>5. delta' = IF k > 0 THEN update_delta(d, TRUE, 0, copa) ELSE d
  BY DEF onACK
<1> DEFINE Goal == /\ delta' \in DeltaType /\ delta'.time <= now /\ delta'.time_loss <= now
                   /\ Bounded(delta')
<1>6. ASSUME k > 0 PROVE Goal
  <2> DEFINE e == update_delta(d, TRUE, 0, copa)
  <2>1. d.time_loss + 0 < now /\ 0 \in Nat
    <3> HIDE DEF d
    <3>1. d.time_loss = delta.time_loss
      BY <1>4
    <3> QED
      BY <1>1, <3>1
  <2>2. e \in DeltaType /\ e.time <= now /\ e.time_loss <= now /\ Bounded(e)
    <3> HIDE DEF d
    <3> QED
      BY <1>1, <1>4, <2>1, UpdateDelta
  <2>3. delta' = e
    BY <1>5, <1>6
  <2> HIDE DEF e
  <2> QED
    BY <2>2, <2>3
<1>7. ASSUME ~(k > 0) PROVE Goal
  <2> HIDE DEF d, k
  <2> QED
    BY <1>4, <1>5, <1>7
<1>8. d.inv \in Nat \ {0}
  <2> HIDE DEF d
  <2> QED
    BY <1>4 DEF DeltaType
<1> QED
  BY <1>6, <1>7, <1>8

LEMMA StepDelta == DeltaOK /\ [Next]_vars => DeltaOK'
<1> SUFFICES ASSUME DeltaOK, [Next]_vars PROVE DeltaOK'
  OBVIOUS
<1>1. /\ delta \in DeltaType /\ now \in Nat /\ last_ack_time \in Nat /\ num_acked \in Nat
      /\ last_ack_time <= now
      /\ delta.time <= last_ack_time /\ delta.time_loss <= last_ack_time
  BY DEF DeltaOK, ClockOK
<1>2. CASE init
  <2>1. /\ delta' = FreshDelta(delta.inv) /\ num_acked' = 0
        /\ last_ack_time' = now /\ now' = now
    BY <1>2 DEF init
  <2>2. delta' \in DeltaType /\ delta'.time = 0 /\ delta'.time_loss = 0
    BY <1>1, <2>1 DEF FreshDelta, DeltaType
  <2> QED
    BY <1>1, <2>1, <2>2 DEF DeltaOK, ClockOK, AggressionBounded
<1>3. CASE Ack
  <2>1. last_ack_time < now /\ last_ack_time' = now /\ now' = now
    BY <1>3 DEF Ack, AckReading
  <2>2. PICK n \in 0 .. next_seq - 1, rtt \in Rtt, min_rtt \in Rtt, copa \in BOOLEAN :
          \E latest \in Latest(n) :
             onACK(n, latest, rtt, min_rtt, copa) \/ UNCHANGED cc
    BY <1>3 DEF Ack, AckReading
  <2>3. PICK latest \in Latest(n) :
             \/ onACK(n, latest, rtt, min_rtt, copa)
             \/ UNCHANGED cc
    BY <2>2
  <2>4. CASE onACK(n, latest, rtt, min_rtt, copa)
    <3>1. num_acked' = num_acked + 1
      BY <2>4 DEF onACK
    <3>2. /\ delta' \in DeltaType /\ delta'.time <= now /\ delta'.time_loss <= now
          /\ Bounded(delta')
      BY <2>1, <2>4, AckDelta
    <3>3. ClockOK'
      BY <1>1, <2>1, <3>2 DEF ClockOK
    <3>4. AggressionBounded'
      BY <3>2 DEF AggressionBounded, Bounded
    <3>5. num_acked' \in Nat /\ num_acked' # 0
      BY <1>1, <3>1
    <3> QED
      BY <3>2, <3>3, <3>4, <3>5 DEF DeltaOK
  <2>5. CASE UNCHANGED cc
    <3>1. delta' = delta /\ num_acked' = num_acked
      BY <2>5 DEF cc
    <3>2. delta.time \in Nat /\ delta.time_loss \in Nat
      BY <1>1 DEF DeltaType
    <3>3. ClockOK'
      BY <1>1, <2>1, <3>1, <3>2 DEF ClockOK
    <3> QED
      BY <1>1, <3>1, <3>3 DEF DeltaOK, AggressionBounded
  <2> QED
    BY <2>3, <2>4, <2>5
<1>4. CASE onPktSent \/ Tick \/ UNCHANGED vars
  <2>1. /\ UNCHANGED <<delta, num_acked, last_ack_time>> /\ now' \in {now, now + 1}
    BY <1>4 DEF onPktSent, Tick, vars, cc
  <2> QED
    BY <1>1, <2>1 DEF DeltaOK, ClockOK, AggressionBounded
<1> QED
  BY <1>2, <1>3, <1>4 DEF Next

------------------------------------------------------------------------------
\* The velocity

\* One more doubling, by way of the subsets of one more element
LEMMA PowerOfTwo ==
  ASSUME NEW n \in Nat
  PROVE  2 ^ n \in Nat /\ 2 ^ (n + 1) = 2 * 2 ^ n
<1> DEFINE x == n + 1
           S == 1 .. n
           P == SUBSET S
           Q == {T \cup {x} : T \in P}
           f == [T \in P |-> T \cup {x}]
<1>1. IsFiniteSet(S) /\ Cardinality(S) = n
  BY FS_Interval
<1>2. IsFiniteSet(P) /\ Cardinality(P) = 2 ^ n
  BY <1>1, FS_SUBSET
<1>3. 1 .. n + 1 = S \cup {x} /\ x \notin S
  OBVIOUS
<1>4. IsFiniteSet(SUBSET (S \cup {x})) /\ Cardinality(SUBSET (S \cup {x})) = 2 ^ (n + 1)
  <2>1. IsFiniteSet(1 .. n + 1) /\ Cardinality(1 .. n + 1) = n + 1
    BY FS_Interval
  <2> QED
    BY <1>3, <2>1, FS_SUBSET
<1> HIDE DEF x, S
<1>5. IsFiniteSet(Q) /\ Cardinality(Q) = Cardinality(P)
  <2>1. f \in [P -> Q] /\ \A U \in Q : \E T \in P : f[T] = U
    OBVIOUS
  <2>2. ASSUME NEW T \in P, NEW U \in P, f[T] = f[U] PROVE T = U
    <3>1. T = (T \cup {x}) \ {x} /\ U = (U \cup {x}) \ {x}
      BY <1>3
    <3> QED
      BY <2>2, <3>1
  <2>3. f \in Bijection(P, Q)
    BY <2>1, <2>2 DEF Bijection, Injection, Surjection, IsInjective
  <2> QED
    BY <1>2, <2>3, FS_Bijection DEF ExistsBijection
<1>6. SUBSET (S \cup {x}) = P \cup Q /\ P \cap Q = {}
  <2>1. ASSUME NEW U \in SUBSET (S \cup {x}) PROVE U \in P \cup Q
    <3>1. CASE x \in U
      <4>1. U \ {x} \in P /\ U = (U \ {x}) \cup {x}
        BY <3>1
      <4> QED
        BY <4>1
    <3>2. CASE x \notin U
      BY <3>2
    <3> QED
      BY <3>1, <3>2
  <2>2. P \subseteq SUBSET (S \cup {x}) /\ Q \subseteq SUBSET (S \cup {x})
    OBVIOUS
  <2>3. P \cap Q = {}
    BY <1>3
  <2> QED
    BY <2>1, <2>2, <2>3
<1>7. Cardinality(P \cup Q) = Cardinality(P) + Cardinality(Q) - Cardinality(P \cap Q)
  BY <1>2, <1>5, FS_Union
<1>8. Cardinality(P \cap Q) = 0 /\ Cardinality(P) \in Nat
  BY <1>2, <1>6, FS_EmptySet, FS_CardinalityType
<1> DEFINE c == 2 ^ n
           d == 2 ^ (n + 1)
<1>9. c \in Nat /\ d = c + c - 0
  <2>1. c = Cardinality(P) /\ d = Cardinality(P \cup Q)
    BY <1>2, <1>4, <1>6
  <2> HIDE DEF P, Q, c, d
  <2> QED
    BY <1>5, <1>7, <1>8, <2>1
<1> HIDE DEF c, d
<1>10. c \in Nat /\ d = 2 * c
  BY <1>9
<1> QED
  BY <1>10, Zenon DEF c, d

LEMMA Powers == 2 ^ 0 = 1 /\ 2 ^ 1 = 2
  OBVIOUS

\* Holding the velocity against the window never raises it.
LEMMA CappedBounds ==
  ASSUME NEW amt \in Nat \ {0}, NEW w, NEW inv
  PROVE  Capped(amt, w, inv) \in Nat \ {0} /\ Capped(amt, w, inv) <= amt
  BY DEF Capped, MaxOf

LEMMA MovedVelocity ==
  ASSUME NEW inv, NEW rtt, NEW min_rtt, NEW latest,
         Turned(latest) \in VelocityType
  PROVE  LET v == Moved(inv, rtt, min_rtt, latest).velocity
             t == Turned(latest)
         IN  v.prev = t.prev /\ v.time = t.time /\ v.amt = Capped(t.amt, window, inv)
<1> DEFINE t == Turned(latest)
           amt == Capped(t.amt, window, inv)
           dir == IF AboveTarget(window, inv, rtt, min_rtt) THEN -1 ELSE 1
           on == t.dir + dir
           v == [t EXCEPT !.amt = amt, !.dir = on]
<1>1. Moved(inv, rtt, min_rtt, latest).velocity = v
  BY DEF Moved
<1> HIDE DEF t, amt, on
<1>2. t \in VelocityType
  BY DEF t
<1>3. v.prev = t.prev /\ v.time = t.time /\ v.amt = amt
  BY <1>2 DEF VelocityType
<1> QED
  BY <1>1, <1>3 DEF t, amt

\* An RTT in the way of prev_update_dir doubles the velocity, any other one
\* takes it away and turns prev_update_dir round.
LEMMA TurnedCases ==
  ASSUME velocity \in VelocityType, now \in Nat, NEW latest
  PROVE  LET t == Turned(latest)
         IN  /\ t \in VelocityType
             /\ ~RttIsOver(latest) => t = velocity
             /\ RttIsOver(latest) =>
                  /\ t.time = now
                  /\ \/ /\ t.amt = 2 * velocity.amt /\ t.prev = velocity.prev
                        /\ Sign(velocity.dir) = velocity.prev
                     \/ /\ t.amt = 1 /\ t.prev = -velocity.prev
                        /\ velocity.dir = 0 \/ Sign(velocity.dir) = -velocity.prev
<1> DEFINE a == 2 * velocity.amt
           p == -velocity.prev
           kept == [velocity EXCEPT !.amt = a, !.time = now, !.dir = 0]
           back == [velocity EXCEPT !.amt = 1, !.prev = p, !.time = now, !.dir = 0]
<1>1. a \in Nat \ {0} /\ p \in {-1, 1} /\ velocity.prev \in {-1, 1} /\ velocity.dir \in Int
  BY DEF VelocityType
<1>2. /\ kept \in VelocityType /\ kept.amt = a /\ kept.prev = velocity.prev /\ kept.time = now
      /\ back \in VelocityType /\ back.amt = 1 /\ back.prev = p /\ back.time = now
  <2>1. 1 \in Nat \ {0} /\ 0 \in Int
    OBVIOUS
  <2> HIDE DEF a, p
  <2>2. kept \in VelocityType /\ kept.amt = a /\ kept.prev = velocity.prev /\ kept.time = now
    BY <1>1, <2>1 DEF VelocityType
  <2>3. back \in VelocityType /\ back.amt = 1 /\ back.prev = p /\ back.time = now
    BY <1>1, <2>1 DEF VelocityType
  <2> HIDE DEF kept, back
  <2> QED
    BY <2>2, <2>3
<1>3. CASE ~RttIsOver(latest)
  BY <1>3 DEF Turned
<1>4. CASE RttIsOver(latest) /\ velocity.prev * velocity.dir > 0
  <2>1. Turned(latest) = kept
    BY <1>4 DEF Turned
  <2>2. Sign(velocity.dir) = velocity.prev
    <3>1. CASE velocity.prev = 1
      BY <1>1, <1>4, <3>1 DEF Sign
    <3>2. CASE velocity.prev = -1
      BY <1>1, <1>4, <3>2 DEF Sign
    <3> QED
      BY <1>1, <3>1, <3>2
  <2> HIDE DEF kept, back
  <2> QED
    BY <1>2, <1>4, <2>1, <2>2
<1>5. CASE RttIsOver(latest) /\ ~(velocity.prev * velocity.dir > 0)
  <2>1. Turned(latest) = back
    BY <1>5 DEF Turned
  <2>2. velocity.dir = 0 \/ Sign(velocity.dir) = -velocity.prev
    <3>1. CASE velocity.prev = 1
      BY <1>1, <1>5, <3>1 DEF Sign
    <3>2. CASE velocity.prev = -1
      BY <1>1, <1>5, <3>2 DEF Sign
    <3> QED
      BY <1>1, <3>1, <3>2
  <2> HIDE DEF kept, back
  <2> QED
    BY <1>2, <1>5, <2>1, <2>2
<1> QED
  BY <1>3, <1>4, <1>5

\* A velocity within window * delta moves the window by one packet at most.
LEMMA StepWithinPacket ==
  ASSUME NEW amt \in Nat \ {0}, NEW w \in Nat \ {0}, NEW inv \in Nat \ {0},
         amt * Unit * inv <= w * InvUnit
  PROVE  Step(amt, w, inv) \in 0 .. Unit
<1> DEFINE x == amt * Unit * inv
           y == InvUnit * w
           top == amt * inv * Unit * Unit
           q == top \div y
<1>1. x \in Nat /\ y \in Nat /\ y > 0 /\ x <= y
  <2>1. w * InvUnit = InvUnit * w /\ y > 0
    BY SMTT(30)
  <2>2. x \in Nat /\ y \in Nat
    BY SMTT(30)
  <2> QED
    BY <2>1, <2>2
<1>2. top = Unit * x
  BY SMTT(30)
<1> HIDE DEF x, y
<1>3. Unit * x <= Unit * y /\ Unit * x \in Nat /\ Unit * y \in Nat
  BY <1>1, MulMono
<1>4. (Unit * x) \div y \in 0 .. Unit
  <2> DEFINE p == Unit * x
             r == p \div y
  <2>1. p \in Nat /\ p <= Unit * y
    BY <1>3
  <2> HIDE DEF p
  <2>2. r \in Int /\ y * r <= p /\ p < y * r + y
    BY <1>1, <2>1, SMTT(30)
  <2> HIDE DEF r
  <2>3. r <= Unit
    <3> SUFFICES ASSUME Unit + 1 <= r PROVE FALSE
      BY <2>2
    <3>1. r \in Nat /\ y * (Unit + 1) <= y * r
      BY <1>1, <2>2, MulMono
    <3>2. y * (Unit + 1) = Unit * y + y
      BY <1>1, SMTT(30)
    <3> DEFINE a == y * (Unit + 1)
               b == y * r
               c == Unit * y
    <3>3. a <= b /\ a = c + y /\ b <= p /\ p <= c /\ a \in Nat /\ b \in Int /\ c \in Nat
      <4>1. b \in Int /\ a \in Nat
        BY <1>1, <2>2, SMTT(30)
      <4> QED
        BY <1>3, <2>1, <2>2, <3>1, <3>2, <4>1
    <3> HIDE DEF a, b, c
    <3> QED
      BY <1>1, <2>1, <3>3
  <2>4. r >= 0
    <3> SUFFICES ASSUME r <= -1 PROVE FALSE
      BY <2>2
    <3>1. y * r + y <= 0
      <4>1. -r \in Nat /\ y * 1 <= y * (-r)
        BY <1>1, <2>2, MulMono
      <4>2. y * (-r) = -(y * r) /\ y * r \in Int
        BY <1>1, <2>2, SMTT(30)
      <4> DEFINE b == y * r
      <4>3. y <= -b /\ b \in Int
        BY <1>1, <4>1, <4>2
      <4> HIDE DEF b
      <4>4. b + y <= 0
        BY <1>1, <4>3
      <4> QED
        BY <4>4 DEF b
    <3> DEFINE b == y * r + y
    <3>2. b \in Int /\ p < b /\ b <= 0
      BY <1>1, <2>2, <3>1
    <3> HIDE DEF b
    <3> QED
      BY <2>1, <3>2
  <2> QED
    BY <2>2, <2>3, <2>4 DEF p, r
<1> QED
  BY <1>2, <1>4 DEF Step, y

LEMMA InitStreak ==
  /\ Init => StreakOK
  /\ init => StreakOK'
<1>1. 0 * MinRtt = 0
  OBVIOUS
<1>2. ASSUME Init PROVE StreakOK
  <2>1. streak = [len |-> 0, dir |-> 1] /\ velocity = [amt |-> 1, dir |-> 1, prev |-> 1, time |-> 0]
    BY <1>2 DEF Init, NoStreak, FreshVelocity
  <2> QED
    BY <1>1, <2>1, Powers DEF StreakOK, VelocityEarned
<1>3. ASSUME init PROVE StreakOK'
  <2>1. streak' = [len |-> 0, dir |-> 1] /\ velocity' = [amt |-> 1, dir |-> 1, prev |-> 1, time |-> 0]
    BY <1>3 DEF init, NoStreak, FreshVelocity
  <2> QED
    BY <1>1, <2>1, Powers DEF StreakOK, VelocityEarned
<1> QED
  BY <1>2, <1>3

\* The streak counts an RTT whenever the velocity is doubled.
LEMMA AckStreak ==
  ASSUME StreakOK, velocity \in VelocityType, velocity.time <= now, now \in Nat,
         NEW n, NEW latest \in Latest(n), NEW rtt, NEW min_rtt, NEW copa \in BOOLEAN,
         onACK(n, latest, rtt, min_rtt, copa)
  PROVE  StreakOK'
<1> DEFINE inv == update_delta(delta, FALSE, latest, copa).inv
           steady == ~IsProbing /\ ~slow_start
           t == Turned(latest)
           v == Moved(inv, rtt, min_rtt, latest).velocity
           Longer == [len |-> IF velocity.dir = 0 THEN 0
                              ELSE IF Sign(velocity.dir) = streak.dir THEN streak.len + 1
                              ELSE 1,
                      dir |-> Sign(velocity.dir)]
<1>1. /\ latest \in Nat /\ latest >= MinRtt
      /\ streak \in [len : Nat, dir : {-1, 0, 1}] /\ streak.len \in Nat
      /\ streak.dir \in {0, velocity.prev} /\ (streak.dir = 0 => velocity.amt = 1)
      /\ velocity.amt <= 2 ^ streak.len /\ streak.len * MinRtt <= velocity.time
      /\ velocity.amt \in Nat \ {0} /\ velocity.prev \in {-1, 1} /\ velocity.time \in Nat
      /\ velocity.dir \in Int
  BY DEF Latest, StreakOK, VelocityEarned, VelocityType
<1>2. /\ velocity' = IF steady THEN v ELSE velocity
      /\ streak' = IF steady /\ RttIsOver(latest) THEN Longer ELSE streak
  BY DEF onACK
<1>3. /\ t \in VelocityType
      /\ ~RttIsOver(latest) => t = velocity
      /\ RttIsOver(latest) =>
           /\ t.time = now
           /\ \/ /\ t.amt = 2 * velocity.amt /\ t.prev = velocity.prev
                 /\ Sign(velocity.dir) = velocity.prev
              \/ /\ t.amt = 1 /\ t.prev = -velocity.prev
                 /\ velocity.dir = 0 \/ Sign(velocity.dir) = -velocity.prev
  BY TurnedCases
<1>4. v.prev = t.prev /\ v.time = t.time /\ v.amt \in Nat \ {0} /\ v.amt <= t.amt
  <2> HIDE DEF inv
  <2>1. v.prev = t.prev /\ v.time = t.time /\ v.amt = Capped(t.amt, window, inv)
    BY <1>3, MovedVelocity
  <2>2. t.amt \in Nat \ {0}
    BY <1>3 DEF VelocityType
  <2> HIDE DEF t, v
  <2> QED
    BY <2>1, <2>2, CappedBounds
<1> HIDE DEF t, v, inv
<1>5. CASE ~steady
  <2>1. velocity' = velocity /\ streak' = streak
    BY <1>2, <1>5
  <2> QED
    BY <2>1 DEF StreakOK, VelocityEarned
<1>6. CASE steady /\ ~RttIsOver(latest)
  <2>1. velocity' = v /\ streak' = streak
    BY <1>2, <1>6
  <2>2. /\ velocity'.prev = velocity.prev /\ velocity'.time = velocity.time
        /\ velocity'.amt \in Nat \ {0} /\ velocity'.amt <= velocity.amt
    BY <1>3, <1>4, <1>6, <2>1
  <2> DEFINE P == 2 ^ streak.len
  <2>3. P \in Nat
    BY <1>1, PowerOfTwo
  <2>4. velocity'.amt <= P
    <3> HIDE DEF P
    <3>1. velocity.amt <= P
      BY <1>1 DEF P
    <3> QED
      BY <1>1, <2>2, <2>3, <3>1
  <2>5. streak.dir = 0 => velocity'.amt = 1
    BY <1>1, <2>2
  <2> QED
    BY <1>1, <2>1, <2>2, <2>4, <2>5 DEF StreakOK, VelocityEarned
<1>7. CASE steady /\ RttIsOver(latest)
  <2>1. velocity' = v /\ streak' = Longer /\ v.time = now
    BY <1>2, <1>3, <1>4, <1>7
  <2> DEFINE l == streak'.len
             time == l * MinRtt
  <2>2. Sign(velocity.dir) \in {-1, 0, 1} /\ (Sign(velocity.dir) = 0 <=> velocity.dir = 0)
    BY <1>1 DEF Sign
  <2>3. streak' \in [len : Nat, dir : {-1, 0, 1}] /\ l \in {0, 1, streak.len + 1}
    BY <1>1, <2>1, <2>2
  <2>4. velocity.time + MinRtt <= now
    BY <1>1, <1>7 DEF RttIsOver
  <2>5. time <= now
    <3>1. (streak.len + 1) * MinRtt = streak.len * MinRtt + MinRtt
      BY <1>1, SMTT(30)
    <3>2. (streak.len + 1) * MinRtt <= now
      <4> DEFINE b == streak.len * MinRtt
      <4>1. b \in Int /\ b <= velocity.time
        BY <1>1, SMTT(30)
      <4> HIDE DEF b
      <4>2. b + MinRtt <= now
        BY <1>1, <2>4, <4>1
      <4> QED
        BY <3>1, <4>2 DEF b
    <3>3. 0 * MinRtt <= now /\ 1 * MinRtt <= now
      BY <1>1, <2>4
    <3> HIDE DEF l
    <3>4. l = 0 \/ l = 1 \/ l = streak.len + 1
      BY <2>3
    <3> QED
      BY <3>2, <3>3, <3>4
  <2>6. CASE /\ t.amt = 2 * velocity.amt /\ t.prev = velocity.prev
             /\ Sign(velocity.dir) = velocity.prev
    <3>1. streak'.dir = velocity'.prev /\ streak'.dir # 0 /\ velocity.dir # 0
      BY <1>1, <1>4, <2>1, <2>2, <2>6
    <3>2. velocity'.amt <= 2 * velocity.amt
      BY <1>4, <2>1, <2>6
    <3>3. CASE streak.dir = velocity.prev
      <4>1. l = streak.len + 1
        BY <2>1, <2>6, <3>1, <3>3
      <4> DEFINE P == 2 ^ streak.len
                 Q == 2 ^ (streak.len + 1)
      <4>2. P \in Nat /\ Q = 2 * P /\ velocity.amt <= P
        BY <1>1, PowerOfTwo
      <4>3. velocity'.amt <= Q
        <5> HIDE DEF P, Q
        <5> QED
          BY <1>1, <1>4, <2>1, <3>2, <4>2
      <4>4. velocity'.amt <= 2 ^ l
        BY <4>1, <4>3
      <4> QED
        BY <2>1, <2>3, <2>5, <3>1, <4>4 DEF StreakOK, VelocityEarned
    <3>4. CASE streak.dir = 0
      <4>1. l = 1 /\ velocity'.amt <= 2
        BY <1>1, <1>4, <2>1, <2>6, <3>1, <3>2, <3>4
      <4>2. velocity'.amt <= 2 ^ l
        BY <4>1, Powers
      <4> QED
        BY <2>1, <2>3, <2>5, <3>1, <4>2 DEF StreakOK, VelocityEarned
    <3> QED
      BY <1>1, <3>3, <3>4
  <2>7. CASE /\ t.amt = 1 /\ t.prev = -velocity.prev
             /\ velocity.dir = 0 \/ Sign(velocity.dir) = -velocity.prev
    <3>1. velocity'.amt = 1 /\ streak'.dir \in {0, velocity'.prev}
      BY <1>4, <2>1, <2>2, <2>7
    <3>2. velocity'.amt <= 2 ^ l
      <4> DEFINE P == 2 ^ streak.len
                 Q == 2 ^ (streak.len + 1)
      <4>1. P \in Nat /\ Q = 2 * P /\ velocity.amt <= P
        BY <1>1, PowerOfTwo
      <4>2. 1 <= Q
        <5> HIDE DEF P, Q
        <5> QED
          BY <1>1, <4>1
      <4> HIDE DEF l
      <4>3. l = 0 \/ l = 1 \/ l = streak.len + 1
        BY <2>3
      <4>4. CASE l = 0
        BY <3>1, <4>4, Powers
      <4>5. CASE l = 1
        BY <3>1, <4>5, Powers
      <4>6. CASE l = streak.len + 1
        BY <3>1, <4>2, <4>6
      <4> QED
        BY <4>3, <4>4, <4>5, <4>6
    <3> QED
      BY <2>1, <2>3, <2>5, <3>1, <3>2 DEF StreakOK, VelocityEarned
  <2> QED
    BY <1>3, <1>7, <2>6, <2>7
<1> QED
  BY <1>5, <1>6, <1>7

LEMMA StepStreak == DeltaOK /\ TypeOK /\ StreakOK /\ [Next]_vars => StreakOK'
<1> SUFFICES ASSUME DeltaOK, TypeOK, StreakOK, [Next]_vars PROVE StreakOK'
  OBVIOUS
<1>1. CASE init
  BY <1>1, InitStreak
<1>2. CASE Ack
  <2>1. PICK n \in 0 .. next_seq - 1, rtt \in Rtt, min_rtt \in Rtt, copa \in BOOLEAN :
          \E latest \in Latest(n) : onACK(n, latest, rtt, min_rtt, copa) \/ UNCHANGED cc
    BY <1>2 DEF Ack, AckReading
  <2>2. PICK latest \in Latest(n) : onACK(n, latest, rtt, min_rtt, copa) \/ UNCHANGED cc
    BY <2>1
  <2>3. CASE onACK(n, latest, rtt, min_rtt, copa)
    <3>1. velocity \in VelocityType /\ velocity.time <= now /\ now \in Nat
      BY DEF TypeOK, DeltaOK, ClockOK
    <3> QED
      BY <2>3, <3>1, AckStreak
  <2>4. CASE UNCHANGED cc
    <3>1. UNCHANGED <<velocity, streak>>
      BY <2>4 DEF cc
    <3> QED
      BY <3>1 DEF StreakOK, VelocityEarned
  <2> QED
    BY <2>2, <2>3, <2>4
<1>3. CASE onPktSent \/ Tick \/ UNCHANGED vars
  <2>1. UNCHANGED <<velocity, streak>>
    BY <1>3 DEF onPktSent, Tick, vars, cc
  <2> QED
    BY <2>1 DEF StreakOK, VelocityEarned
<1> QED
  BY <1>1, <1>2, <1>3 DEF Next

------------------------------------------------------------------------------
\* The other parts of the invariant, each disturbed by init() and onACK()

LEMMA InitIInv == Init => IInv
<1> SUFFICES ASSUME Init PROVE IInv
  OBVIOUS
<1>1. DeltaOK
  BY InitDelta
<1>2. Unit * num_probe_pkts \in Nat /\ 2 * Unit <= Unit * num_probe_pkts
  BY MulMono
<1>3. IsFiniteSet(unacked) /\ Cardinality(unacked) = 0
  BY FS_EmptySet DEF Init
<1>4. TypeOK
  <2>1. window \in 2 * Unit .. MaxOf(MaxWindow, Probing)
    BY <1>2 DEF Init, Probing, MaxOf
  <2>2. /\ velocity \in VelocityType /\ velocity.time <= now
        /\ rol.pkts \in Nat /\ rol.lost \in 0 .. rol.pkts /\ rol.time \in 0 .. now
    BY DEF Init, FreshVelocity, FreshRol, VelocityType
  <2>3. /\ now \in 1 .. MaxTime /\ last_ack_time \in 1 .. now
        /\ next_seq \in 0 .. MaxSent /\ num_sent \in 0 .. next_seq
        /\ num_acked \in Nat /\ num_lost \in Nat /\ cuts \in Nat
    BY DEF Init
  <2>4. {slow_start, aborted} \subseteq BOOLEAN
    BY DEF Init
  <2>5. unacked \subseteq [seq : 0 .. MaxSent, sent : 1 .. MaxTime]
    BY DEF Init
  <2> QED
    BY <1>1, <1>3, <2>1, <2>2, <2>3, <2>4, <2>5 DEF TypeOK, DeltaOK
<1>5. PacedByWindow
  BY DEF Init, PacedByWindow
<1>6. NoPacketLostTwice
  BY <1>3 DEF Init, NoPacketLostTwice
<1>7. CutsSpaced
  BY DEF Init, CutsSpaced, FreshRol
<1>8. StreakOK
  BY InitStreak
<1> QED
  BY <1>1, <1>4, <1>5, <1>6, <1>7, <1>8 DEF IInv

LEMMA InitStep == IInv /\ init => TypeOK' /\ PacedByWindow' /\ NoPacketLostTwice' /\ CutsSpaced'
<1> SUFFICES ASSUME IInv, init PROVE TypeOK' /\ PacedByWindow' /\ NoPacketLostTwice' /\ CutsSpaced'
  OBVIOUS
<1>1. DeltaOK'
  BY StepDelta DEF IInv, Next
<1>2. Unit * num_probe_pkts \in Nat /\ 2 * Unit <= Unit * num_probe_pkts
  BY MulMono
<1>3. IsFiniteSet(unacked') /\ Cardinality(unacked') = 0
  BY FS_EmptySet DEF init
<1>4. TypeOK'
  <2>1. window' \in 2 * Unit .. MaxOf(MaxWindow, Probing)
    BY <1>2 DEF init, Probing, MaxOf
  <2>2. now \in 1 .. MaxTime /\ now' = now
    BY DEF init, IInv, TypeOK
  <2>3. /\ velocity' \in VelocityType /\ velocity'.time <= now'
        /\ rol'.pkts \in Nat /\ rol'.lost \in 0 .. rol'.pkts /\ rol'.time \in 0 .. now'
    BY <2>2 DEF init, FreshVelocity, FreshRol, VelocityType
  <2>4. /\ now' \in 1 .. MaxTime /\ last_ack_time' \in 1 .. now'
        /\ next_seq' \in 0 .. MaxSent /\ num_sent' \in 0 .. next_seq'
        /\ num_acked' \in Nat /\ num_lost' \in Nat /\ cuts' \in Nat
        /\ {slow_start', aborted'} \subseteq BOOLEAN /\ unacked' = {}
    BY <2>2 DEF init, IInv, TypeOK
  <2> QED
    BY <1>1, <1>3, <2>1, <2>3, <2>4 DEF TypeOK, DeltaOK
<1>5. PacedByWindow'
  BY DEF init, PacedByWindow, FreshInterval
<1>6. NoPacketLostTwice'
  BY <1>3 DEF init, NoPacketLostTwice
<1>7. CutsSpaced'
  <2> DEFINE C == cuts * Spacing
             D == (cuts + 1) * Spacing
  <2>1. /\ now \in Nat /\ last_ack_time \in Nat /\ rol.time \in Nat /\ cuts \in Nat
        /\ now - last_ack_time > AckTimeout /\ last_ack_time' = now /\ cuts' = cuts
        /\ rol'.time = 0
    BY DEF init, IInv, DeltaOK, ClockOK, TypeOK, FreshRol
  <2>2. Spacing \in Nat /\ Spacing <= AckTimeout + 1
    BY DEF Spacing, MinOf
  <2>3. C \in Nat /\ D = C + Spacing
    <3> HIDE DEF Spacing
    <3> QED
      BY <2>1, <2>2, SMTT(30)
  <2>4. /\ rol.time <= last_ack_time /\ (rol.time > 0 => C <= rol.time)
        /\ (rol.time = 0 => cuts = 0 \/ D <= last_ack_time)
    BY DEF IInv, CutsSpaced
  <2> HIDE DEF C, D, Spacing
  <2>5. cuts = 0 \/ D <= now
    BY <2>1, <2>2, <2>3, <2>4
  <2>6. D' = D
    BY <2>1 DEF D, Spacing
  <2> QED
    BY <2>1, <2>5, <2>6 DEF CutsSpaced, D
<1> QED
  BY <1>4, <1>5, <1>6, <1>7

LEMMA SendStep ==
  IInv /\ onPktSent => TypeOK' /\ PacedByWindow' /\ NoPacketLostTwice' /\ CutsSpaced'
<1> SUFFICES ASSUME IInv, onPktSent
             PROVE  TypeOK' /\ PacedByWindow' /\ NoPacketLostTwice' /\ CutsSpaced'
  OBVIOUS
<1> DEFINE packet == [seq |-> next_seq, sent |-> now]
<1>1. /\ TypeOK /\ PacedByWindow /\ NoPacketLostTwice /\ CutsSpaced
      /\ next_seq \in 0 .. MaxSent /\ next_seq < MaxSent /\ num_sent \in 0 .. next_seq
      /\ now \in 1 .. MaxTime /\ IsFiniteSet(unacked)
      /\ next_seq' = next_seq + 1 /\ num_sent' = num_sent + 1
      /\ unacked' = unacked \cup {packet} /\ intersend' = cur_intersend
      /\ UNCHANGED <<now, last_ack_time, window, slow_start, delta, velocity, cur_intersend,
                     num_acked, num_lost, rol, aborted, streak, cuts>>
  BY DEF IInv, TypeOK, onPktSent
<1>2. /\ IsFiniteSet(unacked') /\ Cardinality(unacked) \in Nat
      /\ Cardinality(unacked') \in Nat /\ Cardinality(unacked') <= Cardinality(unacked) + 1
  <2> HIDE DEF packet
  <2>1. IsFiniteSet(unacked)
    BY <1>1
  <2>2. IsFiniteSet(unacked \cup {packet})
    BY <2>1, FS_AddElement
  <2>3. Cardinality(unacked) \in Nat
    BY <2>1, FS_CardinalityType
  <2>4. \/ Cardinality(unacked \cup {packet}) = Cardinality(unacked)
        \/ Cardinality(unacked \cup {packet}) = Cardinality(unacked) + 1
    BY <2>1, FS_AddElement
  <2>5. unacked' = unacked \cup {packet}
    BY <1>1
  <2> QED
    BY <2>2, <2>3, <2>4, <2>5
<1>3. TypeOK'
  <2>1. packet \in [seq : 0 .. MaxSent, sent : 1 .. MaxTime]
    BY <1>1
  <2>2. unacked' \subseteq [seq : 0 .. MaxSent, sent : 1 .. MaxTime]
    BY <1>1, <2>1 DEF TypeOK
  <2>3. next_seq' \in 0 .. MaxSent /\ num_sent' \in 0 .. next_seq'
    BY <1>1
  <2> HIDE DEF packet
  <2> QED
    BY <1>1, <1>2, <2>2, <2>3 DEF TypeOK
<1>4. PacedByWindow'
  BY <1>1 DEF PacedByWindow, FreshInterval
<1>5. NoPacketLostTwice'
  BY <1>1, <1>2 DEF NoPacketLostTwice, TypeOK
<1>6. CutsSpaced'
  BY <1>1 DEF CutsSpaced
<1> QED
  BY <1>3, <1>4, <1>5, <1>6

LEMMA TickStep == IInv /\ Tick => TypeOK' /\ PacedByWindow' /\ NoPacketLostTwice' /\ CutsSpaced'
<1> SUFFICES ASSUME IInv, Tick
             PROVE  TypeOK' /\ PacedByWindow' /\ NoPacketLostTwice' /\ CutsSpaced'
  OBVIOUS
<1>1. /\ TypeOK /\ PacedByWindow /\ NoPacketLostTwice /\ CutsSpaced
      /\ now \in 1 .. MaxTime /\ now < MaxTime /\ now' = now + 1
      /\ UNCHANGED <<last_ack_time, next_seq, unacked, window, slow_start, delta, velocity,
                     cur_intersend, intersend, num_acked, num_lost, num_sent, rol, cuts, aborted>>
  BY DEF IInv, TypeOK, Tick, cc
<1>2. now' \in 1 .. MaxTime /\ 1 .. now \subseteq 1 .. now' /\ 0 .. now \subseteq 0 .. now'
  BY <1>1
<1>3. TypeOK'
  BY <1>1, <1>2 DEF TypeOK, VelocityType
<1> QED
  BY <1>1, <1>3 DEF PacedByWindow, NoPacketLostTwice, CutsSpaced, FreshInterval

\* The acked packet and those taken for lost leave the map together.
LEMMA AckedPackets ==
  ASSUME IsFiniteSet(unacked), NEW n
  PROVE  /\ IsFiniteSet(Remaining(n)) /\ Remaining(n) \subseteq unacked
         /\ Cardinality(Skipped(n)) \in Nat /\ Cardinality(unacked) \in Nat
         /\ Cardinality(Remaining(n)) \in Nat
         /\ Cardinality(Remaining(n)) + Cardinality(Skipped(n)) <= Cardinality(unacked)
<1>1. /\ Remaining(n) \subseteq unacked /\ Skipped(n) \subseteq unacked
      /\ Remaining(n) \cap Skipped(n) = {}
  BY DEF Remaining, Skipped
<1>2. IsFiniteSet(Remaining(n)) /\ IsFiniteSet(Skipped(n))
  BY <1>1, FS_Subset
<1> DEFINE both == Remaining(n) \cup Skipped(n)
<1>3. both \subseteq unacked
  BY <1>1
<1>4. Cardinality(both) <= Cardinality(unacked)
  BY <1>3, FS_Subset
<1>5. Cardinality({}) = 0
  BY FS_EmptySet
<1>6. /\ Cardinality(Skipped(n)) \in Nat /\ Cardinality(unacked) \in Nat
      /\ Cardinality(Remaining(n)) \in Nat
  BY <1>2, FS_CardinalityType
<1>7. Cardinality(both) = Cardinality(Remaining(n)) + Cardinality(Skipped(n))
  <2>1. Cardinality(both) = Cardinality(Remaining(n)) + Cardinality(Skipped(n))
                              - Cardinality(Remaining(n) \cap Skipped(n))
    BY <1>2, FS_Union
  <2>2. Cardinality(Remaining(n) \cap Skipped(n)) = 0
    BY <1>1, <1>5
  <2> DEFINE r == Cardinality(Remaining(n))
             s == Cardinality(Skipped(n))
             c == Cardinality(both)
  <2>3. r \in Nat /\ s \in Nat /\ c = r + s - 0
    BY <1>6, <2>1, <2>2
  <2> HIDE DEF r, s, c
  <2>4. c = r + s
    BY <2>3
  <2> QED
    BY <2>4 DEF r, s, c
<1> HIDE DEF both
<1> QED
  BY <1>1, <1>2, <1>4, <1>6, <1>7

LEMMA RolAfterType ==
  ASSUME NEW k \in Nat, NEW latest \in Nat, now \in Nat,
         rol.pkts \in Nat, rol.lost \in 0 .. rol.pkts, rol.time \in Nat
  PROVE  LET r == RolAfter(k, latest)
         IN  /\ r.pkts \in Nat /\ r.lost \in 0 .. r.pkts
             /\ r.time = IF Judges(k, latest) THEN now ELSE rol.time
<1>1. Call \in Nat /\ Call >= 1 /\ (Judges(k, latest) => Call <= k + 1)
  BY DEF Call, MaxOf, Judges
<1>2. CASE Judges(k, latest)
  <2>1. RolAfter(k, latest) = [lost |-> k - MinOf(Call, k), pkts |-> k + 1 - Call, time |-> now]
    BY <1>2 DEF RolAfter
  <2>2. k - MinOf(Call, k) \in 0 .. k + 1 - Call
    BY <1>1, <1>2 DEF MinOf
  <2> QED
    BY <1>1, <1>2, <2>1, <2>2
<1>3. CASE ~Judges(k, latest)
  <2>1. RolAfter(k, latest) = [lost |-> rol.lost + k, pkts |-> rol.pkts + k + 1, time |-> rol.time]
    BY <1>3 DEF RolAfter
  <2> QED
    BY <1>3, <2>1
<1> QED
  BY <1>2, <1>3

LEMMA MovedType ==
  ASSUME velocity \in VelocityType, velocity.time <= now, now \in Nat,
         window \in Nat, window > 0,
         NEW inv \in Nat \ {0}, NEW rtt \in Nat, NEW min_rtt \in Nat, NEW latest \in Nat
  PROVE  LET m == Moved(inv, rtt, min_rtt, latest)
         IN  m.window \in Int /\ m.velocity \in VelocityType /\ m.velocity.time <= now
<1> DEFINE turned == Turned(latest)
           amt == Capped(turned.amt, window, inv)
           dir == IF AboveTarget(window, inv, rtt, min_rtt) THEN -1 ELSE 1
           step == Step(amt, window, inv)
<1>1. turned \in VelocityType /\ turned.time <= now
  <2> DEFINE a == 2 * velocity.amt
             p == -velocity.prev
             kept == [velocity EXCEPT !.amt = a, !.time = now, !.dir = 0]
             back == [velocity EXCEPT !.amt = 1, !.prev = p, !.time = now, !.dir = 0]
  <2>1. a \in Nat \ {0} /\ p \in {-1, 1} /\ 1 \in Nat \ {0} /\ 0 \in Int /\ now <= now
    BY DEF VelocityType
  <2>2. turned \in {velocity, kept, back}
    BY DEF Turned
  <2> HIDE DEF a, p, turned
  <2>3. kept \in VelocityType /\ kept.time = now
    BY <2>1 DEF VelocityType
  <2>4. back \in VelocityType /\ back.time = now
    BY <2>1 DEF VelocityType
  <2> HIDE DEF kept, back, turned
  <2> QED
    BY <2>1, <2>2, <2>3, <2>4
<1>2. amt \in Nat \ {0}
  <2> HIDE DEF turned
  <2>1. turned.amt \in Nat \ {0}
    BY <1>1 DEF VelocityType
  <2> QED
    BY <2>1 DEF Capped, MaxOf
<1>3. step \in Int
  <2> DEFINE top == amt * inv * Unit * Unit
             bottom == InvUnit * window
  <2> HIDE DEF amt
  <2>1. top \in Int
    BY <1>2, SMTT(30)
  <2>2. bottom \in Int /\ bottom > 0
    BY SMTT(30)
  <2>3. step = top \div bottom
    BY DEF Step
  <2> HIDE DEF top, bottom, step
  <2> QED
    BY <2>1, <2>2, <2>3
<1>4. Moved(inv, rtt, min_rtt, latest) =
        [window |-> window + dir * step,
         velocity |-> [turned EXCEPT !.amt = amt, !.dir = @ + dir]]
  BY DEF Moved
<1>5. dir \in {-1, 1}
  OBVIOUS
<1> DEFINE on == turned.dir + dir
           speed == [turned EXCEPT !.amt = amt, !.dir = on]
<1> HIDE DEF turned, amt, dir, step
<1>6. window + dir * step \in Int
  <2>1. CASE dir = 1
    BY <1>3, <2>1
  <2>2. CASE dir = -1
    BY <1>3, <2>2
  <2> QED
    BY <1>5, <2>1, <2>2
<1>7. speed \in VelocityType /\ speed.time <= now
  <2>1. on \in Int
    BY <1>1, <1>5 DEF VelocityType
  <2> HIDE DEF on
  <2>2. speed \in VelocityType /\ speed.time = turned.time
    BY <1>1, <1>2, <2>1 DEF VelocityType
  <2> HIDE DEF speed
  <2> QED
    BY <1>1, <2>2
<1>8. Moved(inv, rtt, min_rtt, latest) = [window |-> window + dir * step, velocity |-> speed]
  BY <1>4
<1>9. /\ Moved(inv, rtt, min_rtt, latest).window = window + dir * step
      /\ Moved(inv, rtt, min_rtt, latest).velocity = speed
  BY <1>8
<1> HIDE DEF speed
<1> QED
  BY <1>6, <1>7, <1>9

LEMMA AckStep ==
  ASSUME IInv, last_ack_time < now, last_ack_time' = now, now' = now, next_seq' = next_seq,
         num_sent' = num_sent, window' <= MaxWindow, aborted' = FALSE,
         NEW n, NEW latest \in Latest(n), NEW rtt \in Rtt, NEW min_rtt \in Rtt, NEW copa \in BOOLEAN,
         onACK(n, latest, rtt, min_rtt, copa)
  PROVE  TypeOK' /\ PacedByWindow' /\ NoPacketLostTwice' /\ CutsSpaced'
<1> DEFINE d == update_delta(delta, FALSE, latest, copa)
           steady == ~IsProbing /\ ~slow_start
           moved == Moved(d.inv, rtt, min_rtt, latest)
           w == IF IsProbing THEN window
                ELSE AtLeastTwo(IF slow_start THEN window + Unit ELSE moved.window)
           k == Cardinality(Skipped(n))
           judges == Judges(k, latest)
           cut == judges /\ TooMany(k)
           past == RolAfter(k, latest)
           paced == NewInterval(rtt, w, cut)
<1>1. /\ DeltaOK /\ PacedByWindow /\ NoPacketLostTwice /\ CutsSpaced
      /\ now \in 1 .. MaxTime /\ last_ack_time \in 1 .. now /\ next_seq \in 0 .. MaxSent
      /\ IsFiniteSet(unacked) /\ unacked \subseteq [seq : 0 .. MaxSent, sent : 1 .. MaxTime]
      /\ window \in 2 * Unit .. MaxOf(MaxWindow, Probing)
      /\ velocity \in VelocityType /\ velocity.time <= now
      /\ num_acked \in Nat /\ num_lost \in Nat /\ num_sent \in 0 .. next_seq
      /\ rol.pkts \in Nat /\ rol.lost \in 0 .. rol.pkts /\ rol.time \in 0 .. now
      /\ cuts \in Nat /\ slow_start \in BOOLEAN
  BY DEF IInv, TypeOK
<1>2. /\ rtt \in Nat /\ min_rtt \in Nat /\ latest \in Nat /\ latest >= MinRtt
  BY DEF Latest
<1>3. /\ k \in Nat /\ IsFiniteSet(Remaining(n)) /\ Remaining(n) \subseteq unacked
      /\ Cardinality(Remaining(n)) + k <= Cardinality(unacked)
      /\ Cardinality(Remaining(n)) \in Nat /\ Cardinality(unacked) \in Nat
  BY <1>1, AckedPackets
<1>4. delta' \in DeltaType /\ d.inv \in Nat \ {0}
  <2>1. DeltaOK
    BY <1>1
  <2> QED
    BY <2>1, AckDelta, Zenon
<1>5. window \in Nat /\ window >= 2 * Unit /\ window > 0 /\ Unit \in Nat \ {0}
  BY <1>1 DEF MaxOf, Probing
<1>6. moved.window \in Int /\ moved.velocity \in VelocityType /\ moved.velocity.time <= now
  <2>1. now \in Nat
    BY <1>1
  <2> HIDE DEF d
  <2> QED
    BY <1>1, <1>2, <1>4, <1>5, <2>1, MovedType
<1>7. /\ past.pkts \in Nat /\ past.lost \in 0 .. past.pkts
      /\ past.time = IF judges THEN now ELSE rol.time
  <2>1. now \in Nat /\ rol.time \in Nat
    BY <1>1
  <2> HIDE DEF k
  <2> QED
    BY <1>1, <1>2, <1>3, <2>1, RolAfterType
<1>8. /\ velocity' = IF steady THEN moved.velocity ELSE velocity
      /\ window' = AfterCut(w, cut)
      /\ IF ~IsProbing \/ cut THEN cur_intersend' = paced /\ intersend' = cur_intersend'
                             ELSE UNCHANGED <<cur_intersend, intersend>>
      /\ rol' = past /\ num_lost' = num_lost + k /\ num_acked' = num_acked + 1
      /\ unacked' = Remaining(n) /\ cuts' = IF cut THEN cuts + 1 ELSE cuts
  BY DEF onACK
<1>9. slow_start' \in BOOLEAN
  BY <1>1 DEF onACK
<1>10. w \in Int /\ w >= 2 * Unit /\ (IsProbing => w = window)
  <2> HIDE DEF moved
  <2> QED
    BY <1>1, <1>5, <1>6 DEF AtLeastTwo, MaxOf
<1>11. /\ window' \in Int /\ window' >= 2 * Unit /\ window' > 0
       /\ (IsProbing /\ ~cut => window' = window)
  <2> HIDE DEF w, cut
  <2> QED
    BY <1>5, <1>8, <1>10 DEF AfterCut, AtLeastTwo, MaxOf
<1> HIDE DEF d, moved, w, k, judges, past
<1>12. TypeOK'
  <2>1. window' \in 2 * Unit .. MaxOf(MaxWindow, Probing)
    <3>1. Probing \in Int
      BY SMTT(30) DEF Probing
    <3> QED
      BY <1>11, <3>1 DEF MaxOf
  <2>2. velocity' \in VelocityType /\ velocity'.time <= now'
    BY <1>1, <1>6, <1>8
  <2>3. rol'.pkts \in Nat /\ rol'.lost \in 0 .. rol'.pkts /\ rol'.time \in 0 .. now'
    BY <1>1, <1>7, <1>8
  <2>4. /\ IsFiniteSet(unacked') /\ unacked' \subseteq [seq : 0 .. MaxSent, sent : 1 .. MaxTime]
    BY <1>1, <1>3, <1>8
  <2>5. /\ now' \in 1 .. MaxTime /\ last_ack_time' \in 1 .. now' /\ next_seq' \in 0 .. MaxSent
        /\ num_acked' \in Nat /\ num_lost' \in Nat /\ num_sent' \in 0 .. next_seq'
    BY <1>1, <1>3, <1>8
  <2>6. cuts' \in Nat
    BY <1>1, <1>8
  <2>7. {slow_start', aborted'} \subseteq BOOLEAN
    BY <1>9
  <2> QED
    BY <1>4, <2>1, <2>2, <2>3, <2>4, <2>5, <2>6, <2>7 DEF TypeOK
<1>13. PacedByWindow'
  <2>1. CASE ~IsProbing \/ cut
    <3>1. /\ cur_intersend' = [rtt |-> rtt, window |-> window']
          /\ intersend' = cur_intersend'
      BY <1>8, <2>1 DEF NewInterval, Interval
    <3>2. cur_intersend'.window = window' /\ NoInterval.window = 0
      BY <3>1 DEF NoInterval, Interval
    <3>3. cur_intersend' # NoInterval
      BY <1>11, <3>2
    <3> QED
      BY <3>1, <3>2, <3>3 DEF PacedByWindow
  <2>2. CASE IsProbing /\ ~cut
    <3>1. ~(num_acked' >= 2 * num_probe_pkts)
      BY <1>1, <1>8, <2>2 DEF IsProbing
    <3>2. cur_intersend' = cur_intersend /\ intersend' = intersend /\ window' = window
      BY <1>8, <1>11, <2>2
    <3> QED
      BY <1>1, <3>1, <3>2 DEF PacedByWindow, FreshInterval
  <2> QED
    BY <2>1, <2>2
<1>14. NoPacketLostTwice'
  BY <1>1, <1>3, <1>8 DEF NoPacketLostTwice
<1>15. CutsSpaced'
  <2> DEFINE C == cuts * Spacing
             D == (cuts + 1) * Spacing
  <2>1. Spacing \in Nat /\ Spacing <= 2 * MinRtt + 1
    BY DEF Spacing, MinOf
  <2>2. C \in Nat /\ D = C + Spacing
    <3> HIDE DEF Spacing
    <3> QED
      BY <1>1, <2>1, SMTT(30)
  <2>3. /\ rol.time <= last_ack_time /\ (rol.time > 0 => C <= rol.time)
        /\ (rol.time = 0 => cuts = 0 \/ D <= last_ack_time)
    BY <1>1 DEF CutsSpaced
  <2>4. (cuts' = cuts \/ (judges /\ cuts' = cuts + 1)) /\ rol'.time = IF judges THEN now ELSE rol.time
    BY <1>7, <1>8
  <2>5. CASE judges
    <3>1. now > rol.time + 2 * latest
      BY <2>5 DEF judges, Judges
    <3>2. D <= now
      <4> HIDE DEF C, D, Spacing
      <4>1. now >= rol.time + Spacing
        BY <1>1, <1>2, <2>1, <3>1
      <4>2. cuts = 0 => C = 0
        BY <1>1, <2>1 DEF C
      <4> QED
        BY <1>1, <2>1, <2>2, <2>3, <4>1, <4>2
    <3>3. C <= now
      <4> HIDE DEF C, D, Spacing
      <4> QED
        BY <1>1, <2>1, <2>2, <3>2
    <3>4. cuts' * Spacing = C \/ cuts' * Spacing = D
      BY <2>4
    <3>5. cuts' * Spacing <= now
      <4> HIDE DEF C, D
      <4> QED
        BY <3>2, <3>3, <3>4
    <3>6. rol'.time = now /\ now > 0
      BY <1>1, <2>4, <2>5
    <3>7. Spacing' = Spacing
      BY DEF Spacing
    <3> QED
      BY <1>1, <3>5, <3>6, <3>7 DEF CutsSpaced
  <2>6. CASE ~judges
    <3>1. rol'.time = rol.time /\ cuts' = cuts
      BY <2>4, <2>6
    <3>2. C' = C /\ D' = D
      BY <3>1 DEF Spacing
    <3>3. /\ rol.time <= now /\ (rol.time > 0 => C <= rol.time)
          /\ (rol.time = 0 => cuts = 0 \/ D <= now)
      <4> HIDE DEF C, D, Spacing
      <4>1. D \in Nat
        BY <2>1, <2>2
      <4> QED
        BY <1>1, <2>3, <4>1
    <3> QED
      BY <3>1, <3>2, <3>3 DEF CutsSpaced
  <2> QED
    BY <2>5, <2>6
<1> QED
  BY <1>12, <1>13, <1>14, <1>15

\* Every step keeps the invariant.
LEMMA StepIInv == IInv /\ [Next]_vars => IInv'
<1> SUFFICES ASSUME IInv, [Next]_vars PROVE IInv'
  OBVIOUS
<1>1. DeltaOK' /\ StreakOK'
  BY StepDelta, StepStreak DEF IInv
<1>2. CASE init
  BY <1>1, <1>2, InitStep DEF IInv
<1>3. CASE onPktSent
  BY <1>1, <1>3, SendStep DEF IInv
<1>4. CASE Tick
  BY <1>1, <1>4, TickStep DEF IInv
<1>5. CASE Ack
  <2>1. /\ last_ack_time < now /\ last_ack_time' = now /\ now' = now /\ next_seq' = next_seq
        /\ num_sent' = num_sent /\ window' <= MaxWindow
    BY <1>5 DEF Ack, AckReading
  <2>2. PICK n \in 0 .. next_seq - 1, rtt \in Rtt, min_rtt \in Rtt, copa \in BOOLEAN :
          \E latest \in Latest(n) :
             /\ aborted' = SlowStartFails(rtt, min_rtt)
             /\ IF aborted' THEN UNCHANGED cc ELSE onACK(n, latest, rtt, min_rtt, copa)
    BY <1>5 DEF Ack, AckReading
  <2>3. PICK latest \in Latest(n) :
             /\ aborted' = SlowStartFails(rtt, min_rtt)
             /\ IF aborted' THEN UNCHANGED cc ELSE onACK(n, latest, rtt, min_rtt, copa)
    BY <2>2
  <2>4. aborted' \in BOOLEAN
    BY <2>3 DEF SlowStartFails, IInv, TypeOK
  <2>5. CASE aborted'
    <3>1. /\ TypeOK /\ PacedByWindow /\ NoPacketLostTwice /\ CutsSpaced
          /\ now \in 1 .. MaxTime /\ last_ack_time \in 1 .. now
          /\ UNCHANGED <<unacked, window, slow_start, delta, velocity, cur_intersend, intersend,
                         num_acked, num_lost, rol, cuts>>
      BY <2>3, <2>5 DEF IInv, TypeOK, cc
    <3>2. last_ack_time' \in 1 .. now'
      BY <2>1, <3>1
    <3>3. TypeOK'
      BY <2>1, <2>4, <3>1, <3>2 DEF TypeOK
    <3>4. CutsSpaced'
      <4>1. cuts \in Nat /\ Spacing \in Nat
        BY <3>1 DEF TypeOK, Spacing, MinOf
      <4> DEFINE D == (cuts + 1) * Spacing
      <4>2. D \in Nat
        <5> HIDE DEF Spacing
        <5> QED
          BY <4>1, SMTT(30)
      <4>3. Spacing' = Spacing /\ D' = D
        BY <3>1 DEF Spacing
      <4>4. /\ rol.time <= last_ack_time /\ (rol.time > 0 => cuts * Spacing <= rol.time)
            /\ (rol.time = 0 => cuts = 0 \/ D <= last_ack_time) /\ rol.time \in Nat
        BY <3>1 DEF CutsSpaced, TypeOK
      <4>5. /\ rol.time <= now /\ (rol.time = 0 => cuts = 0 \/ D <= now)
        <5> HIDE DEF D
        <5> QED
          BY <3>1, <4>2, <4>4
      <4> QED
        BY <2>1, <3>1, <4>3, <4>4, <4>5 DEF CutsSpaced
    <3>5. PacedByWindow' /\ NoPacketLostTwice'
      BY <2>1, <3>1 DEF PacedByWindow, NoPacketLostTwice, FreshInterval
    <3> QED
      BY <1>1, <3>3, <3>4, <3>5 DEF IInv
  <2>6. CASE ~aborted'
    <3>1. aborted' = FALSE /\ onACK(n, latest, rtt, min_rtt, copa)
      BY <2>3, <2>4, <2>6
    <3> QED
      BY <1>1, <2>1, <3>1, AckStep DEF IInv
  <2> QED
    BY <2>5, <2>6
<1>6. CASE UNCHANGED vars
  <2>1. /\ TypeOK /\ PacedByWindow /\ NoPacketLostTwice /\ CutsSpaced
        /\ UNCHANGED <<now, last_ack_time, next_seq, unacked, window, slow_start, delta, velocity,
                       cur_intersend, intersend, num_acked, num_lost, num_sent, rol, cuts, aborted>>
    BY <1>6 DEF IInv, vars, cc
  <2>2. TypeOK'
    BY <2>1 DEF TypeOK
  <2>3. PacedByWindow' /\ NoPacketLostTwice' /\ CutsSpaced'
    BY <2>1 DEF PacedByWindow, NoPacketLostTwice, CutsSpaced, FreshInterval, Spacing
  <2> QED
    BY <1>1, <2>2, <2>3 DEF IInv
<1> QED
  BY <1>2, <1>3, <1>4, <1>5, <1>6 DEF Next

------------------------------------------------------------------------------
\* The theorems

\* The invariant of the controller holds in every reachable state.
THEOREM Invariance == Spec => []IInv
<1>1. Init => IInv
  BY InitIInv
<1>2. IInv /\ [Next]_vars => IInv'
  BY StepIInv
<1> QED
  BY <1>1, <1>2, PTL DEF Spec

\* update_delta(): after the first ack of a flow, 1 / delta exceeds its
\* default by no more than one for every RTT of the shortest length.
THEOREM Aggression == Spec => []AggressionBounded
<1>1. IInv => AggressionBounded
  BY DEF IInv, DeltaOK
<1> QED
  BY <1>1, Invariance, PTL

\* update_intersend_time() and reduce(): however the window last changed, the
\* pacing interval has been computed from the window as it now is.
THEOREM Paced == Spec => []PacedByWindow
<1>1. IInv => PacedByWindow
  BY DEF IInv
<1> QED
  BY <1>1, Invariance, PTL

\* update_intersend_time(): as many RTTs in a row must have moved the window one
\* way as the velocity has been doubled times, also if it was halved in between.
THEOREM Earned == Spec => []VelocityEarned
<1>1. IInv => VelocityEarned
  BY DEF IInv, StreakOK
<1> QED
  BY <1>1, Invariance, PTL

\* onACK(): losses counted and packets waited for are packets sent, each once.
THEOREM LostOnce == Spec => []NoPacketLostTwice
<1>1. IInv => NoPacketLostTwice
  BY DEF IInv
<1> QED
  BY <1>1, Invariance, PTL

\* ReduceOnLoss: the cuts of the window are spaced by two RTTs, or by a
\* silence of the ack timeout, over any number of restarts by init().
THEOREM RareCuts == Spec => []CutsAreRare
<1>1. IInv => CutsAreRare
  <2> SUFFICES ASSUME IInv PROVE CutsAreRare
    OBVIOUS
  <2>1. /\ CutsSpaced /\ now \in Nat /\ last_ack_time \in Nat /\ last_ack_time <= now
        /\ rol.time \in Nat /\ cuts \in Nat
    BY DEF IInv, DeltaOK, ClockOK, TypeOK
  <2>2. Spacing \in Nat
    BY DEF Spacing, MinOf
  <2> DEFINE C == cuts * Spacing
             D == (cuts + 1) * Spacing
  <2>3. C \in Nat /\ D = C + Spacing /\ (cuts = 0 => C = 0)
    <3> HIDE DEF Spacing
    <3> QED
      BY <2>1, <2>2, SMTT(30)
  <2>4. /\ rol.time <= last_ack_time /\ (rol.time > 0 => C <= rol.time)
        /\ (rol.time = 0 => cuts = 0 \/ D <= last_ack_time)
    BY <2>1 DEF CutsSpaced
  <2>5. C <= now
    <3> HIDE DEF C, D, Spacing
    <3> QED
      BY <2>1, <2>2, <2>3, <2>4
  <2> QED
    BY <2>5 DEF CutsAreRare
<1> QED
  BY <1>1, Invariance, PTL

\* The window after an ack whose velocity was not halved
LEMMA MovedOnePacket ==
  ASSUME velocity \in VelocityType, now \in Nat, window \in Nat \ {0},
         NEW inv \in Nat \ {0}, NEW rtt, NEW min_rtt, NEW latest \in Nat,
         NEW v, v = Moved(inv, rtt, min_rtt, latest).velocity, v.amt > 1,
         v.amt > velocity.amt \/ (v.amt = velocity.amt /\ v.time = velocity.time)
  PROVE  LET w == Moved(inv, rtt, min_rtt, latest).window
         IN  w \in Int /\ w - window <= Unit /\ window - w <= Unit
<1> DEFINE t == Turned(latest)
           dir == IF AboveTarget(window, inv, rtt, min_rtt) THEN -1 ELSE 1
           step == Step(v.amt, window, inv)
<1>1. /\ t \in VelocityType
      /\ ~RttIsOver(latest) => t = velocity
      /\ RttIsOver(latest) => t.time = now /\ (t.amt = 2 * velocity.amt \/ t.amt = 1)
  BY TurnedCases
<1>2. v.time = t.time /\ v.amt = Capped(t.amt, window, inv)
  <2> HIDE DEF t
  <2> QED
    BY <1>1, MovedVelocity DEF t
<1>3. t.amt \in Nat \ {0} /\ velocity.amt \in Nat \ {0} /\ velocity.time \in Nat
  BY <1>1 DEF VelocityType
<1>4. RttIsOver(latest) => velocity.time # now
  BY <1>3 DEF RttIsOver
<1>5. Moved(inv, rtt, min_rtt, latest).window = window + dir * step
  BY <1>2 DEF Moved
<1> DEFINE above == t.amt * Unit * inv > window * InvUnit
<1> HIDE DEF t
<1>6. ~above
  <2> SUFFICES ASSUME above PROVE FALSE
    OBVIOUS
  <2> DEFINE half == t.amt \div 2
  <2>1. v.amt = MaxOf(half, 1)
    BY <1>2 DEF Capped
  <2>2. half \in Nat /\ 2 * half <= t.amt
    BY <1>3
  <2> HIDE DEF half
  <2>3. v.amt = half
    BY <2>1, <2>2 DEF MaxOf
  <2> QED
    BY <1>1, <1>2, <1>3, <1>4, <2>2, <2>3
<1>7. v.amt = t.amt
  BY <1>2, <1>3, <1>6 DEF Capped, MaxOf
<1>8. t.amt * Unit * inv <= window * InvUnit
  <2> DEFINE a == t.amt * Unit * inv
             b == window * InvUnit
  <2>1. a \in Nat /\ b \in Nat /\ ~(a > b)
    BY <1>3, <1>6, SMTT(30)
  <2> HIDE DEF a, b
  <2>2. a <= b
    BY <2>1
  <2> QED
    BY <2>2 DEF a, b
<1>9. step \in 0 .. Unit
  BY <1>3, <1>7, <1>8, StepWithinPacket
<1> HIDE DEF step
<1>10. dir = 1 \/ dir = -1
  OBVIOUS
<1> HIDE DEF dir
<1> QED
  BY <1>5, <1>9, <1>10

\* update_intersend_time(): a velocity that an ack gained or kept is within
\* window * delta, so that the ack moves the window by one packet at most.
THEOREM OnePacket == Spec => AckMovesOnePacket
<1> DEFINE Moves == velocity'.amt > 1 /\ (Doubled \/ Kept) /\ ~slow_start /\ cuts' = cuts
                      => window' - window <= Unit /\ window - window' <= Unit
<1>1. ASSUME IInv, [Next]_vars PROVE Moves
  <2>1. /\ window \in Nat \ {0} /\ window >= 2 * Unit /\ Unit \in Nat \ {0}
        /\ velocity \in VelocityType /\ now \in Nat /\ cuts \in Nat /\ DeltaOK
    BY <1>1 DEF IInv, TypeOK, MaxOf, Probing, DeltaOK, ClockOK
  <2>2. ASSUME window' = window PROVE Moves
    BY <2>1, <2>2
  <2>3. CASE init
    BY <2>3 DEF init, FreshVelocity
  <2>4. CASE onPktSent \/ Tick \/ UNCHANGED vars
    <3>1. window' = window
      BY <2>4 DEF onPktSent, Tick, vars, cc
    <3> QED
      BY <2>2, <3>1
  <2>5. CASE Ack
    <3>1. last_ack_time < now
      BY <2>5 DEF Ack, AckReading
    <3>2. PICK n \in 0 .. next_seq - 1, rtt \in Rtt, min_rtt \in Rtt, copa \in BOOLEAN :
            \E latest \in Latest(n) : onACK(n, latest, rtt, min_rtt, copa) \/ UNCHANGED cc
      BY <2>5 DEF Ack, AckReading
    <3>3. PICK latest \in Latest(n) : onACK(n, latest, rtt, min_rtt, copa) \/ UNCHANGED cc
      BY <3>2
    <3>4. CASE UNCHANGED cc
      <4>1. window' = window
        BY <3>4 DEF cc
      <4> QED
        BY <2>2, <4>1
    <3>5. CASE onACK(n, latest, rtt, min_rtt, copa)
      <4> DEFINE inv == update_delta(delta, FALSE, latest, copa).inv
                 moved == Moved(inv, rtt, min_rtt, latest)
                 cut == Judges(Cardinality(Skipped(n)), latest)
                          /\ TooMany(Cardinality(Skipped(n)))
                 w == IF IsProbing THEN window
                      ELSE AtLeastTwo(IF slow_start THEN window + Unit ELSE moved.window)
      <4>1. /\ velocity' = IF ~IsProbing /\ ~slow_start THEN moved.velocity ELSE velocity
            /\ window' = AfterCut(w, cut)
            /\ cuts' = IF cut THEN cuts + 1 ELSE cuts
        BY <3>5 DEF onACK
      <4>2. inv \in Nat \ {0}
        BY <2>1, <3>1, <3>5, AckDelta, Zenon
      <4>3. latest \in Nat
        BY DEF Latest
      <4> HIDE DEF inv, cut
      <4> SUFFICES ASSUME velocity'.amt > 1, Doubled \/ Kept, ~slow_start, cuts' = cuts
                   PROVE  window' - window <= Unit /\ window - window' <= Unit
        OBVIOUS
      <4>4. ~cut
        BY <2>1, <4>1
      <4>5. window' = w
        BY <4>1, <4>4 DEF AfterCut
      <4>6. CASE IsProbing
        BY <2>1, <4>5, <4>6
      <4>7. CASE ~IsProbing
        <5>1. velocity' = moved.velocity
          BY <4>1, <4>7
        <5>2. velocity'.amt > velocity.amt \/ (velocity'.amt = velocity.amt /\ velocity'.time = velocity.time)
          BY DEF Doubled, Kept
        <5>3. moved.window \in Int /\ moved.window - window <= Unit /\ window - moved.window <= Unit
          BY <2>1, <4>2, <4>3, <5>1, <5>2, MovedOnePacket
        <5> HIDE DEF moved
        <5>4. window' = AtLeastTwo(moved.window)
          BY <4>5, <4>7
        <5> QED
          BY <2>1, <5>3, <5>4 DEF AtLeastTwo, MaxOf
      <4> QED
        BY <4>6, <4>7
    <3> QED
      BY <3>3, <3>4, <3>5
  <2> QED
    BY <1>1, <2>3, <2>4, <2>5 DEF Next
<1>2. IInv /\ [Next]_vars => [Moves]_vars
  BY <1>1
<1> QED
  BY <1>2, Invariance, PTL DEF Spec, AckMovesOnePacket

=============================================================================

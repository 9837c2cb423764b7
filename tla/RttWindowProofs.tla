--------------------------- MODULE RttWindowProofs ---------------------------
(***************************************************************************)
(* IInv of RttWindow is inductive for every value of the constants; from   *)
(* it, that each window reports the extreme of all samples in its time     *)
(* window, and the assertion of onACK.                                     *)
(***************************************************************************)
EXTENDS RttWindow, WellFoundedInduction, TLAPS

Sample == [time : Nat, val : Nat]

\* A non-empty set of naturals has its least element as Min.
LEMMA MinIsLeast ==
    ASSUME NEW S, S \subseteq Nat, S # {}
    PROVE  Min(S) \in S /\ \A i \in S : Min(S) <= i
<1>1. \E x \in S : \A y \in S : ~ (<<y, x>> \in OpToRel(<, Nat))
  BY WFMin, NatLessThanWellFounded
<1>2. PICK x \in S : \A y \in S : ~ (<<y, x>> \in OpToRel(<, Nat))
  BY <1>1
<1>3. \A y \in S : x <= y
  <2>1. TAKE y \in S
  <2>2. ~(y < x)
    BY <1>2 DEF OpToRel
  <2> QED BY <2>2
<1> QED BY <1>3 DEF Min

\* "Not more extreme than" is a total preorder on the naturals.
LEMMA BeatsOrder ==
    ASSUME NEW w \in Window, NEW a \in Nat, NEW b \in Nat, NEW c \in Nat
    PROVE  /\ ~Beats(w, a, a)
           /\ ~Beats(w, a, b) \/ ~Beats(w, b, a)
           /\ ~Beats(w, a, b) /\ ~Beats(w, b, c) => ~Beats(w, a, c)
           /\ Beats(w, a, b) /\ ~Beats(w, c, b) => Beats(w, a, c)
BY DEF Beats, find_min

\* A sample has a natural time and a natural value.
LEMMA SampleFields ==
    ASSUME NEW h \in Seq(Sample), NEW i \in 1 .. Len(h)
    PROVE  h[i].time \in Nat /\ h[i].val \in Nat
<1>1. h[i] \in Sample
  OBVIOUS
<1> QED BY <1>1 DEF Sample

\* The front of a sorted deque is at least as extreme as the rest of it.
LEMMA FrontIsExtreme ==
    ASSUME NEW w \in Window, NEW h \in Seq(Sample),
           NEW dq, dq \subseteq 1 .. Len(h), dq # {}, Sorted(w, h, dq)
    PROVE  /\ Min(dq) \in dq
           /\ \A i \in dq : Min(dq) <= i /\ ~Beats(w, h[i].val, h[Min(dq)].val)
<1>1. Min(dq) \in dq /\ \A i \in dq : Min(dq) <= i
  <2>1. dq \subseteq Nat
    OBVIOUS
  <2> QED BY <2>1, MinIsLeast
<1>2. SUFFICES ASSUME NEW i \in dq PROVE ~Beats(w, h[i].val, h[Min(dq)].val)
  BY <1>1
<1>3. h[i].val \in Nat /\ Min(dq) \in 1 .. Len(h) /\ i \in 1 .. Len(h)
  BY <1>1, SampleFields
<1>4. CASE i = Min(dq)
  BY <1>3, <1>4, BeatsOrder
<1>5. CASE i # Min(dq)
  <2>1. Min(dq) < i
    BY <1>1, <1>3, <1>5
  <2> QED BY <1>1, <2>1 DEF Sorted
<1> QED BY <1>4, <1>5

\* What pushing the new sample h[n] pops, and that the rest is sorted.
LEMMA PushedFacts ==
    ASSUME NEW w \in Window, NEW h \in Seq(Sample), NEW n \in Nat, n = Len(h),
           n > 0, NEW dq, dq \subseteq 1 .. n - 1, Sorted(w, h, dq)
    PROVE  /\ Pushed(w, h, n, dq) \subseteq 1 .. n /\ n \in Pushed(w, h, n, dq)
           /\ \A i \in Pushed(w, h, n, dq) :
                i = n \/ (i \in dq /\ ~Beats(w, h[n].val, h[i].val))
           /\ \A i \in dq :
                i \in Pushed(w, h, n, dq) \/ Beats(w, h[n].val, h[i].val)
           /\ Sorted(w, h, Pushed(w, h, n, dq))
<1> DEFINE P == Pushed(w, h, n, dq)
<1>0. dq \subseteq 1 .. n /\ n \in 1 .. n
  OBVIOUS
<1>1. P \subseteq 1 .. n /\ n \in P
  BY <1>0 DEF Pushed
<1>m. \A i : i \in P => i = n \/ (i \in dq /\ \E j \in dq : j >= i /\ ~Beats(w, h[n].val, h[j].val))
  BY DEF Pushed
<1>k. \A i \in dq : ~Beats(w, h[n].val, h[i].val) => i \in P
  <2>1. \A i \in dq : i >= i
    BY <1>0
  <2> QED BY <2>1 DEF Pushed
<1> HIDE DEF P
<1>2. ASSUME NEW i \in P, i # n
      PROVE  i \in dq /\ ~Beats(w, h[n].val, h[i].val)
  <2>1. PICK j \in dq : i \in dq /\ j >= i /\ ~Beats(w, h[n].val, h[j].val)
    BY <1>2, <1>m
  <2>2. i \in 1 .. n /\ j \in 1 .. n
    BY <2>1, <1>0
  <2>3. h[i].val \in Nat /\ h[j].val \in Nat /\ h[n].val \in Nat
    BY <2>2, <1>0, SampleFields
  <2>4. i = j \/ i < j
    BY <2>1, <2>2
  <2>5. i = j \/ ~Beats(w, h[j].val, h[i].val)
    BY <2>1, <2>4 DEF Sorted
  <2> QED BY <2>1, <2>3, <2>5, BeatsOrder
<1>3. \A i \in dq : i \in P \/ Beats(w, h[n].val, h[i].val)
  BY <1>k
<1>4. Sorted(w, h, P)
  <2>1. SUFFICES ASSUME NEW i \in P, NEW j \in P, i < j
                 PROVE  ~Beats(w, h[j].val, h[i].val)
    BY DEF Sorted
  <2>2. i \in dq /\ ~Beats(w, h[n].val, h[i].val)
    <3>1. i \in 1 .. n /\ j \in 1 .. n
      BY <1>1
    <3>2. i # n
      BY <2>1, <3>1
    <3> QED BY <3>2, <1>2
  <2>3. CASE j = n
    BY <2>2, <2>3
  <2>4. CASE j # n
    BY <2>1, <2>2, <2>4, <1>2 DEF Sorted
  <2> QED BY <2>3, <2>4
<1>5. \A i \in P : i = n \/ (i \in dq /\ ~Beats(w, h[n].val, h[i].val))
  BY <1>2
<1> QED BY <1>1, <1>3, <1>4, <1>5 DEF P

\* Popping old samples from the front keeps exactly the young ones.
LEMMA AgedFacts ==
    ASSUME NEW h \in Seq(Sample), InTimeOrder(h), NEW n \in Nat, n = Len(h),
           NEW S, S \subseteq 1 .. n, n \in S, NEW cutoff \in Int,
           NEW A, A = Aged(h, n, S, cutoff)
    PROVE  /\ A \subseteq S /\ n \in A
           /\ \A i \in S : i \in A <=> i = n \/ h[i].time >= cutoff
<1>1. A \subseteq S /\ n \in A
  BY DEF Aged
<1>2. ASSUME NEW i \in A, i # n PROVE h[i].time >= cutoff
  <2>1. PICK j \in S : j <= i /\ h[j].time >= cutoff
    BY <1>2 DEF Aged
  <2>2. i \in 1 .. Len(h) /\ j \in 1 .. Len(h)
    BY <1>1
  <2>3. h[j].time <= h[i].time
    BY <2>1, <2>2 DEF InTimeOrder
  <2>4. h[j].time \in Nat /\ h[i].time \in Nat
    BY <2>2, SampleFields
  <2> QED BY <2>1, <2>3, <2>4
<1>3. ASSUME NEW i \in S, h[i].time >= cutoff PROVE i \in A
  <2>1. i <= i
    OBVIOUS
  <2> QED BY <2>1, <1>3 DEF Aged
<1> QED BY <1>1, <1>2, <1>3

\* The cached extreme is the front of the deque after the step as well.
LEMMA ExtremeStep ==
    ASSUME NEW w \in Window, NEW h \in Seq(Sample), InTimeOrder(h),
           NEW n \in Nat, n = Len(h), n > 0,
           NEW dq, dq \subseteq 1 .. n - 1, Sorted(w, h, dq),
           NEW e \in Nat, NEW cutoff \in Int,
           dq = {} => Beats(w, h[n].val, e),
           dq # {} => e = h[Min(dq)].val,
           NEW P, P = Pushed(w, h, n, dq),
           NEW A, A = Aged(h, n, P, cutoff)
    PROVE  AgedExtreme(w, h, P, A, PushedExtreme(w, h[n].val, e)) = h[Min(A)].val
<1>0. /\ dq \subseteq 1 .. n /\ n \in 1 .. n /\ dq \subseteq 1 .. Len(h)
      /\ \A i \in 1 .. n : h[i].val \in Nat
  BY SampleFields
<1>1. /\ P \subseteq 1 .. n /\ n \in P
      /\ \A i \in P : i = n \/ (i \in dq /\ ~Beats(w, h[n].val, h[i].val))
      /\ \A i \in dq : i \in P \/ Beats(w, h[n].val, h[i].val)
      /\ Sorted(w, h, P)
  BY PushedFacts
<1>2. /\ A \subseteq P /\ n \in A
      /\ \A i \in P : i \in A <=> i = n \/ h[i].time >= cutoff
  BY <1>1, AgedFacts
<1>3. Min(P) \in P /\ \A i \in P : Min(P) <= i
  BY <1>1, FrontIsExtreme
<1>4. PushedExtreme(w, h[n].val, e) = h[Min(P)].val
  <2>1. CASE Beats(w, h[n].val, e)
    <3>1. P = {n}
      <4>1. ASSUME NEW i \in dq PROVE Beats(w, h[n].val, h[i].val)
        <5>1. /\ dq # {} /\ e = h[Min(dq)].val
              /\ ~Beats(w, h[i].val, h[Min(dq)].val)
          BY <1>0, FrontIsExtreme
        <5>2. h[i].val \in Nat /\ h[n].val \in Nat
          BY <1>0
        <5> QED BY <2>1, <5>1, <5>2, BeatsOrder
      <4> QED BY <4>1, <1>1
    <3>2. Min(P) = n
      BY <3>1, <1>3
    <3> QED BY <2>1, <3>2 DEF PushedExtreme
  <2>2. CASE ~Beats(w, h[n].val, e)
    <3>1. Min(dq) \in dq /\ \A i \in dq : Min(dq) <= i
      BY <2>2, <1>0, FrontIsExtreme
    <3>2. Min(dq) \in P
      BY <2>2, <3>1, <1>1
    <3>3. Min(P) = Min(dq)
      <4>1. Min(P) <= Min(dq) /\ Min(dq) \in 1 .. n - 1 /\ Min(P) \in 1 .. n
        BY <1>1, <1>3, <3>1, <3>2
      <4>2. Min(P) # n
        BY <4>1
      <4>3. Min(dq) <= Min(P)
        BY <4>2, <1>1, <1>3, <3>1
      <4> QED BY <4>1, <4>3
    <3> QED BY <2>2, <3>1, <3>3 DEF PushedExtreme
  <2> QED BY <2>1, <2>2
<1>5. CASE A = P
  BY <1>4, <1>5 DEF AgedExtreme
<1>6. CASE A # P
  <2>1. PICK i \in P : i \notin A
    BY <1>2, <1>6
  <2>2. Min(P) \notin A
    <3>1. i \in 1 .. n /\ Min(P) \in 1 .. n /\ Min(P) <= i /\ i # n
      BY <2>1, <1>1, <1>2, <1>3
    <3>2. h[i].time \in Nat /\ h[Min(P)].time \in Nat
      BY <3>1, SampleFields
    <3>3. h[Min(P)].time <= h[i].time
      BY <3>1 DEF InTimeOrder
    <3>4. ~(h[i].time >= cutoff)
      BY <2>1, <1>2
    <3>5. Min(P) # n /\ ~(h[Min(P)].time >= cutoff)
      BY <3>1, <3>2, <3>3, <3>4
    <3> QED BY <3>5, <1>2, <1>3
  <2>3. ~Beats(w, h[Min(P)].val, h[Min(P)].val)
    <3>1. h[Min(P)].val \in Nat
      BY <1>0, <1>1, <1>3
    <3> QED BY <3>1, BeatsOrder
  <2> QED BY <2>2, <2>3, <1>3, <1>4 DEF AgedExtreme
<1> QED BY <1>5, <1>6

\* The other parts of the invariant for one window after the step.
LEMMA DequeStep ==
    ASSUME NEW w \in Window, NEW h \in Seq(Sample), InTimeOrder(h),
           NEW n \in Nat, n = Len(h), n > 0,
           NEW dq, dq \subseteq 1 .. n - 1, Sorted(w, h, dq),
           NEW cutoff \in Int,
           NEW P, P = Pushed(w, h, n, dq),
           NEW A, A = Aged(h, n, P, cutoff)
    PROVE  /\ A \subseteq 1 .. n /\ n \in A /\ Sorted(w, h, A)
           /\ \A lv, L :
                /\ lv \subseteq 1 .. n - 1 /\ dq \subseteq lv
                /\ Dominates(w, h, dq, lv)
                /\ L = Aged(h, n, lv \cup {n}, cutoff)
                => L \subseteq 1 .. n /\ A \subseteq L /\ Dominates(w, h, A, L)
<1>1. /\ P \subseteq 1 .. n /\ n \in P
      /\ \A i \in P : i = n \/ (i \in dq /\ ~Beats(w, h[n].val, h[i].val))
      /\ \A i \in dq : i \in P \/ Beats(w, h[n].val, h[i].val)
      /\ Sorted(w, h, P)
  BY PushedFacts
<1>2. /\ A \subseteq P /\ n \in A
      /\ \A i \in P : i \in A <=> i = n \/ h[i].time >= cutoff
  BY <1>1, AgedFacts
<1>4. Sorted(w, h, A)
  BY <1>1, <1>2 DEF Sorted
<1> SUFFICES ASSUME NEW lv, lv \subseteq 1 .. n - 1, dq \subseteq lv,
                      Dominates(w, h, dq, lv),
                      NEW L, L = Aged(h, n, lv \cup {n}, cutoff)
               PROVE  L \subseteq 1 .. n /\ A \subseteq L /\ Dominates(w, h, A, L)
  BY <1>1, <1>2, <1>4
<1>0. /\ \A i \in lv : i \in 1 .. n
      /\ dq \subseteq 1 .. n /\ lv \subseteq 1 .. n /\ lv \cup {n} \subseteq 1 .. n
      /\ n \in 1 .. n
      /\ \A i \in 1 .. n : h[i].val \in Nat /\ h[i].time \in Nat
  <2>1. \A i \in 1 .. n : h[i].val \in Nat /\ h[i].time \in Nat
    BY SampleFields
  <2>2. n \in 1 .. n /\ \A i \in 1 .. n - 1 : i \in 1 .. n
    OBVIOUS
  <2>3. dq \subseteq 1 .. n /\ lv \subseteq 1 .. n
    BY <2>2
  <2> QED BY <2>1, <2>2, <2>3
<1>3. /\ L \subseteq lv \cup {n} /\ n \in L
      /\ \A i \in lv \cup {n} : i \in L <=> i = n \/ h[i].time >= cutoff
  <2> DEFINE S == lv \cup {n}
  <2>1. S \subseteq 1 .. n /\ n \in S /\ L = Aged(h, n, S, cutoff)
    BY <1>0
  <2> HIDE DEF S
  <2>2. /\ L \subseteq S /\ n \in L
        /\ \A i \in S : i \in L <=> i = n \/ h[i].time >= cutoff
    BY <2>1, AgedFacts
  <2> QED BY <2>2 DEF S
<1>5. A \subseteq L
  BY <1>1, <1>2, <1>3
<1>6. ASSUME NEW i \in L
      PROVE  \E j \in A : j >= i /\ ~Beats(w, h[i].val, h[j].val)
  <2>1. CASE i = n
    <3>1. h[n].val \in Nat /\ n >= n
      BY <1>0
    <3> QED BY <2>1, <3>1, <1>2, BeatsOrder
  <2>2. CASE i # n
    <3>1. i \in lv /\ h[i].time >= cutoff /\ i \in 1 .. n
      BY <2>2, <1>0, <1>3
    <3>2. PICK j \in dq : j >= i /\ ~Beats(w, h[i].val, h[j].val)
      BY <3>1 DEF Dominates
    <3>3. j \in 1 .. n /\ h[j].val \in Nat /\ h[n].val \in Nat /\ h[i].val \in Nat
      BY <3>1, <1>0
    <3>4. CASE j \in P
      <4>1. h[i].time <= h[j].time
        BY <3>1, <3>2, <3>3 DEF InTimeOrder
      <4>2. h[j].time >= cutoff
        BY <4>1, <3>1, <3>3, <1>0
      <4> QED BY <4>2, <3>2, <3>4, <1>2
    <3>5. CASE j \notin P
      <4>1. Beats(w, h[n].val, h[j].val)
        BY <3>5, <1>1
      <4>2. ~Beats(w, h[i].val, h[n].val)
        BY <4>1, <3>2, <3>3, BeatsOrder
      <4>3. n >= i
        BY <3>1
      <4> QED BY <4>2, <4>3, <1>2
    <3> QED BY <3>4, <3>5
  <2> QED BY <2>1, <2>2
<1> QED BY <1>0, <1>1, <1>2, <1>3, <1>4, <1>5, <1>6 DEF Dominates

------------------------------------------------------------------------------
(***************************************************************************)
(* The invariant.                                                          *)
(***************************************************************************)

\* What the initial state and clear() have in common.
LEMMA ClearedIInv ==
    /\ hist = <<>> /\ vals = [w \in Window |-> {}] /\ live = [w \in Window |-> {}]
    /\ extreme = ClearedExtreme /\ srtt = 0 /\ now = 0
    /\ latest_rtt \in Nat /\ if_compete \in BOOLEAN
    => IInv
<1> USE RttWindowAssumption
<1> SUFFICES ASSUME hist = <<>>, vals = [w \in Window |-> {}],
                    live = [w \in Window |-> {}], extreme = ClearedExtreme,
                    srtt = 0, now = 0, latest_rtt \in Nat, if_compete \in BOOLEAN
             PROVE  IInv
  OBVIOUS
<1>1. TypeOK
  BY DEF TypeOK, ClearedExtreme
<1>2. TimeOrdered
  BY DEF TimeOrdered, InTimeOrder
<1>3. Monotone
  BY DEF Monotone, Sorted
<1>4. Dominated
  BY DEF Dominated, Dominates
<1>5. CacheIsFront
  BY DEF CacheIsFront
<1>6. Nested
  BY DEF Nested, Window
<1> QED BY <1>1, <1>2, <1>3, <1>4, <1>5, <1>6 DEF IInv

\* The smoothed RTT stays a natural number.
LEMMA NextSrttNat ==
    ASSUME NEW s \in Nat, NEW rtt \in Nat
    PROVE  NextSrtt(s, rtt) \in Nat
<1> DEFINE base == IF s = 0 THEN rtt ELSE s
           sum == rtt + (SrttGain - 1) * base
<1>1. base \in Nat /\ SrttGain - 1 \in Nat /\ SrttGain \in Nat \ {0}
  BY RttWindowAssumption
<1>2. (SrttGain - 1) * base \in Nat
  BY <1>1
<1>3. sum \in Nat
  BY <1>2
<1> HIDE DEF sum
<1>4. sum \div SrttGain \in Nat
  BY <1>1, <1>3
<1>5. NextSrtt(s, rtt) = sum \div SrttGain
  BY DEF NextSrtt, sum
<1> QED BY <1>4, <1>5

\* The time a window is kept for is a natural number, and min_rtt is kept for
\* the longest.
LEMMA WindowLengthNat ==
    ASSUME extreme["min_rtt"] \in Nat, NEW s \in Nat
    PROVE  \A w \in Window : /\ WindowLength(w, s) \in Nat
                             /\ find_min(w) => WindowLength(w, s) <= WindowLength("min_rtt", s)
<1> DEFINE m == IF if_compete THEN s
                ELSE MaxOf(MinHistory, HistFactor * extreme["min_rtt"])
<1>1. HistFactor * extreme["min_rtt"] \in Nat
  BY RttWindowAssumption
<1>2. m \in Nat
  BY <1>1, RttWindowAssumption DEF MaxOf
<1> HIDE DEF m
<1>3. /\ WindowLength("min_rtt", s) = m
      /\ WindowLength("unjittered_rtt", s) = MinOf(m, s \div 2)
      /\ WindowLength("is_copa_min", s) = MinOf(m, 4 * s)
      /\ WindowLength("is_copa_max", s) = MinOf(m, 4 * s)
  BY DEF WindowLength, m
<1>4. s \div 2 \in Nat
  OBVIOUS
<1> QED BY <1>2, <1>3, <1>4 DEF MinOf, Window, find_min

\* The invariant of one window after new_rtt_sample.
LEMMA SampleStep ==
    ASSUME IInv, NEW rtt \in Rtt, NEW gap \in Gap, new_rtt_sample(rtt, gap),
           NEW w \in Window
    PROVE  /\ hist' \in Seq(Sample) /\ Len(hist') = Len(hist) + 1
           /\ InTimeOrder(hist')
           /\ \A i \in 1 .. Len(hist') : hist'[i].time <= now'
           /\ vals'[w] \subseteq 1 .. Len(hist') /\ live'[w] \subseteq 1 .. Len(hist')
           /\ Len(hist') \in vals'[w]
           /\ Sorted(w, hist', vals'[w])
           /\ vals'[w] \subseteq live'[w] /\ Dominates(w, hist', vals'[w], live'[w])
           /\ extreme'[w] = hist'[Min(vals'[w])].val
           /\ \A i \in 1 .. Len(hist) : hist'[i] = hist[i]
           /\ \E c \in Int : /\ live'[w] \subseteq live[w] \cup {Len(hist')}
                            /\ c <= hist'[Len(hist')].time
                            /\ \A i \in live[w] \cup {Len(hist')} :
                                 i \in live'[w] <=> i = Len(hist') \/ hist'[i].time >= c
<1> DEFINE n == Len(hist) + 1
           t == now + gap
           h == Append(hist, [time |-> t, val |-> rtt])
           s == NextSrtt(srtt, rtt)
           cutoff == t - WindowLength(w, s)
           P == Pushed(w, h, n, vals[w])
           A == Aged(h, n, P, cutoff)
           L == Aged(h, n, live[w] \cup {n}, cutoff)
<1>1. /\ now' = t /\ hist' = h /\ vals'[w] = A /\ live'[w] = L
      /\ extreme'[w] = AgedExtreme(w, h, P, A, PushedExtreme(w, rtt, extreme[w]))
  BY DEF new_rtt_sample
<1>2. /\ hist \in Seq(Sample) /\ Len(hist) \in Nat /\ now \in Nat /\ srtt \in Nat
      /\ vals[w] \subseteq 1 .. Len(hist) /\ live[w] \subseteq 1 .. Len(hist)
      /\ extreme[w] \in Nat /\ extreme["min_rtt"] \in Nat
  BY DEF IInv, TypeOK, Sample, Window
<1>3. rtt \in Nat /\ gap \in Nat /\ DblMin < rtt /\ rtt < DblMax
  BY RttWindowAssumption
<1>4. /\ n \in Nat /\ n > 0 /\ t \in Nat /\ h \in Seq(Sample) /\ Len(h) = n
      /\ h[n] = [time |-> t, val |-> rtt]
      /\ \A i \in 1 .. Len(hist) : h[i] = hist[i]
  <2>1. [time |-> t, val |-> rtt] \in Sample
    BY <1>2, <1>3 DEF Sample
  <2> HIDE DEF t
  <2> QED BY <1>2, <1>3, <2>1 DEF t
<1>5. InTimeOrder(h) /\ \A i \in 1 .. n : h[i].time <= t
  <2>1. TimeOrdered
    BY DEF IInv
  <2>2. ASSUME NEW i \in 1 .. n PROVE h[i].time <= t
    <3>1. CASE i = n
      BY <3>1, <1>4
    <3>2. CASE i # n
      <4>1. i \in 1 .. Len(hist)
        BY <3>2, <1>2
      <4>2. hist[i].time <= now /\ hist[i].time \in Nat
        BY <4>1, <2>1, <1>2, SampleFields DEF TimeOrdered
      <4> QED BY <4>1, <4>2, <1>2, <1>3, <1>4
    <3> QED BY <3>1, <3>2
  <2>3. ASSUME NEW i \in 1 .. n, NEW j \in 1 .. n, i <= j
        PROVE  h[i].time <= h[j].time
    <3>1. CASE j = n
      BY <3>1, <2>2, <1>4
    <3>2. CASE j # n
      <4>1. i \in 1 .. Len(hist) /\ j \in 1 .. Len(hist)
        BY <3>2, <2>3, <1>2
      <4>2. hist[i].time <= hist[j].time
        BY <4>1, <2>1, <2>3 DEF TimeOrdered, InTimeOrder
      <4> QED BY <4>1, <4>2, <1>4
    <3> QED BY <3>1, <3>2
  <2> HIDE DEF h, n, t
  <2> QED BY <2>2, <2>3, <1>4 DEF InTimeOrder
<1>6. cutoff \in Int /\ cutoff <= t
  <2>1. s \in Nat
    BY <1>2, <1>3, NextSrttNat
  <2>2. WindowLength(w, s) \in Nat
    BY <2>1, <1>2, WindowLengthNat
  <2> QED BY <2>2, <1>4
<1>7. vals[w] \subseteq 1 .. n - 1 /\ live[w] \subseteq 1 .. n - 1
  BY <1>2
<1>8. /\ Sorted(w, h, vals[w])
      /\ vals[w] \subseteq live[w] /\ Dominates(w, h, vals[w], live[w])
  <2>1. /\ Sorted(w, hist, vals[w])
        /\ vals[w] \subseteq live[w] /\ Dominates(w, hist, vals[w], live[w])
    BY DEF IInv, Monotone, Dominated
  <2>2. /\ \A i \in vals[w] : h[i] = hist[i]
        /\ \A i \in live[w] : h[i] = hist[i]
    BY <1>2, <1>4
  <2> HIDE DEF h
  <2>3. Sorted(w, h, vals[w])
    BY <2>1, <2>2 DEF Sorted
  <2>4. Dominates(w, h, vals[w], live[w])
    BY <2>1, <2>2 DEF Dominates
  <2> QED BY <2>1, <2>3, <2>4
<1>9. /\ vals[w] = {} => Beats(w, h[n].val, extreme[w])
      /\ vals[w] # {} => extreme[w] = h[Min(vals[w])].val
  <2>1. CASE hist = <<>>
    <3>1. vals[w] = {} /\ extreme[w] = ClearedExtreme[w]
      BY <2>1, <1>2 DEF IInv, CacheIsFront
    <3>2. h[n].val = rtt
      BY <1>4
    <3>3. extreme[w] = IF find_min(w) THEN DblMax ELSE DblMin
      BY <3>1 DEF ClearedExtreme
    <3>4. Beats(w, rtt, extreme[w])
      BY <3>3, <1>3, RttWindowAssumption DEF Beats, find_min
    <3> QED BY <3>1, <3>2, <3>4
  <2>2. CASE hist # <<>>
    <3>1. extreme[w] = hist[Min(vals[w])].val /\ Len(hist) \in vals[w]
      BY <2>2 DEF IInv, CacheIsFront, Monotone
    <3>2. vals[w] \subseteq Nat /\ vals[w] # {}
      BY <3>1, <1>2
    <3>3. Min(vals[w]) \in vals[w]
      BY <3>2, MinIsLeast
    <3> QED BY <3>1, <3>2, <3>3, <1>2, <1>4
  <2> QED BY <2>1, <2>2
<1>10. extreme[w] \in Nat /\ rtt = h[n].val
  BY <1>2, <1>4
<1> HIDE DEF n, t, h, s, cutoff, P, A, L
<1>p. P = Pushed(w, h, n, vals[w]) /\ A = Aged(h, n, P, cutoff)
      /\ L = Aged(h, n, live[w] \cup {n}, cutoff)
  BY DEF P, A, L
<1>11. AgedExtreme(w, h, P, A, PushedExtreme(w, h[n].val, extreme[w])) = h[Min(A)].val
  <2>1. /\ h \in Seq(Sample) /\ InTimeOrder(h) /\ n \in Nat /\ n = Len(h) /\ n > 0
        /\ vals[w] \subseteq 1 .. n - 1 /\ Sorted(w, h, vals[w])
        /\ extreme[w] \in Nat /\ cutoff \in Int
    BY <1>4, <1>5, <1>6, <1>7, <1>8, <1>10
  <2> QED BY <2>1, <1>9, <1>p, ExtremeStep
<1>12. /\ A \subseteq 1 .. n /\ n \in A /\ Sorted(w, h, A)
       /\ L \subseteq 1 .. n /\ A \subseteq L /\ Dominates(w, h, A, L)
  <2>1. /\ h \in Seq(Sample) /\ InTimeOrder(h) /\ n \in Nat /\ n = Len(h) /\ n > 0
        /\ vals[w] \subseteq 1 .. n - 1 /\ Sorted(w, h, vals[w]) /\ cutoff \in Int
    BY <1>4, <1>5, <1>6, <1>7, <1>8
  <2>2. /\ A \subseteq 1 .. n /\ n \in A /\ Sorted(w, h, A)
        /\ \A lv, K :
             /\ lv \subseteq 1 .. n - 1 /\ vals[w] \subseteq lv
             /\ Dominates(w, h, vals[w], lv)
             /\ K = Aged(h, n, lv \cup {n}, cutoff)
             => K \subseteq 1 .. n /\ A \subseteq K /\ Dominates(w, h, A, K)
    BY <2>1, <1>p, DequeStep
  <2> QED BY <2>2, <1>7, <1>8, <1>p
<1>13. /\ L \subseteq live[w] \cup {n}
       /\ \A i \in live[w] \cup {n} : i \in L <=> i = n \/ h[i].time >= cutoff
  <2> DEFINE S == live[w] \cup {n}
  <2>1. S \subseteq 1 .. n /\ n \in S /\ L = Aged(h, n, S, cutoff) /\ n = Len(h)
    BY <1>4, <1>7, <1>p
  <2> HIDE DEF S
  <2>2. L \subseteq S /\ \A i \in S : i \in L <=> i = n \/ h[i].time >= cutoff
    BY <2>1, <1>4, <1>5, <1>6, AgedFacts
  <2> QED BY <2>2 DEF S
<1>14. cutoff <= h[n].time
  BY <1>4, <1>6
<1> QED
  <2>1. extreme'[w] = h[Min(A)].val
    BY <1>1, <1>10, <1>11
  <2>2. Len(hist') = n /\ n = Len(hist) + 1
    BY <1>1, <1>4 DEF n
  <2>3. \E c \in Int : /\ live'[w] \subseteq live[w] \cup {Len(hist')}
                      /\ c <= hist'[Len(hist')].time
                      /\ \A i \in live[w] \cup {Len(hist')} :
                           i \in live'[w] <=> i = Len(hist') \/ hist'[i].time >= c
    BY <2>2, <1>1, <1>6, <1>13, <1>14
  <2> QED BY <2>1, <2>2, <2>3, <1>1, <1>4, <1>5, <1>12

\* A window kept for a shorter time holds a part of the longer one's deque.
LEMMA NestedStep ==
    ASSUME NEW w \in Window, find_min(w), NEW h, NEW n,
           NEW dq, NEW big, dq \subseteq big,
           NEW c \in Int, NEW d \in Int, d <= c,
           \A j \in Pushed("min_rtt", h, n, big) : h[j].time \in Nat
    PROVE  Aged(h, n, Pushed(w, h, n, dq), c)
             \subseteq Aged(h, n, Pushed("min_rtt", h, n, big), d)
<1> DEFINE P == Pushed(w, h, n, dq)
           Q == Pushed("min_rtt", h, n, big)
<1>1. P \subseteq Q
  <2>1. \A v, u : Beats(w, v, u) = Beats("min_rtt", v, u)
    BY DEF Beats, find_min
  <2> QED BY <2>1 DEF Pushed
<1> HIDE DEF P, Q
<1>2. \A j \in P : h[j].time \in Nat
  BY <1>1 DEF Q
<1>3. \A j \in P : h[j].time >= c => h[j].time >= d
  BY <1>2
<1>4. Aged(h, n, P, c) \subseteq Aged(h, n, Q, d)
  BY <1>1, <1>3 DEF Aged
<1> QED BY <1>4 DEF P, Q

\* new_rtt_sample preserves the invariant.
LEMMA SamplePreserves ==
    ASSUME IInv, NEW rtt \in Rtt, NEW gap \in Gap, new_rtt_sample(rtt, gap)
    PROVE  IInv'
<1>1. /\ hist' \in Seq(Sample) /\ Len(hist') = Len(hist) + 1 /\ Len(hist) \in Nat
      /\ InTimeOrder(hist')
      /\ \A i \in 1 .. Len(hist') : hist'[i].time <= now'
  <2>1. "min_rtt" \in Window
    BY DEF Window
  <2>2. Len(hist) \in Nat
    BY DEF IInv, TypeOK
  <2> QED BY <2>1, <2>2, SampleStep
<1>2. \A w \in Window :
        /\ vals'[w] \subseteq 1 .. Len(hist') /\ live'[w] \subseteq 1 .. Len(hist')
        /\ Len(hist') \in vals'[w]
        /\ Sorted(w, hist', vals'[w])
        /\ vals'[w] \subseteq live'[w] /\ Dominates(w, hist', vals'[w], live'[w])
        /\ extreme'[w] = hist'[Min(vals'[w])].val
  BY SampleStep
<1>3. hist' # <<>>
  BY <1>1
<1>4. TypeOK'
  <2>1. /\ now \in Nat /\ gap \in Nat /\ rtt \in Nat /\ srtt \in Nat
        /\ if_compete \in BOOLEAN
    BY RttWindowAssumption DEF IInv, TypeOK
  <2>2. /\ now' = now + gap /\ srtt' = NextSrtt(srtt, rtt) /\ latest_rtt' = rtt
        /\ if_compete' = if_compete
        /\ vals' = [w \in Window |-> vals'[w]]
        /\ live' = [w \in Window |-> live'[w]]
        /\ extreme' = [w \in Window |-> extreme'[w]]
    BY DEF new_rtt_sample
  <2>3. now' \in Nat /\ srtt' \in Nat /\ latest_rtt' \in Nat /\ if_compete' \in BOOLEAN
    BY <2>1, <2>2, NextSrttNat
  <2>4. vals' \in [Window -> SUBSET (1 .. Len(hist'))]
    BY <1>2, <2>2
  <2>5. live' \in [Window -> SUBSET (1 .. Len(hist'))]
    BY <1>2, <2>2
  <2>6. extreme' \in [Window -> Nat]
    <3>1. ASSUME NEW w \in Window PROVE extreme'[w] \in Nat
      <4>1. vals'[w] \subseteq Nat /\ vals'[w] # {}
        BY <1>2, <1>1
      <4>2. Min(vals'[w]) \in 1 .. Len(hist')
        BY <4>1, <1>2, MinIsLeast
      <4> QED BY <4>2, <1>1, <1>2, SampleFields
    <3> QED BY <3>1, <2>2
  <2> QED BY <1>1, <2>3, <2>4, <2>5, <2>6 DEF TypeOK, Sample
<1>5. TimeOrdered'
  BY <1>1 DEF TimeOrdered, InTimeOrder
<1>6. Monotone'
  BY <1>2 DEF Monotone, Sorted, Beats, find_min
<1>7. Dominated'
  BY <1>2 DEF Dominated, Dominates, Beats, find_min
<1>8. CacheIsFront'
  BY <1>2, <1>3 DEF CacheIsFront
<1>9. Nested'
  <2> DEFINE n == Len(hist) + 1
             t == now + gap
             h == Append(hist, [time |-> t, val |-> rtt])
             s == NextSrtt(srtt, rtt)
             cut(w) == t - WindowLength(w, s)
             pushed(w) == Pushed(w, h, n, vals[w])
  <2>1. \A w \in Window : vals'[w] = Aged(h, n, pushed(w), cut(w))
    BY DEF new_rtt_sample
  <2>2. h = hist'
    BY DEF new_rtt_sample
  <2>3. \A w \in Window : cut(w) \in Int /\ (find_min(w) => cut("min_rtt") <= cut(w))
    <3>1. /\ now \in Nat /\ gap \in Nat /\ rtt \in Nat /\ srtt \in Nat
          /\ extreme["min_rtt"] \in Nat
      BY RttWindowAssumption DEF IInv, TypeOK, Window
    <3>2. s \in Nat
      BY <3>1, NextSrttNat
    <3>3. \A w \in Window : /\ WindowLength(w, s) \in Nat
                            /\ find_min(w) => WindowLength(w, s) <= WindowLength("min_rtt", s)
      BY <3>1, <3>2, WindowLengthNat
    <3>4. t \in Nat /\ "min_rtt" \in Window
      BY <3>1 DEF Window
    <3> HIDE DEF s, t
    <3> QED BY <3>3, <3>4
  <2>4. \A j \in pushed("min_rtt") : h[j].time \in Nat
    <3>1. vals["min_rtt"] \subseteq 1 .. Len(hist) /\ n = Len(hist')
      BY <1>1 DEF IInv, TypeOK, Window
    <3>2. pushed("min_rtt") \subseteq 1 .. Len(hist')
      BY <3>1, <1>1 DEF Pushed
    <3> HIDE DEF pushed, h
    <3> QED BY <3>2, <2>2, <1>1, SampleFields
  <2>5. ASSUME NEW w \in Window, find_min(w), vals[w] \subseteq vals["min_rtt"]
        PROVE  vals'[w] \subseteq vals'["min_rtt"]
    <3>1. "min_rtt" \in Window
      BY DEF Window
    <3>2. cut(w) \in Int /\ cut("min_rtt") \in Int /\ cut("min_rtt") <= cut(w)
      BY <2>3, <2>5, <3>1
    <3>3. Aged(h, n, pushed(w), cut(w)) \subseteq Aged(h, n, pushed("min_rtt"), cut("min_rtt"))
      <4> HIDE DEF cut, h, n
      <4> QED BY <2>4, <2>5, <3>2, NestedStep
    <3> QED BY <2>1, <3>1, <3>3
  <2>6. /\ "unjittered_rtt" \in Window /\ find_min("unjittered_rtt")
        /\ "is_copa_min" \in Window /\ find_min("is_copa_min")
    BY DEF Window, find_min
  <2> QED BY <2>5, <2>6 DEF IInv, Nested
<1> QED BY <1>4, <1>5, <1>6, <1>7, <1>8, <1>9 DEF IInv

\* Every step preserves the invariant.
LEMMA IInvInductive == IInv /\ [Next]_vars => IInv'
<1> SUFFICES ASSUME IInv, [Next]_vars PROVE IInv'
  OBVIOUS
<1>1. CASE \E rtt \in Rtt, gap \in Gap : new_rtt_sample(rtt, gap)
  BY <1>1, SamplePreserves
<1>2. CASE clear
  <2>1. latest_rtt' \in Nat
    BY <1>2 DEF clear, IInv, TypeOK
  <2>2. /\ hist' = <<>> /\ vals' = [w \in Window |-> {}]
        /\ live' = [w \in Window |-> {}] /\ extreme' = ClearedExtreme
        /\ srtt' = 0 /\ now' = 0 /\ if_compete' \in BOOLEAN
    BY <1>2 DEF clear
  <2>3. ClearedExtreme' = ClearedExtreme
    BY DEF ClearedExtreme, find_min
  <2>4. (/\ hist = <<>> /\ vals = [w \in Window |-> {}] /\ live = [w \in Window |-> {}]
         /\ extreme = ClearedExtreme /\ srtt = 0 /\ now = 0
         /\ latest_rtt \in Nat /\ if_compete \in BOOLEAN)' => IInv'
    BY ClearedIInv, PTL
  <2> QED BY <2>1, <2>2, <2>3, <2>4
<1>3. CASE \E IC \in BOOLEAN : change_window(IC)
  <2>1. PICK IC \in BOOLEAN : change_window(IC)
    BY <1>3
  <2>2. /\ UNCHANGED <<hist, vals, extreme, srtt, latest_rtt, now, live>>
        /\ if_compete' \in BOOLEAN
    BY <2>1 DEF change_window
  <2> QED BY <2>2 DEF IInv, TypeOK, TimeOrdered, InTimeOrder, Monotone, Sorted,
             Dominated, Dominates, CacheIsFront, Nested, ClearedExtreme
<1>4. CASE UNCHANGED vars
  BY <1>4 DEF vars, IInv, TypeOK, TimeOrdered, InTimeOrder, Monotone, Sorted,
     Dominated, Dominates, CacheIsFront, Nested, ClearedExtreme
<1> QED BY <1>1, <1>2, <1>3, <1>4 DEF Next

\* The invariant holds in every state of the windows, for all samples, gaps
\* and window lengths (rtt-window.cc).
THEOREM Invariance == Spec => []IInv
<1>1. Init => IInv
  <2>1. 0 \in Nat /\ FALSE \in BOOLEAN
    OBVIOUS
  <2> QED BY <2>1, ClearedIInv DEF Init
<1> QED BY <1>1, IInvInductive, PTL DEF Spec

\* Type correctness of the windows (rtt-window.hh).
THEOREM TypeCorrect == Spec => []TypeOK
<1>1. IInv => TypeOK
  BY DEF IInv
<1> QED BY <1>1, Invariance, PTL

\* In a state with samples, each window's front is in its deque and its value
\* is at least as extreme as every live sample's.
LEMMA FrontFacts ==
    ASSUME IInv, hist # <<>>, NEW w \in Window
    PROVE  /\ Min(vals[w]) \in vals[w] /\ Min(vals[w]) \in live[w]
           /\ extreme[w] = hist[Min(vals[w])].val
           /\ Len(hist) \in vals[w] /\ Len(hist) \in live[w]
           /\ \A i \in live[w] : ~Beats(w, hist[i].val, extreme[w])
           /\ \A i \in live[w] : hist[i].val \in Nat
           /\ extreme[w] \in Nat
<1>1. /\ hist \in Seq(Sample) /\ vals[w] \subseteq 1 .. Len(hist)
      /\ live[w] \subseteq 1 .. Len(hist) /\ extreme[w] \in Nat
  BY DEF IInv, TypeOK, Sample
<1>2. /\ Len(hist) \in vals[w] /\ Sorted(w, hist, vals[w])
      /\ vals[w] \subseteq live[w] /\ Dominates(w, hist, vals[w], live[w])
      /\ extreme[w] = hist[Min(vals[w])].val
  BY DEF IInv, Monotone, Dominated, CacheIsFront
<1>3. /\ Min(vals[w]) \in vals[w]
      /\ \A i \in vals[w] : ~Beats(w, hist[i].val, hist[Min(vals[w])].val)
  BY <1>1, <1>2, FrontIsExtreme
<1>4. \A i \in live[w] : hist[i].val \in Nat
  BY <1>1, SampleFields
<1>5. ASSUME NEW i \in live[w] PROVE ~Beats(w, hist[i].val, extreme[w])
  <2>1. PICK j \in vals[w] : ~Beats(w, hist[i].val, hist[j].val)
    BY <1>2 DEF Dominates
  <2>2. hist[i].val \in Nat /\ hist[j].val \in Nat
    BY <1>2, <1>4
  <2>3. ~Beats(w, hist[j].val, extreme[w])
    BY <1>2, <1>3
  <2> QED BY <2>1, <2>2, <2>3, <1>1, BeatsOrder
<1> QED BY <1>1, <1>2, <1>3, <1>4, <1>5

\* The same for all windows, as a state formula.
Fronts ==
    \A v \in Window :
        /\ Min(vals[v]) \in live[v] /\ extreme[v] = hist[Min(vals[v])].val
        /\ \A i \in live[v] : ~Beats(v, hist[i].val, extreme[v])
        /\ \A i \in live[v] : hist[i].val \in Nat
        /\ extreme[v] \in Nat

\* The front facts hold of every window.
LEMMA AllFronts == IInv /\ hist # <<>> => Fronts
BY FrontFacts DEF Fronts

\* Every window reports the extreme of all the samples in its time window,
\* although the deque keeps only some of them (rtt-window.hh:14-17).
THEOREM ExtremeExact == Spec => []ExtremeIsExact
<1>1. IInv => ExtremeIsExact
  BY FrontFacts DEF ExtremeIsExact
<1> QED BY <1>1, Invariance, PTL

\* The assertion of MarkovianCC::onACK, get_unjittered_rtt() >= get_min_rtt()
\* (markoviancc.cc:216), can never fail, whatever the window lengths become.
THEOREM AssertionHolds == Spec => []UnjitteredAboveMin
<1>1. IInv => UnjitteredAboveMin
  <2> SUFFICES ASSUME IInv PROVE extreme["unjittered_rtt"] >= extreme["min_rtt"]
    BY DEF UnjitteredAboveMin, get_unjittered_rtt, get_min_rtt
  <2>0. /\ "unjittered_rtt" \in Window /\ "min_rtt" \in Window
        /\ find_min("unjittered_rtt") /\ find_min("min_rtt")
    BY DEF Window, find_min
  <2>1. CASE hist = <<>>
    <3>1. extreme["unjittered_rtt"] = DblMax /\ extreme["min_rtt"] = DblMax
      BY <2>0, <2>1 DEF IInv, CacheIsFront, ClearedExtreme
    <3> QED BY <3>1, RttWindowAssumption
  <2>2. CASE hist # <<>>
    <3>1. /\ Min(vals["unjittered_rtt"]) \in live["min_rtt"]
          /\ extreme["unjittered_rtt"] = hist[Min(vals["unjittered_rtt"])].val
      BY <2>0, <2>2, FrontFacts DEF IInv, Nested, Dominated
    <3>2. /\ ~Beats("min_rtt", extreme["unjittered_rtt"], extreme["min_rtt"])
          /\ extreme["unjittered_rtt"] \in Nat /\ extreme["min_rtt"] \in Nat
      BY <2>0, <2>2, <3>1, FrontFacts
    <3> QED BY <2>0, <3>2 DEF Beats
  <2> QED BY <2>1, <2>2
<1> QED BY <1>1, Invariance, PTL

\* The value is_copa() compares always lies in the range it is compared with
\* (rtt-window.cc:118-121).
THEOREM IsCopaRange == Spec => []IsCopaInRange
<1>1. IInv => IsCopaInRange
  <2> SUFFICES ASSUME IInv, hist # <<>>
               PROVE  /\ extreme["min_rtt"] <= extreme["is_copa_min"]
                      /\ extreme["is_copa_min"] <= extreme["is_copa_max"]
    BY DEF IsCopaInRange
  <2>0. /\ "is_copa_min" \in Window /\ "is_copa_max" \in Window /\ "min_rtt" \in Window
        /\ find_min("is_copa_min") /\ find_min("min_rtt") /\ ~find_min("is_copa_max")
    BY DEF Window, find_min
  <2>1. /\ Min(vals["is_copa_min"]) \in live["min_rtt"]
        /\ extreme["is_copa_min"] = hist[Min(vals["is_copa_min"])].val
    BY <2>0, FrontFacts DEF IInv, Nested, Dominated
  <2>2. /\ ~Beats("min_rtt", extreme["is_copa_min"], extreme["min_rtt"])
        /\ extreme["is_copa_min"] \in Nat /\ extreme["min_rtt"] \in Nat
        /\ extreme["is_copa_max"] \in Nat
    BY <2>0, <2>1, FrontFacts
  <2>3. /\ ~Beats("is_copa_min", hist[Len(hist)].val, extreme["is_copa_min"])
        /\ ~Beats("is_copa_max", hist[Len(hist)].val, extreme["is_copa_max"])
        /\ hist[Len(hist)].val \in Nat
    BY <2>0, FrontFacts
  <2>4. extreme["min_rtt"] <= extreme["is_copa_min"]
    BY <2>0, <2>2 DEF Beats
  <2>5. /\ extreme["is_copa_min"] <= hist[Len(hist)].val
        /\ hist[Len(hist)].val <= extreme["is_copa_max"]
    BY <2>0, <2>2, <2>3 DEF Beats
  <2> QED BY <2>2, <2>3, <2>4, <2>5
<1> QED BY <1>1, Invariance, PTL

\* new_rtt_sample() remembers the sample it adds.
LEMMA NewestStep ==
    ASSUME IInv, LatestIsNewest, [Next]_vars
    PROVE  LatestIsNewest'
<1>1. ASSUME NEW rtt \in Rtt, NEW gap \in Gap, new_rtt_sample(rtt, gap)
      PROVE  LatestIsNewest'
  <2> DEFINE e == [time |-> now + gap, val |-> rtt]
  <2>1. hist' = Append(hist, e) /\ latest_rtt' = rtt
    BY <1>1 DEF new_rtt_sample
  <2>2. hist \in Seq(Sample) /\ e \in Sample
    BY RttWindowAssumption DEF IInv, TypeOK, Sample
  <2>3. e.val = rtt
    OBVIOUS
  <2> HIDE DEF e
  <2>4. /\ Len(hist') = Len(hist) + 1 /\ hist'[Len(hist) + 1] = e
        /\ \A i \in 1 .. Len(hist) : hist'[i] = hist[i]
    BY <2>1, <2>2
  <2>5. Len(hist) \in Nat
    BY <2>2
  <2> QED BY <2>1, <2>3, <2>4, <2>5 DEF LatestIsNewest
<1>2. ASSUME clear PROVE LatestIsNewest'
  <2>1. hist' = <<>>
    BY <1>2 DEF clear
  <2> QED BY <2>1 DEF LatestIsNewest
<1>3. ASSUME (\E IC \in BOOLEAN : change_window(IC)) \/ UNCHANGED vars
      PROVE  LatestIsNewest'
  <2>1. UNCHANGED <<hist, latest_rtt>>
    BY <1>3 DEF change_window, vars
  <2> QED BY <2>1 DEF LatestIsNewest
<1> QED BY <1>1, <1>2, <1>3 DEF Next

\* In a state with samples the readings are measured RTTs, the minimum below
\* the standing RTT and that below the newest.
LEMMA Readings == IInv /\ LatestIsNewest => ReadingsOrdered
<1> SUFFICES ASSUME IInv, LatestIsNewest, hist # <<>>
             PROVE  /\ extreme["min_rtt"] \in Rtt /\ extreme["unjittered_rtt"] \in Rtt
                    /\ extreme["min_rtt"] <= extreme["unjittered_rtt"]
                    /\ extreme["unjittered_rtt"] <= latest_rtt
  BY DEF ReadingsOrdered, get_min_rtt, get_unjittered_rtt
<1>1. /\ "unjittered_rtt" \in Window /\ "min_rtt" \in Window
      /\ find_min("unjittered_rtt") /\ find_min("min_rtt")
  BY DEF Window, find_min
<1>2. ASSUME NEW w \in Window PROVE extreme[w] \in Rtt
  <2>1. Min(vals[w]) \in live[w] /\ extreme[w] = hist[Min(vals[w])].val
    BY FrontFacts
  <2>2. live[w] \subseteq 1 .. Len(hist)
    BY DEF IInv, TypeOK
  <2> QED BY <2>1, <2>2 DEF LatestIsNewest
<1>3. /\ Min(vals["unjittered_rtt"]) \in live["min_rtt"]
      /\ extreme["unjittered_rtt"] = hist[Min(vals["unjittered_rtt"])].val
  BY <1>1, FrontFacts DEF IInv, Nested, Dominated
<1>4. /\ ~Beats("min_rtt", extreme["unjittered_rtt"], extreme["min_rtt"])
      /\ ~Beats("unjittered_rtt", latest_rtt, extreme["unjittered_rtt"])
      /\ extreme["unjittered_rtt"] \in Nat /\ extreme["min_rtt"] \in Nat
      /\ latest_rtt \in Nat
  BY <1>1, <1>3, FrontFacts DEF LatestIsNewest
<1> QED BY <1>1, <1>2, <1>4 DEF Beats

\* What the models of the controllers assume of get_min_rtt() and
\* get_unjittered_rtt() after new_rtt_sample() is what the windows provide.
THEOREM ReadingsHold == Spec => []ReadingsOrdered
<1>1. Init => LatestIsNewest
  BY DEF Init, LatestIsNewest
<1>2. IInv /\ LatestIsNewest /\ [Next]_vars => LatestIsNewest'
  BY NewestStep
<1> QED BY <1>1, <1>2, Readings, Invariance, PTL DEF Spec

\* What a step is, seen through one window: the naive window's Sample, its
\* Clear, or a stutter.
LEMMA NaiveStep ==
    ASSUME IInv, IInv', [Next]_vars, NEW w \in Window
    PROVE  \/ /\ Len(hist') = Len(hist) + 1
              /\ \A i \in 1 .. Len(hist) : hist'[i] = hist[i]
              /\ \E i \in 1 .. Len(hist) + 1 :
                   live'[w] = {j \in live[w] : hist'[j].time >= hist'[i].time}
                                \cup {Len(hist) + 1}
              /\ \E i \in live'[w] : hist'[i].val = extreme'[w]
              /\ \A i \in live'[w] : /\ ~Beats(w, hist'[i].val, extreme'[w])
                                     /\ hist'[i].val \in Nat /\ extreme'[w] \in Nat
           \/ hist' = <<>> /\ live'[w] = {} /\ extreme'[w] = ClearedExtreme[w]
           \/ hist' = hist /\ live'[w] = live[w] /\ extreme'[w] = extreme[w]
<1>1. ASSUME NEW rtt \in Rtt, NEW gap \in Gap, new_rtt_sample(rtt, gap)
      PROVE  /\ Len(hist') = Len(hist) + 1
             /\ \A i \in 1 .. Len(hist) : hist'[i] = hist[i]
             /\ \E i \in 1 .. Len(hist) + 1 :
                  live'[w] = {j \in live[w] : hist'[j].time >= hist'[i].time}
                               \cup {Len(hist) + 1}
             /\ \E i \in live'[w] : hist'[i].val = extreme'[w]
             /\ \A i \in live'[w] : /\ ~Beats(w, hist'[i].val, extreme'[w])
                                    /\ hist'[i].val \in Nat /\ extreme'[w] \in Nat
  <2> DEFINE n == Len(hist')
  <2>1. /\ hist' \in Seq(Sample) /\ n = Len(hist) + 1 /\ Len(hist) \in Nat
        /\ InTimeOrder(hist') /\ live'[w] \subseteq 1 .. n
        /\ live[w] \subseteq 1 .. Len(hist)
        /\ n \in vals'[w] /\ vals'[w] \subseteq live'[w]
        /\ \A i \in 1 .. Len(hist) : hist'[i] = hist[i]
    <3>1. Len(hist) \in Nat /\ live[w] \subseteq 1 .. Len(hist)
      BY DEF IInv, TypeOK
    <3>2. /\ hist' \in Seq(Sample) /\ n = Len(hist) + 1
          /\ InTimeOrder(hist') /\ live'[w] \subseteq 1 .. n
          /\ n \in vals'[w] /\ vals'[w] \subseteq live'[w]
          /\ \A i \in 1 .. Len(hist) : hist'[i] = hist[i]
      BY <1>1, SampleStep
    <3> QED BY <3>1, <3>2
  <2>2. PICK c \in Int : /\ live'[w] \subseteq live[w] \cup {n}
                         /\ c <= hist'[n].time
                         /\ \A i \in live[w] \cup {n} :
                              i \in live'[w] <=> i = n \/ hist'[i].time >= c
    BY <1>1, SampleStep
  <2>3. /\ Min(live'[w]) \in live'[w]
        /\ \A i \in live'[w] : Min(live'[w]) <= i
    <3>1. live'[w] \subseteq Nat /\ live'[w] # {}
      BY <2>1
    <3> QED BY <3>1, MinIsLeast
  <2> DEFINE m == Min(live'[w])
  <2>4. /\ m \in 1 .. n /\ hist'[m].time \in Nat /\ hist'[m].time >= c
        /\ n \in 1 .. n
    <3>1. m \in 1 .. n /\ n \in 1 .. n
      BY <2>1, <2>3
    <3>2. hist'[m].time \in Nat
      BY <3>1, <2>1, SampleFields
    <3>3. m = n \/ hist'[m].time >= c
      BY <2>2, <2>3
    <3> QED BY <3>1, <3>2, <3>3, <2>2
  <2> HIDE DEF m, n
  <2>5. ASSUME NEW j \in live[w]
        PROVE  j \in live'[w] <=> hist'[j].time >= hist'[m].time
    <3>1. j \in 1 .. n /\ hist'[j].time \in Nat /\ j # n
      <4>1. j \in 1 .. n /\ j # n
        BY <2>1
      <4> QED BY <4>1, <2>1, SampleFields DEF n
    <3>2. ASSUME j \in live'[w] PROVE hist'[j].time >= hist'[m].time
      <4>1. m <= j
        BY <3>2, <2>3 DEF m
      <4>2. hist'[m].time <= hist'[j].time
        BY <4>1, <3>1, <2>1, <2>4 DEF InTimeOrder, n
      <4> QED BY <4>2, <3>1, <2>4
    <3>3. ASSUME hist'[j].time >= hist'[m].time PROVE j \in live'[w]
      <4>1. hist'[j].time >= c
        BY <3>1, <3>3, <2>4
      <4> QED BY <4>1, <2>2
    <3> QED BY <3>2, <3>3
  <2>6. live'[w] = {j \in live[w] : hist'[j].time >= hist'[m].time} \cup {n}
    BY <2>1, <2>2, <2>5
  <2>7. hist' # <<>>
    BY <2>1 DEF n
  <2>8. /\ \E i \in live'[w] : hist'[i].val = extreme'[w]
        /\ \A i \in live'[w] : /\ ~Beats(w, hist'[i].val, extreme'[w])
                               /\ hist'[i].val \in Nat /\ extreme'[w] \in Nat
    <3>1. (IInv /\ hist # <<>> => Fronts)'
      BY AllFronts, PTL
    <3>2. Fronts'
      BY <2>7, <3>1
    <3> QED BY <3>2 DEF Fronts, Beats, find_min
  <2>9. \E i \in 1 .. Len(hist) + 1 :
           live'[w] = {j \in live[w] : hist'[j].time >= hist'[i].time}
                        \cup {Len(hist) + 1}
    BY <2>1, <2>4, <2>6
  <2>10. Len(hist') = Len(hist) + 1
    BY <2>1 DEF n
  <2> QED BY <2>1, <2>8, <2>9, <2>10
<1>2. ASSUME clear
      PROVE  hist' = <<>> /\ live'[w] = {} /\ extreme'[w] = ClearedExtreme[w]
  BY <1>2 DEF clear
<1>3. ASSUME (\E IC \in BOOLEAN : change_window(IC)) \/ UNCHANGED vars
      PROVE  hist' = hist /\ live'[w] = live[w] /\ extreme'[w] = extreme[w]
  BY <1>3 DEF change_window, vars
<1> QED BY <1>1, <1>2, <1>3 DEF Next

\* Each ExtremeWindow implements the naive sliding window that keeps every
\* sample (SlidingExtreme).
THEOREM Refinement == Spec => ImplementsNaive
<1> USE DEF Window, find_min, Beats
<1>1. Init => /\ MinRttWindow!Init /\ UnjitteredWindow!Init
              /\ IsCopaMinWindow!Init /\ IsCopaMaxWindow!Init
  BY DEF Init, MinRttWindow!Init, UnjitteredWindow!Init, IsCopaMinWindow!Init, IsCopaMaxWindow!Init,
         ClearedExtreme
<1>2. IInv /\ IInv' /\ [Next]_vars => [MinRttWindow!Next]_(MinRttWindow!vars)
  <2> SUFFICES ASSUME IInv, IInv', [Next]_vars PROVE [MinRttWindow!Next]_(MinRttWindow!vars)
    OBVIOUS
  <2>1. "min_rtt" \in Window /\ ClearedExtreme["min_rtt"] = DblMax
    BY DEF ClearedExtreme
  <2>2. \/ /\ Len(hist') = Len(hist) + 1
           /\ \A i \in 1 .. Len(hist) : hist'[i] = hist[i]
           /\ \E i \in 1 .. Len(hist) + 1 :
                live'["min_rtt"] =
                  {j \in live["min_rtt"] : hist'[j].time >= hist'[i].time}
                    \cup {Len(hist) + 1}
           /\ \E i \in live'["min_rtt"] : hist'[i].val = extreme'["min_rtt"]
           /\ \A i \in live'["min_rtt"] : extreme'["min_rtt"] <= hist'[i].val
        \/ hist' = <<>> /\ live'["min_rtt"] = {} /\ extreme'["min_rtt"] = DblMax
        \/ /\ hist' = hist /\ live'["min_rtt"] = live["min_rtt"]
           /\ extreme'["min_rtt"] = extreme["min_rtt"]
    <3> HIDE DEF Window
    <3> QED BY <2>1, NaiveStep
  <2> QED BY <2>2 DEF MinRttWindow!Next, MinRttWindow!vars, MinRttWindow!Sample,
             MinRttWindow!Clear, MinRttWindow!IsExtremeOf
<1>3. IInv /\ IInv' /\ [Next]_vars => [UnjitteredWindow!Next]_(UnjitteredWindow!vars)
  <2> SUFFICES ASSUME IInv, IInv', [Next]_vars PROVE [UnjitteredWindow!Next]_(UnjitteredWindow!vars)
    OBVIOUS
  <2>1. "unjittered_rtt" \in Window /\ ClearedExtreme["unjittered_rtt"] = DblMax
    BY DEF ClearedExtreme
  <2>2. \/ /\ Len(hist') = Len(hist) + 1
           /\ \A i \in 1 .. Len(hist) : hist'[i] = hist[i]
           /\ \E i \in 1 .. Len(hist) + 1 :
                live'["unjittered_rtt"] =
                  {j \in live["unjittered_rtt"] : hist'[j].time >= hist'[i].time}
                    \cup {Len(hist) + 1}
           /\ \E i \in live'["unjittered_rtt"] : hist'[i].val = extreme'["unjittered_rtt"]
           /\ \A i \in live'["unjittered_rtt"] : extreme'["unjittered_rtt"] <= hist'[i].val
        \/ hist' = <<>> /\ live'["unjittered_rtt"] = {} /\ extreme'["unjittered_rtt"] = DblMax
        \/ /\ hist' = hist /\ live'["unjittered_rtt"] = live["unjittered_rtt"]
           /\ extreme'["unjittered_rtt"] = extreme["unjittered_rtt"]
    <3> HIDE DEF Window
    <3> QED BY <2>1, NaiveStep
  <2> QED BY <2>2 DEF UnjitteredWindow!Next, UnjitteredWindow!vars, UnjitteredWindow!Sample,
             UnjitteredWindow!Clear, UnjitteredWindow!IsExtremeOf
<1>4. IInv /\ IInv' /\ [Next]_vars => [IsCopaMinWindow!Next]_(IsCopaMinWindow!vars)
  <2> SUFFICES ASSUME IInv, IInv', [Next]_vars PROVE [IsCopaMinWindow!Next]_(IsCopaMinWindow!vars)
    OBVIOUS
  <2>1. "is_copa_min" \in Window /\ ClearedExtreme["is_copa_min"] = DblMax
    BY DEF ClearedExtreme
  <2>2. \/ /\ Len(hist') = Len(hist) + 1
           /\ \A i \in 1 .. Len(hist) : hist'[i] = hist[i]
           /\ \E i \in 1 .. Len(hist) + 1 :
                live'["is_copa_min"] =
                  {j \in live["is_copa_min"] : hist'[j].time >= hist'[i].time}
                    \cup {Len(hist) + 1}
           /\ \E i \in live'["is_copa_min"] : hist'[i].val = extreme'["is_copa_min"]
           /\ \A i \in live'["is_copa_min"] : extreme'["is_copa_min"] <= hist'[i].val
        \/ hist' = <<>> /\ live'["is_copa_min"] = {} /\ extreme'["is_copa_min"] = DblMax
        \/ /\ hist' = hist /\ live'["is_copa_min"] = live["is_copa_min"]
           /\ extreme'["is_copa_min"] = extreme["is_copa_min"]
    <3> HIDE DEF Window
    <3> QED BY <2>1, NaiveStep
  <2> QED BY <2>2 DEF IsCopaMinWindow!Next, IsCopaMinWindow!vars, IsCopaMinWindow!Sample,
             IsCopaMinWindow!Clear, IsCopaMinWindow!IsExtremeOf
<1>5. IInv /\ IInv' /\ [Next]_vars => [IsCopaMaxWindow!Next]_(IsCopaMaxWindow!vars)
  <2> SUFFICES ASSUME IInv, IInv', [Next]_vars PROVE [IsCopaMaxWindow!Next]_(IsCopaMaxWindow!vars)
    OBVIOUS
  <2>1. "is_copa_max" \in Window /\ ClearedExtreme["is_copa_max"] = DblMin
    BY DEF ClearedExtreme
  <2>2. \/ /\ Len(hist') = Len(hist) + 1
           /\ \A i \in 1 .. Len(hist) : hist'[i] = hist[i]
           /\ \E i \in 1 .. Len(hist) + 1 :
                live'["is_copa_max"] =
                  {j \in live["is_copa_max"] : hist'[j].time >= hist'[i].time}
                    \cup {Len(hist) + 1}
           /\ \E i \in live'["is_copa_max"] : hist'[i].val = extreme'["is_copa_max"]
           /\ \A i \in live'["is_copa_max"] : extreme'["is_copa_max"] >= hist'[i].val
        \/ hist' = <<>> /\ live'["is_copa_max"] = {} /\ extreme'["is_copa_max"] = DblMin
        \/ /\ hist' = hist /\ live'["is_copa_max"] = live["is_copa_max"]
           /\ extreme'["is_copa_max"] = extreme["is_copa_max"]
    <3> HIDE DEF Window
    <3> QED BY <2>1, NaiveStep
  <2> QED BY <2>2 DEF IsCopaMaxWindow!Next, IsCopaMaxWindow!vars, IsCopaMaxWindow!Sample,
             IsCopaMaxWindow!Clear, IsCopaMaxWindow!IsExtremeOf
<1> QED BY <1>1, <1>2, <1>3, <1>4, <1>5, Invariance, PTL
        DEF Spec, ImplementsNaive, MinRttWindow!Spec, UnjitteredWindow!Spec, IsCopaMinWindow!Spec,
            IsCopaMaxWindow!Spec

\* What a window holds after a sample: what is younger than its time, as set
\* by the new srtt and the min_rtt from before.
LEMMA LiveAfterSample ==
    ASSUME IInv, NEW rtt \in Rtt, NEW gap \in Gap, new_rtt_sample(rtt, gap),
           NEW w \in Window
    PROVE  /\ hist' # <<>> /\ Len(hist) \in Nat /\ Len(hist') = Len(hist) + 1
           /\ \A i \in 1 .. Len(hist) : hist'[i] = hist[i]
           /\ live[w] \subseteq 1 .. Len(hist) /\ live'[w] \subseteq 1 .. Len(hist')
           /\ srtt' \in Nat /\ now' \in Nat /\ WindowLength(w, srtt') \in Nat
           /\ \A i \in 1 .. Len(hist') : hist'[i].time \in Nat
           /\ \A i \in live[w] \cup {Len(hist')} :
                 i \in live'[w] <=> \/ i = Len(hist')
                                  \/ hist'[i].time >= now' - WindowLength(w, srtt')
           /\ live'[w] \subseteq live[w] \cup {Len(hist')}
<1> DEFINE n == Len(hist')
           S == live[w] \cup {n}
           c == now' - WindowLength(w, srtt')
           L == live'[w]
<1>1. /\ Len(hist) \in Nat /\ live[w] \subseteq 1 .. Len(hist)
      /\ srtt \in Nat /\ now \in Nat /\ extreme["min_rtt"] \in Nat
  BY DEF IInv, TypeOK, Window
<1>2. /\ hist' \in Seq(Sample) /\ n = Len(hist) + 1 /\ InTimeOrder(hist')
      /\ L \subseteq 1 .. n /\ \A i \in 1 .. Len(hist) : hist'[i] = hist[i]
  BY SampleStep
<1>3. rtt \in Nat /\ gap \in Nat
  BY RttWindowAssumption
<1>4. srtt' = NextSrtt(srtt, rtt) /\ now' = now + gap
  BY DEF new_rtt_sample
<1>5. srtt' \in Nat /\ now' \in Nat
  BY <1>1, <1>3, <1>4, NextSrttNat
<1>6. WindowLength(w, srtt') \in Nat
  BY <1>1, <1>5, WindowLengthNat
<1>7. L = Aged(hist', n, S, c)
  <2> DEFINE m == Len(hist) + 1
             t == now + gap
             h == Append(hist, [time |-> t, val |-> rtt])
             s == NextSrtt(srtt, rtt)
  <2>1. hist' = h /\ L = Aged(h, m, live[w] \cup {m}, t - WindowLength(w, s))
    BY DEF new_rtt_sample
  <2>2. m = n /\ now' = t /\ srtt' = s
    BY <1>2, <1>4
  <2> HIDE DEF h, m, t, s, n
  <2> QED BY <2>1, <2>2
<1>8. n \in Nat /\ S \subseteq 1 .. n /\ n \in S /\ c \in Int
  BY <1>1, <1>2, <1>5, <1>6
<1>9. \A i \in 1 .. n : hist'[i].time \in Nat
  BY <1>2, SampleFields
<1> HIDE DEF S, c, L, n
<1>10. L \subseteq S /\ \A i \in S : i \in L <=> i = n \/ hist'[i].time >= c
  <2>1. n = Len(hist')
    BY DEF n
  <2> QED BY <1>2, <1>7, <1>8, <2>1, AgedFacts
<1>11. hist' # <<>>
  BY <1>1, <1>2 DEF n
<1> QED BY <1>1, <1>2, <1>5, <1>6, <1>9, <1>10, <1>11 DEF S, c, L, n

\* new_rtt_sample(): the standing RTT that the controllers act on is never of a
\* sample older than half a smoothed RTT, unless there is no younger one.
THEOREM Fresh == Spec => []StandingIsFresh
<1>1. Init => StandingIsFresh
  BY DEF Init, StandingIsFresh
<1>2. IInv /\ IInv' /\ StandingIsFresh /\ [Next]_vars => StandingIsFresh'
  <2> SUFFICES ASSUME IInv, IInv', StandingIsFresh, [Next]_vars PROVE StandingIsFresh'
    OBVIOUS
  <2> DEFINE w == "unjittered_rtt"
  <2>1. w \in Window
    BY DEF Window
  <2>2. ASSUME NEW rtt \in Rtt, NEW gap \in Gap, new_rtt_sample(rtt, gap)
        PROVE  StandingIsFresh'
    <3> DEFINE i == Min(vals'[w])
               n == Len(hist')
               t == WindowLength(w, srtt')
    <3>1. /\ hist' # <<>> /\ live'[w] \subseteq 1 .. n /\ srtt' \in Nat /\ now' \in Nat
          /\ t \in Nat /\ \A j \in 1 .. n : hist'[j].time \in Nat
          /\ live'[w] \subseteq live[w] \cup {n}
          /\ \A j \in live[w] \cup {n} :
                j \in live'[w] <=> j = n \/ hist'[j].time >= now' - t
      <4> HIDE DEF w
      <4> QED BY <2>1, <2>2, LiveAfterSample
    <3>2. i \in live'[w] /\ extreme'[w] = hist'[i].val
      <4>1. (IInv /\ hist # <<>> => Fronts)'
        BY AllFronts, PTL
      <4> HIDE DEF w
      <4> QED BY <2>1, <3>1, <4>1 DEF Fronts
    <3> DEFINE half == srtt' \div 2
    <3>3. t <= half /\ half \in Nat
      <4> DEFINE m == IF if_compete THEN srtt'
                      ELSE MaxOf(MinHistory, HistFactor * extreme["min_rtt"])
      <4>1. t = MinOf(m, half)
        BY DEF WindowLength
      <4>2. m \in Nat
        <5>1. extreme["min_rtt"] \in Nat
          BY DEF IInv, TypeOK, Window
        <5>2. HistFactor * extreme["min_rtt"] \in Nat
          BY <5>1, RttWindowAssumption
        <5> QED BY <3>1, <5>2, RttWindowAssumption DEF MaxOf
      <4>3. half \in Nat
        <5>1. \A k \in Nat : k \div 2 \in Nat
          OBVIOUS
        <5>2. srtt' \in Nat
          BY <3>1
        <5> QED BY <5>1, <5>2
      <4> HIDE DEF m, t, half
      <4> QED BY <3>1, <4>1, <4>2, <4>3 DEF MinOf
    <3> HIDE DEF i, t, half
    <3>4. i \in 1 .. n /\ (i = n \/ hist'[i].time >= now' - half)
      <4>1. i \in 1 .. n /\ (i = n \/ hist'[i].time >= now' - t)
        BY <3>1, <3>2
      <4> HIDE DEF n
      <4> QED BY <3>1, <3>3, <4>1
    <3> QED BY <3>2, <3>4 DEF half, StandingIsFresh, get_unjittered_rtt
  <2>3. ASSUME clear PROVE StandingIsFresh'
    BY <2>3 DEF clear, StandingIsFresh
  <2>4. ASSUME (\E IC \in BOOLEAN : change_window(IC)) \/ UNCHANGED vars
        PROVE  StandingIsFresh'
    <3>1. UNCHANGED <<hist, extreme, srtt, now>>
      BY <2>4 DEF change_window, vars
    <3> QED BY <3>1 DEF StandingIsFresh, get_unjittered_rtt
  <2> QED BY <2>2, <2>3, <2>4 DEF Next
<1> QED BY <1>1, <1>2, Invariance, PTL DEF Spec

\* new_rtt_sample(): outside competition min_rtt is forgotten only with the
\* last sample of its value, and that not before MinHistory has passed,
\* however small RTTs and however short smoothed RTTs become.
THEOREM Remembers == Spec => MinRttRemembers
<1> DEFINE w == "min_rtt"
           Kept == extreme'[w] > extreme[w]
                     => \/ hist' = <<>>
                        \/ if_compete
                        \/ \A i \in live[w] :
                              hist[i].val = extreme[w] => hist[i].time < now' - MinHistory
<1>1. w \in Window /\ find_min(w)
  BY DEF Window, find_min
<1>2. ASSUME IInv, IInv', [Next]_vars PROVE Kept
  <2> SUFFICES ASSUME extreme'[w] > extreme[w], hist' # <<>>, ~if_compete, NEW i \in live[w],
                      hist[i].val = extreme[w], ~(hist[i].time < now' - MinHistory)
               PROVE  FALSE
    OBVIOUS
  <2>1. extreme[w] \in Nat /\ extreme'[w] \in Nat
    BY <1>1, <1>2 DEF IInv, TypeOK
  <2>2. ASSUME NEW rtt \in Rtt, NEW gap \in Gap, new_rtt_sample(rtt, gap)
        PROVE  FALSE
    <3> DEFINE n == Len(hist')
               t == WindowLength(w, srtt')
    <3>1. /\ live[w] \subseteq 1 .. Len(hist) /\ n = Len(hist) + 1 /\ Len(hist) \in Nat
          /\ now' \in Nat /\ t \in Nat /\ \A j \in 1 .. n : hist'[j].time \in Nat
          /\ \A j \in 1 .. Len(hist) : hist'[j] = hist[j]
          /\ \A j \in live[w] \cup {n} :
                j \in live'[w] <=> j = n \/ hist'[j].time >= now' - t
      <4> HIDE DEF w
      <4> QED BY <1>1, <1>2, <2>2, LiveAfterSample
    <3>2. t >= MinHistory
      <4> DEFINE m == HistFactor * extreme[w]
      <4>1. t = MaxOf(MinHistory, m)
        BY DEF WindowLength
      <4>2. m \in Nat /\ MinHistory \in Nat
        BY <2>1, RttWindowAssumption
      <4> HIDE DEF m, t
      <4> QED BY <4>1, <4>2 DEF MaxOf
    <3> HIDE DEF t
    <3>3. hist'[i] = hist[i] /\ hist'[i].time \in Nat
      BY <3>1
    <3>4. hist'[i].time >= now' - t
      BY <3>1, <3>2, <3>3, RttWindowAssumption
    <3>5. i \in live'[w]
      BY <3>1, <3>4
    <3>6. ~Beats(w, hist'[i].val, extreme'[w])
      <4>1. (IInv /\ hist # <<>> => Fronts)'
        BY AllFronts, PTL
      <4> HIDE DEF w
      <4> QED BY <1>1, <1>2, <3>5, <4>1 DEF Fronts, Beats, find_min
    <3> QED BY <1>1, <2>1, <3>3, <3>6 DEF Beats
  <2>3. ASSUME clear PROVE FALSE
    BY <2>3 DEF clear
  <2>4. ASSUME (\E IC \in BOOLEAN : change_window(IC)) \/ UNCHANGED vars PROVE FALSE
    <3>1. extreme' = extreme
      BY <2>4 DEF change_window, vars
    <3> QED BY <2>1, <3>1
  <2> QED BY <1>2, <2>2, <2>3, <2>4 DEF Next
<1>3. IInv /\ IInv' /\ [Next]_vars => [Kept]_vars
  BY <1>2
<1> QED BY <1>3, Invariance, PTL DEF Spec, MinRttRemembers
=============================================================================

--------------------------- MODULE BoostProofs -----------------------------
(***************************************************************************)
(* Theorems about the deadline boost, for every width of the machine word, *)
(* every scale, and every configuration that is accepted.                  *)
(***************************************************************************)
EXTENDS BoostedTask, WellFoundedInduction, TLAPS

(* Division rounded up *)

\* Quotient and remainder of natural numbers.
LEMMA DivMod ==
    ASSUME NEW a \in Nat, NEW d \in Nat, d > 0
    PROVE  \E q \in Nat, r \in 0..(d - 1) : q = a \div d /\ r = a % d /\ a = d * q + r
  <1>1. a \div d \in Nat /\ a % d \in 0..(d - 1)
    OBVIOUS
  <1> PICK q \in Nat : q = a \div d
    BY <1>1
  <1> PICK r \in 0..(d - 1) : r = a % d
    BY <1>1
  <1>2. a = d * q + r
    OBVIOUS
  <1> QED BY <1>2

\* The quotient rounded up is the least number whose product is large enough.
LEMMA CeilLeast ==
    ASSUME NEW a \in Nat, NEW d \in Nat, d > 0, NEW q,
           q = (a \div d) + (IF a % d # 0 THEN 1 ELSE 0)
    PROVE  q \in Nat /\ d * q >= a /\ \A k \in Nat : d * k >= a => q <= k
  <1> PICK m \in Nat, r \in 0..(d - 1) : m = a \div d /\ r = a % d /\ a = d * m + r
    BY DivMod
  <1>1. a = d * m + r
    OBVIOUS
  <1>2. q = m + (IF r # 0 THEN 1 ELSE 0) /\ q \in Nat
    OBVIOUS
  <1>3. d * q >= a
    <2>1. CASE r = 0
      BY <1>1, <1>2, <2>1
    <2>2. CASE r # 0
      <3>1. q = m + 1
        BY <1>2, <2>2
      <3>2. d * (m + 1) = d * m + d
        OBVIOUS
      <3> QED BY <1>1, <3>1, <3>2
    <2> QED BY <2>1, <2>2
  <1>4. ASSUME NEW k \in Nat, d * k >= a PROVE q <= k
    <2>1. k >= IF r # 0 THEN m + 1 ELSE m
      BY <1>1, <1>4
    <2> QED BY <1>2, <2>1
  <1> QED BY <1>2, <1>3, <1>4

\* A larger factor gives a larger product.
LEMMA MulMonotone ==
    ASSUME NEW c \in Nat, NEW a \in Nat, NEW b \in Nat, a <= b
    PROVE  c * a <= c * b /\ c * a \in Nat /\ c * b \in Nat /\ c * a = a * c
  OBVIOUS

\* scale_div_ceil_u64 is that quotient of the scaled value, or the largest word.
LEMMA ScaleDivCeilLeast ==
    ASSUME NEW value \in Nat, NEW d \in Nat, d > 0
    PROVE  LET w == ScaleDivCeil(value, d)
           IN  /\ w \in 0..WordMax
               /\ w = WordMax \/ d * w >= value * Scale
               /\ \A k \in Nat : d * k >= value * Scale => w <= k
  <1> DEFINE product == value * Scale
             quotient == (product \div d) + (IF product % d # 0 THEN 1 ELSE 0)
  <1>1. product \in Nat /\ WordMax \in Nat
    BY WidthAssumption
  <1>2. ScaleDivCeil(value, d) = IF d = 0 \/ quotient > WordMax THEN WordMax ELSE quotient
    BY DEF ScaleDivCeil
  <1> HIDE DEF product
  <1>3. quotient \in Nat /\ d * quotient >= product
        /\ \A k \in Nat : d * k >= product => quotient <= k
    BY <1>1, CeilLeast
  <1> HIDE DEF quotient
  <1>4. CASE quotient > WordMax
    <2>1. ScaleDivCeil(value, d) = WordMax
      BY <1>2, <1>4
    <2> QED BY <1>1, <1>3, <1>4, <2>1 DEF product
  <1>5. CASE ~(quotient > WordMax)
    <2>1. ScaleDivCeil(value, d) = quotient
      BY <1>2, <1>5
    <2> QED BY <1>1, <1>3, <1>5, <2>1 DEF product
  <1> QED BY <1>4, <1>5

----------------------------------------------------------------------------
(* Urgency *)

\* The less time is left, the more urgent the task.
LEMMA UrgencyRises ==
    ASSUME NEW runtime \in Nat, NEW slack \in Nat, NEW less \in Nat, 0 < less, less <= slack
    PROVE  /\ ScaleDivCeil(runtime, slack) \in 0..WordMax
           /\ ScaleDivCeil(runtime, less) \in 0..WordMax
           /\ ScaleDivCeil(runtime, slack) <= ScaleDivCeil(runtime, less)
  <1>a. slack > 0
    OBVIOUS
  <1> PICK u \in 0..WordMax : /\ u = ScaleDivCeil(runtime, less)
                              /\ u = WordMax \/ less * u >= runtime * Scale
    BY ScaleDivCeilLeast
  <1> PICK v \in 0..WordMax : /\ v = ScaleDivCeil(runtime, slack)
                              /\ \A k \in Nat : slack * k >= runtime * Scale => v <= k
    BY <1>a, ScaleDivCeilLeast
  <1>0. WordMax \in Nat /\ u \in Nat /\ v \in Nat /\ runtime * Scale \in Nat
    BY WidthAssumption
  <1>1. CASE u = WordMax
    BY <1>0, <1>1
  <1>2. CASE less * u >= runtime * Scale
    <2>1. u * less <= u * slack /\ u * less = less * u /\ u * slack = slack * u
          /\ less * u \in Nat /\ slack * u \in Nat
      BY <1>0, MulMonotone
    <2>2. slack * u >= runtime * Scale
      BY <1>0, <1>2, <2>1
    <2> QED BY <1>0, <2>2
  <1> QED BY <1>1, <1>2

\* Outside the window that next_threshold_time computes for a threshold the
\* urgency does not exceed the threshold.
LEMMA UrgencyOutsideWindow ==
    ASSUME NEW runtime \in Nat, NEW slack \in Nat, NEW threshold \in Nat, threshold > 0,
           slack > ScaleDivCeil(runtime, threshold), slack <= WordMax
    PROVE  ScaleDivCeil(runtime, slack) <= threshold
  <1> PICK w \in 0..WordMax : /\ w = ScaleDivCeil(runtime, threshold)
                              /\ w = WordMax \/ threshold * w >= runtime * Scale
    BY ScaleDivCeilLeast
  <1>0. WordMax \in Nat /\ w \in Nat /\ runtime * Scale \in Nat /\ w < slack /\ w # WordMax
    BY WidthAssumption
  <1>1. threshold * w <= threshold * slack /\ threshold * slack = slack * threshold
        /\ threshold * w \in Nat /\ slack * threshold \in Nat
    BY <1>0, MulMonotone
  <1>2. slack * threshold >= runtime * Scale
    BY <1>0, <1>1
  <1> QED BY <1>0, <1>2, ScaleDivCeilLeast

\* next_threshold_time names a moment after this one, and until then the time
\* that is left lies outside the window.
LEMMA NextOutsideWindow ==
    ASSUME NEW dl \in 0..WordMax, NEW runtime \in Nat, NEW threshold \in Nat, threshold > 0,
           NEW at \in 0..WordMax, NEW later \in 0..WordMax, at < later,
           later < NextThresholdTime(dl, runtime, threshold, at)
    PROVE  later < dl /\ dl - later > ScaleDivCeil(runtime, threshold)
  <1> PICK w \in 0..WordMax : w = ScaleDivCeil(runtime, threshold)
    BY ScaleDivCeilLeast
  <1> DEFINE next == IF w >= dl THEN 1 ELSE dl - w
  <1>0. WordMax \in Nat
    BY WidthAssumption
  <1>1. NextThresholdTime(dl, runtime, threshold, at) =
            IF next > at THEN next ELSE IF at = WordMax THEN Never ELSE at + 1
    BY DEF NextThresholdTime
  <1>2. at # WordMax /\ next \in Int
    BY <1>0
  <1> HIDE DEF next
  <1>3. next > at /\ later < next
    BY <1>0, <1>1, <1>2
  <1>4. next = dl - w /\ w < dl
    BY <1>0, <1>3 DEF next
  <1> QED BY <1>0, <1>3, <1>4

----------------------------------------------------------------------------
(* The tier of a task *)

\* An accepted configuration that is enabled has ascending thresholds.
LEMMA ThresholdsAscend ==
    ASSUME NEW c \in BoostConfigType, Accepted(c), c.enabled
    PROVE  /\ c.normal_threshold \in 0..WordMax /\ c.urgent_threshold \in 0..WordMax
           /\ c.critical_threshold \in 0..WordMax
           /\ 0 < c.normal_threshold
           /\ c.normal_threshold <= c.urgent_threshold
           /\ c.urgent_threshold <= c.critical_threshold
  <1>1. /\ c.normal_threshold \in 0..WordMax /\ c.urgent_threshold \in 0..WordMax
        /\ c.critical_threshold \in 0..WordMax
    BY DEF BoostConfigType
  <1> QED BY <1>1, WidthAssumption DEF Accepted

\* The tier is the same at every moment before the one at which to look again.
LEMMA TierStable ==
    ASSUME NEW c \in BoostConfigType, Accepted(c), NEW b \in Int,
           NEW dl \in 0..WordMax, NEW runtime \in 0..WordMax,
           NEW at \in 0..WordMax, NEW later \in at..WordMax,
           later < Compute(c, b, dl, runtime, at).next_refresh
    PROVE  Tier(c, dl, runtime, later) = Tier(c, dl, runtime, at)
  <1>0. WordMax \in Nat /\ at \in Nat /\ later \in Nat /\ dl \in Nat /\ runtime \in Nat
        /\ at <= later
    BY WidthAssumption
  <1>1. CASE later = at
    BY <1>1
  <1>2. CASE ~c.enabled \/ dl = 0 \/ runtime = 0
    BY <1>2 DEF Tier
  <1>3. CASE later > at /\ c.enabled /\ dl # 0 /\ runtime # 0
    <2> DEFINE tier == Tier(c, dl, runtime, at)
               U(m) == ScaleDivCeil(runtime, dl - m)
               above == [none |-> c.normal_threshold, normal |-> c.urgent_threshold,
                         urgent |-> c.critical_threshold]
    <2>1. /\ c.normal_threshold \in 0..WordMax /\ c.urgent_threshold \in 0..WordMax
          /\ c.critical_threshold \in 0..WordMax
          /\ 0 < c.normal_threshold /\ c.normal_threshold <= c.urgent_threshold
          /\ c.urgent_threshold <= c.critical_threshold
      BY <1>3, ThresholdsAscend
    <2>2. \* The tier at any moment before the deadline is decided by the urgency.
          \A m \in Nat : Tier(c, dl, runtime, m) =
              IF m >= dl THEN "critical"
              ELSE IF U(m) > c.critical_threshold THEN "critical"
              ELSE IF U(m) > c.urgent_threshold THEN "urgent"
              ELSE IF U(m) > c.normal_threshold THEN "normal" ELSE "none"
      <3> SUFFICES ASSUME NEW m \in Nat
                   PROVE  Tier(c, dl, runtime, m) =
                            IF m >= dl THEN "critical"
                            ELSE IF U(m) > c.critical_threshold THEN "critical"
                            ELSE IF U(m) > c.urgent_threshold THEN "urgent"
                            ELSE IF U(m) > c.normal_threshold THEN "normal" ELSE "none"
        OBVIOUS
      <3>1. CASE m >= dl
        BY <1>3, <3>1 DEF Tier
      <3>2. CASE ~(m >= dl)
        <4>1. dl - m # 0
          BY <1>0, <3>2
        <4> QED BY <1>3, <3>2, <4>1 DEF Tier, Urgency
      <3> QED BY <3>1, <3>2
    <2>3. later < dl => at < dl /\ U(at) \in 0..WordMax /\ U(later) \in 0..WordMax
                        /\ U(at) <= U(later)
      BY <1>0, UrgencyRises
    <2>4. later < dl \/ later >= dl
      BY <1>0
    <2>5. Compute(c, b, dl, runtime, at).next_refresh =
             IF tier = "critical" THEN Never
             ELSE NextThresholdTime(dl, runtime, above[tier], at)
      BY <1>3 DEF Compute
    <2>6. ASSUME NEW threshold \in 1..WordMax,
                 later < NextThresholdTime(dl, runtime, threshold, at)
          PROVE  later < dl /\ U(later) <= threshold
      <3>1. later < dl /\ dl - later > ScaleDivCeil(runtime, threshold)
        BY <1>0, <1>3, <2>6, NextOutsideWindow
      <3>2. dl - later \in Nat /\ dl - later <= WordMax
        BY <1>0, <3>1
      <3> QED BY <1>0, <3>1, <3>2, UrgencyOutsideWindow
    <2>7. tier \in {"none", "normal", "urgent", "critical"}
      BY <1>0, <2>2
    <2> HIDE DEF U
    <2>8. CASE tier = "critical"
      <3>1. at >= dl \/ U(at) > c.critical_threshold
        BY <1>0, <2>1, <2>2, <2>8
      <3>2. later >= dl \/ U(later) > c.critical_threshold
        BY <1>0, <2>1, <2>3, <2>4, <3>1
      <3> QED BY <1>0, <2>2, <2>8, <3>2
    <2>9. CASE tier = "urgent"
      <3>1. at < dl /\ U(at) > c.urgent_threshold
        BY <1>0, <2>1, <2>2, <2>9
      <3>2. above[tier] = c.critical_threshold
        BY <2>9
      <3>3. later < dl /\ U(later) <= c.critical_threshold
        BY <1>0, <2>1, <2>5, <2>6, <2>9, <3>2
      <3>4. U(later) > c.urgent_threshold /\ ~(U(later) > c.critical_threshold) /\ ~(later >= dl)
        BY <1>0, <2>1, <2>3, <3>1, <3>3
      <3> QED BY <1>0, <2>2, <2>9, <3>4
    <2>10. CASE tier = "normal"
      <3>1. at < dl /\ U(at) > c.normal_threshold
        BY <1>0, <2>1, <2>2, <2>10
      <3>2. above[tier] = c.urgent_threshold
        BY <2>10
      <3>3. later < dl /\ U(later) <= c.urgent_threshold
        BY <1>0, <2>1, <2>5, <2>6, <2>10, <3>2
      <3>4. U(later) > c.normal_threshold /\ ~(U(later) > c.urgent_threshold)
            /\ ~(U(later) > c.critical_threshold) /\ ~(later >= dl)
        BY <1>0, <2>1, <2>3, <3>1, <3>3
      <3> QED BY <1>0, <2>2, <2>10, <3>4
    <2>11. CASE tier = "none"
      <3>2. above[tier] = c.normal_threshold
        BY <2>11
      <3>3. later < dl /\ U(later) <= c.normal_threshold
        BY <1>0, <2>1, <2>5, <2>6, <2>11, <3>2
      <3>4. ~(U(later) > c.normal_threshold) /\ ~(U(later) > c.urgent_threshold)
            /\ ~(U(later) > c.critical_threshold) /\ ~(later >= dl)
        BY <1>0, <2>1, <2>3, <3>3
      <3> QED BY <1>0, <2>2, <2>11, <3>4
    <2> QED BY <2>7, <2>8, <2>9, <2>10, <2>11
  <1> QED BY <1>0, <1>1, <1>2, <1>3

----------------------------------------------------------------------------
(* The sum of a priority and a boost *)

\* A task has one of the four tiers.
LEMMA TierOneOf ==
    ASSUME NEW c, NEW dl, NEW runtime, NEW at
    PROVE  Tier(c, dl, runtime, at) \in {"none", "normal", "urgent", "critical"}
  BY DEF Tier

\* add_i64_saturating is the sum held within the signed range.
LEMMA AddSaturatingClamps ==
    ASSUME NEW b \in IntMin..IntMax, NEW delta \in IntMin..IntMax
    PROVE  AddSaturating(b, delta) =
             IF b + delta > IntMax THEN IntMax
             ELSE IF b + delta < IntMin THEN IntMin ELSE b + delta
  <1>0. IntMin \in Int /\ IntMax \in Int /\ IntMin < 0 /\ IntMax > 0 /\ b \in Int /\ delta \in Int
        /\ IntMin <= b /\ b <= IntMax
    BY WidthAssumption
  <1>1. CASE delta > 0
    BY <1>0, <1>1 DEF AddSaturating
  <1>2. CASE delta < 0
    BY <1>0, <1>2 DEF AddSaturating
  <1>3. CASE delta = 0
    BY <1>0, <1>3 DEF AddSaturating
  <1> QED BY <1>0, <1>1, <1>2, <1>3

----------------------------------------------------------------------------
(* The build without 128-bit integers *)

\* A set of natural numbers that is not empty has a least one.
LEMMA LeastNumber ==
    ASSUME NEW T, T \subseteq Nat, T # {}
    PROVE  \E n \in T : \A m \in T : n <= m
  <1>1. \E R : IsWellFoundedOn(R, Nat) /\ \A a, b \in Nat : a < b => <<a, b>> \in R
    <2>1. \A a, b \in Nat : a < b => <<a, b>> \in OpToRel(<, Nat)
      BY DEF OpToRel
    <2> QED BY <2>1, NatLessThanWellFounded
  <1>2. PICK R : IsWellFoundedOn(R, Nat) /\ \A a, b \in Nat : a < b => <<a, b>> \in R
    BY <1>1
  <1>3. IsWellFoundedOn(R, Nat)
    BY <1>2
  <1>4. \E x \in T : \A y \in T : ~ (<<y, x>> \in R)
    BY <1>3, WFMin, Zenon
  <1>5. PICK n \in T : \A m \in T : <<m, n>> \notin R
    BY <1>4
  <1>6. n \in Nat /\ \A m \in T : m \in Nat /\ ~(m < n)
    BY <1>2, <1>5
  <1> QED BY <1>6

\* Induction, for a set of numbers: what holds of 0, and of the next number with
\* each, holds up to the bound.
LEMMA InductionUpTo ==
    ASSUME NEW bound \in Nat, NEW S, 0 \in S,
           \A m \in 1..bound : m - 1 \in S => m \in S
    PROVE  0..bound \subseteq S
  <1> SUFFICES ASSUME (0..bound) \ S # {} PROVE FALSE
    OBVIOUS
  <1> DEFINE T == (0..bound) \ S
  <1>0. T \subseteq Nat /\ T # {}
    OBVIOUS
  <1> HIDE DEF T
  <1>1. PICK m \in T : \A k \in T : m <= k
    BY <1>0, LeastNumber
  <1> USE DEF T
  <1>2. m \in 1..bound /\ m - 1 \in 0..bound /\ ~(m <= m - 1)
    BY <1>1
  <1> QED BY <1>1, <1>2

\* Division has one quotient and one remainder.
LEMMA DivModUnique ==
    ASSUME NEW a \in Nat, NEW d \in Nat, d > 0, NEW q \in Nat, NEW r \in 0..(d - 1),
           a = d * q + r
    PROVE  a \div d = q /\ a % d = r
  <1> PICK m \in Nat, s \in 0..(d - 1) : m = a \div d /\ s = a % d /\ a = d * m + s
    BY DivMod
  <1>1. d * q + r = d * m + s
    OBVIOUS
  <1>2. ASSUME q < m PROVE FALSE
    <2>1. d * (q + 1) <= d * m
      BY <1>2, MulMonotone
    <2>2. d * (q + 1) = d * q + d
      OBVIOUS
    <2> QED BY <1>1, <2>1, <2>2
  <1>3. ASSUME m < q PROVE FALSE
    <2>1. d * (m + 1) <= d * q
      BY <1>3, MulMonotone
    <2>2. d * (m + 1) = d * m + d
      OBVIOUS
    <2> QED BY <1>1, <2>1, <2>2
  <1>4. q = m
    BY <1>2, <1>3
  <1> QED BY <1>1, <1>4

\* One turn of the loop of scaled_remainder_ceil_u64: from quotient and remainder
\* of a number to those of the number plus the remainder that is added.
LEMMA AddKeepsDivision ==
    ASSUME NEW a \in Nat, NEW d \in Nat, NEW r \in 1..(d - 1)
    PROVE  LET full == a % d >= d - r
           IN  /\ (a + r) \div d = IF full THEN (a \div d) + 1 ELSE a \div d
               /\ (a + r) % d = IF full THEN (a % d) - (d - r) ELSE (a % d) + r
  <1>0. d > 0 /\ r \in Nat /\ a + r \in Nat
    OBVIOUS
  <1> PICK q \in Nat, s \in 0..(d - 1) : q = a \div d /\ s = a % d /\ a = d * q + s
    BY <1>0, DivMod
  <1>1. CASE s >= d - r
    <2>1. s - (d - r) \in 0..(d - 1) /\ q + 1 \in Nat
      BY <1>1
    <2>2. d * (q + 1) = d * q + d
      OBVIOUS
    <2>3. a + r = d * (q + 1) + (s - (d - r))
      BY <2>2
    <2>4. (a + r) \div d = q + 1 /\ (a + r) % d = s - (d - r)
      BY <1>0, <2>1, <2>3, DivModUnique
    <2> QED BY <1>1, <2>4
  <1>2. CASE ~(s >= d - r)
    <2>1. s + r \in 0..(d - 1)
      BY <1>2
    <2>2. a + r = d * q + (s + r)
      OBVIOUS
    <2>3. (a + r) \div d = q /\ (a + r) % d = s + r
      BY <1>0, <2>1, <2>2, DivModUnique
    <2> QED BY <1>2, <2>3
  <1> QED BY <1>1, <1>2

\* After every turn of that loop the accumulators are the quotient and the
\* remainder of what has been added so far.
LEMMA ScaledRemainderCeilIs ==
    ASSUME NEW d \in Nat, NEW r \in 1..(d - 1)
    PROVE  ScaledRemainderCeil(r, d) =
              ((Scale * r) \div d) + (IF (Scale * r) % d # 0 THEN 1 ELSE 0)
  <1> DEFINE Add(s) == IF s.acc >= d - r
                       THEN [quotient |-> s.quotient + 1, acc |-> s.acc - (d - r)]
                       ELSE [quotient |-> s.quotient, acc |-> s.acc + r]
             Loop(h) == h = [k \in 0..Scale |-> IF k = 0 THEN [quotient |-> 0, acc |-> 0]
                                                ELSE Add(h[k - 1])]
             After(k) == [quotient |-> (k * r) \div d, acc |-> (k * r) % d]
             step == CHOOSE h : Loop(h)
  <1>0. d > 0 /\ r \in Nat /\ r # 0 /\ Scale \in Nat
    BY WidthAssumption
  <1>1. ScaledRemainderCeil(r, d) = step[Scale].quotient + (IF step[Scale].acc # 0 THEN 1 ELSE 0)
    BY <1>0 DEF ScaledRemainderCeil
  <1>2. After(0) = [quotient |-> 0, acc |-> 0]
    <2>1. 0 * r = 0 /\ 0 = d * 0 + 0 /\ 0 \in 0..(d - 1)
      BY <1>0
    <2>2. 0 \div d = 0 /\ 0 % d = 0
      BY <1>0, <2>1, DivModUnique
    <2> QED BY <2>1, <2>2
  <1>3. ASSUME NEW k \in 1..Scale PROVE After(k) = Add(After(k - 1))
    <2>0. k \in Nat /\ k - 1 \in Nat
      OBVIOUS
    <2>1. (k - 1) * r \in Nat /\ k * r = (k - 1) * r + r
      BY <1>0, <2>0
    <2> DEFINE a == (k - 1) * r
    <2>2. After(k) = [quotient |-> (a + r) \div d, acc |-> (a + r) % d]
          /\ After(k - 1) = [quotient |-> a \div d, acc |-> a % d]
      BY <2>1
    <2>3. a \in Nat
      BY <2>1
    <2> HIDE DEF a, After
    <2>4. /\ (a + r) \div d = IF a % d >= d - r THEN (a \div d) + 1 ELSE a \div d
          /\ (a + r) % d = IF a % d >= d - r THEN (a % d) - (d - r) ELSE (a % d) + r
      BY <2>3, AddKeepsDivision
    <2>5. CASE a % d >= d - r
      BY <2>2, <2>4, <2>5
    <2>6. CASE ~(a % d >= d - r)
      BY <2>2, <2>4, <2>6
    <2> QED BY <2>5, <2>6
  <1> HIDE DEF After, Add
  <1>4. \A k \in 0..Scale : k # 0 => k \in 1..Scale /\ k - 1 \in 0..Scale
    BY <1>0
  <1>5. \E h : Loop(h)
    <2> DEFINE g == [k \in 0..Scale |-> After(k)]
    <2>1. \A k \in 0..Scale : k # 0 => g[k - 1] = After(k - 1)
      BY <1>4
    <2>2. \A k \in 0..Scale : After(k) = IF k = 0 THEN [quotient |-> 0, acc |-> 0]
                                         ELSE Add(g[k - 1])
      BY <1>2, <1>3, <1>4, <2>1
    <2>3. Loop(g)
      BY <2>2
    <2> QED BY <2>3
  <1> HIDE DEF Loop
  <1>6. Loop(step)
    BY <1>5
  <1> HIDE DEF step
  <1>7. /\ step[0] = [quotient |-> 0, acc |-> 0]
        /\ \A k \in 1..Scale : step[k] = Add(step[k - 1])
    <2>1. step = [k \in 0..Scale |-> IF k = 0 THEN [quotient |-> 0, acc |-> 0]
                                     ELSE Add(step[k - 1])]
      BY <1>6 DEF Loop
    <2>2. 0 \in 0..Scale /\ \A k \in 1..Scale : k \in 0..Scale /\ k # 0
      BY <1>0
    <2> QED BY <2>1, <2>2
  <1> DEFINE S == {k \in 0..Scale : step[k] = After(k)}
  <1>8. 0 \in S /\ \A k \in 1..Scale : k - 1 \in S => k \in S
    <2>1. 0 \in S
      BY <1>0, <1>2, <1>7
    <2>2. ASSUME NEW k \in 1..Scale, k - 1 \in S PROVE k \in S
      <3>1. step[k] = Add(step[k - 1]) /\ step[k - 1] = After(k - 1) /\ k \in 0..Scale
        BY <1>0, <1>7, <2>2
      <3> QED BY <1>3, <3>1
    <2> QED BY <2>1, <2>2
  <1> HIDE DEF S
  <1>9. 0..Scale \subseteq S
    BY <1>0, <1>8, InductionUpTo, Zenon
  <1>10. Scale \in S
    BY <1>0, <1>9
  <1>11. step[Scale] = After(Scale)
    BY <1>10 DEF S
  <1> QED BY <1>1, <1>11 DEF After

\* A product is zero when a factor is.
LEMMA ZeroProduct ==
    ASSUME NEW d \in Nat, d > 0, NEW m \in Nat, d * m = 0
    PROVE  m = 0
  <1>1. ASSUME m >= 1 PROVE FALSE
    <2>1. d * 1 <= d * m
      BY <1>1, MulMonotone
    <2> QED BY <2>1
  <1> QED BY <1>1

\* Dividing a scaled number is dividing its quotient and its remainder.
LEMMA ScaledDivision ==
    ASSUME NEW value \in Nat, NEW d \in Nat, d > 0, NEW q \in Nat, NEW r \in Nat,
           NEW m \in Nat, NEW s \in 0..(d - 1), NEW c \in Nat,
           value = d * q + r, c * r = d * m + s
    PROVE  (value * c) \div d = q * c + m /\ (value * c) % d = s
  <1> PICK scaled \in Nat : scaled = q * c
    OBVIOUS
  <1>1. value * c = (d * q) * c + c * r
    OBVIOUS
  <1>2. (d * q) * c = d * scaled
    OBVIOUS
  <1>3. d * (scaled + m) = d * scaled + d * m /\ d * scaled \in Nat /\ d * m \in Nat
    OBVIOUS
  <1>4. value * c = d * (scaled + m) + s
    BY <1>1, <1>2, <1>3
  <1>5. value * c \in Nat /\ scaled + m \in Nat
    OBVIOUS
  <1> QED BY <1>4, <1>5, DivModUnique

\* Both builds of scale_div_ceil_u64 compute the same.
LEMMA ScaleDivCeilSame ==
    ASSUME NEW value \in Nat, NEW d \in Nat
    PROVE  ScaleDivCeil(value, d) = ScaleDivCeilPortable(value, d)
  <1>0. WordMax \in Nat /\ Scale \in Nat /\ Scale > 0
    BY WidthAssumption
  <1>1. CASE d = 0
    BY <1>1 DEF ScaleDivCeil, ScaleDivCeilPortable
  <1>2. CASE d > 0
    <2>1. PICK q \in Nat, r \in 0..(d - 1) :
             q = value \div d /\ r = value % d /\ value = d * q + r
      BY <1>2, DivMod
    <2>2. r \in Nat /\ Scale * r \in Nat
      BY <1>0
    <2>3. PICK m \in Nat, s \in 0..(d - 1) :
             m = (Scale * r) \div d /\ s = (Scale * r) % d /\ Scale * r = d * m + s
      BY <1>2, <2>2, DivMod
    <2> DEFINE up == IF s # 0 THEN 1 ELSE 0
               scaled == q * Scale
               extra == ScaledRemainderCeil(r, d)
    <2>4. scaled \in Nat /\ up \in Nat
      BY <1>0
    <2>5. extra = m + up
      <3>1. CASE r = 0
        <4>1. extra = 0
          BY <3>1 DEF ScaledRemainderCeil
        <4>2. 0 = d * m + s
          BY <1>0, <2>3, <3>1
        <4>3. d * m \in Nat
          OBVIOUS
        <4>4. s = 0 /\ d * m = 0
          BY <4>2, <4>3
        <4>5. m = 0
          BY <1>2, <4>4, ZeroProduct
        <4> QED BY <4>1, <4>4, <4>5
      <3>2. CASE r # 0
        <4>1. r \in 1..(d - 1)
          BY <3>2
        <4> QED BY <2>3, <4>1, ScaledRemainderCeilIs
      <3> QED BY <3>1, <3>2
    <2>6. ScaleDivCeil(value, d) =
             IF scaled + m + up > WordMax THEN WordMax ELSE scaled + m + up
      <3>1. value = d * q + r /\ Scale * r = d * m + s
        BY <2>1, <2>3
      <3>2. (value * Scale) \div d = scaled + m /\ (value * Scale) % d = s
        BY <1>0, <1>2, <2>2, <3>1, ScaledDivision
      <3>3. d # 0
        BY <1>2
      <3>4. ScaleDivCeil(value, d) =
               LET product == value * Scale
                   quotient == (product \div d) + (IF product % d # 0 THEN 1 ELSE 0)
               IN  IF quotient > WordMax THEN WordMax ELSE quotient
        BY <3>3, Zenon DEF ScaleDivCeil
      <3> QED BY <3>2, <3>4, Zenon
    <2>7. ScaleDivCeilPortable(value, d) =
             IF q > WordMax \div Scale \/ extra > WordMax - scaled THEN WordMax
             ELSE scaled + extra
      BY <1>2, <2>1 DEF ScaleDivCeilPortable
    <2>8. q > WordMax \div Scale => scaled > WordMax
      <3> SUFFICES ASSUME q > WordMax \div Scale PROVE scaled > WordMax
        OBVIOUS
      <3> PICK w \in Nat, x \in 0..(Scale - 1) :
             w = WordMax \div Scale /\ x = WordMax % Scale /\ WordMax = Scale * w + x
        BY <1>0, DivMod
      <3>1. Scale * (w + 1) <= Scale * q
        BY <1>0, MulMonotone
      <3>2. Scale * (w + 1) = Scale * w + Scale /\ Scale * q = q * Scale
        BY <1>0
      <3> QED BY <1>0, <3>1, <3>2
    <2> HIDE DEF up, scaled, extra
    <2> QED BY <1>0, <2>4, <2>5, <2>6, <2>7, <2>8
  <1> QED BY <1>1, <1>2

----------------------------------------------------------------------------
(* The entries of a policy: what its heaps say of a task's boost *)

\* What the boost of an entry reads of it.
Boostable(e) ==
    e.base \in IntMin..IntMax /\ e.deadline \in 0..WordMax /\ e.runtime \in 0..WordMax

\* The boost of e under configuration c at a moment.
Boost(c, e, moment) == Compute(c, e.base, e.deadline, e.runtime, moment)

\* What entry e says was so at some moment up to a given one.
OnceCurrent(c, e, upTo) ==
    \E moment \in 0..upTo :
        /\ e.effective = Boost(c, e, moment).effective_priority
        /\ e.next = Boost(c, e, moment).next_refresh

\* The moment to look again is a word.
LEMMA NextIsWord ==
    ASSUME NEW dl \in 0..WordMax, NEW runtime \in 0..WordMax, NEW threshold \in 0..WordMax,
           NEW at \in 0..WordMax
    PROVE  NextThresholdTime(dl, runtime, threshold, at) \in 0..WordMax
  <1>0. WordMax \in Nat /\ 1 <= WordMax
    BY WidthAssumption
  <1>1. CASE threshold = 0
    BY <1>0, <1>1 DEF NextThresholdTime, Never
  <1>2. CASE threshold > 0
    <2> PICK w \in 0..WordMax : w = ScaleDivCeil(runtime, threshold)
      BY <1>0, <1>2, ScaleDivCeilLeast
    <2> DEFINE next == IF w >= dl THEN 1 ELSE dl - w
    <2>1. NextThresholdTime(dl, runtime, threshold, at) =
            IF next > at THEN next ELSE IF at = WordMax THEN Never ELSE at + 1
      BY <1>2 DEF NextThresholdTime
    <2>2. next \in 0..WordMax
      BY <1>0
    <2> HIDE DEF next
    <2> QED BY <1>0, <2>1, <2>2 DEF Never
  <1> QED BY <1>0, <1>1, <1>2

\* The result of qhw_deadline_boost_compute is within the range of its fields.
LEMMA BoostTypes ==
    ASSUME NEW c \in BoostConfigType, NEW e, Boostable(e), NEW at \in 0..WordMax
    PROVE  /\ Boost(c, e, at).effective_priority \in IntMin..IntMax
           /\ Boost(c, e, at).next_refresh \in 0..WordMax
  <1> DEFINE tier == Tier(c, e.deadline, e.runtime, at)
             boosts == [none |-> 0, normal |-> c.normal_boost, urgent |-> c.urgent_boost,
                        critical |-> c.critical_boost]
             above == [none |-> c.normal_threshold, normal |-> c.urgent_threshold,
                       urgent |-> c.critical_threshold]
  <1>0. WordMax \in Nat /\ IntMin \in Int /\ IntMax \in Int /\ 0 \in IntMin..IntMax
    BY WidthAssumption
  <1>1. tier \in {"none", "normal", "urgent", "critical"}
    BY TierOneOf
  <1>2. e.base \in IntMin..IntMax /\ e.deadline \in 0..WordMax /\ e.runtime \in 0..WordMax
    BY DEF Boostable
  <1>3. Boost(c, e, at).effective_priority = AddSaturating(e.base, boosts[tier])
    BY DEF Boost, Compute
  <1>4. Boost(c, e, at).next_refresh =
           IF ~c.enabled \/ e.deadline = 0 \/ e.runtime = 0 \/ tier = "critical" THEN Never
           ELSE NextThresholdTime(e.deadline, e.runtime, above[tier], at)
    BY DEF Boost, Compute
  <1> HIDE DEF tier
  <1>5. boosts[tier] \in IntMin..IntMax
    BY <1>0, <1>1 DEF BoostConfigType
  <1>6. tier # "critical" => above[tier] \in 0..WordMax
    BY <1>1 DEF BoostConfigType
  <1> HIDE DEF boosts, above
  <1>7. AddSaturating(e.base, boosts[tier]) \in IntMin..IntMax
    <2>1. AddSaturating(e.base, boosts[tier]) =
             IF e.base + boosts[tier] > IntMax THEN IntMax
             ELSE IF e.base + boosts[tier] < IntMin THEN IntMin ELSE e.base + boosts[tier]
      BY <1>2, <1>5, AddSaturatingClamps
    <2> QED BY <1>0, <1>2, <1>5, <2>1
  <1>8. Boost(c, e, at).next_refresh \in 0..WordMax
    <2>1. CASE tier # "critical"
      <3>1. NextThresholdTime(e.deadline, e.runtime, above[tier], at) \in 0..WordMax
        BY <1>2, <1>6, <2>1, NextIsWord
      <3> QED BY <1>0, <1>4, <3>1 DEF Never
    <2>2. CASE tier = "critical"
      BY <1>0, <1>4, <2>2 DEF Never
    <2> QED BY <2>1, <2>2
  <1> QED BY <1>3, <1>7, <1>8

\* An entry that was current once still shows the priority of a moment within the
\* interval from..upTo, if its refresh time had not come when the interval began.
LEMMA ShownWithin ==
    ASSUME NEW c \in BoostConfigType, Accepted(c), NEW e, Boostable(e),
           NEW upTo \in 0..WordMax, NEW from \in 0..upTo,
           OnceCurrent(c, e, upTo), from < e.next
    PROVE  \E m \in from..upTo : Boost(c, e, m).effective_priority = e.effective
  <1>0. WordMax \in Nat
    BY WidthAssumption
  <1>1. PICK then \in 0..upTo : /\ e.effective = Boost(c, e, then).effective_priority
                                /\ e.next = Boost(c, e, then).next_refresh
    BY DEF OnceCurrent
  <1>2. CASE then >= from
    <2>1. then \in from..upTo
      BY <1>0, <1>2
    <2> QED BY <1>1, <2>1
  <1>3. CASE then < from
    <2>1. e.base \in Int /\ e.deadline \in 0..WordMax /\ e.runtime \in 0..WordMax
      BY WidthAssumption DEF Boostable
    <2>2. then \in 0..WordMax /\ from \in then..WordMax /\ from \in from..upTo
      BY <1>0, <1>3
    <2>3. Tier(c, e.deadline, e.runtime, from) = Tier(c, e.deadline, e.runtime, then)
      BY <1>1, <2>1, <2>2, TierStable DEF Boost
    <2>4. Boost(c, e, from).effective_priority = Boost(c, e, then).effective_priority
      BY <2>3 DEF Boost, Compute
    <2> QED BY <1>1, <2>2, <2>4
  <1> QED BY <1>0, <1>2, <1>3

\* An entry that was current once remains so.
LEMMA OnceCurrentRemains ==
    ASSUME NEW c, NEW e, NEW upTo \in Nat, NEW after \in Nat, upTo <= after,
           OnceCurrent(c, e, upTo)
    PROVE  OnceCurrent(c, e, after)
  BY DEF OnceCurrent

----------------------------------------------------------------------------
(* The task and its clock *)

TaskTypes ==
    /\ taskConfig \in TaskConfigs /\ taskBase \in TaskBases
    /\ taskDeadline \in 0..WordMax /\ taskRuntime \in TaskRuntimes
    /\ clock \in 0..WordMax

\* The types hold of every task and clock.
LEMMA TaskTypesHold == TaskSpec => []TaskTypes
  <1>0. WordMax \in Nat
    BY WidthAssumption
  <1>1. TaskInit => TaskTypes
    BY <1>0 DEF TaskInit, TaskTypes
  <1>2. TaskTypes /\ [ClockTicks]_taskVars => TaskTypes'
    BY <1>0 DEF TaskTypes, ClockTicks, taskVars
  <1> QED BY <1>1, <1>2, PTL DEF TaskSpec

\* For every word, scale and accepted configuration: a policy that looks again at
\* the moment qhw_deadline_boost_compute names does not miss a change of tier.
THEOREM RefreshNeverLateHolds == TaskSpec => []RefreshNeverLate
  <1>1. TaskTypes => RefreshNeverLate
    <2> SUFFICES ASSUME TaskTypes, NEW later \in clock..WordMax,
                        later < Result(clock).next_refresh
                 PROVE  Result(later).tier = Result(clock).tier
      BY DEF RefreshNeverLate
    <2>1. /\ taskConfig \in BoostConfigType /\ Accepted(taskConfig)
          /\ taskBase \in Int /\ taskRuntime \in 0..WordMax
          /\ taskDeadline \in 0..WordMax /\ clock \in 0..WordMax
      BY BoostedTaskAssumption, WidthAssumption DEF TaskTypes
    <2>2. later < Compute(taskConfig, taskBase, taskDeadline, taskRuntime, clock).next_refresh
      BY DEF Result
    <2>3. Tier(taskConfig, taskDeadline, taskRuntime, later) =
          Tier(taskConfig, taskDeadline, taskRuntime, clock)
      BY <2>1, <2>2, TierStable
    <2> QED BY <2>3 DEF Result, Compute
  <1> QED BY <1>1, TaskTypesHold, PTL

\* The effective priority is the boosted priority held within the signed range.
THEOREM BoostSaturatesHolds == TaskSpec => []BoostSaturates
  <1>1. TaskTypes => BoostSaturates
    <2> SUFFICES ASSUME TaskTypes PROVE BoostSaturates
      OBVIOUS
    <2> DEFINE tier == Tier(taskConfig, taskDeadline, taskRuntime, clock)
               boosts == [none |-> 0, normal |-> taskConfig.normal_boost,
                          urgent |-> taskConfig.urgent_boost,
                          critical |-> taskConfig.critical_boost]
    <2>1. taskConfig \in BoostConfigType /\ taskBase \in IntMin..IntMax
      BY BoostedTaskAssumption DEF TaskTypes
    <2>2. 0 \in IntMin..IntMax
      BY WidthAssumption
    <2>3. tier \in {"none", "normal", "urgent", "critical"}
      BY TierOneOf
    <2>4. Result(clock).tier = tier
          /\ Result(clock).effective_priority = AddSaturating(taskBase, boosts[tier])
      BY DEF Result, Compute
    <2> HIDE DEF tier
    <2>5. boosts[tier] \in IntMin..IntMax
      BY <2>1, <2>2, <2>3 DEF BoostConfigType
    <2> HIDE DEF boosts
    <2>6. AddSaturating(taskBase, boosts[tier]) =
             IF taskBase + boosts[tier] > IntMax THEN IntMax
             ELSE IF taskBase + boosts[tier] < IntMin THEN IntMin ELSE taskBase + boosts[tier]
      BY <2>1, <2>5, AddSaturatingClamps
    <2> QED BY <2>4, <2>6 DEF BoostSaturates, boosts
  <1> QED BY <1>1, TaskTypesHold, PTL
\* The build with 128-bit integers and the one without agree, for every word and
\* every scale.
THEOREM BuildsAgreeHolds == TaskSpec => []BuildsAgree
  <1>1. TaskTypes => BuildsAgree
    <2> SUFFICES ASSUME TaskTypes, NEW value \in {taskRuntime, clock}
                 PROVE  ScaleDivCeil(value, taskDeadline) =
                        ScaleDivCeilPortable(value, taskDeadline)
      BY DEF BuildsAgree
    <2>1. value \in Nat /\ taskDeadline \in Nat
      BY BoostedTaskAssumption DEF TaskTypes
    <2> QED BY <2>1, ScaleDivCeilSame
  <1> QED BY <1>1, TaskTypesHold, PTL
=============================================================================

----------------------- MODULE ChildValidationProofs -----------------------
(***************************************************************************)
(* Theorems about the plan of a split and the loop that validates its      *)
(* slices, for every width of the machine word, every configuration, every *)
(* request and every answer of the callback.                               *)
(***************************************************************************)
EXTENDS ChildValidation, WellFoundedInduction, TLAPS

(* Numbers *)

\* A set of natural numbers that is not empty has a least one.
LEMMA LeastNumber ==
    ASSUME NEW T, T \subseteq Nat, T # {}
    PROVE  \E n \in T : \A m \in T : n <= m
  <1>1. \E R : IsWellFoundedOn(R, Nat) /\ \A a, b \in Nat : a < b => <<a, b>> \in R
    <2>1. \A a, b \in Nat : a < b => <<a, b>> \in OpToRel(<, Nat)
      BY DEF OpToRel
    <2> QED BY <2>1, NatLessThanWellFounded
  <1>2. PICK R : IsWellFoundedOn(R, Nat) /\ \A a, b \in Nat : a < b => <<a, b>> \in R
    BY <1>1
  <1>3. IsWellFoundedOn(R, Nat)
    BY <1>2
  <1>4. \E x \in T : \A y \in T : ~ (<<y, x>> \in R)
    BY <1>3, WFMin, Zenon
  <1>5. PICK n \in T : \A m \in T : <<m, n>> \notin R
    BY <1>4
  <1>6. n \in Nat /\ \A m \in T : m \in Nat /\ ~(m < n)
    BY <1>2, <1>5
  <1> QED BY <1>6

\* Induction, for a set of numbers: what holds of 0, and of the next number with
\* each, holds up to the bound.
LEMMA InductionUpTo ==
    ASSUME NEW bound \in Nat, NEW S, 0 \in S,
           \A m \in 1..bound : m - 1 \in S => m \in S
    PROVE  0..bound \subseteq S
  <1> SUFFICES ASSUME (0..bound) \ S # {} PROVE FALSE
    OBVIOUS
  <1> DEFINE T == (0..bound) \ S
  <1>0. T \subseteq Nat /\ T # {}
    OBVIOUS
  <1> HIDE DEF T
  <1>1. PICK m \in T : \A k \in T : m <= k
    BY <1>0, LeastNumber
  <1> USE DEF T
  <1>2. m \in 1..bound /\ m - 1 \in 0..bound /\ ~(m <= m - 1)
    BY <1>1
  <1> QED BY <1>1, <1>2

\* The recursive definition of a running total has a solution.
LEMMA TotalExists ==
    ASSUME NEW bound \in Nat, NEW f \in [1..bound -> Nat]
    PROVE  \E g \in [0..bound -> Nat] :
              g = [k \in 0..bound |-> IF k = 0 THEN 0 ELSE g[k - 1] + f[k]]
  <1> DEFINE Solves(g, m) == g[0] = 0 /\ \A k \in 1..m : g[k] = g[k - 1] + f[k]
             S == {m \in 0..bound : \E g \in [0..m -> Nat] : Solves(g, m)}
  <1>1. 0 \in S
    <2> DEFINE g == [k \in 0..0 |-> 0]
    <2>1. g \in [0..0 -> Nat] /\ Solves(g, 0)
      OBVIOUS
    <2>2. 0 \in 0..bound
      OBVIOUS
    <2> QED BY <2>1, <2>2
  <1>2. ASSUME NEW m \in 1..bound, m - 1 \in S PROVE m \in S
    <2>1. PICK g \in [0..(m - 1) -> Nat] : Solves(g, m - 1)
      BY <1>2
    <2> DEFINE h == [k \in 0..m |-> IF k = m THEN g[m - 1] + f[m] ELSE g[k]]
    <2>2. m - 1 \in 0..(m - 1) /\ m \in 0..m /\ 0 \in 0..m /\ 0 # m /\ m \in 0..bound
      OBVIOUS
    <2>3. \A k \in 0..m : k # m => k \in 0..(m - 1)
      OBVIOUS
    <2>4. h \in [0..m -> Nat]
      BY <2>2, <2>3
    <2>5. h[m] = g[m - 1] + f[m] /\ \A k \in 0..(m - 1) : h[k] = g[k]
      BY <2>2
    <2>6. h[0] = 0
      BY <2>1, <2>2, <2>5
    <2>7. ASSUME NEW k \in 1..m PROVE h[k] = h[k - 1] + f[k]
      <3>1. k - 1 \in 0..(m - 1)
        OBVIOUS
      <3>2. CASE k = m
        BY <2>5, <3>1, <3>2
      <3>3. CASE k # m
        <4>1. k \in 1..(m - 1) /\ k \in 0..(m - 1)
          BY <3>3
        <4> QED BY <2>1, <2>5, <3>1, <4>1
      <3> QED BY <3>2, <3>3
    <2> HIDE DEF h
    <2> QED BY <2>2, <2>4, <2>6, <2>7
  <1> HIDE DEF S
  <1>a. \A m \in 1..bound : m - 1 \in S => m \in S
    BY <1>2
  <1>3. 0..bound \subseteq S
    BY <1>1, <1>a, InductionUpTo, Zenon
  <1>b. bound \in S
    BY <1>3
  <1>4. PICK g \in [0..bound -> Nat] : Solves(g, bound)
    BY <1>b DEF S
  <1>5. \A k \in 0..bound : k # 0 => k \in 1..bound
    OBVIOUS
  <1>6. \A k \in 0..bound : g[k] = IF k = 0 THEN 0 ELSE g[k - 1] + f[k]
    BY <1>4, <1>5
  <1> QED BY <1>6

\* What ShotsUpTo computes: the total after each child.
LEMMA ShotsUpToAdds ==
    ASSUME NEW n \in Nat, NEW answer \in [1..n -> ChildType]
    PROVE  /\ ShotsUpTo(answer) \in [0..n -> Nat]
           /\ ShotsUpTo(answer)[0] = 0
           /\ \A k \in 1..n : ShotsUpTo(answer)[k] = ShotsUpTo(answer)[k - 1] + answer[k].shots
  <1> DEFINE f == [k \in 1..n |-> answer[k].shots]
             Solves(g) == g = [k \in 0..n |-> IF k = 0 THEN 0 ELSE g[k - 1] + answer[k].shots]
  <1>1. Len(answer) = n
    OBVIOUS
  <1>2. f \in [1..n -> Nat]
    BY DEF ChildType
  <1>3. PICK g \in [0..n -> Nat] : g = [k \in 0..n |-> IF k = 0 THEN 0 ELSE g[k - 1] + f[k]]
    BY <1>2, TotalExists
  <1>4. \A k \in 0..n : k # 0 => f[k] = answer[k].shots
    OBVIOUS
  <1>5. Solves(g)
    BY <1>3, <1>4
  <1> DEFINE total == ShotsUpTo(answer)
  <1>6. total = CHOOSE h : Solves(h)
    BY <1>1 DEF ShotsUpTo
  <1> HIDE DEF Solves
  <1>7. Solves(total)
    BY <1>5, <1>6
  <1> HIDE DEF total
  <1>8. /\ total[0] = 0 /\ \A k \in 1..n : total[k] = total[k - 1] + answer[k].shots
        /\ total = [k \in 0..n |-> total[k]]
    <2>1. total = [k \in 0..n |-> IF k = 0 THEN 0 ELSE total[k - 1] + answer[k].shots]
      BY <1>7 DEF Solves
    <2>2. 0 \in 0..n /\ \A k \in 1..n : k \in 0..n /\ k # 0
      OBVIOUS
    <2> QED BY <2>1, <2>2
  <1> DEFINE S == {k \in 0..n : total[k] \in Nat}
  <1>9. 0 \in S
    BY <1>8
  <1>10. \A k \in 1..n : k - 1 \in S => k \in S
    <2> SUFFICES ASSUME NEW k \in 1..n, total[k - 1] \in Nat PROVE total[k] \in Nat
      OBVIOUS
    <2>1. answer[k].shots \in Nat
      BY DEF ChildType
    <2>2. total[k] = total[k - 1] + answer[k].shots
      BY <1>8
    <2> QED BY <2>1, <2>2
  <1> HIDE DEF S
  <1>11. 0..n \subseteq S
    BY <1>9, <1>10, InductionUpTo, Zenon
  <1>12. total \in [0..n -> Nat]
    BY <1>8, <1>11 DEF S
  <1> QED BY <1>8, <1>12 DEF total

----------------------------------------------------------------------------
(* The plan *)

\* Quotient and remainder of natural numbers.
LEMMA DivMod ==
    ASSUME NEW a \in Nat, NEW d \in Nat, d > 0
    PROVE  \E q \in Nat, r \in 0..(d - 1) : q = a \div d /\ r = a % d /\ a = d * q + r
  <1>1. a \div d \in Nat /\ a % d \in 0..(d - 1)
    OBVIOUS
  <1> PICK q \in Nat : q = a \div d
    BY <1>1
  <1> PICK r \in 0..(d - 1) : r = a % d
    BY <1>1
  <1>2. a = d * q + r
    OBVIOUS
  <1> QED BY <1>2

\* CeilDiv is the least number of slices that can carry a request.
LEMMA CeilDivLeast ==
    ASSUME NEW a \in Nat, a > 0, NEW d \in Nat, d > 0
    PROVE  /\ CeilDiv(a, d) \in 1..a
           /\ CeilDiv(a, d) * d >= a
           /\ (CeilDiv(a, d) - 1) * d < a
  <1>1. PICK q \in Nat, r \in 0..(d - 1) : q = a \div d /\ r = a % d /\ a = d * q + r
    BY DivMod
  <1>2. CASE r = 0
    <2>1. CeilDiv(a, d) = q
      BY <1>1, <1>2 DEF CeilDiv
    <2>2. q * d = a /\ (q - 1) * d = q * d - d
      BY <1>1, <1>2
    <2>3. q > 0 /\ q <= q * d
      BY <1>1, <1>2
    <2> QED BY <2>1, <2>2, <2>3
  <1>3. CASE r # 0
    <2>1. CeilDiv(a, d) = q + 1
      BY <1>1, <1>3 DEF CeilDiv
    <2>2. (q + 1) * d = q * d + d /\ q * d + r = a
      BY <1>1
    <2>3. q <= q * d /\ (q + 1) - 1 = q /\ q * d \in Nat
      OBVIOUS
    <2> QED BY <1>3, <2>1, <2>2, <2>3
  <1> QED BY <1>2, <1>3

\* What compute_split_config says of a request.
LEMMA PlanOf ==
    ASSUME config \in Configs, qpuMax \in QpuLimits, requested \in Requests
    PROVE  \E slice \in Nat :
              /\ slice = 0 <=> (config.max_shots = 0 /\ qpuMax = 0)
              /\ \A limit \in {qpuMax, config.max_shots} \ {0} : slice <= limit
              /\ Plan.kind = "whole" => slice = 0 \/ requested <= slice
              /\ Plan.kind = "split" =>
                    /\ slice > 0 /\ Plan.slice_shots = slice
                    /\ requested > 0 /\ Plan.slice_count = CeilDiv(requested, slice)
                    /\ config.max_children # 0 => Plan.slice_count <= config.max_children
  <1>1. /\ config.max_shots \in Nat /\ config.shot_threshold \in Nat
        /\ config.max_children \in Nat /\ qpuMax \in Nat /\ requested \in Nat
    BY ChildValidationAssumption DEF SplitConfigType
  <1> DEFINE slice == MinNonzero(config.max_shots, qpuMax)
             threshold == IF config.shot_threshold \in 1..slice
                          THEN config.shot_threshold ELSE slice
             count == CeilDiv(requested, slice)
  <1>2. Plan = IF slice = 0 \/ requested <= threshold THEN Whole
               ELSE IF (config.max_children # 0 /\ count > config.max_children) \/ ~TRUE
               THEN Unsupported
               ELSE [kind |-> "split", slice_shots |-> slice, slice_count |-> count]
    BY DEF Plan, ComputeSplitConfig
  <1>3. /\ slice \in Nat
        /\ slice = 0 <=> (config.max_shots = 0 /\ qpuMax = 0)
    BY <1>1 DEF MinNonzero
  <1>4. \A limit \in {qpuMax, config.max_shots} \ {0} : slice <= limit
    BY <1>1 DEF MinNonzero
  <1> HIDE DEF slice
  <1>5. threshold \in Nat /\ threshold <= slice
    BY <1>1, <1>3
  <1>6. slice # 0 /\ slice > 0 => CeilDiv(requested, slice) \in Int
    BY <1>1, <1>3 DEF CeilDiv
  <1> HIDE DEF threshold, count
  <1>7. Plan.kind = "whole" => slice = 0 \/ requested <= slice
    BY <1>1, <1>2, <1>3, <1>5 DEF Unsupported
  <1>8. ASSUME Plan.kind = "split"
        PROVE  /\ slice > 0 /\ Plan.slice_shots = slice
               /\ requested > 0 /\ Plan.slice_count = CeilDiv(requested, slice)
               /\ config.max_children # 0 => Plan.slice_count <= config.max_children
    <2>1. /\ slice # 0 /\ ~(requested <= threshold)
          /\ ~(config.max_children # 0 /\ count > config.max_children)
          /\ Plan = [kind |-> "split", slice_shots |-> slice, slice_count |-> count]
      BY <1>2, <1>8 DEF Whole, Unsupported
    <2>2. slice > 0 /\ requested > 0
      BY <1>1, <1>3, <1>5, <2>1
    <2>3. count \in Int
      BY <1>6, <2>2 DEF count
    <2> QED BY <1>1, <2>1, <2>2, <2>3 DEF count
  <1> QED BY <1>3, <1>4, <1>7, <1>8

\* A request that is split gets a number of slices the callback can be asked for.
LEMMA SplitSize ==
    ASSUME config \in Configs, qpuMax \in QpuLimits, requested \in Requests,
           Plan.kind = "split"
    PROVE  /\ Plan.slice_count \in 1..(Word - 1) /\ Plan.slice_count \in Nat
           /\ Plan.slice_shots \in Nat
  <1>1. PICK slice \in Nat : /\ slice > 0 /\ Plan.slice_shots = slice
                             /\ requested > 0 /\ Plan.slice_count = CeilDiv(requested, slice)
    BY PlanOf
  <1>2. requested \in Nat /\ requested <= Word - 1 /\ Word \in Nat
    BY ChildValidationAssumption
  <1>3. Plan.slice_count \in 1..requested
    BY <1>1, <1>2, CeilDivLeast
  <1> QED BY <1>1, <1>2, <1>3

----------------------------------------------------------------------------
(* The loop *)

\* A child that passes the tests that look at nothing but itself.
Passes(c) ==
    /\ c.id \notin Present \cup {NoTask, Parent}
    /\ c.parent = Parent
    /\ c.slice_index \in 0..(Plan.slice_count - 1)
    /\ c.slice_count = Plan.slice_count
    /\ c.shots \in 1..Plan.slice_shots

\* What the loop knows of the children it has examined.
Examined ==
    /\ Plan.kind = "split"
    /\ children \in [1..Plan.slice_count -> ChildType]
    /\ i \in 0..Plan.slice_count
    /\ seen = {children[k].id : k \in 1..i}
    /\ seen_slices = {children[k].slice_index : k \in 1..i}
    /\ \A k \in 1..i : Passes(children[k])
    /\ \A j, k \in 1..i : j # k => /\ children[j].id # children[k].id
                                   /\ children[j].slice_index # children[k].slice_index
    /\ total_shots = ShotsUpTo(children)[i]

Valid == ValidChildTasks(Parent, children, Plan, requested, Present)

LoopInv ==
    /\ config \in Configs /\ qpuMax \in QpuLimits /\ requested \in Requests
    /\ rc \in {"plan", "running", "OK", "INVALID_ARG"}
    /\ total_shots \in 0..requested
    /\ rc = "plan" => i = 0 /\ seen = {} /\ seen_slices = {} /\ total_shots = 0
    /\ rc # "plan" => Examined
    /\ rc = "OK" => i = Plan.slice_count /\ total_shots = requested
    /\ rc = "INVALID_ARG" => ~Valid

\* The loop begins with nothing examined.
LEMMA LoopInvInit == Init => LoopInv
  BY ChildValidationAssumption DEF Init, LoopInv

\* The remainder is exact as long as the total does not exceed the request.
LEMMA RemainderExact ==
    ASSUME LoopInv
    PROVE  /\ requested \in Nat /\ total_shots \in Nat
           /\ (requested - total_shots) % Word = requested - total_shots
           /\ \A shots \in 0..(requested - total_shots) :
                 (total_shots + shots) % Word = total_shots + shots
  <1>1. /\ Word \in Nat /\ requested \in 0..(Word - 1) /\ total_shots \in 0..requested
    BY ChildValidationAssumption DEF LoopInv
  <1>2. \A x \in 0..(Word - 1) : x % Word = x
    BY <1>1
  <1>3. requested - total_shots \in 0..(Word - 1)
    BY <1>1
  <1>4. \A shots \in 0..(requested - total_shots) : total_shots + shots \in 0..(Word - 1)
    BY <1>1
  <1> QED BY <1>1, <1>2, <1>3, <1>4

\* The totals do not fall: more children, more shots.
LEMMA TotalsRise ==
    ASSUME NEW n \in Nat, NEW answer \in [1..n -> ChildType], NEW k \in 0..n
    PROVE  ShotsUpTo(answer)[k] <= ShotsUpTo(answer)[n]
  <1> DEFINE total == ShotsUpTo(answer)
             S == {m \in 0..n : k <= m => total[k] <= total[m]}
  <1>1. /\ total \in [0..n -> Nat] /\ total[0] = 0
        /\ \A m \in 1..n : total[m] = total[m - 1] + answer[m].shots
    BY ShotsUpToAdds
  <1> HIDE DEF total
  <1>2. 0 \in S
    BY <1>1
  <1>3. \A m \in 1..n : m - 1 \in S => m \in S
    <2> SUFFICES ASSUME NEW m \in 1..n, k <= m - 1 => total[k] <= total[m - 1]
                 PROVE  k <= m => total[k] <= total[m]
      OBVIOUS
    <2>1. answer[m].shots \in Nat
      BY DEF ChildType
    <2>2. m \in 0..n /\ m - 1 \in 0..n /\ k \in 0..n
      OBVIOUS
    <2>3. total[m - 1] \in Nat /\ total[k] \in Nat /\ total[m] \in Nat
      BY <1>1, <2>2
    <2>4. /\ answer[m].shots \in Nat /\ total[m] = total[m - 1] + answer[m].shots
          /\ total[m - 1] \in Nat /\ total[k] \in Nat /\ total[m] \in Nat
      BY <1>1, <2>1, <2>3
    <2>5. CASE k = m
      BY <2>4, <2>5
    <2>6. CASE k # m
      BY <2>4, <2>6
    <2> QED BY <2>5, <2>6
  <1> HIDE DEF S
  <1>4. 0..n \subseteq S
    BY <1>2, <1>3, InductionUpTo, Zenon
  <1>5. n \in S
    BY <1>4
  <1>6. total[k] <= total[n]
    BY <1>5 DEF S
  <1> QED BY <1>6 DEF total

\* A child is acceptable when it passes, is new, and its shots are left over.
LEMMA AcceptableMeans ==
    ASSUME LoopInv, Examined, NEW c \in ChildType
    PROVE  Acceptable(c) <=> /\ Passes(c)
                             /\ c.id \notin seen /\ c.slice_index \notin seen_slices
                             /\ total_shots + c.shots <= requested
  <1>1. c.slice_index \in Nat /\ c.slice_count \in Nat /\ c.shots \in Nat
    BY DEF ChildType
  <1>2. Plan.slice_count \in Nat /\ Plan.slice_shots \in Nat
    BY SplitSize DEF LoopInv, Examined
  <1>3. requested \in Nat /\ total_shots \in Nat
        /\ (requested - total_shots) % Word = requested - total_shots
    BY RemainderExact
  <1>4. c.shots <= requested - total_shots <=> total_shots + c.shots <= requested
    BY <1>1, <1>3
  <1>5. c.slice_index < Plan.slice_count <=> c.slice_index \in 0..(Plan.slice_count - 1)
    BY <1>1, <1>2
  <1>6. c.shots # 0 /\ c.shots <= Plan.slice_shots <=> c.shots \in 1..Plan.slice_shots
    BY <1>1, <1>2
  <1> QED BY <1>3, <1>4, <1>5, <1>6 DEF Acceptable, Passes

\* A set of values grows by one when one more child is examined.
LEMMA OneMore ==
    ASSUME NEW m \in Nat
    PROVE  1..(m + 1) = (1..m) \cup {m + 1}
  OBVIOUS

\* A round of the loop examines one child more.
LEMMA LoopInvStep == LoopInv /\ [Next]_vars => LoopInv'
  <1> SUFFICES ASSUME LoopInv, [Next]_vars PROVE LoopInv'
    OBVIOUS
  <1>1. CASE CallbackAnswers
    <2>1. /\ rc = "plan" /\ rc' = "running" /\ Plan.kind = "split"
          /\ UNCHANGED <<config, qpuMax, requested, i, seen, seen_slices, total_shots>>
      BY <1>1 DEF CallbackAnswers
    <2>2. children' \in Answers(Plan.slice_count)
      BY <1>1 DEF CallbackAnswers
    <2>3. Plan.slice_count \in 1..(Word - 1) /\ Plan.slice_count \in Nat
      BY <2>1, SplitSize DEF LoopInv
    <2>4. children' \in [1..Plan.slice_count -> ChildType]
      BY <2>2, <2>3, ChildValidationAssumption
    <2>5. Plan' = Plan
      BY <2>1 DEF Plan
    <2>6. i' = 0 /\ seen' = {} /\ seen_slices' = {} /\ total_shots' = 0 /\ 1..0 = {}
      BY <2>1 DEF LoopInv
    <2>7. ShotsUpTo(children')[0] = 0
      BY <2>3, <2>4, ShotsUpToAdds
    <2>8. i' \in 0..Plan.slice_count
      BY <2>3, <2>6
    <2>9. Examined'
      BY <2>1, <2>4, <2>5, <2>6, <2>7, <2>8 DEF Examined
    <2> QED BY <2>1, <2>9 DEF LoopInv
  <1>2. CASE AcceptChild
    <2> DEFINE c == children[i + 1]
    <2>1. /\ rc = "running" /\ rc' = rc /\ i < Len(children) /\ i' = i + 1
          /\ UNCHANGED <<config, qpuMax, requested, children>>
          /\ Acceptable(c) /\ seen_slices' = seen_slices \cup {c.slice_index}
          /\ seen' = seen \cup {c.id} /\ total_shots' = (total_shots + c.shots) % Word
      BY <1>2 DEF AcceptChild
    <2>2. Examined /\ Plan' = Plan
      BY <2>1 DEF LoopInv, Plan
    <2>3. Plan.slice_count \in Nat
      BY <2>2, SplitSize DEF LoopInv, Examined
    <2>4. Len(children) = Plan.slice_count /\ children \in [1..Plan.slice_count -> ChildType]
          /\ i \in Nat
      BY <2>2, <2>3 DEF Examined
    <2>5. i + 1 \in 1..Plan.slice_count /\ c \in ChildType
      BY <2>1, <2>3, <2>4
    <2>6. /\ Passes(c) /\ c.id \notin seen /\ c.slice_index \notin seen_slices
          /\ total_shots + c.shots <= requested
      BY <2>1, <2>2, <2>5, AcceptableMeans
    <2>7. total_shots' = total_shots + c.shots /\ total_shots' \in 0..requested
      <3>1. requested \in Nat /\ total_shots \in Nat /\ c.shots \in Nat
        BY <2>5, RemainderExact DEF ChildType
      <3>2. c.shots \in 0..(requested - total_shots)
        BY <2>6, <3>1
      <3>3. (total_shots + c.shots) % Word = total_shots + c.shots
        BY <3>2, RemainderExact
      <3> QED BY <2>1, <2>6, <3>1, <3>3
    <2>8. 1..(i + 1) = (1..i) \cup {i + 1} /\ i + 1 \notin 1..i
      BY <2>4, OneMore
    <2>9. seen = {children[k].id : k \in 1..i}
          /\ seen_slices = {children[k].slice_index : k \in 1..i}
          /\ (\A k \in 1..i : Passes(children[k]))
          /\ (\A j, k \in 1..i : j # k => /\ children[j].id # children[k].id
                                         /\ children[j].slice_index # children[k].slice_index)
          /\ total_shots = ShotsUpTo(children)[i]
      BY <2>2 DEF Examined
    <2>10. seen' = {children[k].id : k \in 1..(i + 1)}
           /\ seen_slices' = {children[k].slice_index : k \in 1..(i + 1)}
      BY <2>1, <2>8, <2>9
    <2>11. \A k \in 1..(i + 1) : Passes(children[k])
      BY <2>6, <2>8, <2>9
    <2>12. \A j, k \in 1..(i + 1) : j # k => /\ children[j].id # children[k].id
                                            /\ children[j].slice_index # children[k].slice_index
      BY <2>6, <2>8, <2>9
    <2>13. total_shots' = ShotsUpTo(children)[i + 1]
      <3>1. ShotsUpTo(children)[i + 1] = ShotsUpTo(children)[(i + 1) - 1] + c.shots
        BY <2>3, <2>4, <2>5, ShotsUpToAdds
      <3>2. (i + 1) - 1 = i
        BY <2>4
      <3> QED BY <2>7, <2>9, <3>1, <3>2
    <2>14. i + 1 \in 0..Plan.slice_count
      BY <2>3, <2>4, <2>5
    <2>15. Examined'
      <3>1. \A k \in 1..(i + 1) : Passes(children[k])'
        BY <2>1, <2>2, <2>11 DEF Passes
      <3> QED BY <2>1, <2>2, <2>4, <2>10, <2>12, <2>13, <2>14, <3>1 DEF Examined
    <2> QED BY <2>1, <2>7, <2>15 DEF LoopInv
  <1>3. CASE RejectChild
    <2>1. /\ rc = "running" /\ rc' = "INVALID_ARG" /\ i < Len(children)
          /\ ~Acceptable(children[i + 1])
          /\ UNCHANGED <<config, qpuMax, requested, children, i, seen, seen_slices, total_shots>>
      BY <1>3 DEF RejectChild
    <2>2. Examined /\ Plan' = Plan
      BY <2>1 DEF LoopInv, Plan
    <2>3. Plan.slice_count \in Nat
      BY <2>2, SplitSize DEF LoopInv, Examined
    <2>4. Len(children) = Plan.slice_count /\ children \in [1..Plan.slice_count -> ChildType]
          /\ i \in Nat
      BY <2>2, <2>3 DEF Examined
    <2> DEFINE c == children[i + 1]
    <2>5. i + 1 \in 1..Plan.slice_count /\ c \in ChildType
      BY <2>1, <2>3, <2>4
    <2>6. ASSUME Valid PROVE FALSE
      <3>1. Passes(c)
        BY <2>5, <2>6 DEF Valid, ValidChildTasks, Passes
      <3>2. c.id \notin seen /\ c.slice_index \notin seen_slices
        <4>1. \A k \in 1..i : k \in 1..Plan.slice_count /\ k # i + 1
          BY <2>3, <2>4, <2>5
        <4>2. \A j, k \in 1..Plan.slice_count :
                 j # k => /\ children[j].id # children[k].id
                          /\ children[j].slice_index # children[k].slice_index
          BY <2>6, Zenon DEF Valid, ValidChildTasks
        <4> QED BY <2>2, <2>5, <4>1, <4>2 DEF Examined
      <3>3. total_shots + c.shots <= requested
        <4>1. ShotsUpTo(children)[Plan.slice_count] = requested
          BY <2>6 DEF Valid, ValidChildTasks
        <4>2. ShotsUpTo(children)[i + 1] = ShotsUpTo(children)[(i + 1) - 1] + c.shots
          BY <2>3, <2>4, <2>5, ShotsUpToAdds
        <4>3. (i + 1) - 1 = i /\ i + 1 \in 0..Plan.slice_count
          BY <2>3, <2>4, <2>5
        <4>4. ShotsUpTo(children)[i + 1] <= ShotsUpTo(children)[Plan.slice_count]
          BY <2>3, <2>4, <4>3, TotalsRise
        <4>5. total_shots = ShotsUpTo(children)[i]
          BY <2>2 DEF Examined
        <4> QED BY <4>1, <4>2, <4>3, <4>4, <4>5
      <3> QED BY <2>1, <2>2, <2>5, <3>1, <3>2, <3>3, AcceptableMeans
    <2>7. Examined' /\ ~Valid'
      <3>1. Valid' <=> Valid
        BY <2>1, <2>2 DEF Valid
      <3>2. \A k \in 1..i : Passes(children[k])'
        BY <2>1, <2>2 DEF Examined, Passes
      <3>3. Examined'
        BY <2>1, <2>2, <3>2 DEF Examined
      <3> QED BY <2>6, <3>1, <3>3
    <2> QED BY <2>1, <2>7 DEF LoopInv
  <1>4. CASE Finish
    <2>1. /\ rc = "running" /\ i = Len(children)
          /\ rc' = IF total_shots = requested THEN "OK" ELSE "INVALID_ARG"
          /\ UNCHANGED <<config, qpuMax, requested, children, i, seen, seen_slices, total_shots>>
      BY <1>4 DEF Finish
    <2>2. Examined /\ Plan' = Plan
      BY <2>1 DEF LoopInv, Plan
    <2>3. Plan.slice_count \in Nat
      BY <2>2, SplitSize DEF LoopInv, Examined
    <2>4. i = Plan.slice_count
      BY <2>1, <2>2, <2>3 DEF Examined
    <2>5. Examined' /\ (Valid' <=> Valid)
      <3>1. \A k \in 1..i : Passes(children[k])'
        BY <2>1, <2>2 DEF Examined, Passes
      <3> QED BY <2>1, <2>2, <3>1 DEF Examined, Valid
    <2>6. Valid => total_shots = requested
      BY <2>2, <2>4 DEF Valid, ValidChildTasks, Examined
    <2>7. CASE total_shots = requested
      BY <2>1, <2>2, <2>4, <2>5, <2>7 DEF LoopInv
    <2>8. CASE total_shots # requested
      BY <2>1, <2>2, <2>5, <2>6, <2>8 DEF LoopInv
    <2> QED BY <2>7, <2>8
  <1>5. CASE UNCHANGED vars
    <2>1. Plan' = Plan /\ (Examined' <=> Examined) /\ (Valid' <=> Valid)
      BY <1>5 DEF vars, Plan, Examined, Passes, Valid
    <2> QED BY <1>5, <2>1 DEF LoopInv, vars
  <1> QED BY <1>1, <1>2, <1>3, <1>4, <1>5 DEF Next

\* What the loop has established holds in every state.
LEMMA LoopInvHolds == Spec => []LoopInv
  BY LoopInvInit, LoopInvStep, PTL DEF Spec

----------------------------------------------------------------------------
(* The results *)

\* The remainder of validate_child_tasks does not wrap around, for any width of
\* the word and any answer of the callback.
THEOREM RemainderNeverWrapsHolds == Spec => []RemainderNeverWraps
  <1>1. LoopInv => RemainderNeverWraps
    BY ChildValidationAssumption DEF LoopInv, RemainderNeverWraps
  <1> QED BY <1>1, LoopInvHolds, PTL

\* The loop of validate_child_tasks accepts exactly the answers that are valid by
\* the declarative definition the scheduler's model uses.
THEOREM LoopDecidesValidityHolds == Spec => []LoopDecidesValidity
  <1>1. LoopInv => LoopDecidesValidity
    <2> SUFFICES ASSUME LoopInv, rc \in {"OK", "INVALID_ARG"}
                 PROVE  (rc = "OK") <=> ValidChildTasks(Parent, children, Plan, requested, Present)
      BY DEF LoopDecidesValidity
    <2>1. CASE rc = "INVALID_ARG"
      <3>1. ~ValidChildTasks(Parent, children, Plan, requested, Present)
        BY <2>1 DEF LoopInv, Valid
      <3>2. rc # "OK"
        BY <2>1
      <3> QED BY <3>1, <3>2
    <2>2. CASE rc = "OK"
      <3>1. Examined /\ i = Plan.slice_count /\ total_shots = requested
        BY <2>2 DEF LoopInv
      <3>2. Plan.slice_count \in Nat
        BY <3>1, SplitSize DEF LoopInv, Examined
      <3>3. Len(children) = Plan.slice_count
        BY <3>1, <3>2 DEF Examined
      <3>4. Valid
        BY <3>1, <3>3 DEF Valid, ValidChildTasks, Examined, Passes
      <3> QED BY <2>2, <3>4, Zenon DEF Valid
    <2> QED BY <2>1, <2>2
  <1> QED BY <1>1, LoopInvHolds, PTL

\* What is let through fits the device and the policy.
THEOREM AdmittedWorkFitsLimitsHolds == Spec => []AdmittedWorkFitsLimits
  <1>1. LoopInv => AdmittedWorkFitsLimits
    <2> SUFFICES ASSUME LoopInv PROVE AdmittedWorkFitsLimits
      OBVIOUS
    <2>1. PICK slice \in Nat :
             /\ slice = 0 <=> (config.max_shots = 0 /\ qpuMax = 0)
             /\ \A limit \in {qpuMax, config.max_shots} \ {0} : slice <= limit
             /\ Plan.kind = "whole" => slice = 0 \/ requested <= slice
             /\ Plan.kind = "split" => Plan.slice_shots = slice
      BY PlanOf DEF LoopInv
    <2>2. requested \in Nat /\ qpuMax \in Nat /\ config.max_shots \in Nat
      BY ChildValidationAssumption DEF LoopInv, SplitConfigType
    <2>3. ASSUME Plan.kind = "whole", NEW limit \in {qpuMax, config.max_shots} \ {0}
          PROVE  requested <= limit
      BY <2>1, <2>2, <2>3
    <2>4. ASSUME rc = "OK", NEW k \in DOMAIN children,
                 NEW limit \in {qpuMax, config.max_shots} \ {0}
          PROVE  children[k].shots <= limit
      <3>1. Examined /\ i = Plan.slice_count
        BY <2>4 DEF LoopInv
      <3>2. DOMAIN children = 1..i /\ Plan.kind = "split"
        BY <3>1 DEF Examined
      <3>3. Passes(children[k])
        BY <3>1, <3>2 DEF Examined
      <3>4. children[k].shots \in 1..slice /\ slice <= limit
        BY <2>1, <3>2, <3>3 DEF Passes
      <3> QED BY <2>2, <3>4
    <2> QED BY <2>3, <2>4 DEF AdmittedWorkFitsLimits
  <1> QED BY <1>1, LoopInvHolds, PTL

\* compute_split_config asks for the least number of slices that will do.
THEOREM PlanIsLeastHolds == Spec => []PlanIsLeast
  <1>1. LoopInv => PlanIsLeast
    <2> SUFFICES ASSUME LoopInv, Plan.kind = "split"
                 PROVE  /\ Plan.slice_count * Plan.slice_shots >= requested
                        /\ (Plan.slice_count - 1) * Plan.slice_shots < requested
                        /\ config.max_children # 0 => Plan.slice_count <= config.max_children
      BY DEF PlanIsLeast
    <2>1. PICK slice \in Nat :
             /\ slice > 0 /\ Plan.slice_shots = slice
             /\ requested > 0 /\ Plan.slice_count = CeilDiv(requested, slice)
             /\ config.max_children # 0 => Plan.slice_count <= config.max_children
      BY PlanOf DEF LoopInv
    <2>2. requested \in Nat
      BY ChildValidationAssumption DEF LoopInv
    <2> QED BY <2>1, <2>2, CeilDivLeast
  <1> QED BY <1>1, LoopInvHolds, PTL
=============================================================================

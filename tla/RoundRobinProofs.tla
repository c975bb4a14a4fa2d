-------------------------- MODULE RoundRobinProofs -------------------------
(***************************************************************************)
(* Theorems about the round_robin policy, for any number of tasks and      *)
(* groups: its lists, counters and maps agree, no group is passed over     *)
(* twice, and it keeps the contract of a policy.                           *)
(***************************************************************************)
EXTENDS RoundRobin, SequenceTheorems, TLAPS

(* Lists without duplicates *)

\* Putting a new element at the end.
LEMMA PushBack ==
    ASSUME NEW S, NEW q \in Seq(S), IsInjective(q), NEW x \in S, x \notin ToSet(q)
    PROVE  /\ Append(q, x) \in Seq(S) /\ IsInjective(Append(q, x))
           /\ ToSet(Append(q, x)) = ToSet(q) \cup {x}
           /\ Len(Append(q, x)) = Len(q) + 1
           /\ \A i \in 1..Len(q) : Append(q, x)[i] = q[i]
           /\ Append(q, x)[Len(q) + 1] = x
  <1> DEFINE p == Append(q, x)
  <1>1. /\ p \in Seq(S) /\ Len(p) = Len(q) + 1
        /\ \A i \in 1..Len(q) : p[i] = q[i]
        /\ p[Len(q) + 1] = x
    BY AppendProperties
  <1>2. Len(q) \in Nat /\ DOMAIN q = 1..Len(q) /\ DOMAIN p = 1..(Len(q) + 1)
    BY <1>1, LenProperties
  <1> HIDE DEF p
  <1>3. \A i \in 1..(Len(q) + 1) : i \in 1..Len(q) \/ i = Len(q) + 1
    BY <1>2
  <1>4. ToSet(p) = ToSet(q) \cup {x}
    <2>1. \A i \in 1..Len(q) : i \in 1..(Len(q) + 1)
      BY <1>2
    <2>2. Len(q) + 1 \in 1..(Len(q) + 1)
      BY <1>2
    <2> QED BY <1>1, <1>2, <1>3, <2>1, <2>2 DEF ToSet
  <1>5. IsInjective(p)
    BY <1>1, <1>2, <1>3 DEF ToSet, IsInjective
  <1> QED BY <1>1, <1>4, <1>5 DEF p

\* Taking the first element.
LEMMA PopFront ==
    ASSUME NEW S, NEW q \in Seq(S), IsInjective(q), q # <<>>
    PROVE  /\ Head(q) \in S /\ Head(q) \in ToSet(q) /\ Head(q) = q[1]
           /\ Tail(q) \in Seq(S) /\ IsInjective(Tail(q))
           /\ ToSet(Tail(q)) = ToSet(q) \ {Head(q)}
           /\ Len(Tail(q)) = Len(q) - 1 /\ Len(q) \in Nat /\ Len(q) > 0
           /\ \A i \in 1..(Len(q) - 1) : Tail(q)[i] = q[i + 1]
  <1> DEFINE p == Tail(q)
  <1>1. /\ Head(q) \in S /\ p \in Seq(S) /\ Len(p) = Len(q) - 1
        /\ \A i \in 1..Len(p) : p[i] = q[i + 1]
    BY HeadTailProperties
  <1>2. /\ Len(q) \in Nat /\ Len(q) > 0 /\ DOMAIN q = 1..Len(q) /\ DOMAIN p = 1..(Len(q) - 1)
        /\ Head(q) = q[1]
    BY <1>1, LenProperties, EmptySeq
  <1> HIDE DEF p
  <1>3. \A i \in 1..Len(q) : i = 1 \/ (i - 1 \in 1..(Len(q) - 1) /\ (i - 1) + 1 = i)
    BY <1>2
  <1>4. \A i \in 1..(Len(q) - 1) : i + 1 \in 1..Len(q) /\ i + 1 # 1
    BY <1>2
  <1>5. IsInjective(p)
    <2> SUFFICES ASSUME NEW i \in 1..(Len(q) - 1), NEW j \in 1..(Len(q) - 1), p[i] = p[j]
                 PROVE  i = j
      BY <1>2 DEF IsInjective
    <2>1. q[i + 1] = q[j + 1] /\ i + 1 \in DOMAIN q /\ j + 1 \in DOMAIN q
      BY <1>1, <1>2, <1>4
    <2>2. i + 1 = j + 1
      BY <2>1 DEF IsInjective
    <2> QED BY <2>2
  <1>6. 1 \in 1..Len(q)
    BY <1>2
  <1>7. ToSet(p) = ToSet(q) \ {q[1]}
    <2>1. ASSUME NEW y \in ToSet(p) PROVE y \in ToSet(q) \ {q[1]}
      <3>1. PICK i \in 1..(Len(q) - 1) : y = p[i]
        BY <1>2, <2>1 DEF ToSet
      <3>2. y = q[i + 1] /\ i + 1 \in 1..Len(q) /\ i + 1 # 1
        BY <1>1, <1>4, <3>1
      <3> QED BY <1>2, <1>6, <3>2 DEF ToSet, IsInjective
    <2>2. ASSUME NEW y \in ToSet(q) \ {q[1]} PROVE y \in ToSet(p)
      <3>1. PICK i \in 1..Len(q) : y = q[i]
        BY <1>2, <2>2 DEF ToSet
      <3>2. i # 1
        BY <2>2, <3>1
      <3>3. i - 1 \in 1..(Len(q) - 1) /\ p[i - 1] = y
        BY <1>1, <1>3, <3>1, <3>2
      <3> QED BY <1>2, <3>3 DEF ToSet
    <2> QED BY <2>1, <2>2
  <1> QED BY <1>1, <1>2, <1>5, <1>6, <1>7 DEF p, ToSet

\* Taking an element out of the middle moves up those behind it.
LEMMA TakeOut ==
    ASSUME NEW S, NEW q \in Seq(S), IsInjective(q), NEW x \in ToSet(q)
    PROVE  \E k \in 1..Len(q) :
              /\ q[k] = x
              /\ Unlink(q, x) \in Seq(S) /\ IsInjective(Unlink(q, x))
              /\ ToSet(Unlink(q, x)) = ToSet(q) \ {x}
              /\ Len(Unlink(q, x)) = Len(q) - 1 /\ Len(q) \in Nat /\ Len(q) > 0
              /\ \A i \in 1..(Len(q) - 1) :
                    Unlink(q, x)[i] = IF i < k THEN q[i] ELSE q[i + 1]
  <1>0. Len(q) \in Nat /\ DOMAIN q = 1..Len(q)
    BY LenProperties
  <1>1. PICK k \in 1..Len(q) : q[k] = x /\ Unlink(q, x) = RemoveAt(q, k)
    <2>1. \E k \in DOMAIN q : q[k] = x
      BY DEF ToSet
    <2> DEFINE k == CHOOSE k \in DOMAIN q : q[k] = x
    <2>2. k \in DOMAIN q /\ q[k] = x
      BY <2>1
    <2> QED BY <1>0, <2>2 DEF Unlink
  <1> DEFINE a == SubSeq(q, 1, k - 1)
             b == SubSeq(q, k + 1, Len(q))
             p == a \o b
  <1>2. Unlink(q, x) = p
    BY <1>1 DEF RemoveAt
  <1>3. a \in Seq(S) /\ Len(a) = k - 1 /\ \A i \in 1..(k - 1) : a[i] = q[i]
    BY <1>0, SubSeqProperties
  <1>4. b \in Seq(S) /\ Len(b) = Len(q) - k /\ \A i \in 1..(Len(q) - k) : b[i] = q[k + i]
    <2>1. \A i \in (k + 1)..Len(q) : q[i] \in S
      BY <1>0, ElementOfSeq
    <2>2. /\ b \in Seq(S)
          /\ Len(b) = IF k + 1 <= Len(q) THEN Len(q) - (k + 1) + 1 ELSE 0
          /\ \A i \in 1..(Len(q) - (k + 1) + 1) : b[i] = q[(k + 1) + i - 1]
      BY <1>0, <2>1, SubSeqProperties
    <2> HIDE DEF b
    <2>3. Len(b) = Len(q) - k
      <3>1. k \in Nat /\ k <= Len(q)
        BY <1>0
      <3>2. CASE k + 1 <= Len(q)
        BY <1>0, <2>2, <3>1, <3>2
      <3>3. CASE ~(k + 1 <= Len(q))
        <4>1. k = Len(q)
          <5>1. \A n, m \in Nat : m <= n /\ ~(m + 1 <= n) => m = n
            OBVIOUS
          <5> QED BY <1>0, <3>1, <3>3, <5>1
        <4>2. Len(b) = 0
          BY <2>2, <3>3
        <4> QED BY <1>0, <4>1, <4>2
      <3> QED BY <3>2, <3>3
    <2>4. \A i \in 1..(Len(q) - k) : i \in 1..(Len(q) - (k + 1) + 1) /\ (k + 1) + i - 1 = k + i
      BY <1>0
    <2> QED BY <2>2, <2>3, <2>4
  <1> HIDE DEF a, b
  <1>5. /\ p \in Seq(S) /\ Len(p) = Len(q) - 1
        /\ \A i \in 1..(Len(q) - 1) : p[i] = IF i < k THEN q[i] ELSE q[i + 1]
    <2>1. /\ p \in Seq(S) /\ Len(p) = Len(a) + Len(b)
          /\ \A i \in 1..(Len(a) + Len(b)) : p[i] = IF i <= Len(a) THEN a[i] ELSE b[i - Len(a)]
      BY <1>3, <1>4, ConcatProperties
    <2> HIDE DEF p
    <2>2. Len(a) + Len(b) = Len(q) - 1
      BY <1>0, <1>3, <1>4
    <2>3. ASSUME NEW i \in 1..(Len(q) - 1) PROVE p[i] = IF i < k THEN q[i] ELSE q[i + 1]
      <3>1. CASE i < k
        BY <1>0, <1>3, <2>1, <2>2, <3>1
      <3>2. CASE ~(i < k)
        <4>1. i - (k - 1) \in 1..(Len(q) - k) /\ k + (i - (k - 1)) = i + 1 /\ ~(i <= k - 1)
          BY <1>0, <3>2
        <4> QED BY <1>3, <1>4, <2>1, <2>2, <3>2, <4>1
      <3> QED BY <3>1, <3>2
    <2> QED BY <2>1, <2>2, <2>3
  <1> HIDE DEF p
  <1>6. DOMAIN p = 1..(Len(q) - 1)
    BY <1>5, LenProperties
  <1>7. \A i \in 1..(Len(q) - 1) : i \in 1..Len(q) /\ i + 1 \in 1..Len(q)
    BY <1>0
  <1>8. IsInjective(p)
    <2> SUFFICES ASSUME NEW i \in 1..(Len(q) - 1), NEW j \in 1..(Len(q) - 1), p[i] = p[j]
                 PROVE  i = j
      BY <1>6 DEF IsInjective
    <2>1. PICK m \in 1..Len(q) : m = (IF i < k THEN i ELSE i + 1) /\ p[i] = q[m]
      BY <1>5, <1>7
    <2>2. PICK n \in 1..Len(q) : n = (IF j < k THEN j ELSE j + 1) /\ p[j] = q[n]
      BY <1>5, <1>7
    <2>3. m = n
      BY <1>0, <2>1, <2>2 DEF IsInjective
    <2> QED BY <1>0, <2>1, <2>2, <2>3
  <1>9. ToSet(p) = ToSet(q) \ {x}
    <2>1. ASSUME NEW y \in ToSet(p) PROVE y \in ToSet(q) \ {x}
      <3>1. PICK i \in 1..(Len(q) - 1) : y = p[i]
        BY <1>6, <2>1 DEF ToSet
      <3>2. PICK m \in 1..Len(q) : m = (IF i < k THEN i ELSE i + 1) /\ p[i] = q[m]
        BY <1>5, <1>7
      <3>3. m # k
        BY <1>0, <3>2
      <3> QED BY <1>0, <1>1, <3>1, <3>2, <3>3 DEF ToSet, IsInjective
    <2>2. ASSUME NEW y \in ToSet(q) \ {x} PROVE y \in ToSet(p)
      <3>1. PICK m \in 1..Len(q) : y = q[m]
        BY <1>0, <2>2 DEF ToSet
      <3>2. m # k
        BY <1>1, <2>2, <3>1
      <3>3. PICK i \in 1..(Len(q) - 1) : i = IF m < k THEN m ELSE m - 1
        BY <1>0, <3>2
      <3>4. m = IF i < k THEN i ELSE i + 1
        BY <1>0, <3>2, <3>3
      <3>5. p[i] = y
        BY <1>5, <3>1, <3>3, <3>4
      <3> QED BY <1>6, <3>5 DEF ToSet
    <2> QED BY <2>1, <2>2
  <1>10. Len(q) > 0
    BY <1>0
  <1> QED BY <1>0, <1>1, <1>2, <1>5, <1>8, <1>9, <1>10

\* A list is empty exactly when it has no elements.
LEMMA EmptyList ==
    ASSUME NEW S, NEW q \in Seq(S)
    PROVE  /\ Len(q) \in Nat /\ (Len(q) > 0 <=> q # <<>>) /\ (q # <<>> <=> ToSet(q) # {})
           /\ ToSet(q) \subseteq S
  <1>1. Len(q) \in Nat /\ DOMAIN q = 1..Len(q) /\ (Len(q) = 0 <=> q = <<>>)
        /\ \A i \in 1..Len(q) : q[i] \in S
    BY LenProperties, EmptySeq, ElementOfSeq
  <1>2. Len(q) > 0 => 1 \in 1..Len(q)
    BY <1>1
  <1>3. Len(q) = 0 => 1..Len(q) = {}
    BY <1>1
  <1> QED BY <1>1, <1>2, <1>3 DEF ToSet

----------------------------------------------------------------------------
(* The lists, the counters and the maps *)

Types ==
    /\ tasks \in [TaskId -> GroupKey \cup {NoGroup}]
    /\ groups \subseteq GroupKey
    /\ ready \in [GroupKey -> Seq(TaskId)]
    /\ readyCount \in [GroupKey -> Nat]
    /\ active \in Seq(GroupKey)

ListInv == Types /\ ListsAgree

\* The key of a task is the key of a group.
LEMMA KeyOfTask ==
    ASSUME NEW t \in TaskId, NEW reservation \in Ids, NEW job \in Ids
    PROVE  GroupKeyFromTask(t, reservation, job) \in GroupKey
  <1>1. CASE reservation # 0
    BY <1>1 DEF GroupKeyFromTask, GroupKey
  <1>2. CASE reservation = 0 /\ job # 0
    BY <1>2 DEF GroupKeyFromTask, GroupKey
  <1>3. CASE reservation = 0 /\ job = 0
    BY <1>3 DEF GroupKeyFromTask, GroupKey
  <1> QED BY <1>1, <1>2, <1>3

\* A step that gives one group another list of tasks, and leaves the others alone.
LEMMA OneGroupChanges ==
    ASSUME ListInv, NEW g \in GroupKey, NEW q \in Seq(TaskId), IsInjective(q),
           tasks' \in [TaskId -> GroupKey \cup {NoGroup}],
           ToSet(q) = {u \in TaskId : tasks'[u] = g},
           \A h \in GroupKey \ {g}, u \in TaskId : tasks'[u] = h <=> tasks[u] = h,
           ready' = [ready EXCEPT ![g] = q],
           readyCount' = [readyCount EXCEPT ![g] = Len(q)],
           groups' = IF Len(q) > 0 THEN groups \cup {g} ELSE groups \ {g},
           active' \in Seq(GroupKey), IsInjective(active'), ToSet(active') = groups'
    PROVE  ListInv'
  <1>1. Len(q) \in Nat
    BY EmptyList
  <1>2. ready \in [GroupKey -> Seq(TaskId)] /\ readyCount \in [GroupKey -> Nat]
        /\ groups \subseteq GroupKey
    BY DEF ListInv, Types
  <1>3. /\ ready' \in [GroupKey -> Seq(TaskId)] /\ ready'[g] = q
        /\ \A h \in GroupKey \ {g} : ready'[h] = ready[h]
    BY <1>2
  <1>4. /\ readyCount' \in [GroupKey -> Nat] /\ readyCount'[g] = Len(q)
        /\ \A h \in GroupKey \ {g} : readyCount'[h] = readyCount[h]
    BY <1>1, <1>2
  <1>5. groups' \subseteq GroupKey /\ (g \in groups' <=> Len(q) > 0)
        /\ \A h \in GroupKey \ {g} : h \in groups' <=> h \in groups
    BY <1>2
  <1>6. Types'
    BY <1>3, <1>4, <1>5 DEF Types
  <1>7. ASSUME NEW h \in GroupKey
        PROVE  /\ readyCount'[h] = Len(ready'[h])
               /\ h \in groups' <=> readyCount'[h] > 0
               /\ IsInjective(ready'[h])
               /\ ToSet(ready'[h]) = {t \in TaskId : tasks'[t] = h}
    <2>1. CASE h = g
      BY <1>3, <1>4, <1>5, <2>1
    <2>2. CASE h # g
      <3>1. /\ readyCount[h] = Len(ready[h]) /\ (h \in groups <=> readyCount[h] > 0)
            /\ IsInjective(ready[h]) /\ ToSet(ready[h]) = {t \in TaskId : tasks[t] = h}
        BY DEF ListInv, ListsAgree
      <3>2. {t \in TaskId : tasks'[t] = h} = {t \in TaskId : tasks[t] = h}
        BY <2>2
      <3>3. h \in GroupKey \ {g}
        BY <2>2
      <3> QED BY <1>3, <1>4, <1>5, <3>1, <3>2, <3>3
    <2> QED BY <2>1, <2>2
  <1> QED BY <1>6, <1>7 DEF ListInv, ListsAgree

\* The policy begins with empty lists.
LEMMA ListInvInit == Init => ListInv
  <1> SUFFICES ASSUME Init PROVE ListInv
    OBVIOUS
  <1>1. <<>> \in Seq(TaskId) /\ <<>> \in Seq(GroupKey)
    BY EmptySeq
  <1>2. Types
    BY <1>1 DEF Init, Types
  <1>3. DOMAIN <<>> = {} /\ Len(<<>>) = 0
    OBVIOUS
  <1>4. ToSet(<<>>) = {} /\ IsInjective(<<>>)
    BY <1>3 DEF ToSet, IsInjective
  <1>5. \A g \in GroupKey : {t \in TaskId : tasks[t] = g} = {}
    BY RRAssumption DEF Init
  <1>6. ListsAgree
    BY <1>3, <1>4, <1>5 DEF Init, ListsAgree
  <1> QED BY <1>2, <1>6 DEF ListInv

\* rr_on_task_submit: the new lists.
LEMMA SubmitLists ==
    ASSUME ListInv, NEW t \in TaskId, NEW reservation \in Ids, NEW job \in Ids,
           OnTaskSubmit(t, reservation, job)
    PROVE  /\ ListInv'
           /\ active' = active \/ \E g \in GroupKey \ ToSet(active) : active' = Append(active, g)
  <1>1. PICK g \in GroupKey : g = GroupKeyFromTask(t, reservation, job)
    BY KeyOfTask
  <1>2. /\ tasks[t] = NoGroup /\ tasks' = [tasks EXCEPT ![t] = g] /\ groups' = groups \cup {g}
        /\ active' = IF readyCount[g] = 0 THEN Append(active, g) ELSE active
        /\ ready' = [ready EXCEPT ![g] = Append(@, t)]
        /\ readyCount' = [readyCount EXCEPT ![g] = @ + 1]
    BY <1>1 DEF OnTaskSubmit, GroupGet, Activate
  <1>3. /\ ready[g] \in Seq(TaskId) /\ IsInjective(ready[g]) /\ readyCount[g] = Len(ready[g])
        /\ ToSet(ready[g]) = {u \in TaskId : tasks[u] = g} /\ (g \in groups <=> readyCount[g] > 0)
        /\ active \in Seq(GroupKey) /\ IsInjective(active) /\ ToSet(active) = groups
        /\ tasks \in [TaskId -> GroupKey \cup {NoGroup}]
        /\ ready \in [GroupKey -> Seq(TaskId)] /\ readyCount \in [GroupKey -> Nat]
    BY DEF ListInv, Types, ListsAgree
  <1> DEFINE q == Append(ready[g], t)
  <1>4. t \notin ToSet(ready[g])
    BY <1>2, <1>3, RRAssumption
  <1>5. q \in Seq(TaskId) /\ IsInjective(q) /\ ToSet(q) = ToSet(ready[g]) \cup {t}
        /\ Len(q) = Len(ready[g]) + 1 /\ Len(ready[g]) \in Nat
    BY <1>3, <1>4, PushBack, LenProperties
  <1> HIDE DEF q
  <1>6. tasks' \in [TaskId -> GroupKey \cup {NoGroup}]
        /\ ToSet(q) = {u \in TaskId : tasks'[u] = g}
        /\ \A h \in GroupKey \ {g}, u \in TaskId : tasks'[u] = h <=> tasks[u] = h
    BY <1>2, <1>3, <1>5, RRAssumption
  <1>7. ready' = [ready EXCEPT ![g] = q] /\ readyCount' = [readyCount EXCEPT ![g] = Len(q)]
    BY <1>2, <1>3, <1>5 DEF q
  <1>8. groups' = IF Len(q) > 0 THEN groups \cup {g} ELSE groups \ {g}
    BY <1>2, <1>5
  <1>9. /\ active' \in Seq(GroupKey) /\ IsInjective(active') /\ ToSet(active') = groups'
        /\ active' = active \/ \E h \in GroupKey \ ToSet(active) : active' = Append(active, h)
    <2>1. CASE readyCount[g] = 0
      <3>1. g \notin ToSet(active) /\ active' = Append(active, g)
        BY <1>2, <1>3, <2>1
      <3> QED BY <1>2, <1>3, <3>1, PushBack
    <2>2. CASE readyCount[g] # 0
      <3>1. active' = active /\ g \in groups
        BY <1>2, <1>3, <1>5, <2>2
      <3> QED BY <1>2, <1>3, <3>1
    <2> QED BY <2>1, <2>2
  <1>10. ListInv'
    BY <1>5, <1>6, <1>7, <1>8, <1>9, OneGroupChanges
  <1> QED BY <1>9, <1>10

\* rr_select_next with a task to hand out: the new lists.
LEMMA SelectLists ==
    ASSUME ListInv, SelectNext, active # <<>>
    PROVE  LET g == Head(active)
           IN  /\ ListInv'
               /\ g \in GroupKey
               /\ active' = Tail(active) \/ active' = Append(Tail(active), g)
               /\ Head(ready[g]) \in Held /\ chosen' = Head(ready[g])
               /\ Held' = Held \ {Head(ready[g])}
  <1>1. /\ active \in Seq(GroupKey) /\ IsInjective(active) /\ ToSet(active) = groups
        /\ tasks \in [TaskId -> GroupKey \cup {NoGroup}]
        /\ ready \in [GroupKey -> Seq(TaskId)] /\ readyCount \in [GroupKey -> Nat]
    BY DEF ListInv, Types, ListsAgree
  <1> DEFINE g == Head(active)
             t == Head(ready[g])
             more == readyCount[g] > 1
             q == Tail(ready[g])
  <1>2. /\ g \in GroupKey /\ g \in groups /\ Tail(active) \in Seq(GroupKey)
        /\ IsInjective(Tail(active)) /\ ToSet(Tail(active)) = groups \ {g}
    BY <1>1, PopFront
  <1>3. /\ ready[g] # <<>> /\ readyCount[g] > 0
        /\ chosen' = t /\ tasks' = [tasks EXCEPT ![t] = NoGroup]
        /\ ready' = [ready EXCEPT ![g] = Tail(@)]
        /\ readyCount' = [readyCount EXCEPT ![g] = @ - 1]
        /\ active' = IF more THEN Append(Tail(active), g) ELSE Tail(active)
        /\ groups' = IF more THEN groups ELSE groups \ {g}
    BY DEF SelectNext, Rotate, GroupFree
  <1> HIDE DEF g
  <1>4. /\ ready[g] \in Seq(TaskId) /\ IsInjective(ready[g]) /\ readyCount[g] = Len(ready[g])
        /\ ToSet(ready[g]) = {u \in TaskId : tasks[u] = g}
    BY <1>2 DEF ListInv, Types, ListsAgree
  <1>5. /\ t \in TaskId /\ t \in ToSet(ready[g]) /\ q \in Seq(TaskId) /\ IsInjective(q)
        /\ ToSet(q) = ToSet(ready[g]) \ {t} /\ Len(q) = Len(ready[g]) - 1
        /\ Len(ready[g]) \in Nat
    BY <1>3, <1>4, PopFront
  <1>a. ready' = [ready EXCEPT ![g] = q]
    BY <1>3
  <1> HIDE DEF t, q
  <1>6. tasks' \in [TaskId -> GroupKey \cup {NoGroup}] /\ tasks[t] = g
        /\ ToSet(q) = {u \in TaskId : tasks'[u] = g}
        /\ \A h \in GroupKey \ {g}, u \in TaskId : tasks'[u] = h <=> tasks[u] = h
    BY <1>1, <1>2, <1>3, <1>4, <1>5, RRAssumption
  <1>7. readyCount' = [readyCount EXCEPT ![g] = Len(q)] /\ (more <=> Len(q) > 0)
    BY <1>1, <1>2, <1>3, <1>4, <1>5
  <1>8. groups' = IF Len(q) > 0 THEN groups \cup {g} ELSE groups \ {g}
    BY <1>2, <1>3, <1>7
  <1>9. active' \in Seq(GroupKey) /\ IsInjective(active') /\ ToSet(active') = groups'
    <2>1. CASE more
      <3>1. active' = Append(Tail(active), g) /\ groups' = groups /\ g \notin ToSet(Tail(active))
        BY <1>2, <1>3, <2>1
      <3> DEFINE rest == Tail(active)
      <3>a. rest \in Seq(GroupKey) /\ IsInjective(rest) /\ g \in GroupKey /\ g \notin ToSet(rest)
        BY <1>2, <3>1
      <3> HIDE DEF rest
      <3>b. /\ Append(rest, g) \in Seq(GroupKey) /\ IsInjective(Append(rest, g))
            /\ ToSet(Append(rest, g)) = ToSet(rest) \cup {g}
        BY <3>a, PushBack
      <3>2. /\ Append(Tail(active), g) \in Seq(GroupKey) /\ IsInjective(Append(Tail(active), g))
            /\ ToSet(Append(Tail(active), g)) = ToSet(Tail(active)) \cup {g}
        BY <3>b DEF rest
      <3> QED BY <1>2, <3>1, <3>2
    <2>2. CASE ~more
      BY <1>2, <1>3, <2>2
    <2> QED BY <2>1, <2>2
  <1>10. ListInv'
    BY <1>2, <1>5, <1>6, <1>7, <1>8, <1>9, <1>a, OneGroupChanges
  <1>11. t \in Held /\ Held' = Held \ {t}
    BY <1>1, <1>2, <1>3, <1>5, <1>6, RRAssumption DEF Held
  <1> QED BY <1>2, <1>3, <1>10, <1>11 DEF t, g

\* rr_on_task_finished: the new lists.
LEMMA FinishLists ==
    ASSUME ListInv, NEW t \in TaskId, OnTaskFinished(t)
    PROVE  /\ ListInv'
           /\ \/ active' = active /\ passed' = passed
              \/ \E g \in ToSet(active) : /\ active' = Unlink(active, g)
                                          /\ passed' = [passed EXCEPT ![g] = NoTurns]
  <1>1. /\ active \in Seq(GroupKey) /\ IsInjective(active) /\ ToSet(active) = groups
        /\ tasks \in [TaskId -> GroupKey \cup {NoGroup}]
        /\ ready \in [GroupKey -> Seq(TaskId)] /\ readyCount \in [GroupKey -> Nat]
    BY DEF ListInv, Types, ListsAgree
  <1>2. PICK g \in GroupKey : g = tasks[t]
    BY <1>1 DEF OnTaskFinished
  <1>3. /\ readyCount[g] > 0
        /\ tasks' = [tasks EXCEPT ![t] = NoGroup]
        /\ ready' = [ready EXCEPT ![g] = Unlink(@, t)]
        /\ readyCount' = [readyCount EXCEPT ![g] = @ - 1]
        /\ active' = IF readyCount[g] = 1 THEN Unlink(active, g) ELSE active
        /\ groups' = IF readyCount[g] = 1 THEN groups \ {g} ELSE groups
        /\ passed' = IF readyCount[g] = 1 THEN [passed EXCEPT ![g] = NoTurns] ELSE passed
    BY <1>2 DEF OnTaskFinished, ActiveWithout, GroupFree
  <1>4. /\ ready[g] \in Seq(TaskId) /\ IsInjective(ready[g]) /\ readyCount[g] = Len(ready[g])
        /\ ToSet(ready[g]) = {u \in TaskId : tasks[u] = g} /\ g \in groups
    BY <1>3 DEF ListInv, Types, ListsAgree
  <1>5. t \in ToSet(ready[g])
    BY <1>2, <1>4
  <1> DEFINE q == Unlink(ready[g], t)
  <1>6. /\ q \in Seq(TaskId) /\ IsInjective(q) /\ ToSet(q) = ToSet(ready[g]) \ {t}
        /\ Len(q) = Len(ready[g]) - 1 /\ Len(ready[g]) \in Nat
    BY <1>4, <1>5, TakeOut
  <1>a. ready' = [ready EXCEPT ![g] = q]
    BY <1>3
  <1> HIDE DEF q
  <1>7. tasks' \in [TaskId -> GroupKey \cup {NoGroup}]
        /\ ToSet(q) = {u \in TaskId : tasks'[u] = g}
        /\ \A h \in GroupKey \ {g}, u \in TaskId : tasks'[u] = h <=> tasks[u] = h
    BY <1>1, <1>2, <1>3, <1>4, <1>6, RRAssumption
  <1>8. readyCount' = [readyCount EXCEPT ![g] = Len(q)] /\ (readyCount[g] # 1 <=> Len(q) > 0)
    BY <1>1, <1>3, <1>4, <1>6
  <1>9. groups' = IF Len(q) > 0 THEN groups \cup {g} ELSE groups \ {g}
    BY <1>3, <1>4, <1>8
  <1>10. active' \in Seq(GroupKey) /\ IsInjective(active') /\ ToSet(active') = groups'
    <2>1. CASE readyCount[g] = 1
      BY <1>1, <1>3, <1>4, <2>1, TakeOut
    <2>2. CASE readyCount[g] # 1
      BY <1>1, <1>3, <1>4, <2>2
    <2> QED BY <2>1, <2>2
  <1>11. ListInv'
    BY <1>6, <1>7, <1>8, <1>9, <1>10, <1>a, OneGroupChanges
  <1> QED BY <1>1, <1>3, <1>4, <1>11

\* rr_on_task_submit that fails leaves the group map as it was.
LEMMA FailureLists ==
    ASSUME ListInv, NEW t \in TaskId, NEW reservation \in Ids, NEW job \in Ids,
           OnTaskSubmitFails(t, reservation, job)
    PROVE  groups' = groups /\ UNCHANGED <<tasks, ready, readyCount, active, chosen, passed>>
  <1>1. PICK g \in GroupKey : g = GroupKeyFromTask(t, reservation, job)
    BY KeyOfTask
  <1>2. g \in groups <=> readyCount[g] > 0
    BY DEF ListInv, ListsAgree
  <1>3. readyCount[g] \in Nat
    BY DEF ListInv, Types
  <1> QED BY <1>1, <1>2, <1>3
          DEF OnTaskSubmitFails, GroupsAfterFailure, GroupFree, GroupGet

\* Every callback keeps the lists in agreement.
LEMMA ListInvStep == ListInv /\ [Next]_vars => ListInv'
  <1> SUFFICES ASSUME ListInv, [Next]_vars PROVE ListInv'
    OBVIOUS
  <1>1. ASSUME NEW t \in TaskId, NEW reservation \in Ids, NEW job \in Ids,
               OnTaskSubmit(t, reservation, job)
        PROVE  ListInv'
    BY <1>1, SubmitLists
  <1>2. ASSUME NEW t \in TaskId, NEW reservation \in Ids, NEW job \in Ids,
               OnTaskSubmitFails(t, reservation, job)
        PROVE  ListInv'
    <2>1. groups' = groups /\ UNCHANGED <<tasks, ready, readyCount, active>>
      BY <1>2, FailureLists
    <2> QED BY <2>1 DEF ListInv, Types, ListsAgree
  <1>3. ASSUME SelectNext PROVE ListInv'
    <2>1. CASE active = <<>>
      BY <1>3, <2>1 DEF SelectNext, ListInv, Types, ListsAgree
    <2>2. CASE active # <<>>
      BY <1>3, <2>2, SelectLists
    <2> QED BY <2>1, <2>2
  <1>4. ASSUME NEW t \in TaskId, OnTaskFinished(t) PROVE ListInv'
    BY <1>4, FinishLists
  <1>5. ASSUME UNCHANGED vars PROVE ListInv'
    BY <1>5 DEF vars, ListInv, Types, ListsAgree
  <1> QED BY <1>1, <1>2, <1>3, <1>4, <1>5 DEF Next

\* The lists agree in every state of every behaviour.
LEMMA ListInvHolds == Spec => []ListInv
  BY ListInvInit, ListInvStep, PTL DEF Spec

\* The lists, the counters and the maps of round_robin agree after every callback,
\* a submission that failed for want of memory included.
THEOREM ListsAgreeHolds == Spec => []ListsAgree
  <1>1. ListInv => ListsAgree
    BY DEF ListInv
  <1> QED BY <1>1, ListInvHolds, PTL

----------------------------------------------------------------------------
(* Turns *)

\* A group that was served while g waited stands behind g, if it is active at all:
\* it is g that comes next of the two.
TurnsInv ==
    /\ passed \in [GroupKey -> [GroupKey -> 0..2]]
    /\ \A g \in GroupKey \ ToSet(active) : passed[g] = NoTurns
    /\ \A i, j \in 1..Len(active) : passed[active[i]][active[j]] > 0 => i < j
    /\ \A g \in ToSet(active), h \in GroupKey : passed[g][h] <= 1

\* A list grows at its end by a group that nobody was counted for.
LEMMA TurnsAppend ==
    ASSUME NEW list \in Seq(GroupKey), IsInjective(list), NEW g \in GroupKey \ ToSet(list),
           NEW count \in [GroupKey -> [GroupKey -> 0..2]], count[g] = NoTurns,
           \A i, j \in 1..Len(list) : count[list[i]][list[j]] > 0 => i < j
    PROVE  LET longer == Append(list, g)
           IN  \A i, j \in 1..Len(longer) : count[longer[i]][longer[j]] > 0 => i < j
  <1> DEFINE longer == Append(list, g)
  <1>1. /\ Len(longer) = Len(list) + 1 /\ longer[Len(list) + 1] = g
        /\ \A i \in 1..Len(list) : longer[i] = list[i]
    BY PushBack
  <1>2. Len(list) \in Nat /\ \A i \in 1..Len(list) : list[i] \in GroupKey
    BY LenProperties, ElementOfSeq
  <1> HIDE DEF longer
  <1>3. \A i \in 1..Len(longer) : longer[i] \in GroupKey
    BY <1>1, <1>2
  <1>4. ASSUME NEW i \in 1..Len(longer), NEW j \in 1..Len(longer),
               count[longer[i]][longer[j]] > 0
        PROVE  i < j
    <2>1. CASE i = Len(list) + 1
      <3>1. count[g][longer[j]] = 0
        BY <1>3 DEF NoTurns
      <3> QED BY <1>1, <1>4, <2>1, <3>1
    <2>2. CASE i # Len(list) + 1 /\ j = Len(list) + 1
      BY <1>1, <1>2, <2>2
    <2>3. CASE i # Len(list) + 1 /\ j # Len(list) + 1
      <3>1. i \in 1..Len(list) /\ j \in 1..Len(list)
        BY <1>1, <1>2, <2>3
      <3> QED BY <1>1, <1>4, <3>1
    <2> QED BY <2>1, <2>2, <2>3
  <1> QED BY <1>4 DEF longer

\* Nobody has been served at first.
LEMMA TurnsInvInit == Init => TurnsInv
  <1> SUFFICES ASSUME Init PROVE TurnsInv
    OBVIOUS
  <1>1. active = <<>> /\ Len(<<>>) = 0 /\ 1..0 = {} /\ DOMAIN <<>> = {}
    BY DEF Init
  <1>2. passed = [g \in GroupKey |-> [h \in GroupKey |-> 0]]
    BY DEF Init
  <1> QED BY <1>1, <1>2 DEF TurnsInv, NoTurns, ToSet

\* rr_on_task_submit
LEMMA TurnsSubmit ==
    ASSUME ListInv, TurnsInv, NEW t \in TaskId, NEW reservation \in Ids, NEW job \in Ids,
           OnTaskSubmit(t, reservation, job)
    PROVE  TurnsInv'
  <1>1. passed' = passed
    BY DEF OnTaskSubmit
  <1>2. CASE active' = active
    BY <1>1, <1>2 DEF TurnsInv, NoTurns
  <1>3. ASSUME NEW g \in GroupKey \ ToSet(active), active' = Append(active, g)
        PROVE  TurnsInv'
    <2>1. active \in Seq(GroupKey) /\ IsInjective(active)
      BY DEF ListInv, Types, ListsAgree
    <2>2. ToSet(active') = ToSet(active) \cup {g}
      BY <1>3, <2>1, PushBack
    <2>3. passed \in [GroupKey -> [GroupKey -> 0..2]] /\ passed[g] = NoTurns
      BY DEF TurnsInv
    <2>4. \A i, j \in 1..Len(active') : passed[active'[i]][active'[j]] > 0 => i < j
      BY <1>3, <2>1, <2>3, TurnsAppend DEF TurnsInv
    <2>5. \A h \in GroupKey \ ToSet(active') : passed[h] = NoTurns
      BY <2>2 DEF TurnsInv
    <2>6. \A a \in ToSet(active'), h \in GroupKey : passed[a][h] <= 1
      BY <2>2, <2>3 DEF TurnsInv, NoTurns
    <2> QED BY <1>1, <2>3, <2>4, <2>5, <2>6 DEF TurnsInv, NoTurns
  <1>4. active' = active \/ \E g \in GroupKey \ ToSet(active) : active' = Append(active, g)
    BY SubmitLists
  <1> QED BY <1>2, <1>3, <1>4

\* rr_select_next: the group that is served had not been served since any of those
\* that wait came to the end of the list, because it stands before them.
LEMMA TurnsSelect ==
    ASSUME ListInv, TurnsInv, SelectNext, active # <<>>
    PROVE  TurnsInv'
  <1>1. active \in Seq(GroupKey) /\ IsInjective(active)
    BY DEF ListInv, Types, ListsAgree
  <1> DEFINE g == Head(active)
             rest == Tail(active)
             n == Len(active)
  <1>2. /\ g \in GroupKey /\ g \in ToSet(active) /\ g = active[1]
        /\ rest \in Seq(GroupKey) /\ IsInjective(rest) /\ ToSet(rest) = ToSet(active) \ {g}
        /\ Len(rest) = n - 1 /\ n \in Nat /\ n > 0
        /\ \A i \in 1..(n - 1) : rest[i] = active[i + 1]
    BY <1>1, PopFront
  <1>3. active' = rest \/ active' = Append(rest, g)
    BY SelectLists
  <1>4. passed' = [h \in GroupKey |->
                      IF h \notin ToSet(rest) THEN NoTurns
                      ELSE [passed[h] EXCEPT ![g] = IF @ < 2 THEN @ + 1 ELSE @]]
    BY DEF SelectNext
  <1>5. DOMAIN rest = 1..(n - 1) /\ (\A i \in 1..(n - 1) : rest[i] \in ToSet(rest))
        /\ ToSet(rest) \subseteq GroupKey
    <2>1. DOMAIN rest = 1..(n - 1)
      BY <1>2, LenProperties
    <2>2. ToSet(rest) \subseteq GroupKey
      BY <1>2, EmptyList
    <2> QED BY <2>1, <2>2 DEF ToSet
  <1> HIDE DEF g, rest, n
  <1>6. passed \in [GroupKey -> [GroupKey -> 0..2]]
        /\ \A a \in ToSet(active), h \in GroupKey : passed[a][h] <= 1
    BY DEF TurnsInv
  <1>7. \A a \in ToSet(rest) : passed[a][g] = 0
    <2> SUFFICES ASSUME NEW a \in ToSet(rest) PROVE passed[a][g] = 0
      OBVIOUS
    <2>1. PICK i \in 1..(n - 1) : a = active[i + 1]
      BY <1>2, <1>5 DEF ToSet
    <2>2. i + 1 \in 1..n /\ 1 \in 1..n /\ ~(i + 1 < 1)
      BY <1>2
    <2>3. ~(passed[a][g] > 0)
      BY <1>2, <2>1, <2>2 DEF TurnsInv, n
    <2>4. passed[a][g] \in 0..2
      BY <1>2, <1>5, <1>6
    <2> QED BY <2>3, <2>4
  <1>8. ASSUME NEW a \in ToSet(rest)
        PROVE  passed'[a] \in [GroupKey -> 0..2] /\ passed'[a][g] = 1
               /\ \A h \in GroupKey \ {g} : passed'[a][h] = passed[a][h]
    <2>1. a \in GroupKey /\ passed[a] \in [GroupKey -> 0..2] /\ passed[a][g] = 0
      BY <1>5, <1>6, <1>7
    <2>2. passed'[a] = [passed[a] EXCEPT ![g] = IF @ < 2 THEN @ + 1 ELSE @]
      BY <1>4, <2>1
    <2>3. passed'[a] = [passed[a] EXCEPT ![g] = 1]
      BY <1>2, <2>1, <2>2
    <2> QED BY <1>2, <2>1, <2>3
  <1>9. \A a \in GroupKey \ ToSet(rest) : passed'[a] = NoTurns
    BY <1>4
  <1>10. NoTurns \in [GroupKey -> 0..2] /\ \A h \in GroupKey : NoTurns[h] = 0
    BY DEF NoTurns
  <1>11. passed' \in [GroupKey -> [GroupKey -> 0..2]]
    <2>1. \A a \in GroupKey : passed'[a] \in [GroupKey -> 0..2]
      BY <1>8, <1>9, <1>10
    <2>2. passed' = [a \in GroupKey |-> passed'[a]]
      BY <1>4
    <2> QED BY <2>1, <2>2
  <1>12. \A i, j \in 1..Len(rest) : passed'[rest[i]][rest[j]] > 0 => i < j
    <2> SUFFICES ASSUME NEW i \in 1..(n - 1), NEW j \in 1..(n - 1),
                        passed'[rest[i]][rest[j]] > 0
                 PROVE  i < j
      BY <1>2
    <2>1. rest[i] \in ToSet(rest) /\ rest[j] \in GroupKey \ {g}
      BY <1>2, <1>5
    <2>2. passed[active[i + 1]][active[j + 1]] > 0
      BY <1>2, <1>8, <2>1
    <2>3. i + 1 \in 1..n /\ j + 1 \in 1..n
      BY <1>2
    <2>4. i + 1 < j + 1
      BY <2>2, <2>3 DEF TurnsInv, n
    <2> QED BY <1>2, <2>4
  <1>13. /\ ToSet(active') \subseteq ToSet(rest) \cup {g} /\ ToSet(rest) \subseteq ToSet(active')
         /\ \A i, j \in 1..Len(active') : passed'[active'[i]][active'[j]] > 0 => i < j
    <2>1. CASE active' = rest
      BY <1>12, <2>1
    <2>2. CASE active' = Append(rest, g)
      <3>1. g \in GroupKey \ ToSet(rest) /\ passed'[g] = NoTurns
        BY <1>2, <1>9
      <3>2. ToSet(Append(rest, g)) = ToSet(rest) \cup {g}
        BY <1>2, <3>1, PushBack
      <3>3. \A i, j \in 1..Len(Append(rest, g)) :
               passed'[Append(rest, g)[i]][Append(rest, g)[j]] > 0 => i < j
        BY <1>2, <1>11, <1>12, <3>1, TurnsAppend
      <3> QED BY <2>2, <3>2, <3>3
    <2> QED BY <1>3, <2>1, <2>2
  <1>14. \A a \in ToSet(active'), h \in GroupKey : passed'[a][h] <= 1
    <2> SUFFICES ASSUME NEW a \in ToSet(active'), NEW h \in GroupKey PROVE passed'[a][h] <= 1
      OBVIOUS
    <2>1. CASE a \in ToSet(rest)
      <3>1. a \in ToSet(active)
        BY <1>2, <2>1
      <3> QED BY <1>6, <1>8, <2>1, <3>1
    <2>2. CASE a \notin ToSet(rest)
      BY <1>2, <1>9, <1>10, <1>13, <2>2
    <2> QED BY <2>1, <2>2
  <1>15. \A a \in GroupKey \ ToSet(active') : passed'[a] = NoTurns
    BY <1>9, <1>13
  <1> QED BY <1>11, <1>13, <1>14, <1>15 DEF TurnsInv, NoTurns

\* rr_on_task_finished: the others keep their order.
LEMMA TurnsFinish ==
    ASSUME ListInv, TurnsInv, NEW t \in TaskId, OnTaskFinished(t)
    PROVE  TurnsInv'
  <1>1. CASE active' = active /\ passed' = passed
    BY <1>1 DEF TurnsInv, NoTurns
  <1>2. ASSUME NEW g \in ToSet(active), active' = Unlink(active, g),
               passed' = [passed EXCEPT ![g] = NoTurns]
        PROVE  TurnsInv'
    <2>1. active \in Seq(GroupKey) /\ IsInjective(active)
      BY DEF ListInv, Types, ListsAgree
    <2> DEFINE n == Len(active)
    <2>a. \E k \in 1..Len(active) :
             /\ active[k] = g
             /\ Unlink(active, g) \in Seq(GroupKey) /\ IsInjective(Unlink(active, g))
             /\ ToSet(Unlink(active, g)) = ToSet(active) \ {g}
             /\ Len(Unlink(active, g)) = Len(active) - 1 /\ Len(active) \in Nat /\ Len(active) > 0
             /\ \A i \in 1..(Len(active) - 1) :
                   Unlink(active, g)[i] = IF i < k THEN active[i] ELSE active[i + 1]
      BY <2>1, TakeOut
    <2>2. PICK k \in 1..n :
             /\ active' \in Seq(GroupKey) /\ ToSet(active') = ToSet(active) \ {g}
             /\ Len(active') = n - 1 /\ n \in Nat
             /\ \A i \in 1..(n - 1) : active'[i] = IF i < k THEN active[i] ELSE active[i + 1]
      BY <1>2, <2>a, Zenon
    <2>3. /\ DOMAIN active' = 1..(n - 1) /\ ToSet(active) \subseteq GroupKey
          /\ \A i \in 1..(n - 1) : active'[i] \in ToSet(active')
      BY <2>1, <2>2, EmptyList, LenProperties DEF ToSet
    <2> HIDE DEF n
    <2>4. passed \in [GroupKey -> [GroupKey -> 0..2]]
          /\ (\A a \in ToSet(active), h \in GroupKey : passed[a][h] <= 1)
          /\ \A a \in GroupKey \ ToSet(active) : passed[a] = NoTurns
      BY DEF TurnsInv
    <2>5. NoTurns \in [GroupKey -> 0..2]
      BY DEF NoTurns
    <2>6. /\ passed' \in [GroupKey -> [GroupKey -> 0..2]] /\ passed'[g] = NoTurns
          /\ \A a \in GroupKey \ {g} : passed'[a] = passed[a]
      BY <1>2, <2>3, <2>4, <2>5
    <2>7. \A a \in ToSet(active'), h \in GroupKey : passed'[a][h] <= 1
      BY <2>2, <2>3, <2>4, <2>6
    <2>8. \A a \in GroupKey \ ToSet(active') : passed'[a] = NoTurns
      BY <2>2, <2>4, <2>6
    <2>9. ASSUME NEW i \in 1..(n - 1), NEW j \in 1..(n - 1),
                 passed'[active'[i]][active'[j]] > 0
          PROVE  i < j
      <3>1. PICK x \in 1..n : x = (IF i < k THEN i ELSE i + 1) /\ active'[i] = active[x]
        BY <2>2
      <3>2. PICK y \in 1..n : y = (IF j < k THEN j ELSE j + 1) /\ active'[j] = active[y]
        BY <2>2
      <3>3. active'[i] \in GroupKey \ {g}
        BY <2>2, <2>3
      <3>4. passed[active[x]][active[y]] > 0
        BY <2>6, <2>9, <3>1, <3>2, <3>3
      <3>5. x < y
        BY <3>4 DEF TurnsInv, n
      <3> QED BY <2>2, <3>1, <3>2, <3>5
    <2> QED BY <2>2, <2>6, <2>7, <2>8, <2>9 DEF TurnsInv, NoTurns
  <1> QED BY <1>1, <1>2, FinishLists

\* A group that is served goes behind all that wait.
LEMMA TurnsInvStep == ListInv /\ TurnsInv /\ [Next]_vars => TurnsInv'
  <1> SUFFICES ASSUME ListInv, TurnsInv, [Next]_vars PROVE TurnsInv'
    OBVIOUS
  <1>1. ASSUME NEW t \in TaskId, NEW reservation \in Ids, NEW job \in Ids,
               OnTaskSubmit(t, reservation, job)
        PROVE  TurnsInv'
    BY <1>1, TurnsSubmit
  <1>2. ASSUME active' = active, passed' = passed PROVE TurnsInv'
    BY <1>2 DEF TurnsInv, NoTurns
  <1>3. ASSUME NEW t \in TaskId, NEW reservation \in Ids, NEW job \in Ids,
               OnTaskSubmitFails(t, reservation, job)
        PROVE  TurnsInv'
    BY <1>2, <1>3, FailureLists
  <1>4. ASSUME SelectNext PROVE TurnsInv'
    <2>1. CASE active = <<>>
      BY <1>2, <1>4, <2>1 DEF SelectNext
    <2>2. CASE active # <<>>
      BY <1>4, <2>2, TurnsSelect
    <2> QED BY <2>1, <2>2
  <1>5. ASSUME NEW t \in TaskId, OnTaskFinished(t) PROVE TurnsInv'
    BY <1>5, TurnsFinish
  <1>6. ASSUME UNCHANGED vars PROVE TurnsInv'
    BY <1>2, <1>6 DEF vars
  <1> QED BY <1>1, <1>3, <1>4, <1>5, <1>6 DEF Next

\* No group is served twice while another one waits, for any number of groups.
THEOREM TurnsAreFairHolds == Spec => []TurnsAreFair
  <1>1. TurnsInv => TurnsAreFair
    BY DEF TurnsInv, TurnsAreFair
  <1> QED BY <1>1, ListInvHolds, TurnsInvInit, TurnsInvStep, PTL DEF Spec

----------------------------------------------------------------------------
(* The contract *)

\* round_robin keeps the contract the core relies on; that it answers NOT_FOUND
\* only when it holds no task rests on the agreement of its lists.
THEOREM RoundRobinContract == Spec => ImplementsContract
  <1>1. Init => Contract!Init
    BY DEF Init, Contract!Init, Held
  <1>2. ListInv /\ [Next]_vars => [Contract!Next]_(Contract!vars)
    <2> SUFFICES ASSUME ListInv, [Next]_vars PROVE [Contract!Next]_(Contract!vars)
      OBVIOUS
    <2>0. tasks \in [TaskId -> GroupKey \cup {NoGroup}]
      BY DEF ListInv, Types
    <2>1. ASSUME NEW t \in TaskId, NEW reservation \in Ids, NEW job \in Ids,
                 OnTaskSubmit(t, reservation, job)
          PROVE  Contract!OnTaskSubmit(t)
      <3>1. PICK g \in GroupKey : g = GroupKeyFromTask(t, reservation, job)
        BY KeyOfTask
      <3>2. tasks[t] = NoGroup /\ tasks' = [tasks EXCEPT ![t] = g] /\ chosen' = chosen
        BY <2>1, <3>1 DEF OnTaskSubmit
      <3>3. t \notin Held /\ Held' = Held \cup {t}
        BY <2>0, <3>2, RRAssumption DEF Held
      <3> QED BY <3>2, <3>3 DEF Contract!OnTaskSubmit
    <2>2. ASSUME NEW t \in TaskId, OnTaskFinished(t) PROVE Contract!OnTaskFinished(t)
      <3>1. tasks' = [tasks EXCEPT ![t] = NoGroup] /\ chosen' = chosen
        BY <2>2 DEF OnTaskFinished
      <3>2. Held' = Held \ {t}
        BY <2>0, <3>1 DEF Held
      <3> QED BY <3>1, <3>2 DEF Contract!OnTaskFinished
    <2>3. ASSUME SelectNext PROVE Contract!SelectNext
      <3>1. CASE active = <<>>
        <4>1. chosen' = NoTask /\ tasks' = tasks
          BY <2>3, <3>1 DEF SelectNext
        <4>2. groups = {}
          <5>1. ToSet(<<>>) = {}
            BY DEF ToSet
          <5> QED BY <3>1, <5>1 DEF ListInv, ListsAgree
        <4>3. ASSUME NEW t \in Held PROVE FALSE
          <5>1. PICK g \in GroupKey : tasks[t] = g
            BY <2>0, <4>3 DEF Held
          <5>2. /\ ready[g] \in Seq(TaskId) /\ readyCount[g] = Len(ready[g])
                /\ ~(readyCount[g] > 0) /\ t \in ToSet(ready[g])
            BY <4>2, <4>3, <5>1 DEF Held, ListInv, Types, ListsAgree
          <5> QED BY <5>2, EmptyList
        <4>4. Held = {} /\ Held' = Held
          BY <4>1, <4>3 DEF Held
        <4> QED BY <4>1, <4>4 DEF Contract!SelectNext
      <3>2. CASE active # <<>>
        BY <2>3, <3>2, SelectLists DEF Contract!SelectNext
      <3> QED BY <3>1, <3>2
    <2>4. ASSUME NEW t \in TaskId, NEW reservation \in Ids, NEW job \in Ids,
                 OnTaskSubmitFails(t, reservation, job)
          PROVE  UNCHANGED Contract!vars
      BY <2>4, FailureLists DEF Contract!vars, Held
    <2>5. ASSUME UNCHANGED vars PROVE UNCHANGED Contract!vars
      BY <2>5 DEF vars, Contract!vars, Held
    <2> QED BY <2>1, <2>2, <2>3, <2>4, <2>5 DEF Next, Contract!Next
  <1> QED BY <1>1, <1>2, ListInvHolds, PTL DEF Spec, ImplementsContract, Contract!Spec
=============================================================================

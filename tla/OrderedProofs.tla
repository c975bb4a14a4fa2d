--------------------------- MODULE OrderedProofs ---------------------------
(***************************************************************************)
(* Theorems about the ordered policy, for any number of tasks and groups   *)
(* and every list of order keys: its heaps, its map and its index agree,   *)
(* it hands out the task its keys put first although the clock goes on     *)
(* while it looks, and with ROUND_ROBIN in front the groups take turns.    *)
(***************************************************************************)
EXTENDS OrderedPolicy, BoostProofs, FiniteSetTheorems, SequenceTheorems

(* The configured order is a strict total order of tasks *)

ViewType == [effective : Int, cost : Int, seq : Int, ticket : Int, id : Nat]

\* What a key compares is a number.
LEMMA KeyValueInt ==
    ASSUME NEW key \in Keys, NEW x \in ViewType
    PROVE  KeyValue(key, x) \in Int
  BY DEF Keys, KeyValue, ViewType

\* The keys of an accepted order.
LEMMA OrderKeys ==
    ASSUME NEW order \in OrderConfigType
    PROVE  /\ Len(order.keys) \in Nat /\ Len(order.keys) >= 1
           /\ DOMAIN order.keys = 1..Len(order.keys)
           /\ \A i \in 1..Len(order.keys) : order.keys[i] \in Keys
  <1>1. order.keys \in Seq(Keys) /\ Len(order.keys) \in 1..8
    BY DEF OrderConfigType
  <1>2. \A i \in 1..Len(order.keys) : order.keys[i] \in Keys
    BY <1>1, ElementOfSeq
  <1>3. DOMAIN order.keys = 1..Len(order.keys)
    BY <1>1, LenProperties
  <1>4. PICK n \in 1..8 : n = Len(order.keys)
    BY <1>1
  <1>5. n \in Nat /\ n >= 1
    OBVIOUS
  <1> QED BY <1>2, <1>3, <1>4, <1>5

\* Who precedes by the first key that differs, keys given as functions of their number.
LEMMA FirstDifference ==
    ASSUME NEW n \in Nat, NEW a \in [1..n -> Int], NEW b \in [1..n -> Int]
    PROVE  \/ \A i \in 1..n : a[i] = b[i]
           \/ \E i \in 1..n : a[i] # b[i] /\ \A j \in 1..(i - 1) : a[j] = b[j]
  <1> DEFINE T == {i \in 1..n : a[i] # b[i]}
  <1>1. CASE T = {}
    BY <1>1
  <1>2. CASE T # {}
    <2>1. T \subseteq Nat
      OBVIOUS
    <2>2. PICK i \in T : \A j \in T : i <= j
      BY <1>2, <2>1, LeastNumber
    <2>3. i \in 1..n /\ a[i] # b[i]
      OBVIOUS
    <2>4. ASSUME NEW j \in 1..(i - 1) PROVE a[j] = b[j]
      <3>1. j \in 1..n /\ ~(i <= j)
        BY <2>3
      <3> QED BY <2>2, <3>1
    <2> QED BY <2>3, <2>4
  <1> QED BY <1>1, <1>2

\* Of two different tasks one precedes the other.
LEMMA PrecedesTotal ==
    ASSUME NEW order \in OrderConfigType, NEW x \in ViewType, NEW y \in ViewType, x.id # y.id
    PROVE  Precedes(order, x, y) \/ Precedes(order, y, x)
  <1> DEFINE n == Len(order.keys)
             a == [i \in 1..n |-> KeyValue(order.keys[i], x)]
             b == [i \in 1..n |-> KeyValue(order.keys[i], y)]
  <1>0. n \in Nat /\ DOMAIN order.keys = 1..n
    BY OrderKeys
  <1>1. a \in [1..n -> Int] /\ b \in [1..n -> Int]
    BY OrderKeys, KeyValueInt
  <1>2. \A i \in 1..n : a[i] = KeyValue(order.keys[i], x) /\ b[i] = KeyValue(order.keys[i], y)
    OBVIOUS
  <1> HIDE DEF n, a, b
  <1>3. CASE \A i \in 1..n : a[i] = b[i]
    <2>1. Level(order, x, y, n) /\ Level(order, y, x, n)
      BY <1>2, <1>3 DEF Level
    <2>2. x.id < y.id \/ y.id < x.id
      BY DEF ViewType
    <2> QED BY <2>1, <2>2 DEF Precedes, n
  <1>4. ASSUME NEW i \in 1..n, a[i] # b[i], \A j \in 1..(i - 1) : a[j] = b[j]
        PROVE  Precedes(order, x, y) \/ Precedes(order, y, x)
    <2>1. \A j \in 1..(i - 1) : j \in 1..n
      BY <1>0
    <2>2. Level(order, x, y, i - 1) /\ Level(order, y, x, i - 1)
      BY <1>2, <1>4, <2>1 DEF Level
    <2>3. a[i] < b[i] \/ b[i] < a[i]
      BY <1>1, <1>4
    <2>4. KeyValue(order.keys[i], x) < KeyValue(order.keys[i], y)
          \/ KeyValue(order.keys[i], y) < KeyValue(order.keys[i], x)
      BY <1>2, <2>3
    <2>5. i \in DOMAIN order.keys
      BY <1>0
    <2> QED BY <2>2, <2>4, <2>5, Zenon DEF Precedes
  <1>5. \/ \A i \in 1..n : a[i] = b[i]
        \/ \E i \in 1..n : a[i] # b[i] /\ \A j \in 1..(i - 1) : a[j] = b[j]
    BY <1>0, <1>1, FirstDifference
  <1> QED BY <1>3, <1>4, <1>5

\* No task precedes itself.
LEMMA PrecedesNotSelf ==
    ASSUME NEW order \in OrderConfigType, NEW x \in ViewType
    PROVE  ~Precedes(order, x, x)
  <1>1. \A i \in DOMAIN order.keys : KeyValue(order.keys[i], x) \in Int
    BY OrderKeys, KeyValueInt
  <1>2. ~(x.id < x.id)
    BY DEF ViewType
  <1> QED BY <1>1, <1>2 DEF Precedes

\* What precedes a task precedes all that come after it.
LEMMA PrecedesTransitive ==
    ASSUME NEW order \in OrderConfigType, NEW x \in ViewType, NEW y \in ViewType,
           NEW z \in ViewType, Precedes(order, x, y), Precedes(order, y, z)
    PROVE  Precedes(order, x, z)
  <1> DEFINE n == Len(order.keys)
             K(i, v) == KeyValue(order.keys[i], v)
  <1>0. n \in Nat /\ DOMAIN order.keys = 1..n
    BY OrderKeys
  <1>1. \A i \in 1..n : K(i, x) \in Int /\ K(i, y) \in Int /\ K(i, z) \in Int
    BY OrderKeys, KeyValueInt
  <1>2. \A u, v : Precedes(order, u, v) <=>
          \/ \E i \in 1..n : (\A j \in 1..(i - 1) : K(j, u) = K(j, v)) /\ K(i, u) < K(i, v)
          \/ (\A j \in 1..n : K(j, u) = K(j, v)) /\ u.id < v.id
    BY <1>0 DEF Precedes, Level
  <1>3. x.id \in Nat /\ y.id \in Nat /\ z.id \in Nat
    BY DEF ViewType
  <1> HIDE DEF n, K
  <1>4. ASSUME NEW i \in 1..n, \A j \in 1..(i - 1) : K(j, x) = K(j, y), K(i, x) < K(i, y),
               NEW k \in 1..n, \A j \in 1..(k - 1) : K(j, y) = K(j, z), K(k, y) < K(k, z)
        PROVE  Precedes(order, x, z)
    <2>1. CASE i <= k
      <3>1. \A j \in 1..(i - 1) : j \in 1..(k - 1)
        BY <1>0, <2>1
      <3>2. \A j \in 1..(i - 1) : K(j, x) = K(j, z)
        BY <1>4, <3>1
      <3>3. K(i, x) < K(i, z)
        <4>1. i = k \/ i \in 1..(k - 1)
          BY <1>0, <2>1
        <4>2. K(i, x) \in Int /\ K(i, y) \in Int /\ K(i, z) \in Int
          BY <1>1
        <4>3. CASE i = k
          BY <1>4, <4>2, <4>3
        <4>4. CASE i \in 1..(k - 1)
          BY <1>4, <4>2, <4>4
        <4> QED BY <4>1, <4>3, <4>4
      <3> QED BY <1>2, <3>2, <3>3
    <2>2. CASE k < i
      <3>1. (\A j \in 1..(k - 1) : j \in 1..(i - 1)) /\ k \in 1..(i - 1)
        BY <1>0, <2>2
      <3>2. \A j \in 1..(k - 1) : K(j, x) = K(j, z)
        BY <1>4, <3>1
      <3>3. K(k, x) < K(k, z)
        BY <1>4, <3>1
      <3> QED BY <1>2, <3>2, <3>3
    <2> QED BY <1>0, <2>1, <2>2
  <1>5. ASSUME NEW i \in 1..n, \A j \in 1..(i - 1) : K(j, x) = K(j, y), K(i, x) < K(i, y),
               \A j \in 1..n : K(j, y) = K(j, z)
        PROVE  Precedes(order, x, z)
    <2>1. \A j \in 1..(i - 1) : j \in 1..n
      BY <1>0
    <2>2. (\A j \in 1..(i - 1) : K(j, x) = K(j, z)) /\ K(i, x) < K(i, z)
      BY <1>5, <2>1
    <2> QED BY <1>2, <2>2
  <1>6. ASSUME \A j \in 1..n : K(j, x) = K(j, y),
               NEW k \in 1..n, \A j \in 1..(k - 1) : K(j, y) = K(j, z), K(k, y) < K(k, z)
        PROVE  Precedes(order, x, z)
    <2>1. \A j \in 1..(k - 1) : j \in 1..n
      BY <1>0
    <2>2. (\A j \in 1..(k - 1) : K(j, x) = K(j, z)) /\ K(k, x) < K(k, z)
      BY <1>6, <2>1
    <2> QED BY <1>2, <2>2
  <1>7. ASSUME \A j \in 1..n : K(j, x) = K(j, y), x.id < y.id,
               \A j \in 1..n : K(j, y) = K(j, z), y.id < z.id
        PROVE  Precedes(order, x, z)
    BY <1>2, <1>3, <1>7
  <1>8. \/ \E i \in 1..n : (\A j \in 1..(i - 1) : K(j, x) = K(j, y)) /\ K(i, x) < K(i, y)
        \/ (\A j \in 1..n : K(j, x) = K(j, y)) /\ x.id < y.id
    BY <1>2
  <1>9. \/ \E i \in 1..n : (\A j \in 1..(i - 1) : K(j, y) = K(j, z)) /\ K(i, y) < K(i, z)
        \/ (\A j \in 1..n : K(j, y) = K(j, z)) /\ y.id < z.id
    BY <1>2
  <1> QED BY <1>4, <1>5, <1>6, <1>7, <1>8, <1>9

\* A finite set of different tasks has a first one: the one that fewest precede.
LEMMA FirstExists ==
    ASSUME NEW order \in OrderConfigType, NEW V, V \subseteq ViewType, IsFiniteSet(V), V # {},
           \A x, y \in V : x # y => x.id # y.id
    PROVE  /\ First(order, V) \in V
           /\ \A y \in V \ {First(order, V)} : Precedes(order, First(order, V), y)
  <1> DEFINE Before(x) == {u \in V : Precedes(order, u, x)}
             T == {Cardinality(Before(x)) : x \in V}
  <1>1. ASSUME NEW x \in V PROVE IsFiniteSet(Before(x)) /\ Cardinality(Before(x)) \in Nat
    <2>1. Before(x) \subseteq V
      OBVIOUS
    <2> QED BY <2>1, FS_Subset, FS_CardinalityType
  <1>2. T \subseteq Nat /\ T # {}
    BY <1>1
  <1>3. PICK c \in T : \A m \in T : c <= m
    BY <1>2, LeastNumber
  <1>4. PICK x \in V : c = Cardinality(Before(x))
    BY <1>3
  <1>5. ASSUME NEW y \in V \ {x} PROVE Precedes(order, x, y)
    <2> SUFFICES ASSUME ~Precedes(order, x, y) PROVE FALSE
      OBVIOUS
    <2>1. Precedes(order, y, x)
      BY PrecedesTotal
    <2>2. y \in Before(x) /\ y \notin Before(y)
      BY <2>1, PrecedesNotSelf
    <2>3. Before(y) \subseteq Before(x)
      BY <2>1, PrecedesTransitive
    <2>4. Cardinality(Before(y)) < Cardinality(Before(x))
      <3> HIDE DEF Before
      <3>1. IsFiniteSet(Before(x)) /\ Before(y) # Before(x)
        BY <1>1, <2>2
      <3>2. Cardinality(Before(y)) <= Cardinality(Before(x))
            /\ Cardinality(Before(y)) # Cardinality(Before(x))
        BY <2>3, <3>1, FS_Subset
      <3>3. Cardinality(Before(y)) \in Nat /\ Cardinality(Before(x)) \in Nat
        BY <1>1
      <3> QED BY <3>2, <3>3
    <2>5. c <= Cardinality(Before(y)) /\ c \in Nat /\ Cardinality(Before(y)) \in Nat
      BY <1>1, <1>2, <1>3
    <2> QED BY <1>4, <2>4, <2>5
  <1>6. \E v \in V : \A y \in V \ {v} : Precedes(order, v, y)
    BY <1>5
  <1> QED BY <1>6, Zenon DEF First

----------------------------------------------------------------------------
(* The inductive invariant *)

EntryType ==
    [base : IntMin..IntMax, cost : Nat, deadline : 0..WordMax, runtime : 0..WordMax, seq : Nat,
     effective : IntMin..IntMax, next : 0..WordMax, key : IntMin..IntMax]

Types ==
    /\ config \in OrderConfigs
    /\ now \in 0..MaxNow
    /\ group \in [TaskId -> AnyGroup \cup {NoGroup}]
    /\ entry \in [TaskId -> EntryType]
    /\ groups \subseteq AnyGroup
    /\ ticket \in [AnyGroup -> Nat]
    /\ seqNext \in [AnyGroup -> Nat]
    /\ head = [g \in AnyGroup |-> head[g]]
    /\ nextTicket \in Nat
    /\ selecting \in BOOLEAN
    /\ loopNow \in 0..now

\* The parts of GroupsAgree.
GroupsHaveTasks == groups = {group[t] : t \in Held}

HeadsAreBest ==
    /\ \A g \in AnyGroup \ groups : head[g] = NoView
    /\ \A g \in groups : head[g] = BestOf(g, group, entry, ticket[g])

TicketsDiffer == UsesRoundRobin => \A g, h \in groups : g # h => ticket[g] # ticket[h]

EntriesAgree ==
    /\ refresh = {t \in Held : entry[t].next # Never}
    /\ \A t \in Held : entry[t].key = entry[t].effective

\* No group has a ticket that is still to be handed out.
TicketsPast == UsesRoundRobin => \A g \in groups : ticket[g] < nextTicket

EntriesOnceCurrent == \A t \in Held : OnceCurrent(config.boost, entry[t], now)

\* GroupsAgree is inductive together with the types and TicketsPast; that the choice
\* is right depends besides on what the entries say of the clock.
PolicyInv == Types /\ GroupsAgree /\ TicketsPast /\ EntriesOnceCurrent

\* GroupsAgree, in the forms the steps use.
LEMMA GroupsAgreeParts ==
    GroupsAgree <=> GroupsHaveTasks /\ HeadsAreBest /\ TicketsDiffer /\ EntriesAgree
  BY DEF GroupsAgree, GroupsHaveTasks, HeadsAreBest, TicketsDiffer, EntriesAgree

\* The configuration and the clock.
LEMMA ConfigTypes ==
    ASSUME Types
    PROVE  /\ config \in OrderConfigType /\ config.boost \in BoostConfigType
           /\ Accepted(config.boost) /\ now \in 0..WordMax /\ now \in Nat
  BY OrderedAssumption, WidthAssumption DEF Types, OrderConfigType

\* The group of a task that is submitted.
LEMMA GroupOfType ==
    ASSUME NEW t \in TaskId, NEW d \in Descs
    PROVE  GroupOf(t, d) \in AnyGroup /\ GroupOf(t, d) # NoGroup
  <1>1. d.reservation \in Ids /\ d.job \in Ids
    BY OrderedAssumption DEF DescType
  <1>2. GroupKeyFromTask(t, d.reservation, d.job) \in GroupKey
    BY <1>1 DEF GroupKeyFromTask, GroupKey
  <1>3. GroupOf(t, d) \in GroupKey \cup {TheQueue}
    BY <1>2 DEF GroupOf
  <1>4. NoGroup \notin GroupKey \cup {TheQueue}
    BY OrderedAssumption
  <1> QED BY <1>3, <1>4 DEF AnyGroup

\* The estimate of a task's cost is a number: the first that is given, or 1.
LEMMA EstimatedCostNat ==
    ASSUME NEW d \in DescType
    PROVE  EstimatedCost(d) \in Nat
  <1> DEFINE estimates == <<d.cost, d.runtime, d.meta_runtime, d.shots>>
             known == {i \in 1..4 : estimates[i] # 0}
             first == CHOOSE i \in known : \A j \in known : i <= j
  <1>1. EstimatedCost(d) = IF known = {} THEN 1 ELSE estimates[first]
    BY DEF EstimatedCost
  <1>2. \A i \in 1..4 : estimates[i] \in Nat
    BY WidthAssumption DEF DescType
  <1>3. known \subseteq 1..4
    OBVIOUS
  <1> HIDE DEF known, estimates
  <1>4. CASE known # {}
    <2>1. known \subseteq Nat
      BY <1>3
    <2>2. \E i \in known : \A j \in known : i <= j
      BY <1>4, <2>1, LeastNumber
    <2>3. first \in known
      BY <2>2, Zenon
    <2> HIDE DEF first
    <2> QED BY <1>1, <1>2, <1>3, <1>4, <2>3
  <1>5. CASE known = {}
    BY <1>1, <1>5
  <1> QED BY <1>4, <1>5

\* ordered_refresh_task makes an entry current, and sifts it if it must.
LEMMA RefreshedCurrent ==
    ASSUME Types, NEW e \in EntryType, e.key = e.effective
    PROVE  /\ Refreshed(e) \in EntryType
           /\ Refreshed(e).key = Refreshed(e).effective
           /\ OnceCurrent(config.boost, Refreshed(e), now)
  <1>1. config.boost \in BoostConfigType /\ now \in 0..WordMax /\ now \in 0..now
    BY ConfigTypes
  <1> DEFINE r == Boost(config.boost, e, now)
  <1>2. r.effective_priority \in IntMin..IntMax /\ r.next_refresh \in 0..WordMax
    BY <1>1, BoostTypes DEF EntryType, Boostable
  <1>3. Refreshed(e) =
          [e EXCEPT !.effective = r.effective_priority, !.next = r.next_refresh,
                    !.key = IF r.effective_priority # e.effective
                            THEN r.effective_priority ELSE e.key]
    BY DEF Refreshed, BoostAt, Boost
  <1>4. Boost(config.boost, Refreshed(e), now) = r
    BY <1>3 DEF Boost, EntryType
  <1> HIDE DEF r
  <1>5. /\ Refreshed(e) \in EntryType
        /\ Refreshed(e).effective = r.effective_priority
        /\ Refreshed(e).key = r.effective_priority
        /\ Refreshed(e).next = r.next_refresh
    BY <1>2, <1>3 DEF EntryType
  <1> QED BY <1>1, <1>4, <1>5 DEF OnceCurrent

\* A change of one group's tasks leaves the other groups where they are in the heap,
\* and that group is sifted or gone.
LEMMA HeadsStep ==
    ASSUME Types, HeadsAreBest, NEW g \in AnyGroup, config' = config,
           \A h \in AnyGroup \ {g}, u \in TaskId :
               ((group'[u] = h) <=> (group[u] = h)) /\ (group[u] = h => entry'[u] = entry[u]),
           \A h \in AnyGroup \ {g} :
               /\ ticket'[h] = ticket[h] /\ head'[h] = head[h]
               /\ (h \in groups') <=> (h \in groups),
           g \in groups' => head'[g] = HeadAfter(g),
           g \notin groups' => head'[g] = NoView,
           groups' \subseteq AnyGroup
    PROVE  HeadsAreBest'
  <1>1. ASSUME NEW h \in AnyGroup \ groups' PROVE head'[h] = NoView
    BY <1>1 DEF HeadsAreBest
  <1>2. ASSUME NEW h \in groups' PROVE head'[h] = First(config', Views(h, group', entry', ticket'[h]))
    <2>1. CASE h = g
      BY <2>1 DEF HeadAfter, BestOf
    <2>2. CASE h # g
      <3>1. h \in AnyGroup \ {g} /\ h \in groups
        BY <2>2
      <3>2. head[h] = First(config, Views(h, group, entry, ticket[h]))
        BY <3>1 DEF HeadsAreBest, BestOf
      <3>3. {u \in TaskId : group'[u] = h} = {u \in TaskId : group[u] = h}
        BY <3>1
      <3>4. Views(h, group', entry', ticket'[h]) = Views(h, group, entry, ticket[h])
        <4>1. \A u \in {v \in TaskId : group[v] = h} :
                 View(u, entry'[u].key, entry'[u], ticket'[h]) =
                 View(u, entry[u].key, entry[u], ticket[h])
          BY <3>1
        <4> QED BY <3>3, <4>1 DEF Views
      <3> QED BY <3>1, <3>2, <3>4
    <2> QED BY <2>1, <2>2
  <1> QED BY <1>1, <1>2 DEF HeadsAreBest, BestOf

\* A task in no group has none that exists.
LEMMA NoGroupApart == NoGroup \notin AnyGroup
  BY OrderedAssumption DEF AnyGroup

\* A task arrives in a group or is refreshed in it, and the group is sifted.
LEMMA ArriveStep ==
    ASSUME PolicyInv, NEW t \in TaskId, NEW g \in AnyGroup, group[t] \in {NoGroup, g},
           NEW e \in EntryType, e.key = e.effective, RefreshTask(t, e),
           group' = [group EXCEPT ![t] = g], groups' = groups \cup {g},
           \A h \in AnyGroup \ {g} : ticket'[h] = ticket[h],
           head' = [head EXCEPT ![g] = HeadAfter(g)],
           config' = config, now' = now
    PROVE  /\ entry' \in [TaskId -> EntryType]
           /\ group' \in [TaskId -> AnyGroup \cup {NoGroup}]
           /\ head' = [h \in AnyGroup |-> head'[h]]
           /\ groups' \subseteq AnyGroup
           /\ GroupsHaveTasks' /\ HeadsAreBest' /\ EntriesAgree' /\ EntriesOnceCurrent'
  <1> DEFINE f == Refreshed(e)
  <1>1. f \in EntryType /\ f.key = f.effective /\ OnceCurrent(config.boost, f, now)
    BY RefreshedCurrent DEF PolicyInv
  <1>2. entry' = [entry EXCEPT ![t] = f]
        /\ refresh' = IF f.next = Never THEN refresh \ {t} ELSE refresh \cup {t}
    BY DEF RefreshTask
  <1> HIDE DEF f
  <1>3. /\ entry \in [TaskId -> EntryType] /\ group \in [TaskId -> AnyGroup \cup {NoGroup}]
        /\ groups \subseteq AnyGroup /\ head = [h \in AnyGroup |-> head[h]]
        /\ GroupsHaveTasks /\ HeadsAreBest /\ EntriesAgree /\ Types
    BY GroupsAgreeParts DEF PolicyInv, Types
  <1>4. entry' \in [TaskId -> EntryType] /\ group' \in [TaskId -> AnyGroup \cup {NoGroup}]
        /\ groups' \subseteq AnyGroup
    BY <1>1, <1>2, <1>3
  <1>5. entry'[t] = f /\ (\A u \in TaskId \ {t} : entry'[u] = entry[u] /\ group'[u] = group[u])
        /\ group'[t] = g
    BY <1>2, <1>3
  <1>6. NoGroup \notin AnyGroup
    BY NoGroupApart
  <1>7. Held' = Held \cup {t} /\ Held \subseteq TaskId
    BY <1>5, <1>6 DEF Held
  <1>8. GroupsHaveTasks'
    <2>1. ASSUME NEW u \in Held' PROVE group'[u] \in groups \cup {g}
      BY <1>3, <1>5, <1>7 DEF GroupsHaveTasks
    <2>2. ASSUME NEW h \in groups \cup {g} PROVE \E u \in Held' : h = group'[u]
      <3>1. CASE h = g
        BY <1>5, <1>7, <3>1
      <3>2. CASE h # g
        <4>1. PICK u \in Held : h = group[u]
          BY <1>3, <3>2 DEF GroupsHaveTasks
        <4>2. u # t
          BY <1>6, <3>2, <4>1 DEF Held
        <4> QED BY <1>5, <1>7, <4>1, <4>2
      <3> QED BY <3>1, <3>2
    <2>3. groups \cup {g} = {group'[u] : u \in Held'}
      BY <2>1, <2>2
    <2> QED BY <2>3 DEF GroupsHaveTasks
  <1>9. head' = [h \in AnyGroup |-> head'[h]] /\ head'[g] = HeadAfter(g)
        /\ \A h \in AnyGroup \ {g} : head'[h] = head[h]
    <2> HIDE DEF HeadAfter
    <2> PICK v : v = HeadAfter(g)
      OBVIOUS
    <2>1. head' = [head EXCEPT ![g] = v]
      OBVIOUS
    <2>2. head'[g] = v /\ \A h \in AnyGroup \ {g} : head'[h] = head[h]
      BY <1>3, <2>1
    <2>3. DOMAIN head' = AnyGroup
      BY <1>3, <2>1
    <2>4. head' = [h \in AnyGroup |-> head'[h]]
      BY <1>3, <2>1, <2>2, <2>3
    <2> QED BY <2>2, <2>4
  <1>10. HeadsAreBest'
    <2>1. \A h \in AnyGroup \ {g}, u \in TaskId :
             ((group'[u] = h) <=> (group[u] = h)) /\ (group[u] = h => entry'[u] = entry[u])
      BY <1>5, <1>6
    <2>2. \A h \in AnyGroup \ {g} : (h \in groups') <=> (h \in groups)
      OBVIOUS
    <2> QED BY <1>3, <1>4, <1>9, <2>1, <2>2, HeadsStep
  <1>11. EntriesAgree'
    BY <1>1, <1>2, <1>3, <1>5, <1>7 DEF EntriesAgree
  <1>12. EntriesOnceCurrent'
    <2> SUFFICES ASSUME NEW u \in Held' PROVE OnceCurrent(config.boost, entry'[u], now)
      BY DEF EntriesOnceCurrent
    <2>1. CASE u = t
      BY <1>1, <1>5, <2>1
    <2>2. CASE u # t
      BY <1>5, <1>7, <2>2 DEF PolicyInv, EntriesOnceCurrent
    <2> QED BY <2>1, <2>2
  <1> QED BY <1>4, <1>8, <1>9, <1>10, <1>11, <1>12

\* A task leaves its group, which is sifted or destroyed.
LEMMA LeaveStep ==
    ASSUME PolicyInv, NEW t \in Held, NEW tick \in Nat, Leave(t, tick),
           config' = config, now' = now
    PROVE  /\ entry' \in [TaskId -> EntryType]
           /\ group' \in [TaskId -> AnyGroup \cup {NoGroup}]
           /\ head' = [h \in AnyGroup |-> head'[h]]
           /\ ticket' \in [AnyGroup -> Nat] /\ seqNext' \in [AnyGroup -> Nat]
           /\ \A h \in AnyGroup \ {group[t]} : ticket'[h] = ticket[h]
           /\ group[t] \in groups' => ticket'[group[t]] = tick
           /\ groups' \subseteq groups /\ groups \ {group[t]} \subseteq groups'
           /\ GroupsHaveTasks' /\ HeadsAreBest' /\ EntriesAgree' /\ EntriesOnceCurrent'
  <1> DEFINE g == group[t]
  <1>1. /\ entry \in [TaskId -> EntryType] /\ group \in [TaskId -> AnyGroup \cup {NoGroup}]
        /\ groups \subseteq AnyGroup /\ head = [h \in AnyGroup |-> head[h]]
        /\ ticket \in [AnyGroup -> Nat] /\ seqNext \in [AnyGroup -> Nat]
        /\ GroupsHaveTasks /\ HeadsAreBest /\ EntriesAgree /\ Types
    BY GroupsAgreeParts DEF PolicyInv, Types
  <1>2. t \in TaskId /\ g # NoGroup /\ g \in AnyGroup /\ g \in groups
    BY <1>1 DEF Held, GroupsHaveTasks
  <1>3. /\ group' = [group EXCEPT ![t] = NoGroup]
        /\ entry' = [entry EXCEPT ![t] = NoEntry]
        /\ refresh' = refresh \ {t}
    BY DEF Leave
  <1>4. \/ /\ Lasts(g, t)
           /\ ticket' = [ticket EXCEPT ![g] = tick]
           /\ head' = [head EXCEPT ![g] = HeadAfter(g)]
           /\ groups' = groups /\ seqNext' = seqNext
        \/ /\ ~Lasts(g, t)
           /\ groups' = groups \ {g}
           /\ ticket' = [ticket EXCEPT ![g] = 0]
           /\ head' = [head EXCEPT ![g] = NoView]
           /\ seqNext' = IF UsesRoundRobin THEN [seqNext EXCEPT ![g] = 0] ELSE seqNext
    BY Zenon DEF Leave, GroupsWithout
  <1>5. NoEntry \in EntryType
    BY WidthAssumption DEF NoEntry, EntryType, Never
  <1>6. NoGroup \notin AnyGroup
    BY NoGroupApart
  <1>7. entry' \in [TaskId -> EntryType] /\ group' \in [TaskId -> AnyGroup \cup {NoGroup}]
    BY <1>1, <1>3, <1>5
  <1>8. group'[t] = NoGroup
        /\ \A u \in TaskId \ {t} : entry'[u] = entry[u] /\ group'[u] = group[u]
    BY <1>1, <1>2, <1>3
  <1>9. Held' = Held \ {t} /\ Held \subseteq TaskId
    BY <1>8 DEF Held
  <1> HIDE DEF g
  <1>10. /\ head' = [h \in AnyGroup |-> head'[h]]
         /\ \A h \in AnyGroup \ {g} : head'[h] = head[h]
         /\ g \in groups' => head'[g] = HeadAfter(g)
         /\ g \notin groups' => head'[g] = NoView
    <2>1. PICK v : head' = [head EXCEPT ![g] = v]
                   /\ (g \in groups' => v = HeadAfter(g)) /\ (g \notin groups' => v = NoView)
      <3>1. CASE Lasts(g, t)
        BY <1>2, <1>4, <3>1
      <3>2. CASE ~Lasts(g, t)
        BY <1>2, <1>4, <3>2
      <3> QED BY <3>1, <3>2
    <2>2. head'[g] = v /\ \A h \in AnyGroup \ {g} : head'[h] = head[h]
      BY <1>1, <1>2, <2>1
    <2>3. DOMAIN head' = AnyGroup
      BY <1>1, <2>1
    <2>4. head' = [h \in AnyGroup |-> head'[h]]
      BY <1>1, <2>1, <2>2, <2>3
    <2> QED BY <2>1, <2>2, <2>4
  <1>11. /\ ticket' \in [AnyGroup -> Nat] /\ seqNext' \in [AnyGroup -> Nat]
         /\ \A h \in AnyGroup \ {g} : ticket'[h] = ticket[h]
         /\ g \in groups' => ticket'[g] = tick
         /\ groups' \subseteq groups /\ groups \ {g} \subseteq groups'
         /\ (g \in groups') <=> Lasts(g, t)
    <2>1. CASE Lasts(g, t)
      BY <1>1, <1>2, <1>4, <2>1
    <2>2. CASE ~Lasts(g, t)
      BY <1>1, <1>2, <1>4, <2>2
    <2> QED BY <2>1, <2>2
  <1>12. GroupsHaveTasks'
    <2>1. ASSUME NEW u \in Held' PROVE group'[u] \in groups'
      <3>1. u \in TaskId \ {t} /\ u \in Held /\ group'[u] = group[u]
        BY <1>8, <1>9
      <3>2. group[u] \in groups
        BY <1>1, <3>1 DEF GroupsHaveTasks
      <3>3. group[u] = g => Lasts(g, t)
        BY <3>1 DEF Lasts
      <3> QED BY <1>11, <3>1, <3>2, <3>3
    <2>2. ASSUME NEW h \in groups' PROVE \E u \in Held' : h = group'[u]
      <3>1. CASE h = g
        <4>1. PICK u \in TaskId \ {t} : group[u] = g
          BY <1>11, <3>1 DEF Lasts
        <4>2. u \in Held
          BY <1>2, <4>1 DEF Held
        <4> QED BY <1>8, <1>9, <3>1, <4>1, <4>2
      <3>2. CASE h # g
        <4>1. PICK u \in Held : h = group[u]
          BY <1>1, <1>11 DEF GroupsHaveTasks
        <4>2. u # t
          BY <3>2, <4>1 DEF g
        <4> QED BY <1>8, <1>9, <4>1, <4>2
      <3> QED BY <3>1, <3>2
    <2>3. groups' = {group'[u] : u \in Held'}
      BY <2>1, <2>2
    <2> QED BY <2>3 DEF GroupsHaveTasks
  <1>13. HeadsAreBest'
    <2>1. \A h \in AnyGroup \ {g}, u \in TaskId :
             ((group'[u] = h) <=> (group[u] = h)) /\ (group[u] = h => entry'[u] = entry[u])
      BY <1>6, <1>8 DEF g
    <2>2. \A h \in AnyGroup \ {g} : (h \in groups') <=> (h \in groups)
      BY <1>11
    <2>3. groups' \subseteq AnyGroup
      BY <1>1, <1>11
    <2> QED BY <1>1, <1>2, <1>10, <1>11, <2>1, <2>2, <2>3, HeadsStep
  <1>14. EntriesAgree'
    BY <1>1, <1>3, <1>8, <1>9 DEF EntriesAgree
  <1>15. EntriesOnceCurrent'
    BY <1>8, <1>9 DEF PolicyInv, EntriesOnceCurrent
  <1> QED BY <1>7, <1>10, <1>11, <1>12, <1>13, <1>14, <1>15 DEF g

\* Nothing changes but the clock, the state of the selection and the numbers that are
\* handed out next.
LEMMA StayStep ==
    ASSUME PolicyInv, config' = config, now' \in Nat, now <= now', group' = group,
           entry' = entry, groups' = groups, ticket' = ticket, head' = head,
           refresh' = refresh, nextTicket' \in Nat, nextTicket <= nextTicket'
    PROVE  GroupsAgree' /\ TicketsPast' /\ EntriesOnceCurrent'
  <1>1. Held' = Held
    BY DEF Held
  <1>2. now \in Nat
    BY ConfigTypes DEF PolicyInv
  <1>3. EntriesOnceCurrent'
    BY <1>1, <1>2, OnceCurrentRemains DEF PolicyInv, EntriesOnceCurrent
  <1>4. TicketsPast'
    <2>1. UsesRoundRobin' <=> UsesRoundRobin
      BY DEF UsesRoundRobin, Uses
    <2>2. ticket \in [AnyGroup -> Nat] /\ nextTicket \in Nat /\ groups \subseteq AnyGroup
      BY DEF PolicyInv, Types
    <2>3. UsesRoundRobin => \A g \in groups : ticket[g] < nextTicket'
      BY <2>2 DEF PolicyInv, TicketsPast
    <2> QED BY <2>1, <2>3 DEF TicketsPast
  <1>5. GroupsAgree'
    <2>1. GroupsHaveTasks' /\ EntriesAgree'
      BY <1>1, GroupsAgreeParts DEF PolicyInv, GroupsHaveTasks, EntriesAgree
    <2>2. TicketsDiffer'
      BY GroupsAgreeParts DEF PolicyInv, TicketsDiffer, UsesRoundRobin, Uses
    <2>3. HeadsAreBest'
      BY GroupsAgreeParts DEF PolicyInv, HeadsAreBest, BestOf
    <2> QED BY <2>1, <2>2, <2>3, GroupsAgreeParts, PTL
  <1> QED BY <1>3, <1>4, <1>5

\* The top of a group's ready heap is a task of the group that its keys put first.
LEMMA BestOfGroup ==
    ASSUME PolicyInv, NEW g \in groups
    PROVE  \E t \in TaskId :
              /\ group[t] = g
              /\ BestOf(g, group, entry, ticket[g]) = View(t, entry[t].key, entry[t], ticket[g])
              /\ \A u \in TaskId \ {t} : group[u] = g =>
                    Precedes(config, View(t, entry[t].key, entry[t], ticket[g]),
                                     View(u, entry[u].key, entry[u], ticket[g]))
  <1> DEFINE S == {u \in TaskId : group[u] = g}
             W(u) == View(u, entry[u].key, entry[u], ticket[g])
             V == {W(u) : u \in S}
  <1>1. /\ entry \in [TaskId -> EntryType] /\ ticket \in [AnyGroup -> Nat]
        /\ groups \subseteq AnyGroup /\ config \in OrderConfigType
    BY ConfigTypes DEF PolicyInv, Types
  <1>2. S # {} /\ S \subseteq TaskId
    BY DEF PolicyInv, GroupsAgree, Held
  <1>3. ASSUME NEW u \in TaskId PROVE W(u) \in ViewType /\ W(u).id = u
    <2>1. u \in Nat /\ entry[u] \in EntryType /\ ticket[g] \in Int
      BY <1>1, OrderedAssumption
    <2>2. entry[u].key \in Int /\ entry[u].cost \in Int /\ entry[u].seq \in Int
      BY <2>1, WidthAssumption DEF EntryType
    <2> QED BY <2>1, <2>2 DEF View, ViewType
  <1>4. V \subseteq ViewType /\ V # {} /\ \A x, y \in V : x # y => x.id # y.id
    BY <1>2, <1>3
  <1>5. IsFiniteSet(V)
    <2>1. IsFiniteSet(S)
      BY <1>2, OrderedAssumption, FS_Subset
    <2> DEFINE f == [u \in S |-> W(u)]
    <2>2. f \in Surjection(S, V)
      BY DEF Surjection
    <2> HIDE DEF f, V, S
    <2> QED BY <2>1, <2>2, FS_Surjection
  <1>6. BestOf(g, group, entry, ticket[g]) = First(config, V)
    BY DEF BestOf, Views
  <1> HIDE DEF V
  <1>7. First(config, V) \in V /\ \A y \in V \ {First(config, V)} :
                                      Precedes(config, First(config, V), y)
    BY <1>1, <1>4, <1>5, FirstExists
  <1>8. PICK t \in S : First(config, V) = W(t)
    BY <1>7 DEF V
  <1>9. ASSUME NEW u \in TaskId \ {t}, group[u] = g PROVE Precedes(config, W(t), W(u))
    <2>1. W(u) \in V
      BY <1>9 DEF V
    <2>2. W(u).id = u /\ W(t).id = t
      BY <1>2, <1>3
    <2>3. W(u) # W(t)
      BY <2>2
    <2> QED BY <1>7, <1>8, <2>1, <2>3
  <1> QED BY <1>6, <1>8, <1>9

\* ordered_init leaves every structure empty.
LEMMA PolicyInvInit == Init => PolicyInv
  <1> SUFFICES ASSUME Init PROVE PolicyInv
    OBVIOUS
  <1>1. NoEntry \in EntryType
    BY WidthAssumption DEF NoEntry, EntryType, Never
  <1>2. Held = {}
    BY DEF Init, Held
  <1>3. Types
    <2>1. /\ entry \in [TaskId -> EntryType] /\ group \in [TaskId -> AnyGroup \cup {NoGroup}]
          /\ groups \subseteq AnyGroup /\ ticket \in [AnyGroup -> Nat]
          /\ seqNext \in [AnyGroup -> Nat] /\ nextTicket \in Nat
      BY <1>1 DEF Init
    <2>2. now \in 0..MaxNow /\ loopNow \in 0..now
      BY OrderedAssumption DEF Init
    <2>3. selecting \in BOOLEAN /\ config \in OrderConfigs
      BY Zenon DEF Init
    <2>4. head = [g \in AnyGroup |-> head[g]]
      BY DEF Init
    <2> QED BY <2>1, <2>2, <2>3, <2>4, Zenon DEF Types
  <1>4. GroupsAgree
    BY <1>2 DEF Init, GroupsAgree
  <1> QED BY <1>2, <1>3, <1>4 DEF Init, PolicyInv, TicketsPast, EntriesOnceCurrent

\* Every callback keeps the structures in agreement.
LEMMA PolicyInvStep == PolicyInv /\ [Next]_vars => PolicyInv'
  <1> SUFFICES ASSUME PolicyInv, [Next]_vars PROVE PolicyInv'
    OBVIOUS
  <1>0. /\ config \in OrderConfigs /\ now \in 0..MaxNow /\ now \in Nat /\ MaxNow \in Nat
        /\ group \in [TaskId -> AnyGroup \cup {NoGroup}]
        /\ entry \in [TaskId -> EntryType] /\ groups \subseteq AnyGroup
        /\ ticket \in [AnyGroup -> Nat] /\ seqNext \in [AnyGroup -> Nat]
        /\ head = [g \in AnyGroup |-> head[g]]
        /\ nextTicket \in Nat /\ selecting \in BOOLEAN /\ loopNow \in 0..now
        /\ \A t \in Held : entry[t].key = entry[t].effective
        /\ GroupsHaveTasks /\ HeadsAreBest /\ TicketsDiffer /\ EntriesAgree
    BY OrderedAssumption, GroupsAgreeParts DEF PolicyInv, Types, EntriesAgree
  <1>a. ASSUME GroupsHaveTasks', HeadsAreBest', TicketsDiffer', EntriesAgree'
        PROVE  GroupsAgree'
    BY <1>a, GroupsAgreeParts, PTL
  <1>b. config' = config => (UsesRoundRobin' <=> UsesRoundRobin)
    BY DEF UsesRoundRobin, Uses
  <1>1. ASSUME NEW t \in TaskId, NEW d \in Descs, OnTaskSubmit(t, d) PROVE PolicyInv'
    <2> DEFINE g == GroupOf(t, d)
               e == NewEntry(g, d)
    <2>1. g \in AnyGroup /\ g # NoGroup
      BY GroupOfType
    <2>2. /\ group[t] = NoGroup
          /\ group' = [group EXCEPT ![t] = g]
          /\ groups' = groups \cup {g}
          /\ ticket' = [ticket EXCEPT ![g] = TicketOnSubmit(g)]
          /\ nextTicket' = nextTicket + TicketsTaken(g)
          /\ RefreshTask(t, e)
          /\ seqNext' = [seqNext EXCEPT ![g] = @ + 1]
          /\ head' = [head EXCEPT ![g] = HeadAfter(g)]
          /\ config' = config /\ now' = now /\ selecting' = selecting /\ loopNow' = loopNow
      BY <1>1 DEF OnTaskSubmit, MaySubmit, selectVars
    <2>3. e \in EntryType /\ e.key = e.effective
      <3>1. d \in DescType /\ EstimatedCost(d) \in Nat
        BY OrderedAssumption, EstimatedCostNat
      <3>2. seqNext[g] \in Nat
        BY <1>0, <2>1
      <3> HIDE DEF g
      <3> QED BY <3>1, <3>2, WidthAssumption DEF NewEntry, EntryType, DescType, Never
    <2> HIDE DEF g, e
    <2>4. TicketOnSubmit(g) \in Nat /\ TicketsTaken(g) \in {0, 1}
          /\ (UsesRoundRobin /\ g \notin groups => TicketOnSubmit(g) = nextTicket
                                                  /\ TicketsTaken(g) = 1)
          /\ (~(UsesRoundRobin /\ g \notin groups) => TicketOnSubmit(g) = ticket[g])
      BY <1>0, <2>1 DEF TicketOnSubmit, TicketsTaken
    <2>5. ticket' \in [AnyGroup -> Nat] /\ seqNext' \in [AnyGroup -> Nat] /\ nextTicket' \in Nat
          /\ ticket'[g] = TicketOnSubmit(g) /\ nextTicket <= nextTicket'
          /\ \A h \in AnyGroup \ {g} : ticket'[h] = ticket[h]
      BY <1>0, <2>1, <2>2, <2>4
    <2>6. /\ entry' \in [TaskId -> EntryType]
          /\ group' \in [TaskId -> AnyGroup \cup {NoGroup}]
          /\ head' = [h \in AnyGroup |-> head'[h]]
          /\ groups' \subseteq AnyGroup
          /\ GroupsHaveTasks' /\ HeadsAreBest' /\ EntriesAgree' /\ EntriesOnceCurrent'
      BY <2>1, <2>2, <2>3, <2>5, ArriveStep
    <2>7. TicketsPast' /\ TicketsDiffer'
      <3>1. CASE UsesRoundRobin /\ g \notin groups
        <4>1. \A h \in groups : ticket'[h] = ticket[h] /\ ticket'[h] < nextTicket
                                /\ ticket'[h] \in Nat
          BY <1>0, <2>5, <3>1 DEF PolicyInv, TicketsPast
        <4>2. ticket'[g] = nextTicket /\ nextTicket' = nextTicket + 1
          BY <2>2, <2>4, <2>5, <3>1
        <4> QED BY <1>0, <2>2, <3>1, <4>1, <4>2 DEF TicketsPast, TicketsDiffer
      <3>2. CASE UsesRoundRobin /\ g \in groups
        <4>1. \A h \in groups : ticket'[h] = ticket[h] /\ ticket[h] < nextTicket
                                /\ ticket[h] \in Nat
          BY <1>0, <2>4, <2>5, <3>2 DEF PolicyInv, TicketsPast
        <4>2. groups' = groups
          BY <2>2, <3>2
        <4> QED BY <1>0, <2>5, <3>2, <4>1, <4>2 DEF TicketsPast, TicketsDiffer
      <3>3. CASE ~UsesRoundRobin
        BY <1>b, <2>2, <3>3 DEF TicketsPast, TicketsDiffer
      <3> QED BY <3>1, <3>2, <3>3
    <2>8. Types'
      BY <1>0, <2>2, <2>5, <2>6 DEF Types
    <2> QED BY <1>a, <2>6, <2>7, <2>8 DEF PolicyInv
  <1>2. ASSUME NEW t \in TaskId, NEW d \in Descs, OnTaskSubmitFails(t, d) PROVE PolicyInv'
    <2> DEFINE g == GroupOf(t, d)
    <2>1. g \in AnyGroup /\ TicketsTaken(g) \in {0, 1}
      BY GroupOfType DEF TicketsTaken
    <2>2. /\ nextTicket' \in {nextTicket, nextTicket + TicketsTaken(g)}
          /\ seqNext' = seqNext \/ seqNext' = [seqNext EXCEPT ![g] = @ + 1]
          /\ UNCHANGED <<config, now, group, groups, ticket, head, entry, refresh, selecting,
                         loopNow>>
      BY <1>2 DEF OnTaskSubmitFails, selectVars
    <2> HIDE DEF g
    <2>3. nextTicket' \in Nat /\ nextTicket <= nextTicket' /\ seqNext' \in [AnyGroup -> Nat]
      BY <1>0, <2>1, <2>2
    <2>4. GroupsAgree' /\ TicketsPast' /\ EntriesOnceCurrent'
      BY <1>0, <2>2, <2>3, StayStep
    <2>5. Types'
      BY <1>0, <2>2, <2>3 DEF Types
    <2> QED BY <2>4, <2>5 DEF PolicyInv
  <1>3. ASSUME NEW t \in Held, NEW tick \in Nat, Leave(t, tick), UNCHANGED <<config, now>>,
               nextTicket' \in Nat, nextTicket <= nextTicket',
               tick = ticket[group[t]] \/ group[t] \notin groups'
                  \/ (tick = nextTicket /\ nextTicket' = nextTicket + 1) \/ ~UsesRoundRobin,
               selecting' \in BOOLEAN, loopNow' \in 0..now
        PROVE  PolicyInv'
    <2> DEFINE g == group[t]
    <2>1. /\ entry' \in [TaskId -> EntryType]
          /\ group' \in [TaskId -> AnyGroup \cup {NoGroup}]
          /\ head' = [h \in AnyGroup |-> head'[h]]
          /\ ticket' \in [AnyGroup -> Nat] /\ seqNext' \in [AnyGroup -> Nat]
          /\ \A h \in AnyGroup \ {g} : ticket'[h] = ticket[h]
          /\ g \in groups' => ticket'[g] = tick
          /\ groups' \subseteq groups
          /\ GroupsHaveTasks' /\ HeadsAreBest' /\ EntriesAgree' /\ EntriesOnceCurrent'
      BY <1>3, LeaveStep
    <2>2. Types'
      BY <1>0, <1>3, <2>1 DEF Types
    <2>3. TicketsPast' /\ TicketsDiffer'
      <3>1. CASE ~UsesRoundRobin
        BY <1>b, <1>3, <3>1 DEF TicketsPast, TicketsDiffer
      <3>2. CASE UsesRoundRobin
        <4>1. \A h \in groups : ticket[h] < nextTicket /\ ticket[h] \in Nat
          BY <1>0, <3>2 DEF PolicyInv, TicketsPast
        <4>2. \A h, k \in groups : h # k => ticket[h] # ticket[k]
          BY <1>0, <3>2 DEF TicketsDiffer
        <4>3. \A h \in groups' \ {g} : h \in groups /\ ticket'[h] = ticket[h]
          BY <1>0, <2>1
        <4>4. CASE g \notin groups'
          <5>1. \A h \in groups' : h \in groups /\ ticket'[h] = ticket[h]
            BY <4>3, <4>4
          <5> HIDE DEF g
          <5>2. \A h \in groups' : ticket'[h] < nextTicket'
            BY <1>0, <1>3, <4>1, <5>1
          <5>3. \A h, k \in groups' : h # k => ticket'[h] # ticket'[k]
            BY <4>2, <5>1
          <5> QED BY <5>2, <5>3 DEF TicketsPast, TicketsDiffer
        <4>5. CASE g \in groups' /\ tick = ticket[g]
          <5> HIDE DEF g
          <5>1. \A h \in groups' : h \in groups /\ ticket'[h] = ticket[h]
            BY <2>1, <4>3, <4>5
          <5>2. \A h \in groups' : ticket'[h] < nextTicket'
            BY <1>0, <1>3, <4>1, <5>1
          <5>3. \A h, k \in groups' : h # k => ticket'[h] # ticket'[k]
            BY <4>2, <5>1
          <5> QED BY <5>2, <5>3 DEF TicketsPast, TicketsDiffer
        <4>6. CASE g \in groups' /\ tick = nextTicket /\ nextTicket' = nextTicket + 1
          <5> HIDE DEF g
          <5>1. ticket'[g] = nextTicket
            BY <2>1, <4>6
          <5>2. \A h \in groups' \ {g} : ticket'[h] < nextTicket /\ ticket'[h] \in Nat
            BY <4>1, <4>3
          <5>3. \A h \in groups' : ticket'[h] < nextTicket'
            BY <1>0, <4>6, <5>1, <5>2
          <5>4. \A h, k \in groups' \ {g} : h # k => ticket'[h] # ticket'[k]
            BY <4>2, <4>3
          <5>5. \A h, k \in groups' : h # k => ticket'[h] # ticket'[k]
            BY <1>0, <5>1, <5>2, <5>4
          <5> QED BY <5>3, <5>5 DEF TicketsPast, TicketsDiffer
        <4> QED BY <1>3, <3>2, <4>4, <4>5, <4>6
      <3> QED BY <3>1, <3>2
    <2> QED BY <1>a, <2>1, <2>2, <2>3 DEF PolicyInv
  <1>4. ASSUME NEW t \in TaskId, OnTaskFinished(t) PROVE PolicyInv'
    <2>1. /\ t \in Held /\ Leave(t, ticket[group[t]])
          /\ UNCHANGED <<config, now, nextTicket, selecting, loopNow>>
      BY <1>4 DEF OnTaskFinished, selectVars
    <2>2. group[t] \in AnyGroup
      BY <1>0, <2>1 DEF Held
    <2>3. ticket[group[t]] \in Nat
      BY <1>0, <2>2
    <2> QED BY <1>0, <1>3, <2>1, <2>3
  <1>5. ASSUME NEW t \in Held, NEW e \in EntryType, e.key = e.effective, RefreshTask(t, e),
               UNCHANGED <<group, groups, ticket, seqNext, nextTicket, config, now, selecting,
                           loopNow>>,
               head' = [head EXCEPT ![group[t]] = HeadAfter(group[t])]
        PROVE  PolicyInv'
    <2>1. t \in TaskId /\ group[t] \in AnyGroup /\ group[t] \in groups
      BY <1>0 DEF Held, GroupsHaveTasks
    <2>2. group' = [group EXCEPT ![t] = group[t]] /\ groups' = groups \cup {group[t]}
      BY <1>0, <1>5, <2>1
    <2>3. /\ entry' \in [TaskId -> EntryType]
          /\ head' = [h \in AnyGroup |-> head'[h]]
          /\ GroupsHaveTasks' /\ HeadsAreBest' /\ EntriesAgree' /\ EntriesOnceCurrent'
      BY <1>5, <2>1, <2>2, ArriveStep
    <2>4. TicketsPast' /\ TicketsDiffer'
      BY <1>0, <1>5 DEF PolicyInv, TicketsPast, TicketsDiffer, UsesRoundRobin, Uses
    <2>5. Types'
      BY <1>0, <1>5, <2>3 DEF Types
    <2> QED BY <1>a, <2>3, <2>4, <2>5 DEF PolicyInv
  <1>6. ASSUME NEW t \in TaskId, NEW base \in Bases, OnTaskPriorityChanged(t, base)
        PROVE  PolicyInv'
    <2> DEFINE e == [entry[t] EXCEPT !.base = base]
    <2>1. /\ t \in Held /\ RefreshTask(t, e)
          /\ UNCHANGED <<group, groups, ticket, seqNext, nextTicket, config, now, selecting,
                         loopNow>>
          /\ head' = [head EXCEPT ![group[t]] = HeadAfter(group[t])]
      BY <1>6 DEF OnTaskPriorityChanged, selectVars
    <2>2. e \in EntryType /\ e.key = e.effective
      BY <1>0, <2>1, OrderedAssumption DEF EntryType
    <2> HIDE DEF e
    <2> QED BY <1>5, <2>1, <2>2
  <1>7. ASSUME RefreshExpired PROVE PolicyInv'
    <2>1. PICK t \in Expired : /\ RefreshTask(t, entry[t])
                               /\ UNCHANGED <<group, groups, ticket, seqNext, nextTicket>>
                               /\ head' = [head EXCEPT ![group[t]] = HeadAfter(group[t])]
      BY <1>7 DEF RefreshExpired
    <2>2. UNCHANGED <<config, now, selecting, loopNow>>
      BY <1>7 DEF RefreshExpired, selectVars
    <2>3. t \in Held /\ t \in TaskId
      BY <1>0 DEF Expired, EntriesAgree, Held
    <2>4. entry[t] \in EntryType /\ entry[t].key = entry[t].effective
      BY <1>0, <2>3
    <2> QED BY <1>5, <2>1, <2>2, <2>3, <2>4
  <1>8. ASSUME SelectBegins PROVE PolicyInv'
    <2>1. /\ UNCHANGED <<config, now, group, groups, ticket, head, entry, refresh, seqNext,
                         nextTicket>>
          /\ selecting' = TRUE /\ loopNow' = now
      BY <1>8 DEF SelectBegins, groupVars
    <2>2. GroupsAgree' /\ TicketsPast' /\ EntriesOnceCurrent'
      BY <1>0, <2>1, StayStep
    <2>3. Types'
      BY <1>0, <2>1 DEF Types
    <2> QED BY <2>2, <2>3 DEF PolicyInv
  <1>9. ASSUME SelectEnds PROVE PolicyInv'
    <2>0. UNCHANGED <<config, now>> /\ selecting' = FALSE /\ loopNow' = 0
      BY <1>9 DEF SelectEnds
    <2>a. selecting' \in BOOLEAN
      BY <2>0, Zenon
    <2>b. loopNow' \in 0..now
      BY <1>0, <2>0
    <2>1. CASE UNCHANGED <<groupVars, entry, refresh>>
      <3>1. UNCHANGED <<group, groups, ticket, head, entry, refresh, seqNext, nextTicket>>
        BY <2>1 DEF groupVars
      <3>2. GroupsAgree' /\ TicketsPast' /\ EntriesOnceCurrent'
        BY <1>0, <2>0, <3>1, StayStep
      <3>3. Types'
        BY <1>0, <2>0, <2>a, <2>b, <3>1, Zenon DEF Types
      <3> QED BY <3>2, <3>3 DEF PolicyInv
    <2>2. ASSUME NEW g \in groups, Leave(BestOf(g, group, entry, ticket[g]).id, TicketAfterTurn(g)),
                 nextTicket' = nextTicket + (IF UsesRoundRobin /\ g \in groups' THEN 1 ELSE 0)
          PROVE  PolicyInv'
      <3>1. PICK t \in TaskId :
               /\ group[t] = g
               /\ BestOf(g, group, entry, ticket[g]) = View(t, entry[t].key, entry[t], ticket[g])
        BY BestOfGroup
      <3>2. BestOf(g, group, entry, ticket[g]).id = t
        BY <3>1 DEF View
      <3>3. t \in Held
        BY <1>0, <3>1, NoGroupApart DEF Held
      <3>4. TicketAfterTurn(g) \in Nat /\ (UsesRoundRobin => TicketAfterTurn(g) = nextTicket)
        BY <1>0 DEF TicketAfterTurn
      <3>5. nextTicket' \in Nat /\ nextTicket <= nextTicket'
            /\ (UsesRoundRobin /\ g \in groups' => nextTicket' = nextTicket + 1)
        BY <1>0, <2>2
      <3>6. Leave(t, TicketAfterTurn(g))
        BY <2>2, <3>2
      <3> QED BY <1>3, <2>0, <2>a, <2>b, <3>1, <3>3, <3>4, <3>5, <3>6
    <2> QED BY <1>9, <2>1, <2>2 DEF SelectEnds
  <1>10. ASSUME Tick PROVE PolicyInv'
    <2>1. /\ UNCHANGED <<config, group, groups, ticket, head, entry, refresh, seqNext,
                         nextTicket, selecting, loopNow>>
          /\ now < MaxNow /\ now' = now + 1
      BY <1>10 DEF Tick, groupVars, selectVars
    <2>2. GroupsAgree' /\ TicketsPast' /\ EntriesOnceCurrent'
      BY <1>0, <2>1, StayStep
    <2>3. Types'
      BY <1>0, <2>1 DEF Types
    <2> QED BY <2>2, <2>3 DEF PolicyInv
  <1>11. ASSUME UNCHANGED vars PROVE PolicyInv'
    <2>1. UNCHANGED <<config, now, group, groups, ticket, head, entry, refresh, seqNext,
                      nextTicket, selecting, loopNow>>
      BY <1>11 DEF vars, groupVars, selectVars
    <2>2. GroupsAgree' /\ TicketsPast' /\ EntriesOnceCurrent'
      BY <1>0, <2>1, StayStep
    <2>3. Types'
      BY <1>0, <2>1 DEF Types
    <2> QED BY <2>2, <2>3 DEF PolicyInv
  <1> QED BY <1>1, <1>2, <1>4, <1>6, <1>7, <1>8, <1>9, <1>10, <1>11 DEF Next

\* The policy invariant holds in every state of every behaviour.
LEMMA PolicyInvHolds == Spec => []PolicyInv
  BY PolicyInvInit, PolicyInvStep, PTL DEF Spec

\* For any tasks, groups and order keys: every change of a group's best task, by
\* arrival, boost, priority or departure, has reached the group heap; the groups in
\* the map are those with a waiting task, and no two have the same ticket.
THEOREM GroupsAgreeHolds == Spec => []GroupsAgree
  <1>1. PolicyInv => GroupsAgree
    BY DEF PolicyInv
  <1> QED BY <1>1, PolicyInvHolds, PTL

----------------------------------------------------------------------------
(* Turns *)

RoundRobinFirst == config.keys[1] = "ROUND_ROBIN"

\* A group that was served while another one waited has the later ticket of the two.
ServedHaveLaterTickets ==
    \A g \in groups, h \in AnyGroup :
        passed[g][h] <= 1 /\ (passed[g][h] > 0 /\ h \in groups => ticket[g] < ticket[h])

TurnsInv ==
    /\ passed \in [AnyGroup -> [AnyGroup -> 0..2]]
    /\ RoundRobinFirst => /\ \A g \in AnyGroup \ groups : passed[g] = NoTurns
                          /\ ServedHaveLaterTickets

\* A leading ROUND_ROBIN key is one of the keys.
LEMMA RoundRobinUsed ==
    ASSUME Types, RoundRobinFirst
    PROVE  UsesRoundRobin
  <1>1. 1 \in DOMAIN config.keys
    BY ConfigTypes, OrderKeys
  <1> QED BY <1>1 DEF RoundRobinFirst, UsesRoundRobin, Uses

\* The group at the top of the group heap has the earliest ticket.
LEMMA FirstHasEarliestTicket ==
    ASSUME PolicyInv, RoundRobinFirst, NEW g \in groups, NEW h \in groups \ {g},
           Precedes(config, head[g], head[h])
    PROVE  ticket[g] < ticket[h]
  <1>1. PICK t \in TaskId :
           BestOf(g, group, entry, ticket[g]) = View(t, entry[t].key, entry[t], ticket[g])
    BY BestOfGroup
  <1>2. PICK u \in TaskId :
           BestOf(h, group, entry, ticket[h]) = View(u, entry[u].key, entry[u], ticket[h])
    BY BestOfGroup
  <1>3. head[g].ticket = ticket[g] /\ head[h].ticket = ticket[h]
    BY <1>1, <1>2 DEF PolicyInv, GroupsAgree, View
  <1>4. ticket[g] # ticket[h] /\ ticket[g] \in Nat /\ ticket[h] \in Nat
    BY RoundRobinUsed DEF PolicyInv, GroupsAgree, Types
  <1>5. KeyValue(config.keys[1], head[g]) = ticket[g]
        /\ KeyValue(config.keys[1], head[h]) = ticket[h]
    BY <1>3 DEF RoundRobinFirst, KeyValue
  <1>6. Len(config.keys) \in Nat /\ Len(config.keys) >= 1
        /\ DOMAIN config.keys = 1..Len(config.keys)
    BY ConfigTypes, OrderKeys DEF PolicyInv
  <1>7. ASSUME NEW n \in Nat, n >= 1, Level(config, head[g], head[h], n) PROVE FALSE
    <2>1. 1 \in 1..n
      BY <1>7
    <2>2. KeyValue(config.keys[1], head[g]) = KeyValue(config.keys[1], head[h])
      BY <1>7, <2>1 DEF Level
    <2> QED BY <1>4, <1>5, <2>2
  <1>8. PICK i \in 1..Len(config.keys) :
           /\ Level(config, head[g], head[h], i - 1)
           /\ KeyValue(config.keys[i], head[g]) < KeyValue(config.keys[i], head[h])
    BY <1>6, <1>7 DEF Precedes
  <1>9. CASE i = 1
    BY <1>5, <1>8, <1>9
  <1>10. CASE i # 1
    <2>1. i - 1 \in Nat /\ i - 1 >= 1
      BY <1>6, <1>10
    <2> QED BY <1>7, <1>8, <2>1
  <1> QED BY <1>9, <1>10

\* Nobody has been passed at first.
LEMMA TurnsInvInit == Init => TurnsInv
  BY DEF Init, TurnsInv, NoTurns, ServedHaveLaterTickets

\* A group that is served takes a ticket behind all that wait.
LEMMA TurnsInvStep == PolicyInv /\ PolicyInv' /\ TurnsInv /\ [Next]_vars => TurnsInv'
  <1> SUFFICES ASSUME PolicyInv, PolicyInv', TurnsInv, [Next]_vars PROVE TurnsInv'
    OBVIOUS
  <1>0. /\ groups \subseteq AnyGroup /\ ticket \in [AnyGroup -> Nat] /\ nextTicket \in Nat
        /\ groups' \subseteq AnyGroup /\ ticket' \in [AnyGroup -> Nat]
        /\ passed \in [AnyGroup -> [AnyGroup -> 0..2]] /\ Types
    BY DEF PolicyInv, Types, TurnsInv
  <1>1. NoTurns \in [AnyGroup -> 0..2] /\ \A h \in AnyGroup : NoTurns[h] = 0
    BY DEF NoTurns
  <1>2. config' = config
    BY DEF Next, vars, OnTaskSubmit, OnTaskSubmitFails, OnTaskFinished, OnTaskPriorityChanged,
           SelectBegins, RefreshExpired, SelectEnds, Tick
  <1>3. RoundRobinFirst' <=> RoundRobinFirst
    BY <1>2 DEF RoundRobinFirst
  <1>4. ASSUME RoundRobinFirst PROVE \A g \in groups : ticket[g] < nextTicket
    BY <1>0, <1>4, RoundRobinUsed DEF PolicyInv, TicketsPast
  <1>5. ASSUME UNCHANGED <<groups, ticket, passed>> PROVE TurnsInv'
    BY <1>3, <1>5 DEF TurnsInv, ServedHaveLaterTickets
  <1>6. ASSUME NEW t \in TaskId, NEW d \in Descs, OnTaskSubmit(t, d) PROVE TurnsInv'
    <2> DEFINE g == GroupOf(t, d)
    <2>1. /\ groups' = groups \cup {g} /\ passed' = passed
          /\ ticket' = [ticket EXCEPT ![g] = TicketOnSubmit(g)]
      BY <1>6 DEF OnTaskSubmit
    <2>2. g \in AnyGroup
      BY GroupOfType
    <2> HIDE DEF g
    <2>3. CASE RoundRobinFirst /\ g \notin groups
      <3>1. TicketOnSubmit(g) = nextTicket
        BY <1>0, <2>3, RoundRobinUsed DEF TicketOnSubmit
      <3>2. ticket'[g] = nextTicket
            /\ \A h \in groups : ticket'[h] = ticket[h] /\ ticket[h] < nextTicket
        BY <1>0, <1>4, <2>1, <2>2, <2>3, <3>1
      <3>3. ASSUME NEW k \in groups', NEW h \in AnyGroup
            PROVE  passed'[k][h] <= 1 /\ (passed'[k][h] > 0 /\ h \in groups' => ticket'[k] < ticket'[h])
        <4>1. CASE k = g
          <5>1. passed'[k][h] = 0
            BY <1>1, <2>1, <2>2, <2>3, <4>1 DEF TurnsInv
          <5> QED BY <5>1
        <4>2. CASE k # g
          <5>1. k \in groups /\ ticket'[k] = ticket[k] /\ ticket[k] < nextTicket
            BY <2>1, <3>2, <4>2
          <5>2. passed[k][h] <= 1 /\ (passed[k][h] > 0 /\ h \in groups => ticket[k] < ticket[h])
            BY <2>3, <5>1 DEF TurnsInv, ServedHaveLaterTickets
          <5> QED BY <2>1, <3>2, <5>1, <5>2
        <4> QED BY <4>1, <4>2
      <3> QED BY <1>0, <2>1, <2>3, <3>3 DEF TurnsInv, ServedHaveLaterTickets
    <2>4. CASE g \in groups
      <3>1. TicketOnSubmit(g) = ticket[g]
        BY <2>4 DEF TicketOnSubmit
      <3>2. ticket' = ticket /\ groups' = groups
        BY <1>0, <2>1, <2>2, <2>4, <3>1
      <3> QED BY <1>5, <2>1, <3>2
    <2>5. CASE ~RoundRobinFirst
      BY <1>0, <1>3, <2>1, <2>5 DEF TurnsInv
    <2> QED BY <2>3, <2>4, <2>5
  <1>7. ASSUME NEW t \in TaskId, OnTaskFinished(t) PROVE TurnsInv'
    <2> DEFINE g == group[t]
    <2>1. /\ t \in Held /\ Leave(t, ticket[g]) /\ config' = config /\ now' = now
          /\ passed' = IF g \in groups' THEN passed ELSE [passed EXCEPT ![g] = NoTurns]
      BY <1>7 DEF OnTaskFinished
    <2>2. g \in AnyGroup
      BY <2>1 DEF Held, PolicyInv, Types
    <2>3. ticket[g] \in Nat
      BY <1>0, <2>2
    <2>4. /\ \A h \in AnyGroup \ {g} : ticket'[h] = ticket[h]
          /\ g \in groups' => ticket'[g] = ticket[g]
          /\ groups' \subseteq groups /\ groups \ {g} \subseteq groups'
      BY <2>1, <2>3, LeaveStep
    <2> HIDE DEF g
    <2>5. CASE g \in groups'
      <3>1. groups' = groups /\ \A h \in AnyGroup : ticket'[h] = ticket[h]
        BY <2>2, <2>4, <2>5
      <3> QED BY <1>0, <1>3, <2>1, <2>5, <3>1 DEF TurnsInv, ServedHaveLaterTickets
    <2>6. CASE g \notin groups'
      <3>1. passed' = [passed EXCEPT ![g] = NoTurns] /\ groups' = groups \ {g}
        BY <2>1, <2>4, <2>6
      <3>2. passed' \in [AnyGroup -> [AnyGroup -> 0..2]] /\ passed'[g] = NoTurns
            /\ \A h \in AnyGroup \ {g} : passed'[h] = passed[h]
        BY <1>0, <1>1, <2>2, <3>1
      <3>3. CASE RoundRobinFirst
        <4>1. \A h \in AnyGroup \ groups' : passed'[h] = NoTurns
          BY <3>1, <3>2, <3>3 DEF TurnsInv
        <4>2. ServedHaveLaterTickets'
          BY <1>0, <2>4, <3>1, <3>2, <3>3 DEF TurnsInv, ServedHaveLaterTickets
        <4> QED BY <3>2, <4>1, <4>2 DEF TurnsInv
      <3> QED BY <1>3, <3>2, <3>3 DEF TurnsInv
    <2> QED BY <2>5, <2>6
  <1>8. ASSUME NEW g \in groups, \A h \in groups \ {g} : Precedes(config, head[g], head[h]),
               Leave(BestOf(g, group, entry, ticket[g]).id, TicketAfterTurn(g)), now' = now,
               passed' = [h \in AnyGroup |->
                            IF h \notin groups \ {g} \/ config.keys[1] # "ROUND_ROBIN"
                            THEN NoTurns
                            ELSE [passed[h] EXCEPT ![g] = IF @ < 2 THEN @ + 1 ELSE @]]
        PROVE  TurnsInv'
    <2>1. PICK t \in TaskId :
             /\ group[t] = g
             /\ BestOf(g, group, entry, ticket[g]) = View(t, entry[t].key, entry[t], ticket[g])
      BY BestOfGroup
    <2>2. t \in Held /\ Leave(t, TicketAfterTurn(g)) /\ g \in AnyGroup
      BY <1>0, <1>8, <2>1, NoGroupApart DEF Held, View
    <2>3. TicketAfterTurn(g) \in Nat /\ (UsesRoundRobin => TicketAfterTurn(g) = nextTicket)
      BY <1>0 DEF TicketAfterTurn
    <2>4. /\ \A h \in AnyGroup \ {g} : ticket'[h] = ticket[h]
          /\ g \in groups' => ticket'[g] = TicketAfterTurn(g)
          /\ groups' \subseteq groups /\ groups \ {g} \subseteq groups'
      BY <1>2, <1>8, <2>1, <2>2, <2>3, LeaveStep
    <2>5. CASE ~RoundRobinFirst
      <3>1. passed' = [h \in AnyGroup |-> NoTurns]
        BY <1>8, <2>5 DEF RoundRobinFirst
      <3> QED BY <1>1, <1>3, <2>5, <3>1 DEF TurnsInv
    <2>6. CASE RoundRobinFirst
      <3>1. \A h \in groups \ {g} : ticket[g] < ticket[h] /\ ticket[h] < nextTicket
        BY <1>4, <1>8, <2>6, FirstHasEarliestTicket
      <3>2. \A h \in groups \ {g} : passed[h][g] = 0
        <4> SUFFICES ASSUME NEW h \in groups \ {g} PROVE passed[h][g] = 0
          OBVIOUS
        <4>1. h \in AnyGroup /\ passed[h][g] \in 0..2 /\ ticket[g] \in Nat /\ ticket[h] \in Nat
          BY <1>0, <2>2
        <4>2. ~(passed[h][g] > 0)
          BY <2>2, <2>6, <3>1, <4>1 DEF TurnsInv, ServedHaveLaterTickets
        <4> QED BY <4>1, <4>2
      <3>3. \A h \in AnyGroup : passed'[h] =
               IF h \notin groups \ {g} THEN NoTurns
               ELSE [passed[h] EXCEPT ![g] = IF @ < 2 THEN @ + 1 ELSE @]
        BY <1>8, <2>6 DEF RoundRobinFirst
      <3>4. \A h \in groups \ {g} : passed'[h] = [passed[h] EXCEPT ![g] = 1]
        BY <1>0, <3>2, <3>3
      <3>5. ASSUME NEW h \in AnyGroup \ (groups \ {g}) PROVE passed'[h] = NoTurns
        BY <3>3
      <3>6. passed' \in [AnyGroup -> [AnyGroup -> 0..2]]
        <4>1. ASSUME NEW h \in AnyGroup PROVE passed'[h] \in [AnyGroup -> 0..2]
          <5>1. CASE h \in groups \ {g}
            <6>1. passed[h] \in [AnyGroup -> 0..2] /\ 1 \in 0..2
              BY <1>0
            <6> QED BY <3>4, <5>1, <6>1
          <5>2. CASE h \notin groups \ {g}
            BY <1>1, <3>5, <5>2
          <5> QED BY <5>1, <5>2
        <4>2. passed' = [h \in AnyGroup |-> passed'[h]]
          BY <1>8
        <4> QED BY <4>1, <4>2
      <3>7. \A h \in AnyGroup \ groups' : passed'[h] = NoTurns
        BY <2>4, <3>5
      <3>8. ServedHaveLaterTickets'
        <4> SUFFICES ASSUME NEW k \in groups', NEW h \in AnyGroup
                     PROVE  /\ passed'[k][h] <= 1
                            /\ passed'[k][h] > 0 /\ h \in groups' => ticket'[k] < ticket'[h]
          BY DEF ServedHaveLaterTickets
        <4>1. CASE k = g
          <5>1. passed'[k][h] = 0
            BY <1>1, <2>2, <3>5, <4>1
          <5> QED BY <5>1
        <4>2. CASE k # g /\ h = g
          <5>1. k \in groups \ {g} /\ passed[k] \in [AnyGroup -> 0..2]
            BY <1>0, <2>4, <4>2
          <5>2. passed'[k][h] = 1
            BY <3>4, <4>2, <5>1
          <5>3. ticket'[k] = ticket[k] /\ ticket[k] < nextTicket
            BY <1>0, <2>4, <3>1, <5>1
          <5>4. h \in groups' => ticket'[h] = nextTicket
            BY <1>0, <2>3, <2>4, <2>6, <4>2, RoundRobinUsed
          <5> QED BY <5>2, <5>3, <5>4
        <4>3. CASE k # g /\ h # g
          <5>1. k \in groups \ {g} /\ passed[k] \in [AnyGroup -> 0..2]
            BY <1>0, <2>4, <4>3
          <5>2. passed'[k][h] = passed[k][h]
            BY <3>4, <4>3, <5>1
          <5>3. ticket'[k] = ticket[k] /\ ticket'[h] = ticket[h]
            BY <1>0, <2>4, <4>3, <5>1
          <5>4. passed[k][h] <= 1 /\ (passed[k][h] > 0 /\ h \in groups => ticket[k] < ticket[h])
            BY <2>6, <5>1 DEF TurnsInv, ServedHaveLaterTickets
          <5> QED BY <2>4, <5>2, <5>3, <5>4
        <4> QED BY <4>1, <4>2, <4>3
      <3> QED BY <3>6, <3>7, <3>8 DEF TurnsInv
    <2> QED BY <2>5, <2>6
  <1>9. ASSUME SelectEnds PROVE TurnsInv'
    <2>1. CASE UNCHANGED <<groupVars, entry, refresh>>
      BY <1>5, <2>1 DEF groupVars
    <2>2. now' = now
      BY <1>9 DEF SelectEnds
    <2> QED BY <1>8, <1>9, <2>1, <2>2 DEF SelectEnds
  <1>10. ASSUME \/ \E t \in TaskId, d \in Descs : OnTaskSubmitFails(t, d)
                \/ \E t \in TaskId, base \in Bases : OnTaskPriorityChanged(t, base)
                \/ SelectBegins \/ RefreshExpired \/ Tick \/ UNCHANGED vars
         PROVE  UNCHANGED <<groups, ticket, passed>>
    BY <1>10 DEF OnTaskSubmitFails, OnTaskPriorityChanged, SelectBegins, RefreshExpired, Tick,
                 vars, groupVars
  <1> QED BY <1>5, <1>6, <1>7, <1>9, <1>10 DEF Next

\* For any tasks, groups and order keys with ROUND_ROBIN in front: while a group waits
\* no other one is served twice, though groups are destroyed and created again.
THEOREM GroupsTakeTurnsHolds == Spec => []GroupsTakeTurns
  <1>1. TurnsInv => GroupsTakeTurns
    BY DEF TurnsInv, RoundRobinFirst, ServedHaveLaterTickets, GroupsTakeTurns
  <1> QED BY <1>1, TurnsInvInit, TurnsInvStep, PolicyInvHolds, PTL DEF Spec

----------------------------------------------------------------------------
(* What select_next hands out *)

\* When the refresh times that had come are served, the entry of a waiting task shows
\* the task as the order sees it at some moment of the call.
LEMMA ShownWhenSelected ==
    ASSUME PolicyInv, Expired = {}, NEW t \in Held
    PROVE  \E m \in loopNow..now :
              ViewAt(t, m) = View(t, entry[t].key, entry[t], ticket[group[t]])
  <1>0. t \in TaskId
    BY DEF Held
  <1>1. /\ config.boost \in BoostConfigType /\ Accepted(config.boost)
        /\ entry[t] \in EntryType /\ now \in 0..WordMax /\ loopNow \in 0..now
        /\ OnceCurrent(config.boost, entry[t], now) /\ entry[t].key = entry[t].effective
    BY <1>0, ConfigTypes DEF PolicyInv, Types, EntriesOnceCurrent, GroupsAgree
  <1>2. loopNow < entry[t].next
    <2>1. loopNow \in Nat /\ loopNow < WordMax /\ entry[t].next \in Nat
      BY <1>0, <1>1, OrderedAssumption, WidthAssumption DEF PolicyInv, Types, EntryType
    <2>2. CASE t \in refresh
      BY <2>1, <2>2 DEF Expired
    <2>3. CASE t \notin refresh
      BY <2>1, <2>3 DEF PolicyInv, GroupsAgree, Never
    <2> QED BY <2>2, <2>3
  <1>3. PICK m \in loopNow..now :
           Boost(config.boost, entry[t], m).effective_priority = entry[t].effective
    BY <1>1, <1>2, ShownWithin DEF EntryType, Boostable
  <1>4. ViewAt(t, m) = View(t, entry[t].key, entry[t], ticket[group[t]])
    BY <1>1, <1>3 DEF ViewAt, BoostAt, Boost
  <1> QED BY <1>4

\* The top of the first group's heap precedes every other waiting task.
LEMMA TopPrecedesAll ==
    ASSUME PolicyInv, NEW g \in groups, NEW t \in TaskId, group[t] = g,
           BestOf(g, group, entry, ticket[g]) = View(t, entry[t].key, entry[t], ticket[g]),
           \A h \in groups \ {g} : Precedes(config, head[g], head[h]),
           \A u \in TaskId \ {t} : group[u] = g =>
               Precedes(config, View(t, entry[t].key, entry[t], ticket[g]),
                                View(u, entry[u].key, entry[u], ticket[g])),
           NEW u \in Held \ {t}
    PROVE  Precedes(config, View(t, entry[t].key, entry[t], ticket[g]),
                            View(u, entry[u].key, entry[u], ticket[group[u]]))
  <1> DEFINE W(v) == View(v, entry[v].key, entry[v], ticket[group[v]])
  <1>1. u \in TaskId /\ group[u] \in groups
    BY DEF Held, PolicyInv, GroupsAgree
  <1>2. CASE group[u] = g
    BY <1>1, <1>2
  <1>3. CASE group[u] # g
    <2> DEFINE h == group[u]
    <2>1. PICK v \in TaskId :
             /\ group[v] = h
             /\ BestOf(h, group, entry, ticket[h]) = View(v, entry[v].key, entry[v], ticket[h])
             /\ \A w \in TaskId \ {v} : group[w] = h =>
                   Precedes(config, View(v, entry[v].key, entry[v], ticket[h]),
                                    View(w, entry[w].key, entry[w], ticket[h]))
      BY <1>1, BestOfGroup
    <2>2. head[g] = W(t) /\ head[h] = W(v)
      BY <1>1, <2>1 DEF PolicyInv, GroupsAgree
    <2>3. Precedes(config, W(t), W(v))
      BY <1>1, <1>3, <2>2
    <2>4. CASE u = v
      BY <2>3, <2>4
    <2>5. CASE u # v
      <3>1. Precedes(config, W(v), W(u))
        BY <1>1, <2>1, <2>5
      <3>2. ASSUME NEW w \in TaskId, group[w] \in groups PROVE W(w) \in ViewType
        <4>1. w \in Nat /\ entry[w] \in EntryType /\ ticket[group[w]] \in Int
          BY <3>2, OrderedAssumption DEF PolicyInv, Types
        <4>2. entry[w].key \in Int /\ entry[w].cost \in Int /\ entry[w].seq \in Int
          BY <4>1, WidthAssumption DEF EntryType
        <4> QED BY <4>1, <4>2 DEF View, ViewType
      <3>3. W(t) \in ViewType /\ W(v) \in ViewType /\ W(u) \in ViewType
            /\ config \in OrderConfigType
        BY <1>1, <2>1, <3>2, ConfigTypes DEF PolicyInv
      <3> HIDE DEF W
      <3>4. Precedes(config, W(t), W(u))
        BY <2>3, <3>1, <3>3, PrecedesTransitive
      <3> QED BY <3>4 DEF W
    <2> QED BY <2>4, <2>5
  <1> QED BY <1>2, <1>3

\* select_next hands out the task that the configured keys put first, in its group and
\* across the groups, whatever the clock does during the call: no other one was ahead
\* of it all the time the call took.
THEOREM OrderedSelectionIsBestHolds == Spec => OrderedSelectionIsBest
  <1> DEFINE Best == selecting /\ ~selecting' =>
                 \A u \in Held \ {chosen'} :
                     \E mt, mu \in loopNow..now :
                         Precedes(config, ViewAt(chosen', mt), ViewAt(u, mu))
  <1>1. PolicyInv /\ [Next]_vars => Best
    <2> SUFFICES ASSUME PolicyInv, [Next]_vars, selecting, ~selecting',
                        NEW u \in Held \ {chosen'}
                 PROVE  \E mt, mu \in loopNow..now :
                            Precedes(config, ViewAt(chosen', mt), ViewAt(u, mu))
      OBVIOUS
    <2>1. SelectEnds
      BY DEF Next, vars, OnTaskSubmit, OnTaskSubmitFails, OnTaskFinished,
             OnTaskPriorityChanged, SelectBegins, RefreshExpired, Tick, selectVars
    <2>2. groups # {}
      BY DEF PolicyInv, GroupsAgree
    <2>3. PICK g \in groups : /\ \A h \in groups \ {g} : Precedes(config, head[g], head[h])
                              /\ chosen' = BestOf(g, group, entry, ticket[g]).id
      BY <2>1, <2>2 DEF SelectEnds
    <2>4. PICK t \in TaskId :
             /\ group[t] = g
             /\ BestOf(g, group, entry, ticket[g]) = View(t, entry[t].key, entry[t], ticket[g])
             /\ \A v \in TaskId \ {t} : group[v] = g =>
                   Precedes(config, View(t, entry[t].key, entry[t], ticket[g]),
                                    View(v, entry[v].key, entry[v], ticket[g]))
      BY BestOfGroup
    <2>5. chosen' = t /\ t \in Held
      BY <2>3, <2>4, NoGroupApart DEF View, Held, PolicyInv, Types
    <2>6. Precedes(config, View(t, entry[t].key, entry[t], ticket[group[t]]),
                           View(u, entry[u].key, entry[u], ticket[group[u]]))
      BY <2>3, <2>4, <2>5, TopPrecedesAll
    <2>7. Expired = {}
      BY <2>1 DEF SelectEnds
    <2>8. PICK mt \in loopNow..now :
             ViewAt(t, mt) = View(t, entry[t].key, entry[t], ticket[group[t]])
      BY <2>5, <2>7, ShownWhenSelected
    <2>9. PICK mu \in loopNow..now :
             ViewAt(u, mu) = View(u, entry[u].key, entry[u], ticket[group[u]])
      BY <2>7, ShownWhenSelected
    <2>10. Precedes(config, ViewAt(t, mt), ViewAt(u, mu))
      BY <2>6, <2>8, <2>9
    <2> QED BY <2>5, <2>8, <2>9, <2>10
  <1> QED BY <1>1, PolicyInvHolds, PTL DEF Spec, OrderedSelectionIsBest

\* The ordered policy keeps the contract the core relies on: it hands out a task it was
\* given, once, and answers NOT_FOUND only when it holds none.
THEOREM OrderedContract == Spec => ImplementsContract
  <1>1. Init => Contract!Init
    BY DEF Init, Held, Contract!Init
  <1>2. PolicyInv /\ [Next]_vars => [Contract!Next]_(Contract!vars)
    <2> SUFFICES ASSUME PolicyInv, [Next]_vars PROVE [Contract!Next]_(Contract!vars)
      OBVIOUS
    <2>0. group \in [TaskId -> AnyGroup \cup {NoGroup}] /\ NoGroup \notin AnyGroup
          /\ groups = {group[t] : t \in Held} /\ groups \subseteq AnyGroup
      BY NoGroupApart DEF PolicyInv, Types, GroupsAgree
    <2>1. ASSUME NEW t \in TaskId, NEW d \in Descs, OnTaskSubmit(t, d)
          PROVE  Contract!OnTaskSubmit(t)
      <3>1. /\ group[t] = NoGroup /\ group' = [group EXCEPT ![t] = GroupOf(t, d)]
            /\ chosen' = chosen
        BY <2>1 DEF OnTaskSubmit, MaySubmit, selectVars
      <3>2. GroupOf(t, d) # NoGroup
        BY GroupOfType
      <3>3. t \notin Held /\ Held' = Held \cup {t}
        BY <2>0, <3>1, <3>2 DEF Held
      <3> QED BY <3>1, <3>3 DEF Contract!OnTaskSubmit
    <2>2. ASSUME NEW t \in Held, NEW tick, Leave(t, tick) PROVE Held' = Held \ {t}
      BY <2>0, <2>2 DEF Leave, Held
    <2>3. ASSUME NEW t \in TaskId, OnTaskFinished(t) PROVE Contract!OnTaskFinished(t)
      <3>1. t \in Held /\ Leave(t, ticket[group[t]]) /\ chosen' = chosen
        BY <2>3 DEF OnTaskFinished, selectVars
      <3>2. Held' = Held \ {t}
        BY <2>2, <3>1
      <3> QED BY <3>1, <3>2 DEF Contract!OnTaskFinished
    <2>4. ASSUME SelectEnds PROVE Contract!SelectNext
      <3>1. CASE groups = {} /\ chosen' = NoTask /\ UNCHANGED <<groupVars, entry, refresh>>
        <4>1. Held = {} /\ Held' = Held
          BY <2>0, <3>1 DEF groupVars, Held
        <4> QED BY <3>1, <4>1 DEF Contract!SelectNext
      <3>2. ASSUME NEW g \in groups, chosen' = BestOf(g, group, entry, ticket[g]).id,
                   Leave(BestOf(g, group, entry, ticket[g]).id, TicketAfterTurn(g))
            PROVE  Contract!SelectNext
        <4>1. PICK t \in TaskId :
                 /\ group[t] = g
                 /\ BestOf(g, group, entry, ticket[g]) = View(t, entry[t].key, entry[t], ticket[g])
          BY BestOfGroup
        <4>2. t \in Held /\ chosen' = t /\ Leave(t, TicketAfterTurn(g))
          BY <2>0, <3>2, <4>1 DEF Held, View
        <4>3. Held' = Held \ {t}
          BY <2>2, <4>2
        <4> QED BY <4>2, <4>3 DEF Contract!SelectNext
      <3> QED BY <2>4, <3>1, <3>2 DEF SelectEnds
    <2>5. ASSUME \/ \E t \in TaskId, d \in Descs : OnTaskSubmitFails(t, d)
                 \/ \E t \in TaskId, base \in Bases : OnTaskPriorityChanged(t, base)
                 \/ SelectBegins \/ RefreshExpired \/ Tick \/ UNCHANGED vars
          PROVE  UNCHANGED Contract!vars
      BY <2>5 DEF OnTaskSubmitFails, OnTaskPriorityChanged, SelectBegins, RefreshExpired,
                  Tick, vars, groupVars, selectVars, Held, Contract!vars
    <2> QED BY <2>1, <2>3, <2>4, <2>5 DEF Next, Contract!Next
  <1> QED BY <1>1, <1>2, PolicyInvHolds, PTL DEF Spec, ImplementsContract, Contract!Spec
=============================================================================

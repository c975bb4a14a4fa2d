-------------------------- MODULE HandlesProofs ----------------------------
(***************************************************************************)
(* Theorems about Handles, for every number of schedulers, threads and     *)
(* libraries, whatever the names and the thread flags of the libraries.    *)
(***************************************************************************)
EXTENDS Handles, FiniteSetTheorems, SequenceTheorems, TLAPS

(* Facts about the operators *)

\* Sets of the form {x \in S : P(x)} of a finite set are finite; adding the
\* one element that is not in such a set adds one to its cardinality.
LEMMA CardAdd ==
    ASSUME NEW S, IsFiniteSet(S), NEW A \in SUBSET S, NEW x, x \notin A
    PROVE  Cardinality(A) \in Nat /\ Cardinality(A \cup {x}) = Cardinality(A) + 1
  BY FS_Subset, FS_AddElement, FS_CardinalityType

\* Removing an element of a subset of a finite set takes one from its cardinality.
LEMMA CardRemove ==
    ASSUME NEW S, IsFiniteSet(S), NEW A \in SUBSET S, NEW x \in A
    PROVE  /\ Cardinality(A) \in Nat /\ Cardinality(A \ {x}) = Cardinality(A) - 1
           /\ Cardinality(A \ {x}) \in Nat
  BY FS_Subset, FS_RemoveElement, FS_CardinalityType

\* A registry with one more library at its end has that one more library.
LEMMA ToSetAppend ==
    ASSUME NEW q \in Seq(Libs), NEW l \in Libs
    PROVE  ToSet(Append(q, l)) = ToSet(q) \cup {l}
  <1>1. /\ Append(q, l) \in Seq(Libs) /\ Len(Append(q, l)) = Len(q) + 1
        /\ \A i \in 1..Len(q) : Append(q, l)[i] = q[i]
        /\ Append(q, l)[Len(q) + 1] = l
    BY AppendProperties
  <1>2. DOMAIN q = 1..Len(q) /\ DOMAIN Append(q, l) = 1..(Len(q) + 1) /\ Len(q) \in Nat
    BY <1>1
  <1>3. ASSUME NEW x \in ToSet(Append(q, l)) PROVE x \in ToSet(q) \cup {l}
    <2> PICK i \in 1..(Len(q) + 1) : x = Append(q, l)[i]
      BY <1>2 DEF ToSet
    <2>1. i \in 1..Len(q) \/ i = Len(q) + 1
      BY <1>2
    <2> QED BY <1>1, <1>2, <2>1 DEF ToSet
  <1>4. ASSUME NEW x \in ToSet(q) PROVE x \in ToSet(Append(q, l))
    <2> PICK i \in 1..Len(q) : x = q[i]
      BY <1>2 DEF ToSet
    <2>1. i \in DOMAIN Append(q, l)
      BY <1>2
    <2> QED BY <1>1, <2>1 DEF ToSet
  <1>5. l \in ToSet(Append(q, l))
    <2>1. Len(q) + 1 \in DOMAIN Append(q, l)
      BY <1>2
    <2> QED BY <1>1, <2>1 DEF ToSet
  <1> QED BY <1>3, <1>4, <1>5

\* The names of a registry are distinct.
NamesDistinct(q) ==
    \A j, k \in DOMAIN q : NameOf[q[j]] = NameOf[q[k]] => j = k

\* Closing the first library of a registry without duplicates takes exactly it
\* out of the registry, and leaves one without duplicates.
LEMMA ToSetTail ==
    ASSUME NEW q \in Seq(Libs), q # <<>>, NamesDistinct(q)
    PROVE  /\ Head(q) \in Libs /\ Tail(q) \in Seq(Libs)
           /\ Head(q) \in ToSet(q)
           /\ ToSet(Tail(q)) = ToSet(q) \ {Head(q)}
           /\ NamesDistinct(Tail(q))
  <1>1. /\ Head(q) \in Libs /\ Tail(q) \in Seq(Libs) /\ Len(Tail(q)) = Len(q) - 1
        /\ \A i \in 1..Len(Tail(q)) : Tail(q)[i] = q[i + 1]
    BY HeadTailProperties
  <1>2. DOMAIN q = 1..Len(q) /\ Len(q) \in Nat /\ Len(q) > 0 /\ Head(q) = q[1]
    BY EmptySeq, LenProperties
  <1>3. DOMAIN Tail(q) = 1..(Len(q) - 1) /\ 1 \in DOMAIN q
    BY <1>1, <1>2
  <1>4. Head(q) \in ToSet(q)
    BY <1>2, <1>3 DEF ToSet
  <1>5. ASSUME NEW i \in DOMAIN Tail(q)
        PROVE  i + 1 \in DOMAIN q /\ i + 1 # 1 /\ Tail(q)[i] = q[i + 1]
    BY <1>1, <1>2, <1>3
  <1>6. NamesDistinct(Tail(q))
    <2> SUFFICES ASSUME NEW j \in DOMAIN Tail(q), NEW k \in DOMAIN Tail(q),
                        NameOf[Tail(q)[j]] = NameOf[Tail(q)[k]]
                 PROVE  j = k
      BY DEF NamesDistinct
    <2>1. j + 1 = k + 1
      BY <1>5 DEF NamesDistinct
    <2> QED BY <2>1, <1>3
  <1>7. ASSUME NEW x \in ToSet(Tail(q)) PROVE x \in ToSet(q) \ {Head(q)}
    <2> PICK i \in DOMAIN Tail(q) : x = Tail(q)[i]
      BY DEF ToSet
    <2>1. i + 1 \in DOMAIN q /\ i + 1 # 1 /\ x = q[i + 1]
      BY <1>5
    <2>2. x # q[1]
      BY <2>1, <1>3 DEF NamesDistinct
    <2> QED BY <2>1, <2>2, <1>2 DEF ToSet
  <1>8. ASSUME NEW x \in ToSet(q) \ {Head(q)} PROVE x \in ToSet(Tail(q))
    <2> PICK i \in DOMAIN q : x = q[i]
      BY DEF ToSet
    <2>1. i # 1
      BY <1>2
    <2>2. i - 1 \in 1..Len(Tail(q)) /\ (i - 1) + 1 = i
      BY <2>1, <1>1, <1>2
    <2>3. Tail(q)[i - 1] = x /\ i - 1 \in DOMAIN Tail(q)
      BY <2>2, <1>1, <1>3
    <2> QED BY <2>3 DEF ToSet
  <1> QED BY <1>1, <1>4, <1>6, <1>7, <1>8

----------------------------------------------------------------------------
(* The QPU handle *)

\* The schedulers that hold a reference, live or being destroyed.
Holders == {s \in Scheds : phase[s] # "none"}

\* What the count and the handle's state say of the holders, with the types.
QpuInv ==
    /\ qpu \in {"none", "alive", "dying"}
    /\ refcount \in Nat
    /\ appHolds \in BOOLEAN
    /\ phase \in [Scheds -> {"none", "live", "closing"}]
    /\ QpuOutlivesHolders

\* A holder that gives up its reference, the application or one scheduler,
\* frees the handle if it was the last and only then.
LEMMA ReleaseKeepsQpu ==
    ASSUME QpuInv, QpuRelease,
           \/ /\ appHolds /\ appHolds' = FALSE /\ phase' = phase
           \/ \E s \in Scheds : /\ phase[s] # "none" /\ phase' = [phase EXCEPT ![s] = "none"]
                                /\ appHolds' = appHolds
    PROVE  QpuInv'
  <1>1. /\ refcount = Cardinality(Holders) + (IF appHolds THEN 1 ELSE 0)
        /\ qpu = "alive" <=> appHolds \/ Holders # {}
    BY DEF QpuInv, QpuOutlivesHolders, Holders
  <1>2. Holders \in SUBSET Scheds /\ IsFiniteSet(Scheds)
    BY HandlesAssumption DEF Holders
  <1>3. Cardinality(Holders) \in Nat /\ (Cardinality(Holders) = 0 <=> Holders = {})
    BY <1>2, FS_Subset, FS_CardinalityType, FS_EmptySet
  <1>4. refcount' = refcount - 1 /\ qpu' = IF refcount = 1 THEN "dying" ELSE qpu
    BY DEF QpuRelease, LastReference
  <1>5. SUFFICES /\ refcount' \in Nat
                 /\ refcount' = Cardinality(Holders') + (IF appHolds' THEN 1 ELSE 0)
                 /\ qpu' = "alive" <=> appHolds' \/ Holders' # {}
                 /\ appHolds' \in BOOLEAN
                 /\ phase' \in [Scheds -> {"none", "live", "closing"}]
    BY <1>4 DEF QpuInv, QpuOutlivesHolders, Holders
  <1>6. CASE appHolds /\ appHolds' = FALSE /\ phase' = phase
    <2>1. Holders' = Holders
      BY <1>6 DEF Holders
    <2>2. refcount = Cardinality(Holders) + 1 /\ refcount' = Cardinality(Holders')
      BY <1>1, <1>3, <1>4, <1>6, <2>1
    <2>3. qpu' = "alive" <=> Holders' # {}
      BY <1>1, <1>3, <1>4, <1>6, <2>1, <2>2
    <2>4. appHolds' = FALSE /\ phase' \in [Scheds -> {"none", "live", "closing"}]
      BY <1>6 DEF QpuInv
    <2>5. refcount' \in Nat
      BY <1>3, <2>1, <2>2
    <2>6. ~appHolds' /\ appHolds' \in BOOLEAN
      BY <1>6
    <2>7. refcount' = Cardinality(Holders') + (IF appHolds' THEN 1 ELSE 0)
      BY <2>2, <2>5, <2>6
    <2> QED BY <2>3, <2>4, <2>5, <2>6, <2>7
  <1>7. ASSUME NEW s \in Scheds, phase[s] # "none", phase' = [phase EXCEPT ![s] = "none"],
               appHolds' = appHolds
        PROVE  /\ refcount' \in Nat
               /\ refcount' = Cardinality(Holders') + (IF appHolds' THEN 1 ELSE 0)
               /\ qpu' = "alive" <=> appHolds' \/ Holders' # {}
               /\ appHolds' \in BOOLEAN
               /\ phase' \in [Scheds -> {"none", "live", "closing"}]
    <2>1. Holders' = Holders \ {s} /\ s \in Holders
      BY <1>7 DEF Holders, QpuInv
    <2>2. Cardinality(Holders') = Cardinality(Holders) - 1 /\ Cardinality(Holders') \in Nat
      BY <2>1, <1>2, CardRemove
    <2>3. Cardinality(Holders') = 0 <=> Holders' = {}
      BY <2>1, <1>2, FS_Subset, FS_RemoveElement, FS_EmptySet
    <2>4. phase' \in [Scheds -> {"none", "live", "closing"}]
      BY <1>7 DEF QpuInv
    <2>5. qpu = "alive"
      BY <1>1, <2>1
    <2>6. /\ refcount' \in Nat
          /\ refcount' = Cardinality(Holders') + (IF appHolds' THEN 1 ELSE 0)
      <3>1. CASE appHolds
        BY <1>1, <1>3, <1>4, <1>7, <2>2, <3>1
      <3>2. CASE ~appHolds
        BY <1>1, <1>3, <1>4, <1>7, <2>2, <3>2
      <3> QED BY <3>1, <3>2
    <2>7. qpu' = "alive" <=> appHolds' \/ Holders' # {}
      <3>1. CASE appHolds
        BY <1>1, <1>3, <1>4, <1>7, <2>2, <2>5, <3>1
      <3>2. CASE ~appHolds
        BY <1>1, <1>3, <1>4, <1>7, <2>2, <2>3, <2>5, <3>2
      <3> QED BY <3>1, <3>2
    <2> QED BY <1>7, <2>4, <2>6, <2>7 DEF QpuInv
  <1> QED BY <1>6, <1>7

\* Every step keeps the count of the QPU.
LEMMA QpuStep == QpuInv /\ [Next]_vars => QpuInv'
  <1> SUFFICES ASSUME QpuInv, [Next]_vars PROVE QpuInv'
    OBVIOUS
  <1>1. /\ refcount = Cardinality(Holders) + (IF appHolds THEN 1 ELSE 0)
        /\ qpu = "alive" <=> appHolds \/ Holders # {}
    BY DEF QpuInv, QpuOutlivesHolders, Holders
  <1>2. Holders \in SUBSET Scheds /\ IsFiniteSet(Scheds)
    BY HandlesAssumption DEF Holders
  <1>3. Cardinality(Holders) \in Nat /\ (Cardinality(Holders) = 0 <=> Holders = {})
    BY <1>2, FS_Subset, FS_CardinalityType, FS_EmptySet
  <1>4. ASSUME UNCHANGED <<qpu, refcount, appHolds>>,
               phase' \in [Scheds -> {"none", "live", "closing"}], Holders' = Holders
        PROVE  QpuInv'
    BY <1>1, <1>4 DEF QpuInv, QpuOutlivesHolders, Holders
  <1>5. CASE UNCHANGED vars
    BY <1>4, <1>5 DEF vars, qpuVars, schedVars, Holders, QpuInv
  <1>6. CASE QpuCreate
    <2>1. ~appHolds /\ Holders = {}
      BY <1>1, <1>6 DEF QpuCreate
    <2>2. Holders' = Holders /\ phase' = phase
      BY <1>6 DEF QpuCreate, schedVars, Holders
    <2>3. Cardinality(Holders') = 0
      BY <2>1, <2>2, FS_EmptySet
    <2>4. qpu' = "alive" /\ refcount' = 1 /\ appHolds' = TRUE
      BY <1>6 DEF QpuCreate
    <2> QED BY <2>1, <2>2, <2>3, <2>4 DEF QpuInv, QpuOutlivesHolders, Holders
  <1>7. CASE QpuDestroy
    BY <1>7, ReleaseKeepsQpu DEF QpuDestroy, schedVars
  <1>8. CASE QpuFree
    <2>1. Holders' = Holders /\ UNCHANGED <<refcount, appHolds, phase>>
      BY <1>8 DEF QpuFree, schedVars, Holders
    <2>2. qpu = "dying" /\ qpu' = "none"
      BY <1>8 DEF QpuFree
    <2> QED BY <1>1, <2>1, <2>2 DEF QpuInv, QpuOutlivesHolders, Holders
  <1>9. ASSUME NEW s \in Scheds, NEW mode \in {"safe", "user"}, SchedCreate(s, mode)
        PROVE  QpuInv'
    <2>1. /\ phase[s] = "none" /\ appHolds /\ phase' = [phase EXCEPT ![s] = "live"]
          /\ refcount' = refcount + 1 /\ UNCHANGED <<qpu, appHolds>>
      BY <1>9 DEF SchedCreate
    <2>2. Holders' = Holders \cup {s} /\ s \notin Holders
      BY <2>1 DEF Holders, QpuInv
    <2>3. Cardinality(Holders') = Cardinality(Holders) + 1
      BY <2>2, <1>2, CardAdd
    <2>4. phase' \in [Scheds -> {"none", "live", "closing"}]
      BY <2>1 DEF QpuInv
    <2> QED BY <1>1, <1>3, <2>1, <2>3, <2>4 DEF QpuInv, QpuOutlivesHolders, Holders
  <1>10. ASSUME NEW s \in Scheds, DestroyBegins(s) PROVE QpuInv'
    <2>1. /\ phase[s] = "live" /\ phase' = [phase EXCEPT ![s] = "closing"]
          /\ UNCHANGED <<qpu, refcount, appHolds>>
      BY <1>10 DEF DestroyBegins, MayDestroy, qpuVars
    <2>2. Holders' = Holders /\ phase' \in [Scheds -> {"none", "live", "closing"}]
      BY <2>1 DEF Holders, QpuInv
    <2> QED BY <2>1, <2>2, <1>4
  <1>11. ASSUME NEW s \in Scheds, DestroyEnds(s) PROVE QpuInv'
    <2>1. /\ phase[s] # "none" /\ phase' = [phase EXCEPT ![s] = "none"]
          /\ appHolds' = appHolds /\ QpuRelease
      BY <1>11 DEF DestroyEnds
    <2> QED BY <2>1, ReleaseKeepsQpu
  <1>12. ASSUME UNCHANGED <<qpuVars, phase>> PROVE QpuInv'
    BY <1>4, <1>12 DEF qpuVars, Holders, QpuInv
  <1>13. ASSUME NEW s \in Scheds, NEW name,
                SetPolicy(s, name) \/ ListPolicies(s) \/ FreePolicyInfoArray(s)
                \/ DestroyCloses(s)
         PROVE  QpuInv'
    BY <1>12, <1>13 DEF SetPolicy, ListPolicies, FreePolicyInfoArray, DestroyCloses
  <1>14. ASSUME NEW th \in Threads, NEW s \in Scheds, NEW l \in Libs, LoadOpens(th, s, l)
         PROVE  QpuInv'
    BY <1>12, <1>14 DEF LoadOpens, schedVars
  <1>15. ASSUME NEW th \in Threads, LoadStep(th) PROVE QpuInv'
    BY <1>12, <1>15 DEF LoadStep, LoadInvalid, LoadAdds, LoadRefused, schedVars
  <1> QED BY <1>5, <1>6, <1>7, <1>8, <1>9, <1>10, <1>11, <1>13, <1>14, <1>15
          DEF Next, DestroyStep

\* The QPU handle is alive exactly as long as the application or a scheduler
\* may use it, and qpu->refcount is the number of its holders
\* (qhw_qpu_retain, qhw_qpu_release), for any number of schedulers created and
\* destroyed in any order.
THEOREM QpuOutlivesHoldersHolds == Spec => []QpuOutlivesHolders
  <1>1. Init => QpuInv
    <2> SUFFICES ASSUME Init PROVE QpuInv
      OBVIOUS
    <2>1. Holders = {} /\ phase \in [Scheds -> {"none", "live", "closing"}]
      BY DEF Init, Holders
    <2>2. Cardinality(Holders) = 0
      BY <2>1, FS_EmptySet
    <2>3. qpu = "none" /\ refcount = 0 /\ appHolds = FALSE
      BY DEF Init
    <2>4. QpuOutlivesHolders
      BY <2>1, <2>2, <2>3 DEF QpuOutlivesHolders, Holders
    <2> QED BY <2>1, <2>3, <2>4 DEF QpuInv
  <1>2. QpuInv => QpuOutlivesHolders
    BY DEF QpuInv
  <1> QED BY <1>1, <1>2, QpuStep, PTL DEF Spec

----------------------------------------------------------------------------
(* The policy libraries *)

\* A call of qhw_sched_load_plugin in progress.
LoadRecord == [at : {"opened", "refused"}, sched : Scheds, lib : Libs]

Types ==
    /\ phase \in [Scheds -> {"none", "live", "closing"}]
    /\ threading \in [Scheds -> {"safe", "user"}]
    /\ registry \in [Scheds -> Seq(Libs)]
    /\ active \in [Scheds -> Libs \cup {NoLib}]
    /\ listed \in [Scheds -> SUBSET Libs]
    /\ opens \in [Libs -> Nat]
    /\ load \in [Threads -> {NoLoad} \cup LoadRecord]

\* The registry of s holds each name once, only libraries that support its
\* threading mode, and the library of the active policy and of every name
\* handed out; all of these are gone when its destruction has reached them.
RegistryInOrder(s) ==
    /\ NamesDistinct(registry[s])
    /\ \A l \in ToSet(registry[s]) : threading[s] \in ThreadFlags[l]
    /\ phase[s] = "none" => registry[s] = <<>>
    /\ phase[s] # "live" => active[s] = NoLib /\ listed[s] = {}
    /\ active[s] # NoLib => active[s] \in ToSet(registry[s])
    /\ listed[s] \subseteq ToSet(registry[s])

\* The schedulers that registered l, and the threads that opened it and have
\* neither registered nor closed it yet.
Registered(l) == {s \in Scheds : l \in ToSet(registry[s])}
Opening(l)    == {th \in Threads : load[th] # NoLoad /\ load[th].lib = l}

\* Each open of a library belongs to a registry or to a thread.
OpensBalanced ==
    \A l \in Libs : opens[l] = Cardinality(Registered(l)) + Cardinality(Opening(l))

\* A scheduler in which a library is being loaded is not being destroyed.
LoadsAreLive == \A th \in Threads : load[th] # NoLoad => phase[load[th].sched] = "live"

LibInv ==
    /\ Types
    /\ \A s \in Scheds : RegistryInOrder(s)
    /\ LoadsAreLive
    /\ OpensBalanced

\* A thread in a call is in one of a scheduler with a library.
LEMMA LoadFields ==
    ASSUME Types, NEW th \in Threads
    PROVE  /\ load[th].at = "opened" \/ load[th].at = "refused" => load[th] # NoLoad
           /\ load[th] # NoLoad => load[th] \in LoadRecord /\ load[th].sched \in Scheds
                                   /\ load[th].lib \in Libs
  BY DEF Types, LoadRecord, NoLoad

\* Both counts are those of finite sets.
LEMMA CountsFinite ==
    ASSUME NEW l \in Libs
    PROVE  /\ IsFiniteSet(Scheds) /\ Registered(l) \in SUBSET Scheds
           /\ IsFiniteSet(Threads) /\ Opening(l) \in SUBSET Threads
           /\ Cardinality(Registered(l)) \in Nat /\ Cardinality(Opening(l)) \in Nat
  <1>1. /\ IsFiniteSet(Scheds) /\ Registered(l) \in SUBSET Scheds
        /\ IsFiniteSet(Threads) /\ Opening(l) \in SUBSET Threads
    BY HandlesAssumption DEF Registered, Opening
  <1> QED BY <1>1, FS_Subset, FS_CardinalityType

\* What is in the registry of a scheduler is open.
LEMMA RegisteredIsOpen ==
    ASSUME LibInv, NEW s \in Scheds, NEW l \in ToSet(registry[s])
    PROVE  l \in Libs /\ opens[l] > 0
  <1>1. l \in Libs
    BY DEF LibInv, Types, ToSet
  <1>2. s \in Registered(l)
    BY DEF Registered
  <1>3. Cardinality(Registered(l)) # 0
    BY <1>1, <1>2, CountsFinite, FS_Subset, FS_EmptySet
  <1> QED BY <1>1, <1>3, CountsFinite DEF LibInv, OpensBalanced

\* The invariant says what PolicyCodeMapped promises.
LEMMA LibInvImplies == LibInv => PolicyCodeMapped
  <1> SUFFICES ASSUME LibInv, NEW s \in Scheds
               PROVE  /\ active[s] # NoLib => opens[active[s]] > 0
                                              /\ threading[s] \in ThreadFlags[active[s]]
                      /\ \A l \in listed[s] : opens[l] > 0
    BY DEF PolicyCodeMapped
  <1>1. RegistryInOrder(s)
    BY DEF LibInv
  <1> QED BY <1>1, RegisteredIsOpen DEF RegistryInOrder

\* What a scheduler does not change about itself stays in order.
LEMMA RegistryKept ==
    ASSUME NEW s \in Scheds, RegistryInOrder(s),
           registry'[s] = registry[s], threading'[s] = threading[s],
           phase'[s] = phase[s], active'[s] = active[s], listed'[s] = listed[s]
    PROVE  RegistryInOrder(s)'
  BY DEF RegistryInOrder, NamesDistinct

\* A step that neither loads nor closes a library leaves the opens balanced.
LEMMA OpensKept ==
    ASSUME OpensBalanced, UNCHANGED <<registry, opens, load>>
    PROVE  OpensBalanced'
  BY DEF OpensBalanced, Registered, Opening

----------------------------------------------------------------------------
(* Steps on one scheduler *)

\* A scheduler that is created, or whose destruction begins or ends.
LEMMA PhaseStep ==
    ASSUME LibInv, NEW s \in Scheds,
           (\E mode \in {"safe", "user"} : SchedCreate(s, mode))
           \/ DestroyBegins(s) \/ DestroyEnds(s)
    PROVE  LibInv'
  <1>1. UNCHANGED <<registry, listed, opens, load>>
    BY DEF SchedCreate, DestroyBegins, DestroyEnds
  <1>2. Types'
    BY <1>1 DEF LibInv, Types, SchedCreate, DestroyBegins, DestroyEnds
  <1>3. OpensBalanced'
    BY <1>1, OpensKept DEF LibInv
  <1>4. ASSUME NEW r \in Scheds PROVE RegistryInOrder(r)'
    <2>1. RegistryInOrder(r)
      BY DEF LibInv
    <2>2. CASE r # s
      <3>1. /\ registry'[r] = registry[r] /\ threading'[r] = threading[r]
            /\ phase'[r] = phase[r] /\ active'[r] = active[r] /\ listed'[r] = listed[r]
        BY <1>1, <2>2 DEF LibInv, Types, SchedCreate, DestroyBegins, DestroyEnds
      <3> QED BY <2>1, <3>1, RegistryKept
    <2>3. CASE r = s /\ \E mode \in {"safe", "user"} : SchedCreate(s, mode)
      <3>1. /\ registry[s] = <<>> /\ active[s] = NoLib /\ listed[s] = {}
            /\ active' = active
        BY <2>1, <2>3 DEF RegistryInOrder, SchedCreate
      <3>2. ToSet(registry'[s]) = {} /\ NamesDistinct(registry'[s])
        BY <1>1, <3>1 DEF ToSet, NamesDistinct
      <3> QED BY <1>1, <2>3, <3>1, <3>2 DEF RegistryInOrder
    <2>4. CASE r = s /\ DestroyBegins(s)
      <3>1. /\ listed[s] = {} /\ active'[s] = NoLib /\ phase'[s] = "closing"
            /\ threading' = threading
        BY <2>4 DEF DestroyBegins, MayDestroy, LibInv, Types
      <3> QED BY <1>1, <2>1, <2>4, <3>1 DEF RegistryInOrder, NamesDistinct
    <2>5. CASE r = s /\ DestroyEnds(s)
      <3>1. /\ registry[s] = <<>> /\ active'[s] = NoLib /\ listed[s] = {}
            /\ phase'[s] = "none"
        BY <2>1, <2>5 DEF RegistryInOrder, DestroyEnds, LibInv, Types
      <3>2. ToSet(registry'[s]) = {} /\ NamesDistinct(registry'[s])
        BY <1>1, <3>1 DEF ToSet, NamesDistinct
      <3> QED BY <1>1, <2>5, <3>1, <3>2 DEF RegistryInOrder
    <2> QED BY <2>2, <2>3, <2>4, <2>5
  <1>5. LoadsAreLive'
    <2> SUFFICES ASSUME NEW th \in Threads, load[th] # NoLoad
                 PROVE  phase'[load[th].sched] = "live"
      BY <1>1 DEF LoadsAreLive
    <2>1. phase[load[th].sched] = "live" /\ load[th].sched \in Scheds
      BY LoadFields DEF LibInv, LoadsAreLive
    <2>2. ~DestroyBegins(s) \/ load[th].sched # s
      BY DEF DestroyBegins, MayDestroy, Loading
    <2>3. ~DestroyEnds(s) \/ load[th].sched # s
      BY <2>1 DEF DestroyEnds
    <2> QED BY <2>1, <2>2, <2>3 DEF LibInv, Types, SchedCreate, DestroyBegins, DestroyEnds
  <1> QED BY <1>2, <1>3, <1>4, <1>5 DEF LibInv

\* A policy is installed, its names are handed out, or the array is freed.
LEMMA UseStep ==
    ASSUME LibInv, NEW s \in Scheds, NEW name,
           SetPolicy(s, name) \/ ListPolicies(s) \/ FreePolicyInfoArray(s)
    PROVE  LibInv'
  <1>1. UNCHANGED <<phase, threading, registry, opens, load>>
    BY DEF SetPolicy, ListPolicies, FreePolicyInfoArray
  <1>2. ToSet(registry[s]) \in SUBSET Libs
    BY DEF LibInv, Types, ToSet
  <1>3. /\ active' = active \/ \E l \in ToSet(registry[s]) : active' = [active EXCEPT ![s] = l]
        /\ listed' = listed \/ \E L \in SUBSET ToSet(registry[s]) :
                                   listed' = [listed EXCEPT ![s] = L]
        /\ (active' = active /\ listed' = [listed EXCEPT ![s] = {}]) \/ phase[s] = "live"
    <2>1. CASE SetPolicy(s, name)
      <3> PICK k \in DOMAIN registry[s] : active' = [active EXCEPT ![s] = registry[s][k]]
        BY <2>1 DEF SetPolicy
      <3>1. registry[s][k] \in ToSet(registry[s])
        BY DEF ToSet
      <3> QED BY <2>1, <3>1 DEF SetPolicy, MayCall
    <2>2. CASE ListPolicies(s)
      BY <2>2 DEF ListPolicies, MayCall
    <2>3. CASE FreePolicyInfoArray(s)
      BY <2>3 DEF FreePolicyInfoArray
    <2> QED BY <2>1, <2>2, <2>3
  <1>4. Types'
    BY <1>1, <1>2, <1>3 DEF LibInv, Types
  <1>5. ASSUME NEW r \in Scheds PROVE RegistryInOrder(r)'
    <2>1. RegistryInOrder(r)
      BY DEF LibInv
    <2>2. CASE r # s
      BY <1>1, <1>3, <2>1, <2>2, RegistryKept DEF LibInv, Types
    <2>3. CASE r = s
      <3>1. active'[s] # NoLib => active'[s] \in ToSet(registry[s])
        BY <1>3, <2>1, <2>3 DEF RegistryInOrder, LibInv, Types
      <3>2. listed'[s] \subseteq ToSet(registry[s])
        BY <1>3, <2>1, <2>3 DEF RegistryInOrder, LibInv, Types
      <3>3. phase[s] # "live" => active'[s] = NoLib /\ listed'[s] = {}
        BY <1>3, <2>1, <2>3 DEF RegistryInOrder, LibInv, Types
      <3> QED BY <1>1, <2>1, <2>3, <3>1, <3>2, <3>3 DEF RegistryInOrder, NamesDistinct
    <2> QED BY <2>2, <2>3
  <1>6. LoadsAreLive' /\ OpensBalanced'
    BY <1>1, OpensKept DEF LibInv, LoadsAreLive
  <1> QED BY <1>4, <1>5, <1>6 DEF LibInv

\* One round of qhw_plugin_registry_fini closes the library it takes out.
LEMMA CloseStep ==
    ASSUME LibInv, NEW s \in Scheds, DestroyCloses(s)
    PROVE  LibInv'
  <1> DEFINE h == Head(registry[s])
  <1>1. /\ phase[s] = "closing" /\ registry[s] # <<>>
        /\ opens' = [opens EXCEPT ![h] = @ - 1]
        /\ registry' = [registry EXCEPT ![s] = Tail(registry[s])]
        /\ UNCHANGED <<phase, threading, active, listed, load>>
    BY DEF DestroyCloses, DlClose
  <1>2. RegistryInOrder(s) /\ registry[s] \in Seq(Libs)
    BY DEF LibInv, Types
  <1>3. /\ h \in Libs /\ Tail(registry[s]) \in Seq(Libs) /\ h \in ToSet(registry[s])
        /\ ToSet(Tail(registry[s])) = ToSet(registry[s]) \ {h}
        /\ NamesDistinct(Tail(registry[s]))
    BY <1>1, <1>2, ToSetTail DEF RegistryInOrder
  <1>4. opens[h] > 0 /\ opens[h] \in Nat
    BY <1>3, RegisteredIsOpen DEF LibInv, Types
  <1> HIDE DEF h
  <1>5. /\ registry'[s] = Tail(registry[s])
        /\ \A r \in Scheds \ {s} : registry'[r] = registry[r]
        /\ opens'[h] = opens[h] - 1
        /\ \A l \in Libs \ {h} : opens'[l] = opens[l]
    BY <1>1, <1>3 DEF LibInv, Types
  <1>6. Types'
    BY <1>1, <1>3, <1>4 DEF LibInv, Types
  <1>7. ASSUME NEW r \in Scheds PROVE RegistryInOrder(r)'
    <2>1. RegistryInOrder(r)
      BY DEF LibInv
    <2>2. CASE r # s
      BY <1>1, <1>5, <2>1, <2>2, RegistryKept
    <2>3. CASE r = s
      BY <1>1, <1>3, <1>5, <2>1, <2>3 DEF RegistryInOrder
    <2> QED BY <2>2, <2>3
  <1>8. OpensBalanced'
    <2> SUFFICES ASSUME NEW l \in Libs
                 PROVE  opens'[l] = Cardinality(Registered(l)') + Cardinality(Opening(l)')
      BY DEF OpensBalanced
    <2>1. Opening(l)' = Opening(l)
      BY <1>1 DEF Opening
    <2>2. opens[l] = Cardinality(Registered(l)) + Cardinality(Opening(l))
      BY DEF LibInv, OpensBalanced
    <2>3. CASE l # h
      <3>1. Registered(l)' = Registered(l)
        BY <1>3, <1>5, <2>3 DEF Registered
      <3> QED BY <1>5, <2>1, <2>2, <2>3, <3>1
    <2>4. CASE l = h
      <3>1. Registered(l)' = Registered(l) \ {s} /\ s \in Registered(l)
        BY <1>3, <1>5, <2>4 DEF Registered
      <3>2. /\ Cardinality(Registered(l)') = Cardinality(Registered(l)) - 1
            /\ Cardinality(Registered(l)) \in Nat /\ Cardinality(Opening(l)) \in Nat
        BY <3>1, CountsFinite, CardRemove
      <3> QED BY <1>4, <1>5, <2>1, <2>2, <2>4, <3>2
    <2> QED BY <2>3, <2>4
  <1>9. LoadsAreLive'
    BY <1>1 DEF LibInv, LoadsAreLive
  <1> QED BY <1>6, <1>7, <1>8, <1>9 DEF LibInv

----------------------------------------------------------------------------
(* Steps of a load *)

\* The library is opened.
LEMMA OpenStep ==
    ASSUME LibInv, NEW th \in Threads, NEW s \in Scheds, NEW l \in Libs, LoadOpens(th, s, l)
    PROVE  LibInv'
  <1>1. /\ load[th] = NoLoad /\ phase[s] = "live"
        /\ opens' = [opens EXCEPT ![l] = @ + 1]
        /\ load' = [load EXCEPT ![th] = [at |-> "opened", sched |-> s, lib |-> l]]
        /\ UNCHANGED <<phase, threading, registry, active, listed>>
    BY DEF LoadOpens, MayCall, DlOpen, schedVars
  <1>2. [at |-> "opened", sched |-> s, lib |-> l] \in LoadRecord
    BY DEF LoadRecord
  <1>3. Types'
    BY <1>1, <1>2 DEF LibInv, Types
  <1>4. /\ load'[th] # NoLoad /\ load'[th].sched = s /\ load'[th].lib = l
        /\ \A u \in Threads \ {th} : load'[u] = load[u]
        /\ opens'[l] = opens[l] + 1
        /\ \A m \in Libs \ {l} : opens'[m] = opens[m]
    BY <1>1 DEF LibInv, Types, NoLoad
  <1>5. \A r \in Scheds : RegistryInOrder(r)'
    BY <1>1, RegistryKept DEF LibInv
  <1>6. LoadsAreLive'
    BY <1>1, <1>4 DEF LibInv, LoadsAreLive
  <1>7. OpensBalanced'
    <2> SUFFICES ASSUME NEW m \in Libs
                 PROVE  opens'[m] = Cardinality(Registered(m)') + Cardinality(Opening(m)')
      BY DEF OpensBalanced
    <2>1. Registered(m)' = Registered(m)
      BY <1>1 DEF Registered
    <2>2. opens[m] = Cardinality(Registered(m)) + Cardinality(Opening(m))
      BY DEF LibInv, OpensBalanced
    <2>3. CASE m # l
      <3>1. Opening(m)' = Opening(m)
        BY <1>1, <1>4, <2>3 DEF Opening
      <3> QED BY <1>4, <2>1, <2>2, <2>3, <3>1
    <2>4. CASE m = l
      <3>1. Opening(m)' = Opening(m) \cup {th} /\ th \notin Opening(m)
        BY <1>1, <1>4, <2>4 DEF Opening
      <3>2. /\ Cardinality(Opening(m)') = Cardinality(Opening(m)) + 1
            /\ Cardinality(Registered(m)) \in Nat /\ Cardinality(Opening(m)) \in Nat
        BY <3>1, CountsFinite, CardAdd
      <3> QED BY <1>4, <2>1, <2>2, <2>4, <3>2
    <2> QED BY <2>3, <2>4
  <1> QED BY <1>3, <1>5, <1>6, <1>7 DEF LibInv

\* The library is refused, by its descriptor or by the registry, and closed.
LEMMA RefuseStep ==
    ASSUME LibInv, NEW th \in Threads, LoadInvalid(th) \/ LoadRefused(th)
    PROVE  LibInv'
  <1>1. load[th] # NoLoad /\ load[th].lib \in Libs
    BY LoadFields DEF LibInv, LoadInvalid, LoadRefused
  <1> PICK l \in Libs : l = load[th].lib
    BY <1>1
  <1>2. /\ opens' = [opens EXCEPT ![l] = @ - 1]
        /\ load' = [load EXCEPT ![th] = NoLoad]
        /\ UNCHANGED <<phase, threading, registry, active, listed>>
    BY DEF LoadInvalid, LoadRefused, DlClose, schedVars
  <1>3. th \in Opening(l)
    BY <1>1 DEF Opening
  <1>4. /\ Cardinality(Opening(l) \ {th}) = Cardinality(Opening(l)) - 1
        /\ Cardinality(Opening(l)) \in Nat /\ Cardinality(Opening(l) \ {th}) \in Nat
        /\ Cardinality(Registered(l)) \in Nat
        /\ opens[l] = Cardinality(Registered(l)) + Cardinality(Opening(l))
    BY <1>3, CountsFinite, CardRemove DEF LibInv, OpensBalanced
  <1>5. opens[l] - 1 \in Nat
    BY <1>4
  <1>6. Types'
    BY <1>2, <1>5 DEF LibInv, Types
  <1>7. /\ load'[th] = NoLoad
        /\ \A u \in Threads \ {th} : load'[u] = load[u]
        /\ opens'[l] = opens[l] - 1
        /\ \A m \in Libs \ {l} : opens'[m] = opens[m]
    BY <1>2 DEF LibInv, Types
  <1>8. \A r \in Scheds : RegistryInOrder(r)'
    BY <1>2, RegistryKept DEF LibInv
  <1>9. LoadsAreLive'
    BY <1>2, <1>7 DEF LibInv, LoadsAreLive
  <1>10. OpensBalanced'
    <2> SUFFICES ASSUME NEW m \in Libs
                 PROVE  opens'[m] = Cardinality(Registered(m)') + Cardinality(Opening(m)')
      BY DEF OpensBalanced
    <2>1. Registered(m)' = Registered(m)
      BY <1>2 DEF Registered
    <2>2. CASE m # l
      <3>1. Opening(m)' = Opening(m)
        BY <1>7, <2>2 DEF Opening
      <3>2. opens[m] = Cardinality(Registered(m)) + Cardinality(Opening(m))
        BY DEF LibInv, OpensBalanced
      <3> QED BY <1>7, <2>1, <2>2, <3>1, <3>2
    <2>3. CASE m = l
      <3>1. Opening(m)' = Opening(m) \ {th}
        BY <1>7, <2>3 DEF Opening
      <3> QED BY <1>4, <1>7, <2>1, <2>3, <3>1
    <2> QED BY <2>2, <2>3
  <1> QED BY <1>6, <1>8, <1>9, <1>10 DEF LibInv

\* The registry takes the library over from the thread, or refuses it.
LEMMA AddStep ==
    ASSUME LibInv, NEW th \in Threads, LoadAdds(th)
    PROVE  LibInv'
  <1>1. load[th] # NoLoad /\ load[th].lib \in Libs /\ load[th].sched \in Scheds
        /\ load[th] \in LoadRecord
    BY LoadFields DEF LibInv, LoadAdds
  <1> PICK l \in Libs : l = load[th].lib
    BY <1>1
  <1> PICK s \in Scheds : s = load[th].sched
    BY <1>1
  <1>2. /\ threading[s] \in ThreadFlags[l]
        /\ UNCHANGED <<phase, threading, active, listed, opens>>
        /\ \/ /\ ~Found(s, NameOf[l])
              /\ registry' = [registry EXCEPT ![s] = Append(registry[s], l)]
              /\ load' = [load EXCEPT ![th] = NoLoad]
           \/ /\ load' = [load EXCEPT ![th].at = "refused"]
              /\ registry' = registry
    BY DEF LoadAdds, ValidDesc
  <1>3. phase[s] = "live"
    BY <1>1 DEF LibInv, LoadsAreLive
  <1>4. RegistryInOrder(s) /\ registry[s] \in Seq(Libs)
    BY DEF LibInv, Types
  <1>5. CASE /\ load' = [load EXCEPT ![th].at = "refused"]
             /\ registry' = registry
    <2>1. /\ load'[th] \in LoadRecord /\ load'[th] # NoLoad
          /\ load'[th].lib = l /\ load'[th].sched = s
          /\ \A u \in Threads \ {th} : load'[u] = load[u]
      BY <1>1, <1>5 DEF LibInv, Types, LoadRecord, NoLoad
    <2>2. Types'
      BY <1>2, <1>5, <2>1 DEF LibInv, Types
    <2>3. \A r \in Scheds : RegistryInOrder(r)'
      BY <1>2, <1>5, RegistryKept DEF LibInv
    <2>4. LoadsAreLive'
      BY <1>2, <1>3, <2>1 DEF LibInv, LoadsAreLive
    <2>5. \A m \in Libs : Opening(m)' = Opening(m) /\ Registered(m)' = Registered(m)
      BY <1>1, <1>5, <2>1 DEF Opening, Registered
    <2>6. OpensBalanced'
      BY <1>2, <2>5 DEF LibInv, OpensBalanced
    <2> QED BY <2>2, <2>3, <2>4, <2>6 DEF LibInv
  <1>6. CASE /\ ~Found(s, NameOf[l])
             /\ registry' = [registry EXCEPT ![s] = Append(registry[s], l)]
             /\ load' = [load EXCEPT ![th] = NoLoad]
    <2>1. /\ Append(registry[s], l) \in Seq(Libs)
          /\ Len(Append(registry[s], l)) = Len(registry[s]) + 1
          /\ \A i \in 1..Len(registry[s]) : Append(registry[s], l)[i] = registry[s][i]
          /\ Append(registry[s], l)[Len(registry[s]) + 1] = l
      BY <1>4, AppendProperties
    <2>2. /\ registry'[s] = Append(registry[s], l)
          /\ \A r \in Scheds \ {s} : registry'[r] = registry[r]
          /\ load'[th] = NoLoad
          /\ \A u \in Threads \ {th} : load'[u] = load[u]
      BY <1>6 DEF LibInv, Types
    <2>3. ToSet(registry'[s]) = ToSet(registry[s]) \cup {l}
      BY <1>4, <2>2, ToSetAppend
    <2>4. l \notin ToSet(registry[s])
      BY <1>6 DEF Found, ToSet
    <2>5. Types'
      BY <1>2, <1>6, <2>1 DEF LibInv, Types
    <2>6. NamesDistinct(registry'[s])
      <3>1. /\ DOMAIN registry[s] = 1..Len(registry[s]) /\ Len(registry[s]) \in Nat
            /\ DOMAIN registry'[s] = 1..(Len(registry[s]) + 1)
        BY <1>4, <2>1, <2>2
      <3>2. \A i \in DOMAIN registry[s] : NameOf[registry[s][i]] # NameOf[l]
        BY <1>6 DEF Found
      <3>3. \A i \in DOMAIN registry'[s] : i \in DOMAIN registry[s] \/ i = Len(registry[s]) + 1
        BY <3>1
      <3>4. NamesDistinct(registry[s])
        BY <1>4 DEF RegistryInOrder
      <3> SUFFICES ASSUME NEW j \in DOMAIN registry'[s], NEW k \in DOMAIN registry'[s],
                          NameOf[registry'[s][j]] = NameOf[registry'[s][k]]
                   PROVE  j = k
        BY DEF NamesDistinct
      <3>5. /\ j \in DOMAIN registry[s] => registry'[s][j] = registry[s][j]
            /\ k \in DOMAIN registry[s] => registry'[s][k] = registry[s][k]
            /\ registry'[s][Len(registry[s]) + 1] = l
        BY <2>1, <2>2, <3>1
      <3> QED BY <3>2, <3>3, <3>4, <3>5 DEF NamesDistinct
    <2>7. ASSUME NEW r \in Scheds PROVE RegistryInOrder(r)'
      <3>1. CASE r # s
        BY <1>2, <2>2, <3>1, RegistryKept DEF LibInv
      <3>2. CASE r = s
        BY <1>2, <1>3, <1>4, <2>3, <2>6, <3>2 DEF RegistryInOrder
      <3> QED BY <3>1, <3>2
    <2>8. LoadsAreLive'
      BY <1>2, <2>2 DEF LibInv, LoadsAreLive
    <2>9. OpensBalanced'
      <3> SUFFICES ASSUME NEW m \in Libs
                   PROVE  opens'[m] = Cardinality(Registered(m)') + Cardinality(Opening(m)')
        BY DEF OpensBalanced
      <3>1. opens'[m] = Cardinality(Registered(m)) + Cardinality(Opening(m))
        BY <1>2 DEF LibInv, OpensBalanced
      <3>2. CASE m # l
        <4>1. Registered(m)' = Registered(m)
          BY <2>2, <2>3, <3>2 DEF Registered
        <4>2. Opening(m)' = Opening(m)
          BY <1>1, <2>2, <3>2 DEF Opening
        <4> QED BY <3>1, <4>1, <4>2
      <3>3. CASE m = l
        <4>1. Registered(m)' = Registered(m) \cup {s} /\ s \notin Registered(m)
          BY <2>2, <2>3, <2>4, <3>3 DEF Registered
        <4>2. Opening(m)' = Opening(m) \ {th} /\ th \in Opening(m)
          BY <1>1, <2>2, <3>3 DEF Opening
        <4>3. /\ Cardinality(Registered(m)') = Cardinality(Registered(m)) + 1
              /\ Cardinality(Opening(m)') = Cardinality(Opening(m)) - 1
              /\ Cardinality(Registered(m)) \in Nat /\ Cardinality(Opening(m)) \in Nat
          BY <4>1, <4>2, CountsFinite, CardAdd, CardRemove
        <4> QED BY <3>1, <4>3
      <3> QED BY <3>2, <3>3
    <2> QED BY <2>5, <2>7, <2>8, <2>9 DEF LibInv
  <1> QED BY <1>2, <1>5, <1>6

\* Every step keeps the registries in order and the opens balanced.
LEMMA LibStep == LibInv /\ [Next]_vars => LibInv'
  <1> SUFFICES ASSUME LibInv, [Next]_vars PROVE LibInv'
    OBVIOUS
  <1>1. ASSUME UNCHANGED <<schedVars, opens, load>> PROVE LibInv'
    <2>1. Types' /\ LoadsAreLive' /\ OpensBalanced'
      BY <1>1, OpensKept DEF schedVars, LibInv, Types, LoadsAreLive
    <2>2. \A r \in Scheds : RegistryInOrder(r)'
      BY <1>1, RegistryKept DEF schedVars, LibInv
    <2> QED BY <2>1, <2>2 DEF LibInv
  <1>2. CASE UNCHANGED vars \/ QpuCreate \/ QpuDestroy \/ QpuFree
    BY <1>1, <1>2 DEF vars, QpuCreate, QpuDestroy, QpuFree
  <1> QED BY <1>2, PhaseStep, UseStep, CloseStep, OpenStep, RefuseStep, AddStep
          DEF Next, DestroyStep, LoadStep

\* Code that may still be called and names that may still be read are in
\* libraries that are mapped, whichever of any number of schedulers share them
\* (qhw_plugin_registry_add, qhw_plugin_registry_fini, qhw_sched_destroy): every
\* dlopen that was not closed belongs to one registry or one load in progress.
THEOREM PolicyCodeMappedHolds == Spec => []PolicyCodeMapped
  <1>1. Init => LibInv
    <2> SUFFICES ASSUME Init PROVE LibInv
      OBVIOUS
    <2>1. <<>> \in Seq(Libs) /\ ToSet(<<>>) = {} /\ NamesDistinct(<<>>)
      BY DEF ToSet, NamesDistinct
    <2>2. Types
      BY <2>1 DEF Init, Types
    <2>3. \A s \in Scheds : RegistryInOrder(s)
      BY <2>1 DEF Init, RegistryInOrder
    <2>4. LoadsAreLive
      BY DEF Init, LoadsAreLive
    <2>5. \A l \in Libs : Registered(l) = {} /\ Opening(l) = {} /\ opens[l] = 0
      BY <2>1 DEF Init, Registered, Opening
    <2>6. OpensBalanced
      BY <2>5, FS_EmptySet DEF OpensBalanced
    <2> QED BY <2>2, <2>3, <2>4, <2>6 DEF LibInv
  <1> QED BY <1>1, LibInvImplies, LibStep, PTL DEF Spec
=============================================================================

--------------------------- MODULE PriorityProofs --------------------------
(***************************************************************************)
(* Theorems about the priority policy, for any number of tasks and every   *)
(* configuration of the deadline boost: its heaps and its table agree, and *)
(* it hands out the best task although the clock goes on while it looks.   *)
(***************************************************************************)
EXTENDS PriorityPolicy, BoostProofs

EntryType ==
    [base : IntMin..IntMax, deadline : 0..WordMax, runtime : 0..WordMax, seq : Nat,
     effective : IntMin..IntMax, next : 0..WordMax, key : IntMin..IntMax]

Types ==
    /\ config \in BoostConfigs
    /\ now \in 0..MaxNow
    /\ ready \subseteq TaskId
    /\ entry \in [TaskId -> EntryType]
    /\ seqNext \in Nat
    /\ selecting \in BOOLEAN
    /\ loopNow \in 0..now

EntriesOnceCurrent == \A t \in ready : OnceCurrent(config, entry[t], now)

\* The inductive invariant: that the queues agree does not depend on the clock, that
\* the choice is right depends on what the entries say of it.
PolicyInv == Types /\ QueuesAgree /\ EntriesOnceCurrent

----------------------------------------------------------------------------
(* The boost of an entry *)

\* priority_refresh_task makes an entry current, and sifts it if it must.
LEMMA RefreshedCurrent ==
    ASSUME Types, NEW e \in EntryType, e.key = e.effective
    PROVE  /\ Refreshed(e) \in EntryType
           /\ Refreshed(e).key = Refreshed(e).effective
           /\ OnceCurrent(config, Refreshed(e), now)
  <1>1. config \in BoostConfigType /\ now \in 0..WordMax /\ now \in 0..now
    BY PriorityPolicyAssumption, WidthAssumption DEF Types
  <1> DEFINE r == Boost(config, e, now)
  <1>2. r.effective_priority \in IntMin..IntMax /\ r.next_refresh \in 0..WordMax
    BY <1>1, BoostTypes DEF EntryType, Boostable
  <1>3. Refreshed(e) = [e EXCEPT !.effective = r.effective_priority, !.next = r.next_refresh,
                                 !.key = SiftedKey(e, r.effective_priority)]
    BY DEF Refreshed, BoostAt, Boost
  <1>4. SiftedKey(e, r.effective_priority) = r.effective_priority
    BY DEF SiftedKey
  <1>5. Boost(config, Refreshed(e), now) = r
    BY <1>3 DEF Boost, EntryType
  <1> HIDE DEF r
  <1>6. /\ Refreshed(e) \in EntryType
        /\ Refreshed(e).effective = r.effective_priority
        /\ Refreshed(e).key = r.effective_priority
        /\ Refreshed(e).next = r.next_refresh
    BY <1>2, <1>3, <1>4 DEF EntryType
  <1> QED BY <1>1, <1>5, <1>6 DEF OnceCurrent

----------------------------------------------------------------------------
(* The invariant *)

\* A task is refreshed, with an entry that is new or was in order before.
LEMMA RefreshTaskStep ==
    ASSUME PolicyInv, NEW t \in TaskId, NEW e \in EntryType, e.key = e.effective,
           RefreshTask(t, e), ready' = ready \cup {t}, config' = config, now' = now
    PROVE  entry' \in [TaskId -> EntryType] /\ QueuesAgree' /\ EntriesOnceCurrent'
  <1> DEFINE f == Refreshed(e)
  <1>1. f \in EntryType /\ f.key = f.effective /\ OnceCurrent(config, f, now)
    BY RefreshedCurrent DEF PolicyInv
  <1>2. entry' = [entry EXCEPT ![t] = f]
        /\ refresh' = IF f.next = Never THEN refresh \ {t} ELSE refresh \cup {t}
    BY DEF RefreshTask, RefreshHeap
  <1> HIDE DEF f
  <1>3. entry \in [TaskId -> EntryType] /\ ready \subseteq TaskId
    BY DEF PolicyInv, Types
  <1>4. entry' \in [TaskId -> EntryType]
    BY <1>1, <1>2, <1>3
  <1>5. entry'[t] = f /\ \A u \in TaskId \ {t} : entry'[u] = entry[u]
    BY <1>2, <1>3
  <1>6. QueuesAgree'
    BY <1>1, <1>2, <1>3, <1>5 DEF PolicyInv, QueuesAgree, Never
  <1>7. EntriesOnceCurrent'
    <2> SUFFICES ASSUME NEW u \in ready'
                 PROVE  OnceCurrent(config, entry'[u], now)
      BY DEF EntriesOnceCurrent
    <2>1. CASE u = t
      BY <1>1, <1>5, <2>1
    <2>2. CASE u # t
      BY <1>3, <1>5, <2>2 DEF PolicyInv, EntriesOnceCurrent
    <2> QED BY <2>1, <2>2
  <1> QED BY <1>4, <1>6, <1>7

\* A task leaves both heaps and the table.
LEMMA LeaveStep ==
    ASSUME PolicyInv, NEW t \in ready, ready' = ready \ {t}, refresh' = refresh \ {t},
           entry' = [entry EXCEPT ![t] = NoEntry], config' = config, now' = now
    PROVE  entry' \in [TaskId -> EntryType] /\ QueuesAgree' /\ EntriesOnceCurrent'
  <1>1. entry \in [TaskId -> EntryType] /\ ready \subseteq TaskId
    BY DEF PolicyInv, Types
  <1>2. NoEntry \in EntryType
    BY WidthAssumption DEF NoEntry, EntryType, Never
  <1>3. entry' \in [TaskId -> EntryType] /\ \A u \in TaskId \ {t} : entry'[u] = entry[u]
    BY <1>1, <1>2
  <1>4. QueuesAgree'
    BY <1>1, <1>3 DEF PolicyInv, QueuesAgree, Never
  <1>5. EntriesOnceCurrent'
    BY <1>1, <1>3 DEF PolicyInv, EntriesOnceCurrent
  <1> QED BY <1>3, <1>4, <1>5

\* Nothing but the clock and the state of the selection changes.
LEMMA EntriesStay ==
    ASSUME PolicyInv, config' = config, now' \in Nat, now <= now',
           ready' = ready, entry' = entry, refresh' = refresh
    PROVE  entry' \in [TaskId -> EntryType] /\ QueuesAgree' /\ EntriesOnceCurrent'
  <1>1. entry' \in [TaskId -> EntryType] /\ QueuesAgree'
    BY DEF PolicyInv, Types, QueuesAgree, Never
  <1>2. now \in Nat
    BY PriorityPolicyAssumption DEF PolicyInv, Types
  <1>3. EntriesOnceCurrent'
    BY <1>2, OnceCurrentRemains DEF PolicyInv, EntriesOnceCurrent
  <1> QED BY <1>1, <1>3

\* The policy begins with empty heaps.
LEMMA PolicyInvInit == Init => PolicyInv
  <1> SUFFICES ASSUME Init PROVE PolicyInv
    OBVIOUS
  <1>1. NoEntry \in EntryType
    BY WidthAssumption DEF NoEntry, EntryType, Never
  <1>2. Types
    <2>1. entry \in [TaskId -> EntryType]
      BY <1>1 DEF Init
    <2>2. now \in 0..MaxNow /\ loopNow \in 0..now /\ seqNext \in Nat
      BY PriorityPolicyAssumption DEF Init
    <2>3. selecting \in BOOLEAN /\ config \in BoostConfigs /\ ready \subseteq TaskId
      BY Zenon DEF Init
    <2> QED BY <2>1, <2>2, <2>3, Zenon DEF Types
  <1> QED BY <1>2 DEF Init, PolicyInv, QueuesAgree, EntriesOnceCurrent

\* Every callback keeps the heaps in agreement.
LEMMA PolicyInvStep == PolicyInv /\ [Next]_vars => PolicyInv'
  <1> SUFFICES ASSUME PolicyInv, [Next]_vars PROVE PolicyInv'
    OBVIOUS
  <1>0. /\ config \in BoostConfigs /\ now \in 0..MaxNow /\ now \in Nat /\ MaxNow \in Nat
        /\ ready \subseteq TaskId /\ entry \in [TaskId -> EntryType] /\ seqNext \in Nat
        /\ selecting \in BOOLEAN /\ loopNow \in 0..now
        /\ \A t \in ready : entry[t].key = entry[t].effective
    BY PriorityPolicyAssumption DEF PolicyInv, Types, QueuesAgree
  <1>1. ASSUME NEW t \in TaskId, NEW base \in Bases, NEW deadline \in Deadlines,
               NEW runtime \in Runtimes, OnTaskSubmit(t, base, deadline, runtime)
        PROVE  PolicyInv'
    <2> DEFINE e == NewEntry(base, deadline, runtime)
    <2>1. e \in EntryType /\ e.key = e.effective
      BY <1>0, PriorityPolicyAssumption, WidthAssumption DEF NewEntry, EntryType, Never
    <2>2. entry' \in [TaskId -> EntryType] /\ QueuesAgree' /\ EntriesOnceCurrent'
      BY <1>1, <2>1, RefreshTaskStep DEF OnTaskSubmit
    <2>3. Types'
      BY <1>0, <1>1, <2>2 DEF OnTaskSubmit, Types
    <2> QED BY <2>2, <2>3 DEF PolicyInv
  <1>2. ASSUME NEW t \in TaskId, OnTaskSubmitFails(t) PROVE PolicyInv'
    <2>1. entry' \in [TaskId -> EntryType] /\ QueuesAgree' /\ EntriesOnceCurrent'
      BY <1>0, <1>2, EntriesStay DEF OnTaskSubmitFails
    <2>2. Types'
      BY <1>0, <1>2, <2>1 DEF OnTaskSubmitFails, Types
    <2> QED BY <2>1, <2>2 DEF PolicyInv
  <1>3. ASSUME NEW t \in TaskId, OnTaskFinished(t) PROVE PolicyInv'
    <2>1. entry' \in [TaskId -> EntryType] /\ QueuesAgree' /\ EntriesOnceCurrent'
      BY <1>3, LeaveStep DEF OnTaskFinished, ReadyAfterRemove
    <2>2. Types'
      BY <1>0, <1>3, <2>1 DEF OnTaskFinished, ReadyAfterRemove, Types
    <2> QED BY <2>1, <2>2 DEF PolicyInv
  <1>4. ASSUME NEW t \in TaskId, NEW base \in Bases, OnTaskPriorityChanged(t, base)
        PROVE  PolicyInv'
    <2> DEFINE e == [entry[t] EXCEPT !.base = base]
    <2>1. t \in ready
      BY <1>4 DEF OnTaskPriorityChanged
    <2>2. e \in EntryType /\ e.key = e.effective
      BY <1>0, <2>1, PriorityPolicyAssumption DEF EntryType
    <2>3. RefreshTask(t, e) /\ ready' = ready \cup {t} /\ config' = config /\ now' = now
      BY <1>4, <2>1 DEF OnTaskPriorityChanged
    <2>4. entry' \in [TaskId -> EntryType] /\ QueuesAgree' /\ EntriesOnceCurrent'
      BY <2>2, <2>3, RefreshTaskStep
    <2>5. Types'
      BY <1>0, <1>4, <2>4 DEF OnTaskPriorityChanged, Types
    <2> QED BY <2>4, <2>5 DEF PolicyInv
  <1>5. ASSUME SelectBegins PROVE PolicyInv'
    <2>1. entry' \in [TaskId -> EntryType] /\ QueuesAgree' /\ EntriesOnceCurrent'
      BY <1>0, <1>5, EntriesStay DEF SelectBegins
    <2>2. Types'
      BY <1>0, <1>5, <2>1 DEF SelectBegins, Types
    <2> QED BY <2>1, <2>2 DEF PolicyInv
  <1>6. ASSUME RefreshExpired PROVE PolicyInv'
    <2>1. PICK t \in Expired : RefreshTask(t, entry[t])
      BY <1>6 DEF RefreshExpired
    <2>2. t \in ready /\ t \in TaskId
      BY <1>0 DEF Expired, PolicyInv, QueuesAgree
    <2>3. entry[t] \in EntryType /\ entry[t].key = entry[t].effective
      BY <1>0, <2>2
    <2>4. ready' = ready \cup {t} /\ config' = config /\ now' = now
      BY <1>6, <2>2 DEF RefreshExpired
    <2>5. entry' \in [TaskId -> EntryType] /\ QueuesAgree' /\ EntriesOnceCurrent'
      BY <2>1, <2>2, <2>3, <2>4, RefreshTaskStep
    <2>6. Types'
      BY <1>0, <1>6, <2>5 DEF RefreshExpired, Types
    <2> QED BY <2>5, <2>6 DEF PolicyInv
  <1>7. ASSUME SelectEnds PROVE PolicyInv'
    <2>1. entry' \in [TaskId -> EntryType] /\ QueuesAgree' /\ EntriesOnceCurrent'
          /\ ready' \subseteq TaskId
      <3>1. CASE ready' = ready /\ entry' = entry /\ refresh' = refresh
        BY <1>0, <1>7, <3>1, EntriesStay DEF SelectEnds
      <3>2. ASSUME NEW t \in ready, ready' = ready \ {t}, refresh' = refresh \ {t},
                   entry' = [entry EXCEPT ![t] = NoEntry]
            PROVE  entry' \in [TaskId -> EntryType] /\ QueuesAgree' /\ EntriesOnceCurrent'
                   /\ ready' \subseteq TaskId
        BY <1>0, <1>7, <3>2, LeaveStep DEF SelectEnds
      <3> QED BY <1>7, <3>1, <3>2 DEF SelectEnds, ReadyAfterPop, RefreshAfterPop
    <2>2. Types'
      <3>1. selecting' \in BOOLEAN /\ config' = config /\ now' = now /\ seqNext' = seqNext
        BY <1>7, Zenon DEF SelectEnds
      <3>2. loopNow' \in 0..now'
        BY <1>0, <1>7 DEF SelectEnds
      <3> QED BY <1>0, <2>1, <3>1, <3>2, Zenon DEF Types
    <2> QED BY <2>1, <2>2 DEF PolicyInv
  <1>8. ASSUME Tick PROVE PolicyInv'
    <2>1. now' = now + 1 /\ now < MaxNow
      BY <1>8 DEF Tick
    <2>2. entry' \in [TaskId -> EntryType] /\ QueuesAgree' /\ EntriesOnceCurrent'
      BY <1>0, <1>8, <2>1, EntriesStay DEF Tick
    <2>3. Types'
      BY <1>0, <1>8, <2>1, <2>2 DEF Tick, Types
    <2> QED BY <2>2, <2>3 DEF PolicyInv
  <1>9. ASSUME UNCHANGED vars PROVE PolicyInv'
    <2>1. entry' \in [TaskId -> EntryType] /\ QueuesAgree' /\ EntriesOnceCurrent'
      BY <1>0, <1>9, EntriesStay DEF vars
    <2>2. Types'
      BY <1>0, <1>9, <2>1 DEF vars, Types
    <2> QED BY <2>1, <2>2 DEF PolicyInv
  <1> QED BY <1>1, <1>2, <1>3, <1>4, <1>5, <1>6, <1>7, <1>8, <1>9 DEF Next

\* The policy invariant holds in every state of every behaviour.
LEMMA PolicyInvHolds == Spec => []PolicyInv
  BY PolicyInvInit, PolicyInvStep, PTL DEF Spec

----------------------------------------------------------------------------
(* The results *)

\* The ready heap, the heap of refresh times and the table of the priority policy
\* agree after every callback and between the refreshes of select_next.
THEOREM QueuesAgreeHolds == Spec => []QueuesAgree
  <1>1. PolicyInv => QueuesAgree
    BY DEF PolicyInv
  <1> QED BY <1>1, PolicyInvHolds, PTL

\* When every refresh time that has come was served, the entry of a waiting task
\* shows its boosted priority at some moment of the call.
LEMMA ShownWhenSelected ==
    ASSUME PolicyInv, Expired = {}, NEW t \in ready
    PROVE  \E m \in loopNow..now : BoostAt(entry[t], m).effective_priority = entry[t].effective
  <1>1. /\ config \in BoostConfigType /\ Accepted(config)
        /\ entry[t] \in EntryType /\ now \in 0..WordMax /\ loopNow \in 0..now
        /\ OnceCurrent(config, entry[t], now)
    BY PriorityPolicyAssumption, WidthAssumption DEF PolicyInv, Types, EntriesOnceCurrent
  <1>2. loopNow < entry[t].next
    <2>1. loopNow \in Nat /\ loopNow < WordMax /\ entry[t].next \in Nat
      BY <1>1, PriorityPolicyAssumption, WidthAssumption DEF PolicyInv, Types, EntryType
    <2>2. CASE t \in refresh
      BY <2>1, <2>2 DEF Expired
    <2>3. CASE t \notin refresh
      BY <2>1, <2>3 DEF PolicyInv, QueuesAgree, Never
    <2> QED BY <2>2, <2>3
  <1> QED BY <1>1, <1>2, ShownWithin DEF BoostAt, Boost, EntryType, Boostable

\* select_next hands out the best task of those that wait, whatever the clock does
\* during the call: no other one had a better claim all the time the call took.
THEOREM SelectionIsBestHolds == Spec => SelectionIsBest
  <1> DEFINE Best == selecting /\ ~selecting' =>
                 \A u \in ready \ {chosen'} :
                     \E mt, mu \in loopNow..now :
                         LET t  == chosen'
                             pt == BoostAt(entry[t], mt).effective_priority
                             pu == BoostAt(entry[u], mu).effective_priority
                         IN  pt > pu \/ (pt = pu /\ entry[t].seq < entry[u].seq)
  <1>1. PolicyInv /\ [Next]_vars => Best
    <2> SUFFICES ASSUME PolicyInv, [Next]_vars, selecting, ~selecting',
                        NEW u \in ready \ {chosen'}
                 PROVE  \E mt, mu \in loopNow..now :
                          LET t  == chosen'
                              pt == BoostAt(entry[t], mt).effective_priority
                              pu == BoostAt(entry[u], mu).effective_priority
                          IN  pt > pu \/ (pt = pu /\ entry[t].seq < entry[u].seq)
      OBVIOUS
    <2>1. SelectEnds
      BY DEF Next, vars, OnTaskSubmit, OnTaskSubmitFails, OnTaskFinished,
             OnTaskPriorityChanged, SelectBegins, RefreshExpired, Tick
    <2>2. PICK t \in ready : (\A v \in ready \ {t} : Before(t, v)) /\ chosen' = t
      BY <2>1 DEF SelectEnds
    <2>3. Expired = {}
      BY <2>1 DEF SelectEnds
    <2>4. PICK mt \in loopNow..now : BoostAt(entry[t], mt).effective_priority = entry[t].effective
      BY <2>3, ShownWhenSelected
    <2>5. PICK mu \in loopNow..now : BoostAt(entry[u], mu).effective_priority = entry[u].effective
      BY <2>3, ShownWhenSelected
    <2>6. entry[t].key = entry[t].effective /\ entry[u].key = entry[u].effective
      BY DEF PolicyInv, QueuesAgree
    <2>7. Before(t, u)
      BY <2>2
    <2> QED BY <2>2, <2>4, <2>5, <2>6, <2>7 DEF Before
  <1> QED BY <1>1, PolicyInvHolds, PTL DEF Spec, SelectionIsBest

\* The priority policy keeps the contract the core relies on: it hands out a task
\* it was given, once, and answers NOT_FOUND only when it holds none.
THEOREM PriorityContract == Spec => ImplementsContract
  <1>1. Init => Contract!Init
    BY DEF Init, Contract!Init
  <1>2. [Next]_vars => [Contract!Next]_(Contract!vars)
    <2> SUFFICES ASSUME [Next]_vars PROVE [Contract!Next]_(Contract!vars)
      OBVIOUS
    <2>1. ASSUME NEW t \in TaskId, NEW base \in Bases, NEW deadline \in Deadlines,
                 NEW runtime \in Runtimes, OnTaskSubmit(t, base, deadline, runtime)
          PROVE  Contract!OnTaskSubmit(t)
      BY <2>1 DEF OnTaskSubmit, Contract!OnTaskSubmit
    <2>2. ASSUME NEW t \in TaskId, OnTaskFinished(t) PROVE Contract!OnTaskFinished(t)
      BY <2>2 DEF OnTaskFinished, ReadyAfterRemove, Contract!OnTaskFinished
    <2>3. ASSUME SelectEnds PROVE Contract!SelectNext
      BY <2>3 DEF SelectEnds, ReadyAfterPop, Contract!SelectNext
    <2>4. ASSUME \/ \E t \in TaskId : OnTaskSubmitFails(t)
                 \/ \E t \in TaskId, base \in Bases : OnTaskPriorityChanged(t, base)
                 \/ SelectBegins \/ RefreshExpired \/ Tick \/ UNCHANGED vars
          PROVE  UNCHANGED Contract!vars
      BY <2>4 DEF OnTaskSubmitFails, OnTaskPriorityChanged, SelectBegins, RefreshExpired,
                  Tick, vars, Contract!vars
    <2> QED BY <2>1, <2>2, <2>3, <2>4 DEF Next, Contract!Next
  <1> QED BY <1>1, <1>2, PTL DEF Spec, ImplementsContract, Contract!Spec
=============================================================================

------------------------ MODULE CompositionProofs --------------------------
(***************************************************************************)
(* Theorems about the scheduler core composed with its neighbours: two     *)
(* schedulers on one QPU (SharedQpu), and the core with the list of the    *)
(* built-in fifo policy (FifoScheduler).  A step of either composition is  *)
(* a step of the core that SchedulerProofs classifies, or one of the       *)
(* neighbour that is classified here in the same way.                      *)
(***************************************************************************)
EXTENDS SharedQpu, FifoScheduler, SchedulerProofs

----------------------------------------------------------------------------
(* Two schedulers on one QPU, for every number of tasks of either, every   *)
(* overlap of their identifiers, and any number of restarts.               *)

SharedTypes ==
    /\ Base
    /\ otherState \in [OtherTaskId -> States]
    /\ abandonedQueued \in Nat

OtherQueued == {t \in OtherTaskId : otherState[t] = "QUEUED"}

----------------------------------------------------------------------------
(* The ways in which a step of the other scheduler may change its table,   *)
(* the queue counter and the QPU slot                                      *)

OtherInserts(t) ==
    /\ otherState[t] = "ABSENT"
    /\ otherState' = [otherState EXCEPT ![t] = "QUEUED"]
    /\ queuedCount' = queuedCount + 1
    /\ runningTask' = runningTask

OtherStarts(t) ==
    /\ otherState[t] \in {"QUEUED", "ASSIGNED"}
    /\ runningTask = NoTask
    /\ otherState' = [otherState EXCEPT ![t] = "RUNNING"]
    /\ queuedCount' = IF otherState[t] = "QUEUED" THEN Unqueued(queuedCount) ELSE queuedCount
    /\ runningTask' = t

OtherFinishes(t, s) ==
    /\ otherState[t] \in {"QUEUED", "ASSIGNED", "RUNNING"}
    /\ otherState' = [otherState EXCEPT ![t] = s]
    /\ queuedCount' = IF otherState[t] = "QUEUED" THEN Unqueued(queuedCount) ELSE queuedCount
    /\ runningTask' = SlotAfterFinish(t)

OtherChanges ==
    \/ \E t \in OtherTaskId : OtherInserts(t) \/ OtherStarts(t)
    \/ \E t \in OtherTaskId, s \in Terminal : OtherFinishes(t, s)
    \/ UNCHANGED <<otherState, queuedCount, runningTask>>

\* Every step of the other scheduler is one of them: it has no policy, no
\* callbacks and no split requests.
LEMMA OtherStepChanges ==
    ASSUME SharedTypes, Other!Next
    PROVE  OtherChanges
  <1>0. queuedCount \in Nat
    BY DEF SharedTypes, Base, OwnTypes
  <1>1. ASSUME NEW t \in OtherTaskId, NEW parent \in {NoTask}, NEW shots \in {0},
               NEW prio \in {AnyPriority}, Other!SubmitWhole(t, parent, shots, prio)
        PROVE  OtherChanges
    <2> DEFINE d == [parent |-> parent, shots |-> shots, slice |-> FALSE]
    <2>1. /\ otherState[t] = "ABSENT" /\ runningTask' = runningTask
          /\ Other!EnqueueOk(t, d, prio) \/ Other!EnqueueFailed
      BY <1>1 DEF Other!SubmitWhole, Other!Enqueue
    <2> HIDE DEF d
    <2>2. CASE Other!EnqueueOk(t, d, prio)
      BY <2>1, <2>2 DEF Other!EnqueueOk, Other!TableInsert, OtherChanges, OtherInserts
    <2>3. CASE Other!EnqueueFailed
      BY <1>0, <2>1, <2>3 DEF Other!EnqueueFailed, Other!Unqueued, Other!tableVars, OtherChanges
    <2> QED BY <2>1, <2>2, <2>3
  <1>2. ASSUME NEW t \in OtherTaskId, Other!SelectNext(t) PROVE FALSE
    BY <1>2 DEF Other!SelectNext, Other!PolicyActive
  <1>3. ASSUME NEW t \in OtherTaskId, Other!TaskStarted(t) PROVE OtherChanges
    BY <1>3 DEF Other!TaskStarted, Other!StartRefused, Other!Unqueued, Unqueued,
                OtherChanges, OtherStarts
  <1>4. ASSUME NEW t \in OtherTaskId, NEW prio \in {AnyPriority}, Other!UpdatePriority(t, prio)
        PROVE  OtherChanges
    BY <1>4 DEF Other!UpdatePriority, Other!qpuVars, OtherChanges
  <1>5. ASSUME NEW t \in OtherTaskId, NEW s \in Other!Terminal, Other!FinishTask(t, s)
        PROVE  OtherChanges
    <2>1. /\ otherState[t] \in {"QUEUED", "ASSIGNED", "RUNNING"}
          /\ queuedCount' = IF otherState[t] = "QUEUED" THEN Unqueued(queuedCount) ELSE queuedCount
          /\ runningTask' = SlotAfterFinish(t)
          /\ Other!UpdateParentAfterChild(t, s, [otherState EXCEPT ![t] = s])
      BY <1>5 DEF Other!FinishTask, Other!Unqueued, Unqueued, Other!SlotAfterFinish, SlotAfterFinish
    <2>2. [u \in OtherTaskId |-> NoDesc][t].parent = NoTask
      BY DEF NoDesc
    <2>3. otherState' = [otherState EXCEPT ![t] = s]
      BY <2>1, <2>2 DEF Other!UpdateParentAfterChild, Other!NoDesc
    <2>4. s \in Terminal
      BY DEF Other!Terminal, Terminal
    <2> QED BY <2>1, <2>3, <2>4 DEF OtherChanges, OtherFinishes
  <1> QED BY <1>1, <1>2, <1>3, <1>4, <1>5 DEF Other!Next, Other!Submit

\* It counts a task that ended, or leaves the QPU's counts of them alone.
LEMMA OtherFinishedCount ==
    ASSUME Other!Next
    PROVE  \/ finishedCount' = finishedCount
           \/ \E s \in Terminal : finishedCount' = [finishedCount EXCEPT ![s] = @ + 1]
  <1> DEFINE Goal == \/ finishedCount' = finishedCount
                     \/ \E s \in Terminal : finishedCount' = [finishedCount EXCEPT ![s] = @ + 1]
  <1>1. ASSUME NEW t, NEW parent, NEW shots, NEW prio, Other!SubmitWhole(t, parent, shots, prio)
        PROVE  Goal
    BY <1>1 DEF Other!SubmitWhole
  <1>2. ASSUME NEW t, Other!SelectNext(t) PROVE Goal
    BY <1>2 DEF Other!SelectNext
  <1>3. ASSUME NEW t, Other!TaskStarted(t) PROVE Goal
    BY <1>3 DEF Other!TaskStarted
  <1>4. ASSUME NEW t, NEW prio, Other!UpdatePriority(t, prio) PROVE Goal
    BY <1>4 DEF Other!UpdatePriority, Other!qpuVars
  <1>5. ASSUME NEW t, NEW s \in Other!Terminal, Other!FinishTask(t, s) PROVE Goal
    BY <1>5 DEF Other!FinishTask, Other!CountFinished, Other!Terminal, Terminal
  <1> QED BY <1>1, <1>2, <1>3, <1>4, <1>5 DEF Other!Next, Other!Submit

\* A step that leaves the first scheduler alone keeps its types and protocol
\* when it keeps those of the counters.
LEMMA OwnKept ==
    ASSUME Base, UNCHANGED ownVars, queuedCount' \in Nat, finishedCount' \in [Terminal -> Nat]
    PROVE  Base'
  <1>1. UNCHANGED <<lock, pc, call, state>>
    BY DEF ownVars, tableVars, threadVars
  <1>2. AdmissionProtocol'
    BY <1>1 DEF Base, AdmissionProtocol, PartlyAdmitted
  <1>3. OwnTypes'
    BY DEF Base, OwnTypes, ownVars, tableVars, policyVars, setupVars, threadVars
  <1> QED BY <1>2, <1>3 DEF Base

\* Every step keeps the types of both schedulers.
LEMMA SharedTypesStep == SharedTypes /\ [SharedNext]_sharedVars => SharedTypes'
  <1> SUFFICES ASSUME SharedTypes, [SharedNext]_sharedVars PROVE SharedTypes'
    OBVIOUS
  <1>0. /\ queuedCount \in Nat /\ finishedCount \in [Terminal -> Nat]
        /\ otherState \in [OtherTaskId -> States] /\ Base /\ abandonedQueued \in Nat
    BY DEF SharedTypes, Base, OwnTypes
  <1>1. CASE Next /\ UNCHANGED <<otherVars, historyVars>>
    BY <1>0, <1>1, BaseStep DEF SharedTypes, otherVars, historyVars
  <1>2. CASE Other!Next /\ UNCHANGED <<ownVars, historyVars>>
    <2>1. OtherChanges
      BY <1>2, OtherStepChanges
    <2>2. otherState' \in [OtherTaskId -> States] /\ queuedCount' \in Nat
      BY <1>0, <2>1 DEF OtherChanges, OtherInserts, OtherStarts, OtherFinishes, Unqueued,
                        States, Live
    <2>3. finishedCount' \in [Terminal -> Nat]
      BY <1>0, <1>2, OtherFinishedCount
    <2> QED BY <1>0, <1>2, <2>2, <2>3, OwnKept DEF SharedTypes, historyVars
  <1>3. CASE RestartOther
    <2>1. "ABSENT" \in States
      BY DEF States
    <2>2. otherState' \in [OtherTaskId -> States]
      BY <1>3, <2>1 DEF RestartOther, CreateOther
    <2>3. Other!Queued \in SUBSET OtherTaskId
      BY DEF Other!Queued
    <2>4. Cardinality(Other!Queued) \in Nat
      BY <2>3, SharedAssumption, FS_Subset, FS_CardinalityType
    <2>5. abandonedQueued' \in Nat
      BY <1>0, <1>3, <2>4 DEF RestartOther
    <2>6. UNCHANGED <<queuedCount, finishedCount, ownVars>>
      BY <1>3 DEF RestartOther, DestroyQpu, qpuVars
    <2> QED BY <1>0, <2>2, <2>5, <2>6, OwnKept DEF SharedTypes
  <1>4. CASE UNCHANGED sharedVars
    <2>1. UNCHANGED <<vars, otherState, abandonedQueued>>
      BY <1>4 DEF sharedVars, otherVars, historyVars
    <2> QED BY <1>0, <2>1, BaseStep DEF SharedTypes
  <1> QED BY <1>1, <1>2, <1>3, <1>4 DEF SharedNext

\* The types hold at first.
LEMMA SharedTypesInit == SharedInit => SharedTypes
  <1> SUFFICES ASSUME SharedInit PROVE SharedTypes
    OBVIOUS
  <1>1. Base
    BY BaseInit DEF SharedInit
  <1>2. otherState = [t \in OtherTaskId |-> "ABSENT"] /\ abandonedQueued = 0
    BY DEF SharedInit, Other!Init
  <1> QED BY <1>1, <1>2 DEF SharedTypes, States

----------------------------------------------------------------------------
(* The queue counter *)

\* In every step of the other scheduler the counter follows its queue.
LEMMA OtherCounterFollows ==
    ASSUME SharedTypes, OtherChanges
    PROVE  Follows(OtherQueued, OtherQueued', queuedCount, queuedCount')
  <1> DEFINE Goal == Follows(OtherQueued, OtherQueued', queuedCount, queuedCount')
  <1>0. otherState \in [OtherTaskId -> States]
    BY DEF SharedTypes
  <1>1. ASSUME NEW t \in OtherTaskId, OtherInserts(t) PROVE Goal
    <2>1. OtherQueued' = OtherQueued \cup {t} /\ t \notin OtherQueued
      BY <1>0, <1>1 DEF OtherInserts, OtherQueued
    <2> QED BY <1>1, <2>1 DEF OtherInserts, Follows
  <1>2. ASSUME NEW t \in OtherTaskId, OtherQueued' = OtherQueued \ {t},
               queuedCount' = IF otherState[t] = "QUEUED" THEN Unqueued(queuedCount)
                                                          ELSE queuedCount
        PROVE  Goal
    <2>1. CASE otherState[t] = "QUEUED"
      <3>1. t \in OtherQueued
        BY <2>1 DEF OtherQueued
      <3> QED BY <1>2, <2>1, <3>1 DEF Follows
    <2>2. CASE otherState[t] # "QUEUED"
      <3>1. OtherQueued' = OtherQueued
        BY <1>2, <2>2 DEF OtherQueued
      <3> QED BY <1>2, <2>2, <3>1 DEF Follows
    <2> QED BY <2>1, <2>2
  <1>3. ASSUME NEW t \in OtherTaskId, OtherStarts(t) PROVE Goal
    <2>1. OtherQueued' = OtherQueued \ {t}
      BY <1>0, <1>3 DEF OtherStarts, OtherQueued
    <2> QED BY <1>2, <1>3, <2>1 DEF OtherStarts
  <1>4. ASSUME NEW t \in OtherTaskId, NEW s \in Terminal, OtherFinishes(t, s) PROVE Goal
    <2>0. "QUEUED" \notin Terminal
      BY DEF Terminal
    <2>1. OtherQueued' = OtherQueued \ {t}
      BY <1>0, <1>4, <2>0 DEF OtherFinishes, OtherQueued
    <2> QED BY <1>2, <1>4, <2>1 DEF OtherFinishes
  <1>5. CASE UNCHANGED <<otherState, queuedCount, runningTask>>
    BY <1>5 DEF OtherQueued, Follows
  <1> QED BY <1>1, <1>3, <1>4, <1>5 DEF OtherChanges

\* queued_count is the number of tasks queued in either scheduler and of those
\* that a destroyed one left behind, for any number of tasks and restarts: no
\* decrement of one scheduler takes the other's task out of the count
\* (qpu_runtime_task_queued, qpu_runtime_task_unqueued, qhw_sched_destroy).
THEOREM QueuedCountSharedHolds == SharedSpec => []QueuedCountShared
  <1>0. \* The sets of queued tasks are finite.
        /\ IsFiniteSet(Queued) /\ Cardinality(Queued) \in Nat
        /\ IsFiniteSet(OtherQueued) /\ Cardinality(OtherQueued) \in Nat
    <2>1. Queued \in SUBSET TaskId /\ OtherQueued \in SUBSET OtherTaskId
      BY DEF Queued, OtherQueued
    <2> QED BY <2>1, FiniteAssumption, SharedAssumption, FS_Subset, FS_CardinalityType
  <1>00. Other!Queued = OtherQueued
    BY DEF Other!Queued, OtherQueued
  <1>1. SharedInit => QueuedCountShared
    <2> SUFFICES ASSUME SharedInit PROVE QueuedCountShared
      OBVIOUS
    <2>1. Queued = {} /\ queuedCount = 0
      BY DEF SharedInit, Init, Queued
    <2>2. OtherQueued = {} /\ abandonedQueued = 0
      BY DEF SharedInit, Other!Init, OtherQueued
    <2> QED BY <1>00, <2>1, <2>2, FS_EmptySet DEF QueuedCountShared
  <1>2. SharedTypes /\ QueuedCountShared /\ [SharedNext]_sharedVars => QueuedCountShared'
    <2> SUFFICES ASSUME SharedTypes, QueuedCountShared, [SharedNext]_sharedVars
                 PROVE  QueuedCountShared'
      OBVIOUS
    <2>0. /\ queuedCount = Cardinality(Queued) + Cardinality(OtherQueued) + abandonedQueued
          /\ abandonedQueued \in Nat
      BY <1>00 DEF QueuedCountShared, SharedTypes
    <2>00. SUFFICES queuedCount' = Cardinality(Queued') + Cardinality(OtherQueued') + abandonedQueued'
      BY DEF QueuedCountShared, Other!Queued, OtherQueued
    <2>1. CASE [Next]_vars /\ UNCHANGED <<otherVars, historyVars>>
      <3>1. Follows(Queued, Queued', queuedCount, queuedCount')
        BY <2>1, CounterFollows DEF SharedTypes
      <3>2. /\ queuedCount = Cardinality(Queued) + (Cardinality(OtherQueued) + abandonedQueued)
            /\ Cardinality(OtherQueued) + abandonedQueued \in Nat
        BY <1>0, <2>0
      <3>3. queuedCount' = Cardinality(Queued') + (Cardinality(OtherQueued) + abandonedQueued)
        BY <1>0, <3>1, <3>2, FollowsKeeps
      <3>4. OtherQueued' = OtherQueued /\ abandonedQueued' = abandonedQueued
        BY <2>1 DEF otherVars, historyVars, OtherQueued
      <3>5. Cardinality(Queued') \in Nat
        BY FiniteAssumption, FS_Subset, FS_CardinalityType DEF Queued
      <3> QED BY <1>0, <2>0, <3>3, <3>4, <3>5
    <2>2. CASE Other!Next /\ UNCHANGED <<ownVars, historyVars>>
      <3>1. Follows(OtherQueued, OtherQueued', queuedCount, queuedCount')
        BY <2>2, OtherStepChanges, OtherCounterFollows
      <3>2. /\ queuedCount = Cardinality(OtherQueued) + (Cardinality(Queued) + abandonedQueued)
            /\ Cardinality(Queued) + abandonedQueued \in Nat
        BY <1>0, <2>0
      <3>3. queuedCount' = Cardinality(OtherQueued') + (Cardinality(Queued) + abandonedQueued)
        BY <1>0, <3>1, <3>2, FollowsKeeps
      <3>4. Queued' = Queued /\ abandonedQueued' = abandonedQueued
        BY <2>2 DEF ownVars, tableVars, historyVars, Queued
      <3>5. Cardinality(OtherQueued') \in Nat
        <4>1. OtherQueued' \in SUBSET OtherTaskId
          BY DEF OtherQueued
        <4> QED BY <4>1, SharedAssumption, FS_Subset, FS_CardinalityType
      <3> QED BY <1>0, <2>0, <3>3, <3>4, <3>5
    <2>3. CASE RestartOther
      <3>1. OtherQueued' = {} /\ Cardinality({}) = 0
        BY <2>3, FS_EmptySet DEF RestartOther, CreateOther, OtherQueued
      <3>2. abandonedQueued' = abandonedQueued + Cardinality(OtherQueued)
        BY <1>00, <2>3 DEF RestartOther
      <3>3. Queued' = Queued /\ queuedCount' = queuedCount
        BY <2>3 DEF RestartOther, DestroyQpu, qpuVars, ownVars, tableVars, Queued
      <3> QED BY <1>0, <2>0, <3>1, <3>2, <3>3
    <2>4. CASE UNCHANGED sharedVars
      <3>1. UNCHANGED <<vars, otherVars, historyVars>>
        BY <2>4 DEF sharedVars
      <3> QED BY <2>1, <3>1
    <2> QED BY <2>1, <2>2, <2>3, <2>4 DEF SharedNext
  <1> QED BY <1>1, <1>2, SharedTypesInit, SharedTypesStep, PTL DEF SharedSpec

----------------------------------------------------------------------------
(* The slot *)

\* A task that only one scheduler knows holds the slot exactly while it runs,
\* whatever the other scheduler starts, finishes, cancels or abandons
\* (qpu_runtime_task_started, qpu_runtime_task_finished).
THEOREM SlotFollowsOwnTasksHolds == SharedSpec => []SlotFollowsOwnTasks
  <1>0. NoTask \notin TaskId /\ NoTask \notin OtherTaskId
    BY NoTaskAssumption, SharedAssumption
  <1>1. SharedInit => SlotFollowsOwnTasks
    <2> SUFFICES ASSUME SharedInit PROVE SlotFollowsOwnTasks
      OBVIOUS
    <2>1. runningTask = NoTask /\ state = [t \in TaskId |-> "ABSENT"]
      BY DEF SharedInit, Init
    <2>2. otherState = [t \in OtherTaskId |-> "ABSENT"]
      BY DEF SharedInit, Other!Init
    <2> QED BY <1>0, <2>1, <2>2 DEF SlotFollowsOwnTasks
  <1>2. SharedTypes /\ SlotFollowsOwnTasks /\ [SharedNext]_sharedVars => SlotFollowsOwnTasks'
    <2> SUFFICES ASSUME SharedTypes, SlotFollowsOwnTasks, [SharedNext]_sharedVars
                 PROVE  SlotFollowsOwnTasks'
      OBVIOUS
    <2>0. state \in [TaskId -> States] /\ otherState \in [OtherTaskId -> States] /\ Base
      BY DEF SharedTypes, Base, OwnTypes
    <2>1. CASE [Next]_vars /\ UNCHANGED <<otherVars, historyVars>>
      <3>0. UNCHANGED <<otherState, abandonedRunning>>
        BY <2>1 DEF otherVars, historyVars
      <3>1. Changes
        BY <2>0, <2>1, StepChanges
      <3>2. ASSUME NEW t \in TaskId, Inserts(t) \/ Parks(t) \/ Unqueues(t)
            PROVE  SlotFollowsOwnTasks'
        BY <2>0, <3>0, <3>2 DEF Inserts, Parks, Unqueues, SlotFollowsOwnTasks
      <3>3. ASSUME NEW t \in TaskId, Starts(t) PROVE SlotFollowsOwnTasks'
        BY <1>0, <2>0, <3>0, <3>3 DEF Starts, SlotFollowsOwnTasks
      <3>4. ASSUME NEW t \in TaskId, NEW s \in Terminal, Finishes(t, s)
            PROVE  SlotFollowsOwnTasks'
        <4>1. "RUNNING" \notin Terminal
          BY DEF Terminal
        <4>2. runningTask' = IF runningTask = t THEN NoTask ELSE runningTask
          BY <3>4 DEF Finishes, SlotAfterFinish
        <4>3. \A u \in TaskId : state'[u] = "RUNNING" <=> state[u] = "RUNNING" /\ u # t
          <5>1. CASE state' = [state EXCEPT ![t] = s]
            BY <2>0, <4>1, <5>1
          <5>2. ASSUME NEW p \in TaskId \ {t}, NEW v \in Terminal, state[p] = "WAITING",
                       state' = [[state EXCEPT ![t] = s] EXCEPT ![p] = v]
                PROVE  \A u \in TaskId : state'[u] = "RUNNING" <=> state[u] = "RUNNING" /\ u # t
            BY <2>0, <4>1, <5>2
          <5> QED BY <3>4, <5>1, <5>2 DEF Finishes
        <4> QED BY <1>0, <3>0, <4>2, <4>3 DEF SlotFollowsOwnTasks
      <3>5. CASE Keeps
        BY <3>0, <3>5 DEF Keeps, SlotFollowsOwnTasks
      <3> QED BY <3>1, <3>2, <3>3, <3>4, <3>5 DEF Changes
    <2>2. CASE Other!Next /\ UNCHANGED <<ownVars, historyVars>>
      <3>0. UNCHANGED <<state, abandonedRunning>>
        BY <2>2 DEF ownVars, tableVars, historyVars
      <3>1. OtherChanges
        BY <2>2, OtherStepChanges
      <3>2. ASSUME NEW t \in OtherTaskId, OtherInserts(t) PROVE SlotFollowsOwnTasks'
        BY <2>0, <3>0, <3>2 DEF OtherInserts, SlotFollowsOwnTasks
      <3>3. ASSUME NEW t \in OtherTaskId, OtherStarts(t) PROVE SlotFollowsOwnTasks'
        BY <1>0, <2>0, <3>0, <3>3 DEF OtherStarts, SlotFollowsOwnTasks
      <3>4. ASSUME NEW t \in OtherTaskId, NEW s \in Terminal, OtherFinishes(t, s)
            PROVE  SlotFollowsOwnTasks'
        <4>1. "RUNNING" \notin Terminal
          BY DEF Terminal
        <4>2. runningTask' = IF runningTask = t THEN NoTask ELSE runningTask
          BY <3>4 DEF OtherFinishes, SlotAfterFinish
        <4>3. \A u \in OtherTaskId :
                 otherState'[u] = "RUNNING" <=> otherState[u] = "RUNNING" /\ u # t
          BY <2>0, <3>4, <4>1 DEF OtherFinishes
        <4> QED BY <1>0, <3>0, <4>2, <4>3 DEF SlotFollowsOwnTasks
      <3>5. CASE UNCHANGED <<otherState, queuedCount, runningTask>>
        BY <3>0, <3>5 DEF SlotFollowsOwnTasks
      <3> QED BY <3>1, <3>2, <3>3, <3>4, <3>5 DEF OtherChanges
    <2>3. CASE RestartOther
      <3>1. /\ UNCHANGED <<state, runningTask>>
            /\ otherState' = [t \in OtherTaskId |-> "ABSENT"]
            /\ abandonedRunning' =
                  abandonedRunning \cup {t \in OtherTaskId : otherState[t] = "RUNNING"}
        BY <2>3 DEF RestartOther, CreateOther, DestroyQpu, qpuVars, ownVars, tableVars
      <3> QED BY <3>1 DEF SlotFollowsOwnTasks
    <2>4. CASE UNCHANGED sharedVars
      <3>1. UNCHANGED <<vars, otherVars, historyVars>>
        BY <2>4 DEF sharedVars
      <3> QED BY <2>1, <3>1
    <2> QED BY <2>1, <2>2, <2>3, <2>4 DEF SharedNext
  <1> QED BY <1>1, <1>2, SharedTypesInit, SharedTypesStep, PTL DEF SharedSpec

----------------------------------------------------------------------------
(* The core with the fifo policy, for every number of tasks and threads,   *)
(* with splits, rollbacks and every replay at a change of policy.          *)

(* Lists in ascending order of a sequence number *)

\* The list q holds exactly the tasks of S, those with a lower number first.
Lists(q, S, number) ==
    /\ q \in Seq(TaskId)
    /\ {q[i] : i \in 1..Len(q)} = S
    /\ \A i, j \in 1..Len(q) : i < j => number[q[i]] < number[q[j]]

\* Numbers that change for tasks outside the list only do not matter to it.
LEMMA ListsRenumbered ==
    ASSUME NEW q, NEW S, NEW f, NEW g, Lists(q, S, f), \A t \in S : g[t] = f[t]
    PROVE  Lists(q, S, g)
  BY DEF Lists

\* A task with a higher number than all others goes to the end.
LEMMA ListsAppended ==
    ASSUME NEW S, NEW f, NEW q, Lists(q, S, f), NEW t \in TaskId, \A u \in S : f[u] < f[t]
    PROVE  Lists(PushBack(q, t), S \cup {t}, f)
  <1> DEFINE p == Append(q, t)
  <1>1. q \in Seq(TaskId) /\ Len(q) \in Nat
    BY LenProperties DEF Lists
  <1>2. /\ p \in Seq(TaskId) /\ Len(p) = Len(q) + 1
        /\ \A i \in 1..Len(q) : p[i] = q[i]
        /\ p[Len(q) + 1] = t
    BY <1>1, AppendProperties
  <1> HIDE DEF p
  <1>3. \A i \in 1..(Len(q) + 1) : i \in 1..Len(q) \/ i = Len(q) + 1
    BY <1>1
  <1>4. \A i \in 1..Len(q) : i \in 1..(Len(q) + 1) /\ i < Len(q) + 1
    BY <1>1
  <1>5. Len(q) + 1 \in 1..(Len(q) + 1)
    BY <1>1
  <1>6. {p[i] : i \in 1..Len(p)} = S \cup {t}
    BY <1>2, <1>3, <1>4, <1>5 DEF Lists
  <1>7. ASSUME NEW i \in 1..Len(p), NEW j \in 1..Len(p), i < j PROVE f[p[i]] < f[p[j]]
    <2>1. i \in 1..Len(q)
      BY <1>1, <1>2, <1>3, <1>7
    <2>2. p[i] = q[i] /\ q[i] \in S
      BY <1>2, <2>1 DEF Lists
    <2>3. CASE j \in 1..Len(q)
      BY <1>2, <1>7, <2>1, <2>3 DEF Lists
    <2>4. CASE j = Len(q) + 1
      BY <1>2, <2>2, <2>4
    <2> QED BY <1>2, <1>3, <2>3, <2>4
  <1> QED BY <1>2, <1>6, <1>7 DEF Lists, PushBack, p

\* The first task goes: it has the lowest number of all.
LEMMA ListsPopped ==
    ASSUME NEW S, NEW f, NEW q, Lists(q, S, f), q # <<>>, \A u \in S : f[u] \in Nat
    PROVE  /\ Head(q) \in S /\ \A u \in S : f[Head(q)] <= f[u]
           /\ Lists(Tail(q), S \ {Head(q)}, f)
  <1> DEFINE p == Tail(q)
  <1>1. q \in Seq(TaskId) /\ Len(q) \in Nat /\ Len(q) > 0 /\ Head(q) = q[1]
    BY LenProperties, EmptySeq DEF Lists
  <1>2. /\ p \in Seq(TaskId) /\ Len(p) = Len(q) - 1
        /\ \A i \in 1..Len(p) : p[i] = q[i + 1]
    BY <1>1, HeadTailProperties
  <1> HIDE DEF p
  <1>3. \A i \in 1..Len(q) : i = 1 \/ (1 < i /\ i - 1 \in 1..(Len(q) - 1) /\ (i - 1) + 1 = i)
    BY <1>1
  <1>4. \A i \in 1..(Len(q) - 1) : i + 1 \in 1..Len(q) /\ 1 < i + 1
    BY <1>1
  <1>5. 1 \in 1..Len(q)
    BY <1>1
  <1>6. q[1] \in S
    BY <1>5 DEF Lists
  <1>7. \A i \in 1..Len(q) : 1 < i => f[q[1]] < f[q[i]]
    BY <1>5 DEF Lists
  <1>8. ASSUME NEW u \in S PROVE f[q[1]] <= f[u]
    <2>1. PICK i \in 1..Len(q) : q[i] = u
      BY DEF Lists
    <2> QED BY <1>3, <1>6, <1>7, <2>1
  <1>9. \A i \in 1..Len(q) : 1 < i => q[i] # q[1]
    BY <1>6, <1>7
  <1>10. {p[i] : i \in 1..Len(p)} = S \ {q[1]}
    <2>1. ASSUME NEW i \in 1..Len(p) PROVE p[i] \in S \ {q[1]}
      <3>1. p[i] = q[i + 1] /\ i + 1 \in 1..Len(q) /\ 1 < i + 1
        BY <1>2, <1>4
      <3> QED BY <1>9, <3>1 DEF Lists
    <2>2. ASSUME NEW u \in S \ {q[1]} PROVE \E i \in 1..Len(p) : p[i] = u
      <3>1. PICK i \in 1..Len(q) : q[i] = u
        BY DEF Lists
      <3>2. i - 1 \in 1..Len(p) /\ (i - 1) + 1 = i
        BY <1>2, <1>3, <3>1
      <3> QED BY <1>2, <3>1, <3>2
    <2> QED BY <2>1, <2>2
  <1>11. ASSUME NEW i \in 1..Len(p), NEW j \in 1..Len(p), i < j PROVE f[p[i]] < f[p[j]]
    <2>1. i + 1 \in 1..Len(q) /\ j + 1 \in 1..Len(q) /\ i + 1 < j + 1
      BY <1>1, <1>2, <1>11
    <2> QED BY <1>2, <2>1 DEF Lists
  <1> QED BY <1>1, <1>2, <1>6, <1>8, <1>10, <1>11 DEF Lists, p

\* A task goes out of the middle: those behind it move up.
LEMMA ListsUnlinked ==
    ASSUME NEW S, NEW f, NEW q, Lists(q, S, f), NEW t \in S, \A u \in S : f[u] \in Nat
    PROVE  Lists(Unlink(q, t), S \ {t}, f)
  <1>0. q \in Seq(TaskId) /\ Len(q) \in Nat /\ DOMAIN q = 1..Len(q)
    BY LenProperties DEF Lists
  <1>1. PICK k \in 1..Len(q) : q[k] = t /\ Unlink(q, t) = RemoveAt(q, k)
    <2>1. \E k \in DOMAIN q : q[k] = t
      BY <1>0 DEF Lists
    <2> DEFINE k == CHOOSE k \in DOMAIN q : q[k] = t
    <2>2. k \in DOMAIN q /\ q[k] = t
      BY <2>1
    <2> QED BY <1>0, <2>2 DEF Unlink
  <1> DEFINE a == SubSeq(q, 1, k - 1)
             b == SubSeq(q, k + 1, Len(q))
             p == a \o b
  <1>2. Unlink(q, t) = p
    BY <1>1 DEF RemoveAt
  <1>3. a \in Seq(TaskId) /\ Len(a) = k - 1 /\ \A i \in 1..(k - 1) : a[i] = q[i]
    BY <1>0, SubSeqProperties
  <1>4. b \in Seq(TaskId) /\ Len(b) = Len(q) - k /\ \A i \in 1..(Len(q) - k) : b[i] = q[k + i]
    <2>1. \A i \in (k + 1)..Len(q) : q[i] \in TaskId
      BY <1>0, ElementOfSeq
    <2>2. /\ b \in Seq(TaskId)
          /\ Len(b) = IF k + 1 <= Len(q) THEN Len(q) - (k + 1) + 1 ELSE 0
          /\ \A i \in 1..(Len(q) - (k + 1) + 1) : b[i] = q[(k + 1) + i - 1]
      BY <1>0, <2>1, SubSeqProperties
    <2> HIDE DEF b
    <2>3. Len(b) = Len(q) - k
      <3>1. \A n, m \in Nat : m <= n /\ ~(m + 1 <= n) => m = n
        OBVIOUS
      <3>2. k \in Nat /\ k <= Len(q)
        BY <1>0
      <3>3. CASE k + 1 <= Len(q)
        BY <1>0, <2>2, <3>2, <3>3
      <3>4. CASE ~(k + 1 <= Len(q))
        <4>1. k = Len(q)
          BY <1>0, <3>1, <3>2, <3>4
        <4>2. Len(b) = 0
          BY <2>2, <3>4
        <4> QED BY <1>0, <4>1, <4>2
      <3> QED BY <3>3, <3>4
    <2>4. \A i \in 1..(Len(q) - k) : i \in 1..(Len(q) - (k + 1) + 1) /\ (k + 1) + i - 1 = k + i
      BY <1>0
    <2> QED BY <2>2, <2>3, <2>4
  <1> HIDE DEF a, b
  \* where the element at place i of the shorter list was
  <1> DEFINE was(i) == IF i < k THEN i ELSE i + 1
  <1>5. /\ p \in Seq(TaskId) /\ Len(p) = Len(q) - 1
        /\ \A i \in 1..(Len(q) - 1) : p[i] = q[was(i)]
    <2>1. /\ p \in Seq(TaskId) /\ Len(p) = Len(a) + Len(b)
          /\ \A i \in 1..(Len(a) + Len(b)) : p[i] = IF i <= Len(a) THEN a[i] ELSE b[i - Len(a)]
      BY <1>3, <1>4, ConcatProperties
    <2> HIDE DEF p
    <2>2. Len(a) + Len(b) = Len(q) - 1
      BY <1>0, <1>3, <1>4
    <2>3. ASSUME NEW i \in 1..(Len(q) - 1) PROVE p[i] = q[was(i)]
      <3>1. CASE i < k
        <4>1. i \in 1..(k - 1) /\ i <= k - 1 /\ was(i) = i
          BY <1>0, <3>1
        <4> HIDE DEF was
        <4> QED BY <1>3, <2>1, <2>2, <4>1
      <3>2. CASE ~(i < k)
        <4>1. i - (k - 1) \in 1..(Len(q) - k) /\ k + (i - (k - 1)) = i + 1 /\ ~(i <= k - 1)
          BY <1>0, <3>2
        <4>2. was(i) = i + 1
          BY <3>2
        <4> HIDE DEF was
        <4>3. i \in 1..(Len(a) + Len(b)) /\ Len(a) = k - 1
          BY <1>3, <2>2
        <4>4. p[i] = b[i - (k - 1)]
          BY <2>1, <4>1, <4>3
        <4>5. b[i - (k - 1)] = q[k + (i - (k - 1))]
          BY <1>4, <4>1
        <4> QED BY <4>1, <4>2, <4>4, <4>5
      <3> QED BY <3>1, <3>2
    <2> QED BY <2>1, <2>2, <2>3
  <1> HIDE DEF p
  <1>6. \A i \in 1..(Len(q) - 1) : was(i) \in 1..Len(q) /\ was(i) # k
    BY <1>0
  <1>7. \A i, j \in 1..(Len(q) - 1) : i < j => was(i) < was(j)
    BY <1>0
  <1>8. \A m \in 1..Len(q) : m # k => \E i \in 1..(Len(q) - 1) : was(i) = m
    <2> SUFFICES ASSUME NEW m \in 1..Len(q), m # k
                 PROVE  \E i \in 1..(Len(q) - 1) : was(i) = m
      OBVIOUS
    <2>1. CASE m < k
      BY <1>0, <2>1
    <2>2. CASE ~(m < k)
      <3>1. m - 1 \in 1..(Len(q) - 1) /\ ~(m - 1 < k) /\ (m - 1) + 1 = m
        BY <1>0, <2>2
      <3> QED BY <3>1
    <2> QED BY <2>1, <2>2
  <1> HIDE DEF was
  <1>9. \A m \in 1..Len(q) : m # k => q[m] # t
    <2>1. \A m \in 1..Len(q) : m # k => m < k \/ k < m
      BY <1>0
    <2>2. \A m \in 1..Len(q) : q[m] \in S
      BY DEF Lists
    <2>3. \A m \in 1..Len(q) : m # k => f[q[m]] < f[q[k]] \/ f[q[k]] < f[q[m]]
      BY <2>1 DEF Lists
    <2> QED BY <1>1, <2>2, <2>3
  <1>10. {p[i] : i \in 1..Len(p)} = S \ {t}
    <2>1. ASSUME NEW i \in 1..Len(p) PROVE p[i] \in S \ {t}
      BY <1>5, <1>6, <1>9 DEF Lists
    <2>2. ASSUME NEW u \in S \ {t} PROVE \E i \in 1..Len(p) : p[i] = u
      <3>1. PICK m \in 1..Len(q) : q[m] = u
        BY DEF Lists
      <3>2. m # k
        BY <1>1, <3>1
      <3> QED BY <1>5, <1>8, <3>1, <3>2
    <2> QED BY <2>1, <2>2
  <1>11. ASSUME NEW i \in 1..Len(p), NEW j \in 1..Len(p), i < j PROVE f[p[i]] < f[p[j]]
    BY <1>5, <1>6, <1>7, <1>11 DEF Lists
  <1> QED BY <1>2, <1>5, <1>10, <1>11 DEF Lists

\* qhw_sched_set_policy: the replayed list holds the queued tasks in order.
LEMMA ListsReplayed ==
    ASSUME OwnTypes, OrderInv
    PROVE  Lists(ReplayedList("builtin"), Queued, enqueueSeq)
  <1> DEFINE n == Cardinality(Queued)
             rank == [t \in Queued |-> ReplayRank(t)]
             q == ReplayedList("builtin")
  <1>1. IsFiniteSet(Queued) /\ n \in Nat
    BY QueuedFinite
  <1>2. rank \in [Queued -> 1..n]
    BY RankFollowsSeq
  <1>3. \A t, u \in Queued : (rank[t] < rank[u]) <=> (enqueueSeq[t] < enqueueSeq[u])
    BY RankFollowsSeq
  <1>4. \A t \in Queued : enqueueSeq[t] \in Nat
    BY DEF OwnTypes, Queued
  <1>5. ASSUME NEW t \in Queued, NEW u \in Queued, rank[t] = rank[u] PROVE t = u
    <2>1. ~(enqueueSeq[t] < enqueueSeq[u]) /\ ~(enqueueSeq[u] < enqueueSeq[t])
      <3> HIDE DEF rank
      <3>1. rank[t] \in Int /\ rank[u] \in Int
        BY <1>1, <1>2
      <3> QED BY <1>3, <1>5, <3>1
    <2>2. enqueueSeq[t] = enqueueSeq[u]
      BY <1>4, <2>1
    <2> QED BY <2>2 DEF OrderInv, SeqInv
  <1>6. q = [k \in 1..n |-> CHOOSE t \in Queued : ReplayRank(t) = k]
    BY DEF ReplayedList, ReplayedTasks
  <1>7. \A t \in Queued : rank[t] = ReplayRank(t)
    OBVIOUS
  <1> HIDE DEF rank, q
  <1>8. rank \in Injection(Queued, 1..n)
    BY <1>2, <1>5 DEF Injection, IsInjective
  <1>9. IsFiniteSet(1..n) /\ Cardinality(1..n) = n
    BY <1>1, FS_Interval
  <1>10. rank \in Surjection(Queued, 1..n)
    BY <1>8, <1>9, FS_Injection
  <1>11. \A k \in 1..n : q[k] \in Queued /\ rank[q[k]] = k
    <2> SUFFICES ASSUME NEW k \in 1..n PROVE q[k] \in Queued /\ rank[q[k]] = k
      OBVIOUS
    <2>1. \E t \in Queued : ReplayRank(t) = k
      BY <1>7, <1>10 DEF Surjection
    <2>2. q[k] = CHOOSE t \in Queued : ReplayRank(t) = k
      BY <1>6
    <2> QED BY <1>7, <2>1, <2>2
  <1>12. q \in [1..n -> TaskId]
    BY <1>6, <1>11 DEF Queued
  <1>13. q \in Seq(TaskId) /\ Len(q) = n
    <2>1. q \in Seq(TaskId)
      BY <1>1, <1>12, IsASeq
    <2> QED BY <1>1, <1>12, <2>1, LenProperties
  <1>14. {q[i] : i \in 1..Len(q)} = Queued
    <2>1. ASSUME NEW t \in Queued PROVE \E i \in 1..n : q[i] = t
      <3>1. rank[t] \in 1..n
        BY <1>2
      <3>2. q[rank[t]] = t
        BY <1>5, <1>11, <3>1
      <3> QED BY <3>1, <3>2
    <2> QED BY <1>11, <1>13, <2>1
  <1>15. \A i, j \in 1..Len(q) : i < j => enqueueSeq[q[i]] < enqueueSeq[q[j]]
    BY <1>3, <1>11, <1>13
  <1> QED BY <1>13, <1>14, <1>15 DEF Lists, q

----------------------------------------------------------------------------
(* The list of fifo follows the ready queue *)

ListInv == policy = "builtin" => Lists(fifo, ready, enqueueSeq)

\* A step of the core puts at most one task into the ready queue, which then is
\* the latest of all, or takes one out, and numbers no waiting task anew.
QueueMoves ==
    /\ UNCHANGED policy
    /\ \/ \E t \in TaskId \ ready :
             /\ ready' = ready \cup {t}
             /\ \A u \in ready : enqueueSeq'[u] < enqueueSeq'[t]
       \/ \E t \in ready : ready' = ready \ {t}
       \/ ready' = ready
    /\ \A u \in ready \cap ready' : enqueueSeq'[u] = enqueueSeq[u]

\* enqueue_task_locked under fifo.
LEMMA EnqueueMoves ==
    ASSUME OwnTypes, OrderInv, policy = "builtin", NEW t \in TaskId, NEW d, NEW prio,
           EnqueueOk(t, d, prio) \/ EnqueueFailed, UNCHANGED policy
    PROVE  QueueMoves
  <1>1. CASE EnqueueFailed
    BY <1>1 DEF EnqueueFailed, QueueMoves, tableVars, policyVars
  <1>2. CASE EnqueueOk(t, d, prio)
    <2>1. ready' = ready \cup {t} /\ t \notin ready
      <3>1. PolicyActive
        BY DEF PolicyActive
      <3> QED BY <1>2, <3>1, Zenon DEF EnqueueOk, PolicyInsert
    <2>2. enqueueSeq' = [enqueueSeq EXCEPT ![t] = enqueueSeqNext]
      BY <1>2 DEF EnqueueOk, TableInsert
    <2>3. /\ enqueueSeq'[t] = enqueueSeqNext
          /\ \A u \in ready : enqueueSeq'[u] = enqueueSeq[u]
      BY <2>1, <2>2 DEF OwnTypes
    <2>4. \A u \in ready : enqueueSeq'[u] < enqueueSeq'[t]
      BY <2>3 DEF OrderInv, SeqInv, OwnTypes
    <2> QED BY <2>1, <2>3, <2>4 DEF QueueMoves
  <1> QED BY <1>1, <1>2

\* A rollback or the end of a task, under fifo.
LEMMA ForgetMoves ==
    ASSUME OwnTypes, policy = "builtin", NEW t \in TaskId, PolicyForget(t), UNCHANGED policy,
           \A u \in TaskId \ {t} : enqueueSeq'[u] = enqueueSeq[u]
    PROVE  QueueMoves
  <1>1. ready' = ready \ {t}
    BY DEF PolicyForget, PolicyDrop
  <1>2. \A u \in ready \cap ready' : enqueueSeq'[u] = enqueueSeq[u]
    BY <1>1 DEF OwnTypes
  <1> QED BY <1>1, <1>2 DEF QueueMoves

\* Every step of a submission moves at most one task, under fifo.
LEMMA SubmitMoves ==
    ASSUME Base, ReadyInv, OrderInv, policy = "builtin",
           Submit \/ \E th \in Threads : SubmitStep(th)
    PROVE  QueueMoves
  <1> USE DEF Base
  <1>0. ASSUME UNCHANGED <<policy, ready>>, \A u \in ready : enqueueSeq'[u] = enqueueSeq[u]
        PROVE  QueueMoves
    BY <1>0 DEF QueueMoves
  <1>1. ASSUME NEW t \in TaskId, NEW parent \in CallerParents, NEW shots \in Shots,
               NEW prio \in Priorities, SubmitWhole(t, parent, shots, prio)
        PROVE  QueueMoves
    BY <1>1, EnqueueMoves DEF SubmitWhole, Enqueue, setupVars
  <1>2. ASSUME NEW t \in TaskId, NEW parent \in CallerParents, NEW shots \in Shots,
               NEW prio \in Priorities, NEW th \in Threads,
               SubmitWithCallback(th, t, parent, shots, prio)
        PROVE  QueueMoves
    BY <1>0, <1>2 DEF SubmitWithCallback, tableVars, policyVars, setupVars
  <1>3. ASSUME NEW th \in Threads, EstimateReturns(th) PROVE QueueMoves
    <2>1. CASE Enqueue(call[th].task, call[th].desc, call[th].priority)
      <3>1. call[th].task \in TaskId
        BY <1>3 DEF EstimateReturns, AdmissionProtocol
      <3> QED BY <1>3, <2>1, <3>1, EnqueueMoves DEF EstimateReturns, Enqueue, setupVars
    <2>2. CASE UNCHANGED <<tableVars, enqueueSeqNext, queuedCount, policyVars>>
      BY <1>0, <1>3, <2>2 DEF EstimateReturns, tableVars, policyVars, setupVars
    <2> QED BY <1>3, <2>1, <2>2 DEF EstimateReturns
  <1>4. ASSUME NEW th \in Threads, NEW answer \in SplitAnswers, SplitReturns(th, answer)
        PROVE  QueueMoves
    <2>1. UNCHANGED <<policy, ready>>
      BY <1>4 DEF SplitReturns, policyVars, setupVars
    <2>2. CASE TableInsert(call[th].task, call[th].desc, call[th].priority, "WAITING")
      <3>1. call[th].task \in TaskId /\ call[th].task \notin ready
        BY <1>4 DEF SplitReturns, MaySplit, AdmissionProtocol, ReadyInv, BuiltinReadyExact, Queued
      <3>2. \A u \in ready : enqueueSeq'[u] = enqueueSeq[u]
        BY <2>2, <3>1 DEF TableInsert, OwnTypes
      <3> QED BY <1>0, <2>1, <3>2
    <2>3. CASE UNCHANGED tableVars
      BY <1>0, <2>1, <2>3 DEF tableVars
    <2> QED BY <1>4, <2>2, <2>3 DEF SplitReturns
  <1>5. ASSUME NEW th \in Threads, SplitFails(th) PROVE QueueMoves
    BY <1>0, <1>5 DEF SplitFails, tableVars, policyVars, setupVars
  <1>6. ASSUME NEW th \in Threads, EnqueueChild(th) PROVE QueueMoves
    <2> DEFINE t == call[th].children[call[th].next].id
    <2>1. lock = th /\ UNCHANGED policy
      BY <1>6 DEF EnqueueChild, setupVars
    <2>2. t \in TaskId
      BY <2>1, ChildAt
    <2>3. \E d, prio : EnqueueOk(t, d, prio) \/ EnqueueFailed
      BY <1>6 DEF EnqueueChild
    <2> HIDE DEF t
    <2> QED BY <2>1, <2>2, <2>3, EnqueueMoves
  <1>7. ASSUME NEW th \in Threads, RollbackChild(th) PROVE QueueMoves
    <2> DEFINE t == call[th].children[call[th].next - 1].id
    <2>1. /\ lock = th /\ call[th].next # 1
          /\ PolicyForget(t) /\ TableRemove(t) /\ UNCHANGED policy
      BY <1>7 DEF RollbackChild, RollbackDone, setupVars
    <2>2. t \in TaskId
      <3>1. call[th].next \in 1..Len(call[th].children) /\ Len(call[th].children) \in Nat
        BY <2>1, ChildAt
      <3>2. call[th].next - 1 \in 1..Len(call[th].children)
        BY <2>1, <3>1
      <3> QED BY <2>1, <3>2, ChildAt
    <2> HIDE DEF t
    <2>3. \A u \in TaskId \ {t} : enqueueSeq'[u] = enqueueSeq[u]
      BY <2>1 DEF TableRemove, OwnTypes
    <2> QED BY <2>1, <2>2, <2>3, ForgetMoves
  <1>8. ASSUME NEW th \in Threads, RollbackParent(th) PROVE QueueMoves
    <2>1. call[th].task \in TaskId /\ call[th].task \notin ready
      BY <1>8, ChildAt, ThreadAssumption DEF RollbackParent, AdmissionProtocol, PartlyAdmitted,
                                             ReadyInv, BuiltinReadyExact, Queued
    <2>2. \A u \in ready : enqueueSeq'[u] = enqueueSeq[u]
      BY <1>8, <2>1 DEF RollbackParent, TableRemove, OwnTypes
    <2> QED BY <1>0, <1>8, <2>2 DEF RollbackParent, policyVars, setupVars
  <1> QED BY <1>1, <1>2, <1>3, <1>4, <1>5, <1>6, <1>7, <1>8 DEF Submit, SubmitStep

\* The list does what the ready queue does.
LEMMA CallbackKeepsList ==
    ASSUME OwnTypes, OwnTypes', ListInv, policy = "builtin", QueueMoves, FifoCallback
    PROVE  ListInv'
  <1>0. Lists(fifo, ready, enqueueSeq)
    BY DEF ListInv
  <1>1. ready \subseteq TaskId /\ \A u \in ready : enqueueSeq[u] \in Nat
    BY DEF OwnTypes
  <1>2. CASE \E t \in TaskId \ ready : /\ ready' = ready \cup {t}
                                       /\ \A u \in ready : enqueueSeq'[u] < enqueueSeq'[t]
    <2>1. PICK t \in TaskId \ ready : /\ ready' = ready \cup {t}
                                      /\ \A u \in ready : enqueueSeq'[u] < enqueueSeq'[t]
      BY <1>2
    <2>2. fifo' = PushBack(fifo, t)
      BY <2>1 DEF FifoCallback
    <2>3. Lists(fifo, ready, enqueueSeq')
      BY <1>0, <2>1, ListsRenumbered DEF QueueMoves
    <2>4. Lists(PushBack(fifo, t), ready \cup {t}, enqueueSeq')
      BY <2>1, <2>3, ListsAppended
    <2> QED BY <2>1, <2>2, <2>4 DEF ListInv
  <1>3. CASE \E t \in ready : ready' = ready \ {t}
    <2>1. PICK t \in ready : ready' = ready \ {t}
      BY <1>3
    <2>2. fifo' = Unlink(fifo, t)
      BY <2>1 DEF FifoCallback
    <2>3. Lists(Unlink(fifo, t), ready \ {t}, enqueueSeq)
      BY <1>0, <1>1, ListsUnlinked
    <2>4. \A u \in ready \ {t} : enqueueSeq'[u] = enqueueSeq[u]
      BY <2>1 DEF QueueMoves
    <2>5. Lists(Unlink(fifo, t), ready \ {t}, enqueueSeq')
      BY <2>3, <2>4, ListsRenumbered
    <2> QED BY <2>1, <2>2, <2>5 DEF ListInv
  <1>4. CASE ready' = ready
    <2>1. fifo' = fifo
      BY <1>4 DEF FifoCallback
    <2>2. Lists(fifo, ready, enqueueSeq')
      BY <1>0, <1>4, ListsRenumbered DEF QueueMoves
    <2> QED BY <1>4, <2>1, <2>2 DEF ListInv
  <1> QED BY <1>2, <1>3, <1>4 DEF QueueMoves

\* Every step of the composition is a step of the core.
LEMMA FifoStepIsCoreStep == Base /\ [FifoNext]_fifoVars => [Next]_vars
  <1>1. FifoSubmit => Next
    BY Zenon DEF FifoSubmit, Next
  <1>2. Base /\ FifoSelectNext => Next
    <2>1. ASSUME NEW t, SelectNext(t), Base PROVE t \in TaskId
      BY <2>1 DEF SelectNext, Base, OwnTypes
    <2> QED BY <2>1 DEF FifoSelectNext, Next
  <1>3. FifoFinishTask => Next
    BY Zenon DEF FifoFinishTask, Next
  <1>4. FifoSetPolicy => Next
    BY Zenon DEF FifoSetPolicy, Next
  <1>5. FifoKeeps => Next
    BY Zenon DEF FifoKeeps, Next
  <1>6. UNCHANGED fifoVars => UNCHANGED vars
    BY Zenon DEF fifoVars
  <1> QED BY <1>1, <1>2, <1>3, <1>4, <1>5, <1>6 DEF FifoNext

\* The list is kept by every step.
LEMMA ListStep ==
    Base /\ ReadyInv /\ OrderInv /\ ListInv /\ [FifoNext]_fifoVars => ListInv'
  <1> SUFFICES ASSUME Base, ReadyInv, OrderInv, ListInv, [FifoNext]_fifoVars PROVE ListInv'
    OBVIOUS
  <1>0. Base'
    BY FifoStepIsCoreStep, BaseStep
  <1>1. CASE FifoSetPolicy
    <2>1. PICK kind \in PolicyKinds, config \in SplitConfigs :
             SetPolicy(kind, config) /\ fifo' = ReplayedList(kind)
      BY <1>1 DEF FifoSetPolicy
    <2>2. CASE kind = "builtin"
      <3>1. Lists(ReplayedList("builtin"), Queued, enqueueSeq)
        BY ListsReplayed DEF Base
      <3>2. ready' = Queued /\ enqueueSeq' = enqueueSeq
        BY <2>1 DEF SetPolicy, ReplayedTasks, tableVars
      <3> QED BY <2>1, <2>2, <3>1, <3>2 DEF ListInv
    <2>3. CASE kind # "builtin"
      BY <2>1, <2>3 DEF SetPolicy, ListInv
    <2> QED BY <2>2, <2>3
  <1>2. CASE ~FifoSetPolicy /\ policy # "builtin"
    <2>1. UNCHANGED policy
      BY <1>2 DEF FifoNext, FifoSubmit, FifoSelectNext, FifoFinishTask, FifoKeeps, fifoVars,
                  Submit, SubmitStep, SubmitWhole, SubmitWithCallback, EstimateReturns, SplitReturns,
                  SplitFails, EnqueueChild, RollbackChild, RollbackParent, SelectNext, FinishTask,
                  TaskStarted, UpdatePriority, SetCallbacks, vars, setupVars
    <2> QED BY <1>2, <2>1 DEF ListInv
  <1>3. CASE FifoSubmit /\ policy = "builtin"
    BY <1>0, <1>3, SubmitMoves, CallbackKeepsList DEF FifoSubmit, Base
  <1>4. CASE FifoFinishTask /\ policy = "builtin"
    <2>1. PICK t \in TaskId, s \in Terminal : FinishTask(t, s)
      BY <1>4 DEF FifoFinishTask
    <2>2. PolicyForget(t) /\ UNCHANGED <<policy, enqueueSeq>>
      BY <2>1 DEF FinishTask, setupVars
    <2>3. QueueMoves
      BY <1>4, <2>2, ForgetMoves DEF Base
    <2> QED BY <1>0, <1>4, <2>3, CallbackKeepsList DEF FifoFinishTask, Base
  <1>5. CASE FifoSelectNext /\ policy = "builtin"
    <2>1. fifo # <<>> /\ SelectNext(Head(fifo)) /\ fifo' = Tail(fifo)
      BY <1>5 DEF FifoSelectNext
    <2>2. ready' = ready \ {Head(fifo)} /\ UNCHANGED <<policy, enqueueSeq>>
      BY <2>1 DEF SelectNext, PolicyDrop, setupVars
    <2>3. \A u \in ready : enqueueSeq[u] \in Nat
      BY DEF Base, OwnTypes
    <2>4. Lists(Tail(fifo), ready \ {Head(fifo)}, enqueueSeq)
      BY <1>5, <2>1, <2>3, ListsPopped DEF ListInv
    <2> QED BY <2>1, <2>2, <2>4 DEF ListInv
  <1>6. CASE FifoKeeps
    <2>1. UNCHANGED <<fifo, policy, ready, enqueueSeq>>
      BY <1>6 DEF FifoKeeps, TaskStarted, UpdatePriority, SetCallbacks, tableVars, policyVars, setupVars
    <2> QED BY <2>1 DEF ListInv
  <1>7. CASE UNCHANGED fifoVars
    BY <1>7 DEF fifoVars, vars, tableVars, policyVars, setupVars, ListInv
  <1> QED BY <1>1, <1>2, <1>3, <1>4, <1>5, <1>6, <1>7 DEF FifoNext

\* Only qhw_sched_select_next assigns a task.
LEMMA OnlySelectNextAssigns ==
    ASSUME Base, [FifoNext]_fifoVars, NEW t \in TaskId,
           state[t] = "QUEUED", state'[t] = "ASSIGNED"
    PROVE  FifoSelectNext
  <1>1. state' # state
    OBVIOUS
  <1>2. CASE FifoSubmit
    <2>1. ASSUME NEW u, NEW d, NEW prio, NEW s, TableInsert(u, d, prio, s), s \in {"QUEUED", "WAITING"}
          PROVE  FALSE
      BY <2>1 DEF TableInsert, Base, OwnTypes
    <2>2. ASSUME NEW u, TableRemove(u) PROVE FALSE
      BY <2>2 DEF TableRemove, Base, OwnTypes
    <2>3. ASSUME NEW u, NEW d, NEW prio, EnqueueOk(u, d, prio) \/ EnqueueFailed PROVE FALSE
      BY <1>1, <2>1, <2>3 DEF EnqueueOk, EnqueueFailed, tableVars
    <2>4. ASSUME Submit PROVE FALSE
      BY <1>1, <2>3, <2>4 DEF Submit, SubmitWhole, SubmitWithCallback, Enqueue, tableVars
    <2>5. ASSUME NEW th \in Threads, SubmitStep(th) PROVE FALSE
      <3>1. CASE EstimateReturns(th)
        BY <1>1, <2>3, <3>1 DEF EstimateReturns, Enqueue, tableVars
      <3>2. CASE \E answer \in SplitAnswers : SplitReturns(th, answer)
        BY <1>1, <2>1, <3>2 DEF SplitReturns, tableVars
      <3>3. CASE SplitFails(th)
        BY <1>1, <3>3 DEF SplitFails, tableVars
      <3>4. CASE EnqueueChild(th)
        BY <2>3, <3>4 DEF EnqueueChild
      <3>5. CASE RollbackChild(th)
        BY <2>2, <3>5 DEF RollbackChild
      <3>6. CASE RollbackParent(th)
        BY <2>2, <3>6 DEF RollbackParent
      <3> QED BY <2>5, <3>1, <3>2, <3>3, <3>4, <3>5, <3>6 DEF SubmitStep
    <2> QED BY <1>2, <2>4, <2>5 DEF FifoSubmit
  <1>3. CASE FifoFinishTask
    <2>1. PICK u \in TaskId, s \in Terminal : FinishTask(u, s)
      BY <1>3 DEF FifoFinishTask
    <2>2. state'[t] \in Terminal
      BY <2>1, FinishTable DEF Base
    <2> QED BY <2>2 DEF Terminal
  <1>4. CASE FifoSetPolicy
    BY <1>1, <1>4 DEF FifoSetPolicy, SetPolicy, tableVars
  <1>5. CASE FifoKeeps
    <2>1. ASSUME NEW u \in TaskId, TaskStarted(u) PROVE FALSE
      BY <1>1, <2>1 DEF TaskStarted, StartRefused, Base, OwnTypes
    <2> QED BY <1>1, <1>5, <2>1 DEF FifoKeeps, UpdatePriority, SetCallbacks, tableVars
  <1>6. CASE UNCHANGED fifoVars
    BY <1>1, <1>6 DEF fifoVars, vars, tableVars
  <1> QED BY <1>2, <1>3, <1>4, <1>5, <1>6 DEF FifoNext

\* Under fifo the task that has waited longest is handed out, for any number of
\* tasks and threads: the list holds exactly the queued tasks, in the order of
\* their sequence numbers, through failed and rolled back submissions,
\* cancellations and every replay.
THEOREM FirstComeFirstServedHolds == FifoSpec => FirstComeFirstServed
  <1>1. Init /\ fifo = <<>> => ListInv
    BY DEF Init, ListInv
  <1>2. Base /\ ReadyInv /\ OrderInv /\ ListInv /\ [FifoNext]_fifoVars =>
           [policy = "builtin" =>
               \A t \in TaskId : state[t] = "QUEUED" /\ state'[t] = "ASSIGNED" =>
                   \A u \in Queued : enqueueSeq[t] <= enqueueSeq[u]]_fifoVars
    <2> SUFFICES ASSUME Base, ReadyInv, OrderInv, ListInv, [FifoNext]_fifoVars, policy = "builtin",
                        NEW t \in TaskId, state[t] = "QUEUED", state'[t] = "ASSIGNED",
                        NEW u \in Queued
                 PROVE  enqueueSeq[t] <= enqueueSeq[u]
      OBVIOUS
    <2>1. fifo # <<>> /\ SelectNext(Head(fifo))
      BY OnlySelectNextAssigns DEF FifoSelectNext
    <2>2. t = Head(fifo)
      BY <2>1 DEF SelectNext, Base, OwnTypes
    <2>3. Lists(fifo, ready, enqueueSeq) /\ u \in ready
      BY DEF ListInv, ReadyInv, BuiltinReadyExact
    <2>4. \A v \in ready : enqueueSeq[v] \in Nat
      BY DEF Base, OwnTypes
    <2> QED BY <2>1, <2>2, <2>3, <2>4, ListsPopped
  <1> QED BY <1>1, <1>2, ListStep, FifoStepIsCoreStep, BaseInit, BaseStep, ReadyInit, ReadyStep,
             OrderInit, OrderStep, PTL DEF FifoSpec, FirstComeFirstServed
=============================================================================

-------------------------- MODULE SchedulerProofs --------------------------
(***************************************************************************)
(* Theorems about Scheduler, for every number of tasks, threads, policies, *)
(* options, callback answers and priorities.  Four parts: the types and    *)
(* the admission protocol (Base), on which everything rests, with the      *)
(* theorems about single tasks; the slices of split requests and the shots *)
(* they carry (CarryInv); the parent's verdict (SplitInv); and the         *)
(* refinement of TaskLifecycle.                                            *)
(***************************************************************************)
EXTENDS Scheduler, FiniteSetTheorems, SequenceTheorems, TLAPS

(* Facts about the operators *)

\* The quotient rounded up is a natural number, and positive for a positive
\* dividend: a request that is split has at least one slice.
LEMMA CeilDivNat ==
    ASSUME NEW a \in Nat, NEW b \in Nat, b > 0
    PROVE  CeilDiv(a, b) \in Nat /\ (a > 0 => CeilDiv(a, b) >= 1)
  <1>1. a \div b \in Nat
    OBVIOUS
  <1>2. a % b = 0 /\ a > 0 => a \div b >= 1
    OBVIOUS
  <1> QED BY <1>1, <1>2 DEF CeilDiv

\* The smaller of two limits that are set (min_nonzero) is a limit.
LEMMA MinNonzeroNat ==
    ASSUME NEW a \in Nat, NEW b \in Nat
    PROVE  MinNonzero(a, b) \in Nat
  BY DEF MinNonzero

\* compute_split_config yields a plan, and one that splits has a slice.
LEMMA PlanType1 ==
    ASSUME NEW config \in SplitConfigType, NEW qpuMax \in Nat, NEW requested \in Nat,
           NEW canSplit \in BOOLEAN
    PROVE  LET plan == ComputeSplitConfig(config, qpuMax, requested, canSplit)
           IN  plan \in PlanType /\ (plan.kind = "split" => plan.slice_count >= 1)
  <1> DEFINE slice == MinNonzero(config.max_shots, qpuMax)
             threshold == IF config.shot_threshold \in 1..slice
                          THEN config.shot_threshold ELSE slice
             count == CeilDiv(requested, slice)
  <1>1. slice \in Nat /\ threshold \in Nat /\ config.max_children \in Nat
    BY MinNonzeroNat DEF SplitConfigType
  <1>2. CASE slice = 0 \/ requested <= threshold
    BY <1>2 DEF ComputeSplitConfig, Whole, PlanType
  <1>3. CASE ~(slice = 0 \/ requested <= threshold)
    <2>1. slice > 0 /\ requested > 0
      BY <1>1, <1>3
    <2>2. count \in Nat /\ count >= 1
      BY <1>1, <2>1, CeilDivNat
    <2> HIDE DEF count, slice, threshold
    <2>3. ComputeSplitConfig(config, qpuMax, requested, canSplit) \in
            {Unsupported, [kind |-> "split", slice_shots |-> slice, slice_count |-> count]}
      BY <1>3, Zenon DEF ComputeSplitConfig, count, slice, threshold
    <2> QED BY <1>1, <2>2, <2>3 DEF Unsupported, PlanType
  <1> QED BY <1>2, <1>3

\* The priority of a record that is not in use is a priority.
LEMMA AnyPriorityType == AnyPriority \in Priorities
  BY PriorityAssumption DEF AnyPriority

\* The values of records and calls that are not in use have their types.
LEMMA NoCallType == NoCall \in CallType /\ NoDesc \in DescType /\ NoTally \in [Terminal -> Nat]
  BY AnyPriorityType DEF NoCall, CallType, NoDesc, DescType, NoTally, Whole, PlanType

\* The set of queued tasks, and each of its subsets, has a cardinality.
LEMMA QueuedFinite ==
    ASSUME NEW S, S \subseteq Queued
    PROVE  IsFiniteSet(S) /\ Cardinality(S) \in Nat
  BY FiniteAssumption, FS_Subset, FS_CardinalityType DEF Queued

\* The plan made under the active policy is a plan.
LEMMA PlanForType ==
    ASSUME OwnTypes, NEW shots \in Nat
    PROVE  PlanFor(shots) \in PlanType /\ (PlanFor(shots).kind = "split" => PlanFor(shots).slice_count >= 1)
  BY PlanType1, ConfigAssumption DEF OwnTypes, PlanFor

\* The children prepared from an answer are well formed, whatever the answer.
LEMMA ChildrenType ==
    ASSUME OwnTypes, NEW th \in Threads, NEW answer \in SplitAnswers
    PROVE  /\ ChildrenOf(th, answer) \in Seq(ChildType)
           /\ Len(ChildrenOf(th, answer)) = Len(answer)
           /\ Len(answer) \in Nat
           /\ \A k \in 1..Len(answer) : ChildrenOf(th, answer)[k].parent = call[th].task
  <1> DEFINE Answer == [id : TaskId \cup {NoTask}, slice_index : Nat, shots : Nat]
             Child(k) == [id |-> answer[k].id, parent |-> call[th].task,
                          slice_index |-> answer[k].slice_index,
                          slice_count |-> Len(answer), shots |-> answer[k].shots]
  <1>1. answer \in Seq(Answer)
    BY ConfigAssumption
  <1>2. Len(answer) \in Nat /\ DOMAIN answer = 1..Len(answer)
    BY <1>1
  <1>3. call[th].task \in TaskId \cup {NoTask}
    BY DEF OwnTypes, CallType
  <1>4. ASSUME NEW k \in 1..Len(answer) PROVE Child(k) \in ChildType
    <2>1. answer[k] \in Answer
      <3> HIDE DEF Answer
      <3> QED BY <1>1, <1>2, ElementOfSeq
    <2> QED BY <1>2, <1>3, <2>1 DEF ChildType
  <1>5. ChildrenOf(th, answer) = [k \in 1..Len(answer) |-> Child(k)]
    BY <1>2 DEF ChildrenOf
  <1> HIDE DEF Child
  <1>6. ChildrenOf(th, answer) \in Seq(ChildType) /\ Len(ChildrenOf(th, answer)) = Len(answer)
    BY <1>2, <1>4, <1>5
  <1> QED BY <1>2, <1>5, <1>6 DEF Child

----------------------------------------------------------------------------
(* Type correctness, together with the mutex protocol it depends on: the   *)
(* admission loop reads children[next], so next has to stay in range.      *)

\* The types of the variables that an enqueue, successful or not, changes.
EnqueueTypes ==
    /\ state \in [TaskId -> States]
    /\ desc \in [TaskId -> DescType]
    /\ priority \in [TaskId -> Priorities]
    /\ enqueueSeq \in [TaskId -> Nat]
    /\ childCount \in [TaskId -> Nat]
    /\ tally \in [TaskId -> [Terminal -> Nat]]
    /\ enqueueSeqNext \in Nat
    /\ queuedCount \in Nat
    /\ ready \subseteq TaskId
    /\ entrySeq \in [TaskId -> Nat]
    /\ entryPriority \in [TaskId -> Priorities]
    /\ entrySeqNext \in Nat

\* An enqueue that succeeds keeps the types of the table and of the policy.
LEMMA EnqueueOkType ==
    ASSUME OwnTypes, NEW t \in TaskId, NEW d \in DescType, NEW prio \in Priorities,
           EnqueueOk(t, d, prio)
    PROVE  EnqueueTypes'
  <1>1. "QUEUED" \in States
    BY DEF States, Live
  <1>2. state' \in [TaskId -> States] /\ desc' \in [TaskId -> DescType]
    BY <1>1 DEF OwnTypes, EnqueueOk, TableInsert
  <1>3. priority' \in [TaskId -> Priorities] /\ enqueueSeq' \in [TaskId -> Nat]
    BY DEF OwnTypes, EnqueueOk, TableInsert
  <1>4. childCount' \in [TaskId -> Nat] /\ tally' \in [TaskId -> [Terminal -> Nat]]
        /\ enqueueSeqNext' \in Nat /\ queuedCount' \in Nat
    BY DEF OwnTypes, EnqueueOk
  <1>5. ready' \subseteq TaskId /\ entrySeq' \in [TaskId -> Nat]
        /\ entryPriority' \in [TaskId -> Priorities] /\ entrySeqNext' \in Nat
    <2>1. CASE PolicyActive
      <3>1. /\ ready' = ready \cup {t}
            /\ entrySeq' = [entrySeq EXCEPT ![t] = entrySeqNext]
            /\ entryPriority' = [entryPriority EXCEPT ![t] = prio]
            /\ entrySeqNext' = entrySeqNext + 1
        BY <2>1, Zenon DEF EnqueueOk, PolicyInsert
      <3> QED BY <3>1 DEF OwnTypes
    <2>2. CASE ~PolicyActive
      BY <2>2 DEF OwnTypes, EnqueueOk, PolicyInsert, policyVars
    <2> QED BY <2>1, <2>2
  <1> QED BY <1>2, <1>3, <1>4, <1>5 DEF EnqueueTypes

\* An enqueue that fails (enqueue_task_locked) keeps them too.
LEMMA EnqueueFailedType ==
    ASSUME OwnTypes, EnqueueFailed
    PROVE  EnqueueTypes'
  BY DEF OwnTypes, EnqueueFailed, EnqueueTypes, Unqueued, tableVars, policyVars

\* What a call leaves alone keeps its type.
LEMMA EnqueueTypesSuffice ==
    ASSUME OwnTypes, EnqueueTypes', UNCHANGED <<runningTask, finishedCount, setupVars>>,
           lock' \in Threads \cup {NoThread}, pc' \in [Threads -> Phases],
           call' \in [Threads -> CallType]
    PROVE  OwnTypes'
  BY DEF OwnTypes, EnqueueTypes, setupVars

\* A call that returns keeps the types of the threads.
LEMMA ReturnType ==
    ASSUME OwnTypes, NEW th \in Threads, Return(th)
    PROVE  pc' \in [Threads -> Phases] /\ call' \in [Threads -> CallType]
  BY NoCallType DEF OwnTypes, Return, Phases

\* on_task_finished keeps the types of the policy, if it fails too.
LEMMA PolicyForgetType ==
    ASSUME OwnTypes, NEW t \in TaskId \cup {NoTask}, PolicyDrop(t) \/ PolicyForget(t)
    PROVE  /\ ready' \subseteq TaskId /\ entrySeq' \in [TaskId -> Nat]
           /\ entryPriority' \in [TaskId -> Priorities] /\ entrySeqNext' \in Nat
  <1>1. CASE PolicyDrop(t)
    BY <1>1, AnyPriorityType DEF OwnTypes, PolicyDrop
  <1>2. CASE UNCHANGED policyVars
    BY <1>2 DEF OwnTypes, policyVars
  <1> QED BY <1>1, <1>2 DEF PolicyForget

\* Removing a record keeps the types of the table.
LEMMA TableRemoveType ==
    ASSUME OwnTypes, NEW t \in TaskId, TableRemove(t)
    PROVE  /\ state' \in [TaskId -> States] /\ desc' \in [TaskId -> DescType]
           /\ priority' \in [TaskId -> Priorities] /\ enqueueSeq' \in [TaskId -> Nat]
           /\ childCount' \in [TaskId -> Nat] /\ tally' \in [TaskId -> [Terminal -> Nat]]
  <1>1. "ABSENT" \in States
    BY DEF States
  <1>2. state' \in [TaskId -> States] /\ desc' \in [TaskId -> DescType]
    BY <1>1, NoCallType DEF OwnTypes, TableRemove
  <1>3. priority' \in [TaskId -> Priorities] /\ enqueueSeq' \in [TaskId -> Nat]
    BY AnyPriorityType DEF OwnTypes, TableRemove
  <1>4. childCount' \in [TaskId -> Nat] /\ tally' \in [TaskId -> [Terminal -> Nat]]
    BY NoCallType DEF OwnTypes, TableRemove
  <1> QED BY <1>2, <1>3, <1>4

\* A scheduler starts typed, with a free mutex and no call in flight.
LEMMA InitProtocol == Init => OwnTypes /\ AdmissionProtocol
  <1> SUFFICES ASSUME Init PROVE OwnTypes /\ AdmissionProtocol
    OBVIOUS
  <1>1. "none" \in {"none"} \cup PolicyKinds /\ "ABSENT" \in States /\ "idle" \in Phases
    BY DEF States, Phases
  <1>2. NoSplitConfig \in SplitConfigType
    BY DEF NoSplitConfig, SplitConfigType
  <1>3. OwnTypes
    BY <1>1, <1>2, NoCallType, AnyPriorityType DEF Init, OwnTypes
  <1>4. AdmissionProtocol
    BY ThreadAssumption DEF Init, AdmissionProtocol
  <1> QED BY <1>3, <1>4

\* A parameter of a submission is well typed.
LEMMA SubmittedType ==
    ASSUME NEW parent \in CallerParents, NEW shots \in Shots
    PROVE  shots \in Nat /\ [parent |-> parent, shots |-> shots, slice |-> FALSE] \in DescType
  BY ConfigAssumption DEF DescType

\* The child the admission loop is at, and the one its rollback is at.
LEMMA ChildAt ==
    ASSUME OwnTypes, AdmissionProtocol, NEW th \in Threads, lock = th
    PROVE  /\ call[th].next \in 1..Len(call[th].children)
           /\ Len(call[th].children) \in Nat
           /\ call[th].task \in TaskId
           /\ \A k \in 1..Len(call[th].children) :
                 /\ call[th].children[k] \in ChildType
                 /\ call[th].children[k].id \in TaskId
           /\ [parent |-> call[th].children[call[th].next].parent,
               shots |-> call[th].children[call[th].next].shots, slice |-> TRUE] \in DescType
  <1>1. call[th].children \in Seq(ChildType)
    BY DEF OwnTypes, CallType
  <1>2. Len(call[th].children) \in Nat
    BY <1>1, LenProperties
  <1>3. /\ call[th].next \in 1..Len(call[th].children)
        /\ \A k \in 1..Len(call[th].children) : call[th].children[k].id \in TaskId
    BY ThreadAssumption DEF AdmissionProtocol, PartlyAdmitted
  <1>4. call[th].task \in TaskId
    BY DEF AdmissionProtocol
  <1>5. \A k \in 1..Len(call[th].children) : call[th].children[k] \in ChildType
    BY <1>1, ElementOfSeq
  <1>6. call[th].children[call[th].next] \in ChildType
    BY <1>3, <1>5
  <1>7. [parent |-> call[th].children[call[th].next].parent,
         shots |-> call[th].children[call[th].next].shots, slice |-> TRUE] \in DescType
    BY <1>6 DEF ChildType, DescType
  <1> QED BY <1>2, <1>3, <1>4, <1>5, <1>7

\* Every step keeps the types.
LEMMA TypeStep == OwnTypes /\ AdmissionProtocol /\ [Next]_vars => OwnTypes'
  <1> SUFFICES ASSUME OwnTypes, AdmissionProtocol, [Next]_vars
               PROVE  OwnTypes'
    OBVIOUS
  <1>1. ASSUME NEW t \in TaskId, NEW parent \in CallerParents, NEW shots \in Shots,
               NEW prio \in Priorities, SubmitWhole(t, parent, shots, prio)
        PROVE  OwnTypes'
    <2>1. EnqueueTypes'
      BY <1>1, SubmittedType, EnqueueOkType, EnqueueFailedType DEF SubmitWhole, Enqueue
    <2> QED BY <1>1, <2>1, EnqueueTypesSuffice DEF SubmitWhole, OwnTypes, threadVars
  <1>2. ASSUME NEW t \in TaskId, NEW parent \in CallerParents, NEW shots \in Shots,
               NEW prio \in Priorities, NEW th \in Threads,
               SubmitWithCallback(th, t, parent, shots, prio)
        PROVE  OwnTypes'
    <2>1. PlanFor(shots) \in PlanType
      BY SubmittedType, PlanForType
    <2>2. [NoCall EXCEPT !.task = t, !.priority = prio, !.plan = PlanFor(shots),
                         !.desc = [parent |-> parent, shots |-> shots, slice |-> FALSE]]
            \in CallType
      BY <2>1, SubmittedType, NoCallType DEF CallType
    <2>3. call' \in [Threads -> CallType]
      BY <1>2, <2>2 DEF SubmitWithCallback, OwnTypes
    <2>4. pc' \in [Threads -> Phases]
      BY <1>2 DEF SubmitWithCallback, OwnTypes, Phases
    <2> QED BY <1>2, <2>3, <2>4 DEF SubmitWithCallback, OwnTypes, tableVars, qpuVars, policyVars, setupVars
  <1>3. ASSUME NEW th \in Threads, EstimateReturns(th) PROVE OwnTypes'
    <2>1. call[th].task \in TaskId /\ call[th].desc \in DescType /\ call[th].priority \in Priorities
      BY <1>3 DEF EstimateReturns, AdmissionProtocol, OwnTypes, CallType
    <2>2. EnqueueTypes'
      <3>1. CASE Enqueue(call[th].task, call[th].desc, call[th].priority)
        BY <2>1, <3>1, EnqueueOkType, EnqueueFailedType DEF Enqueue
      <3>2. CASE UNCHANGED <<tableVars, enqueueSeqNext, queuedCount, policyVars>>
        BY <3>2 DEF EnqueueTypes, OwnTypes, tableVars, policyVars
      <3> QED BY <1>3, <3>1, <3>2 DEF EstimateReturns
    <2> QED BY <1>3, <2>2, EnqueueTypesSuffice, ReturnType DEF EstimateReturns, OwnTypes
  <1>4. ASSUME NEW th \in Threads, NEW answer \in SplitAnswers, SplitReturns(th, answer)
        PROVE  OwnTypes'
    <2>1. call[th].desc \in DescType /\ call[th].priority \in Priorities /\ "WAITING" \in States
      BY DEF OwnTypes, CallType, States, Live
    <2>2. CASE TableInsert(call[th].task, call[th].desc, call[th].priority, "WAITING") /\ lock' = th
      <3>1. /\ state' \in [TaskId -> States] /\ desc' \in [TaskId -> DescType]
            /\ priority' \in [TaskId -> Priorities] /\ enqueueSeq' \in [TaskId -> Nat]
        BY <2>1, <2>2 DEF TableInsert, OwnTypes
      <3>2. childCount' \in [TaskId -> Nat] /\ tally' \in [TaskId -> [Terminal -> Nat]]
        <4>1. /\ childCount \in [TaskId -> Nat] /\ tally \in [TaskId -> [Terminal -> Nat]]
              /\ Len(answer) \in Nat
          BY ChildrenType DEF OwnTypes
        <4> QED BY <1>4, <4>1 DEF SplitReturns, tableVars
      <3>3. pc' \in [Threads -> Phases]
        BY <1>4, ReturnType DEF SplitReturns, OwnTypes, Phases
      <3>4. [call[th] EXCEPT !.children = ChildrenOf(th, answer), !.next = 1] \in CallType
        <4>1. call[th] \in CallType
          BY DEF OwnTypes
        <4>2. ChildrenOf(th, answer) \in Seq(ChildType)
          BY ChildrenType
        <4> QED BY <4>1, <4>2 DEF CallType
      <3>5. call' \in [Threads -> CallType]
        BY <1>4, <3>4, ReturnType DEF SplitReturns, OwnTypes
      <3>6. enqueueSeqNext' = enqueueSeqNext + 1 /\ UNCHANGED <<qpuVars, policyVars, setupVars>>
        BY <1>4 DEF SplitReturns
      <3> QED BY <2>2, <3>1, <3>2, <3>3, <3>5, <3>6 DEF OwnTypes, qpuVars, policyVars, setupVars
    <2>3. CASE Return(th) /\ UNCHANGED <<tableVars, lock>>
      BY <1>4, <2>3, ReturnType, SMTT(30) DEF SplitReturns, OwnTypes, tableVars, qpuVars, policyVars, setupVars
    <2> QED BY <1>4, <2>2, <2>3 DEF SplitReturns
  <1>5. ASSUME NEW th \in Threads, SplitFails(th) PROVE OwnTypes'
    BY <1>5, ReturnType DEF SplitFails, OwnTypes, tableVars, qpuVars, policyVars, setupVars
  <1>6. ASSUME NEW th \in Threads, EnqueueChild(th) PROVE OwnTypes'
    <2>1. EnqueueTypes'
      BY <1>6, ChildAt, EnqueueOkType, EnqueueFailedType DEF EnqueueChild
    <2>2. [call[th] EXCEPT !.next = @ + 1] \in CallType
      <3>1. call[th] \in CallType
        BY DEF OwnTypes
      <3>2. call[th].next + 1 \in Nat
        BY <3>1 DEF CallType
      <3> QED BY <3>1, <3>2 DEF CallType
    <2>3. call' \in [Threads -> CallType]
      BY <1>6, <2>2, ReturnType DEF EnqueueChild, OwnTypes
    <2>4. pc' \in [Threads -> Phases] /\ lock' \in Threads \cup {NoThread}
      BY <1>6, ReturnType DEF EnqueueChild, OwnTypes, Phases
    <2> QED BY <1>6, <2>1, <2>3, <2>4, EnqueueTypesSuffice DEF EnqueueChild
  <1>7. ASSUME NEW th \in Threads, RollbackChild(th) PROVE OwnTypes'
    <2>0. lock = th /\ call[th].next # 1
      BY <1>7 DEF RollbackChild, RollbackDone
    <2>1. call[th].next - 1 \in 1..Len(call[th].children)
      <3>1. call[th].next \in 1..Len(call[th].children) /\ Len(call[th].children) \in Nat
        BY <2>0, ChildAt
      <3> QED BY <2>0, <3>1
    <2>2. call[th].children[call[th].next - 1].id \in TaskId
      BY <2>0, <2>1, ChildAt
    <2>3. [call[th] EXCEPT !.next = @ - 1] \in CallType
      <3>1. call[th] \in CallType /\ call[th].next - 1 \in Nat
        BY <2>1 DEF OwnTypes
      <3> QED BY <3>1 DEF CallType
    <2>4. call' \in [Threads -> CallType]
      BY <1>7, <2>3 DEF RollbackChild, OwnTypes
    <2>5. queuedCount' \in Nat
      BY <1>7 DEF RollbackChild, OwnTypes, Unqueued
    <2> QED BY <1>7, <2>2, <2>4, <2>5, PolicyForgetType, TableRemoveType
            DEF RollbackChild, OwnTypes, setupVars
  <1>8. ASSUME NEW th \in Threads, RollbackParent(th) PROVE OwnTypes'
    <2>1. call[th].task \in TaskId
      BY <1>8, ChildAt DEF RollbackParent
    <2> QED BY <1>8, <2>1, TableRemoveType, ReturnType
            DEF RollbackParent, OwnTypes, qpuVars, policyVars, setupVars
  <1>9. ASSUME NEW t \in TaskId, SelectNext(t) PROVE OwnTypes'
    <2>1. state' \in [TaskId -> States] /\ queuedCount' \in Nat
      <3>1. CASE Assignable(t)
        <4>1. state' = [state EXCEPT ![t] = "ASSIGNED"] /\ queuedCount' = Unqueued(queuedCount)
          BY <1>9, <3>1, Zenon DEF SelectNext
        <4> QED BY <4>1 DEF OwnTypes, States, Live, Unqueued
      <3>2. CASE ~Assignable(t)
        BY <1>9, <3>2 DEF SelectNext, OwnTypes
      <3> QED BY <3>1, <3>2
    <2> QED BY <1>9, <2>1, PolicyForgetType DEF SelectNext, OwnTypes, setupVars, threadVars
  <1>10. ASSUME NEW t \in TaskId, TaskStarted(t) PROVE OwnTypes'
    <2>1. state' \in [TaskId -> States] /\ queuedCount' \in Nat
      <3>1. state \in [TaskId -> States] /\ queuedCount \in Nat
        BY DEF OwnTypes
      <3> QED BY <1>10, <3>1 DEF TaskStarted, StartRefused, States, Live, Unqueued
    <2> QED BY <1>10, <2>1 DEF TaskStarted, OwnTypes, policyVars, setupVars, threadVars
  <1>11. ASSUME NEW t \in TaskId, NEW prio \in Priorities, UpdatePriority(t, prio) PROVE OwnTypes'
    <2>1. priority' \in [TaskId -> Priorities] /\ entryPriority' \in [TaskId -> Priorities]
      <3>1. priority \in [TaskId -> Priorities] /\ entryPriority \in [TaskId -> Priorities]
        BY DEF OwnTypes
      <3> QED BY <1>11, <3>1 DEF UpdatePriority, PriorityRefused
    <2> QED BY <1>11, <2>1 DEF UpdatePriority, OwnTypes, qpuVars, setupVars, threadVars
  <1>12. ASSUME NEW t \in TaskId, NEW s \in Terminal, FinishTask(t, s) PROVE OwnTypes'
    <2> DEFINE p == desc[t].parent
               counts == [tally[p] EXCEPT ![s] = @ + 1]
               table == [state EXCEPT ![t] = s]
    <2>1. p \in TaskId \cup {NoTask} /\ table \in [TaskId -> States]
      BY DEF OwnTypes, DescType, States
    <2>2. state' \in [TaskId -> States] /\ tally' \in [TaskId -> [Terminal -> Nat]]
      <3>1. UpdateParentAfterChild(t, s, table)
        BY <1>12 DEF FinishTask
      <3>2. CASE p # NoTask /\ table[p] = "WAITING"
        <4>1. counts \in [Terminal -> Nat]
          BY <2>1, <3>2 DEF OwnTypes
        <4>2. Verdict(counts) \in States
          BY DEF Verdict, States, Terminal
        <4> HIDE DEF counts, table
        <4>3. tally' = [tally EXCEPT ![p] = counts]
              /\ state' \in {table, [table EXCEPT ![p] = Verdict(counts)]}
          BY <3>1, <3>2 DEF UpdateParentAfterChild, counts
        <4>4. state \in [TaskId -> States] /\ tally \in [TaskId -> [Terminal -> Nat]]
          BY DEF OwnTypes
        <4> QED BY <2>1, <4>1, <4>2, <4>3, <4>4
      <3>3. CASE ~(p # NoTask /\ table[p] = "WAITING")
        BY <2>1, <3>1, <3>3 DEF UpdateParentAfterChild, OwnTypes
      <3> QED BY <3>2, <3>3
    <2>3. queuedCount' \in Nat
      BY <1>12 DEF FinishTask, Unqueued, OwnTypes
    <2>4. finishedCount' \in [Terminal -> Nat]
      BY <1>12 DEF FinishTask, CountFinished, OwnTypes
    <2> QED BY <1>12, <2>2, <2>3, <2>4, PolicyForgetType DEF FinishTask, OwnTypes, setupVars, threadVars
  <1>13. ASSUME NEW kind \in PolicyKinds, NEW config \in SplitConfigs, SetPolicy(kind, config)
         PROVE  OwnTypes'
    <2>1. \A t \in TaskId : ReplayRank(t) \in Nat
      BY QueuedFinite DEF ReplayRank
    <2>2. Cardinality(ReplayedTasks) \in Nat /\ ReplayedTasks \subseteq TaskId
      BY QueuedFinite DEF ReplayedTasks, Queued
    <2>3. entrySeq' \in [TaskId -> Nat] /\ entryPriority' \in [TaskId -> Priorities]
          /\ ready' \subseteq TaskId /\ entrySeqNext' \in Nat
      BY <1>13, <2>1, <2>2, AnyPriorityType DEF SetPolicy, OwnTypes
    <2>4. policy' \in {"none"} \cup PolicyKinds /\ splitConfig' \in SplitConfigType
      BY <1>13, ConfigAssumption DEF SetPolicy
    <2> QED BY <1>13, <2>3, <2>4 DEF SetPolicy, OwnTypes, tableVars, qpuVars, threadVars
  <1>14. ASSUME NEW cbs \in CallbackSets, SetCallbacks(cbs) PROVE OwnTypes'
    BY <1>14, ConfigAssumption DEF SetCallbacks, OwnTypes, tableVars, qpuVars, policyVars, threadVars
  <1>15. CASE UNCHANGED vars
    BY <1>15 DEF OwnTypes, vars, tableVars, qpuVars, policyVars, setupVars, threadVars
  <1> QED BY <1>1, <1>2, <1>3, <1>4, <1>5, <1>6, <1>7, <1>8, <1>9, <1>10, <1>11, <1>12,
             <1>13, <1>14, <1>15 DEF Next, Submit, SubmitStep

\* The protocol speaks of the task table only while the mutex is kept, so the
\* operations that start and end without it cannot disturb it.
LEMMA QuietProtocol ==
    ASSUME AdmissionProtocol, lock = NoThread, UNCHANGED threadVars
    PROVE  AdmissionProtocol'
  BY DEF AdmissionProtocol, threadVars

\* A call that returns, or begins, without the mutex.
LEMMA ReturnProtocol ==
    ASSUME OwnTypes, AdmissionProtocol, NEW th \in Threads, Return(th), lock' = NoThread,
           lock \in {NoThread, th}
    PROVE  AdmissionProtocol'
  <1>1. \A x \in Threads : pc'[x] = IF x = th THEN "idle" ELSE pc[x]
    BY DEF Return, OwnTypes
  <1>2. \A x \in Threads \ {th} : call'[x] = call[x]
    BY DEF Return, OwnTypes
  <1> QED BY <1>1, <1>2, ThreadAssumption DEF AdmissionProtocol

\* Every step keeps the mutex protocol.
LEMMA ProtocolStep == OwnTypes /\ AdmissionProtocol /\ [Next]_vars => AdmissionProtocol'
  <1> SUFFICES ASSUME OwnTypes, AdmissionProtocol, [Next]_vars
               PROVE  AdmissionProtocol'
    OBVIOUS
  <1>1. ASSUME NEW t \in TaskId, NEW parent \in CallerParents, NEW shots \in Shots,
               NEW prio \in Priorities, SubmitWhole(t, parent, shots, prio)
        PROVE  AdmissionProtocol'
    BY <1>1, QuietProtocol DEF SubmitWhole
  <1>2. ASSUME NEW t \in TaskId, NEW parent \in CallerParents, NEW shots \in Shots,
               NEW prio \in Priorities, NEW th \in Threads,
               SubmitWithCallback(th, t, parent, shots, prio)
        PROVE  AdmissionProtocol'
    <2> DEFINE c == [NoCall EXCEPT !.task = t, !.priority = prio, !.plan = PlanFor(shots),
                         !.desc = [parent |-> parent, shots |-> shots, slice |-> FALSE]]
    <2>1. c.task = t /\ c.plan = PlanFor(shots)
      BY DEF NoCall
    <2>2. call' = [call EXCEPT ![th] = c] /\ lock = NoThread /\ lock' = NoThread
      BY <1>2 DEF SubmitWithCallback
    <2> HIDE DEF c
    <2>3. \A x \in Threads : call'[x] = IF x = th THEN c ELSE call[x]
      BY <2>2 DEF OwnTypes
    <2>4. \A x \in Threads : x # th => pc'[x] = pc[x]
      BY <1>2 DEF SubmitWithCallback, OwnTypes
    <2>5. pc'[th] = "estimate" \/ (pc'[th] = "split" /\ PlanFor(shots).kind = "split")
      BY <1>2 DEF SubmitWithCallback, OwnTypes
    <2> QED BY <2>1, <2>2, <2>3, <2>4, <2>5, ThreadAssumption DEF AdmissionProtocol
  <1>3. ASSUME NEW th \in Threads, EstimateReturns(th) PROVE AdmissionProtocol'
    BY <1>3, ReturnProtocol DEF EstimateReturns
  <1>4. ASSUME NEW th \in Threads, NEW answer \in SplitAnswers, SplitReturns(th, answer)
        PROVE  AdmissionProtocol'
    <2> DEFINE c == call[th]
               children == ChildrenOf(th, answer)
    <2>1. CASE Return(th) /\ UNCHANGED lock
      BY <1>4, <2>1, ReturnProtocol DEF SplitReturns
    <2>2. CASE /\ TableInsert(c.task, c.desc, c.priority, "WAITING")
               /\ lock' = th
               /\ pc' = [pc EXCEPT ![th] = "enqueue"]
               /\ call' = [call EXCEPT ![th].children = children, ![th].next = 1]
      <3>1. lock = NoThread /\ pc[th] = "split" /\ MaySplit(th, answer)
        BY <1>4 DEF SplitReturns
      <3>2. c.task \in TaskId /\ c.plan.kind = "split" /\ c.plan = PlanFor(c.desc.shots)
        BY <3>1 DEF AdmissionProtocol, MaySplit
      <3>3. c.plan.slice_count >= 1 /\ c.plan.slice_count \in Nat
        <4>1. c.desc.shots \in Nat
          BY DEF OwnTypes, CallType, DescType
        <4> QED BY <3>2, <4>1, PlanForType DEF PlanType
      <3>4. /\ Len(children) = c.plan.slice_count
            /\ \A i \in 1..c.plan.slice_count :
                  children[i].id \notin Present \cup {NoTask, c.task} /\ children[i].parent = c.task
            /\ \A i, j \in 1..c.plan.slice_count : i # j => children[i].id # children[j].id
        BY <3>1 DEF MaySplit, ValidChildTasks
      <3>5. children \in Seq(ChildType)
        BY ChildrenType
      <3> HIDE DEF children
      <3>6. \A i \in 1..Len(children) : children[i].id \in TaskId \ {c.task} /\ state[children[i].id] = "ABSENT"
        <4> SUFFICES ASSUME NEW i \in 1..Len(children)
                     PROVE  children[i].id \in TaskId \ {c.task} /\ state[children[i].id] = "ABSENT"
          OBVIOUS
        <4>1. children[i] \in ChildType
          BY <3>5, ElementOfSeq
        <4> QED BY <3>4, <4>1 DEF ChildType, Present
      <3>7. state' = [state EXCEPT ![c.task] = "WAITING"]
        BY <2>2 DEF TableInsert
      <3>8. state'[c.task] = "WAITING" /\ \A i \in 1..Len(children) : state'[children[i].id] = "ABSENT"
        BY <3>2, <3>6, <3>7 DEF OwnTypes
      <3>9. /\ call'[th].children = children /\ call'[th].next = 1 /\ call'[th].task = c.task
            /\ \A x \in Threads \ {th} : call'[x] = call[x]
        <4>1. call[th] \in CallType /\ call \in [Threads -> CallType]
          BY DEF OwnTypes
        <4> QED BY <2>2, <4>1 DEF CallType
      <3>10. pc'[th] = "enqueue" /\ \A x \in Threads \ {th} : pc'[x] = pc[x]
        BY <2>2 DEF OwnTypes
      <3> HIDE DEF c
      <3>11. \A x \in Threads : pc'[x] \in {"enqueue", "rollback"} <=> lock' = x
        BY <2>2, <3>1, <3>10, ThreadAssumption DEF AdmissionProtocol
      <3>12. \A x \in Threads : (pc'[x] # "idle" => call'[x].task \in TaskId)
                                /\ (pc'[x] = "split" => call'[x].plan.kind = "split")
        BY <3>2, <3>9, <3>10 DEF AdmissionProtocol
      <3>13. /\ call'[th].next \in 1..Len(children)
             /\ \A k \in 1..Len(children) : ~(k < call'[th].next)
        BY <3>3, <3>4, <3>9
      <3>14. lock' = th
        BY <2>2
      <3>15. PartlyAdmitted(call[th])'
        BY <3>4, <3>6, <3>8, <3>9, <3>13 DEF PartlyAdmitted
      <3> QED BY <3>11, <3>12, <3>14, <3>15, Zenon DEF AdmissionProtocol
    <2> QED BY <1>4, <2>1, <2>2 DEF SplitReturns
  <1>5. ASSUME NEW th \in Threads, SplitFails(th) PROVE AdmissionProtocol'
    BY <1>5, ReturnProtocol DEF SplitFails
  <1>6. ASSUME NEW th \in Threads, EnqueueChild(th) PROVE AdmissionProtocol'
    <2> DEFINE c == call[th]
               t == c.children[c.next].id
    <2>1. pc[th] = "enqueue" /\ lock = th
      BY <1>6 DEF EnqueueChild
    <2>2. /\ c.task \in TaskId /\ state[c.task] = "WAITING"
          /\ c.next \in 1..Len(c.children) /\ Len(c.children) \in Nat
          /\ \A k \in 1..Len(c.children) :
                /\ c.children[k].id \in TaskId \ {c.task}
                /\ c.children[k].parent = c.task
                /\ state[c.children[k].id] = IF k < c.next THEN "QUEUED" ELSE "ABSENT"
          /\ \A j, k \in 1..Len(c.children) : j # k => c.children[j].id # c.children[k].id
      BY <2>1, ChildAt, ThreadAssumption DEF AdmissionProtocol, PartlyAdmitted
    <2>3. CASE Return(th) /\ lock' = NoThread
      BY <2>1, <2>3, ReturnProtocol
    <2>4. CASE /\ \E d \in DescType, prio \in Priorities : EnqueueOk(t, d, prio)
               /\ c.next # Len(c.children)
               /\ call' = [call EXCEPT ![th].next = @ + 1]
               /\ UNCHANGED <<pc, lock>>
      <3>1. state' = [state EXCEPT ![t] = "QUEUED"]
        BY <2>4 DEF EnqueueOk, TableInsert
      <3>2. /\ call'[th].next = c.next + 1 /\ call'[th].children = c.children
            /\ call'[th].task = c.task /\ call'[th].plan = c.plan
            /\ \A x \in Threads \ {th} : call'[x] = call[x]
        <4>1. call[th] \in CallType /\ call \in [Threads -> CallType]
          BY DEF OwnTypes
        <4> QED BY <2>4, <4>1 DEF CallType
      <3>3. lock' = th /\ pc' = pc
        BY <2>1, <2>4
      <3>4. c.next + 1 \in 1..Len(c.children)
        BY <2>2, <2>4
      <3>5. state'[c.task] = "WAITING"
        BY <2>2, <3>1 DEF OwnTypes
      <3>6. \A k \in 1..Len(c.children) :
               state'[c.children[k].id] = IF k < c.next + 1 THEN "QUEUED" ELSE "ABSENT"
        <4> TAKE k \in 1..Len(c.children)
        <4>1. CASE k = c.next
          BY <2>2, <3>1, <4>1 DEF OwnTypes
        <4>2. CASE k # c.next
          <5>1. c.children[k].id # t /\ (k < c.next + 1 <=> k < c.next)
            BY <2>2, <4>2
          <5>2. state'[c.children[k].id] = state[c.children[k].id]
            BY <2>2, <3>1, <5>1 DEF OwnTypes
          <5> QED BY <2>2, <5>1, <5>2
        <4> QED BY <4>1, <4>2
      <3> HIDE DEF c
      <3>7. \A x \in Threads : /\ pc'[x] \in {"enqueue", "rollback"} <=> lock' = x
                               /\ pc'[x] # "idle" => call'[x].task \in TaskId
                               /\ pc'[x] = "split" => call'[x].plan.kind = "split"
        BY <2>1, <2>2, <3>2, <3>3 DEF AdmissionProtocol
      <3>8. PartlyAdmitted(call[th])'
        BY <2>2, <3>2, <3>4, <3>5, <3>6 DEF PartlyAdmitted
      <3> QED BY <3>3, <3>7, <3>8, Zenon DEF AdmissionProtocol
    <2>5. CASE EnqueueFailed /\ pc' = [pc EXCEPT ![th] = "rollback"] /\ UNCHANGED <<call, lock>>
      <3>1. state' = state /\ lock' = lock /\ call' = call
        BY <2>5 DEF EnqueueFailed, tableVars
      <3>2. pc'[th] = "rollback" /\ \A x \in Threads \ {th} : pc'[x] = pc[x]
        BY <2>5 DEF OwnTypes
      <3> QED BY <2>1, <3>1, <3>2 DEF AdmissionProtocol, PartlyAdmitted
    <2>6. [parent |-> c.children[c.next].parent, shots |-> c.children[c.next].shots,
           slice |-> TRUE] \in DescType
      BY <2>1, ChildAt
    <2> QED BY <1>6, <2>3, <2>4, <2>5, <2>6 DEF EnqueueChild
  <1>7. ASSUME NEW th \in Threads, RollbackChild(th) PROVE AdmissionProtocol'
    <2> DEFINE c == call[th]
               t == c.children[c.next - 1].id
    <2>1. /\ pc[th] = "rollback" /\ lock = th /\ c.next # 1
          /\ TableRemove(t) /\ UNCHANGED <<lock, pc>>
          /\ call' = [call EXCEPT ![th].next = @ - 1]
      BY <1>7 DEF RollbackChild, RollbackDone
    <2>2. /\ c.task \in TaskId /\ state[c.task] = "WAITING"
          /\ c.next \in 1..Len(c.children) /\ Len(c.children) \in Nat
          /\ \A k \in 1..Len(c.children) :
                /\ c.children[k].id \in TaskId \ {c.task}
                /\ c.children[k].parent = c.task
                /\ state[c.children[k].id] = IF k < c.next THEN "QUEUED" ELSE "ABSENT"
          /\ \A j, k \in 1..Len(c.children) : j # k => c.children[j].id # c.children[k].id
      <3>1. c.task \in TaskId /\ PartlyAdmitted(c)
        BY <2>1, ThreadAssumption DEF AdmissionProtocol
      <3>2. Len(c.children) \in Nat
        BY DEF OwnTypes, CallType
      <3> HIDE DEF c
      <3> QED BY <3>1, <3>2 DEF PartlyAdmitted
    <2>3. c.next - 1 \in 1..Len(c.children)
      BY <2>1, <2>2
    <2>4. state' = [state EXCEPT ![t] = "ABSENT"]
      BY <2>1 DEF TableRemove
    <2>5. /\ call'[th].next = c.next - 1 /\ call'[th].children = c.children
          /\ call'[th].task = c.task /\ call'[th].plan = c.plan
          /\ \A x \in Threads \ {th} : call'[x] = call[x]
      <3>1. call[th] \in CallType /\ call \in [Threads -> CallType]
        BY DEF OwnTypes
      <3> QED BY <2>1, <3>1 DEF CallType
    <2>6. state'[c.task] = "WAITING"
      BY <2>2, <2>3, <2>4 DEF OwnTypes
    <2>7. \A k \in 1..Len(c.children) :
             state'[c.children[k].id] = IF k < c.next - 1 THEN "QUEUED" ELSE "ABSENT"
      BY <2>2, <2>3, <2>4 DEF OwnTypes
    <2> HIDE DEF c
    <2>8. \A x \in Threads : /\ pc'[x] \in {"enqueue", "rollback"} <=> lock' = x
                             /\ pc'[x] # "idle" => call'[x].task \in TaskId
                             /\ pc'[x] = "split" => call'[x].plan.kind = "split"
      BY <2>1, <2>2, <2>5 DEF AdmissionProtocol
    <2>9. PartlyAdmitted(call[th])'
      <3>1. /\ state'[call'[th].task] = "WAITING"
            /\ call'[th].next \in 1..Len(call'[th].children)
        BY <2>3, <2>5, <2>6
      <3>2. \A k \in 1..Len(call'[th].children) :
               /\ call'[th].children[k].id \in TaskId \ {call'[th].task}
               /\ call'[th].children[k].parent = call'[th].task
        BY <2>2, <2>5
      <3>3. \A k \in 1..Len(call'[th].children) :
               state'[call'[th].children[k].id] =
                  IF k < call'[th].next THEN "QUEUED" ELSE "ABSENT"
        BY <2>5, <2>7
      <3>4. \A j, k \in 1..Len(call'[th].children) :
               j # k => call'[th].children[j].id # call'[th].children[k].id
        BY <2>2, <2>5
      <3> QED BY <3>1, <3>2, <3>3, <3>4, Zenon DEF PartlyAdmitted
    <2>10. lock' = th
      BY <2>1
    <2> QED BY <2>8, <2>9, <2>10, Zenon DEF AdmissionProtocol
  <1>8. ASSUME NEW th \in Threads, RollbackParent(th) PROVE AdmissionProtocol'
    BY <1>8, ReturnProtocol DEF RollbackParent
  <1>9. ASSUME NEW t \in TaskId, SelectNext(t) PROVE AdmissionProtocol'
    BY <1>9, QuietProtocol DEF SelectNext
  <1>10. ASSUME NEW t \in TaskId, TaskStarted(t) PROVE AdmissionProtocol'
    BY <1>10, QuietProtocol DEF TaskStarted
  <1>11. ASSUME NEW t \in TaskId, NEW prio \in Priorities, UpdatePriority(t, prio)
         PROVE  AdmissionProtocol'
    BY <1>11, QuietProtocol DEF UpdatePriority
  <1>12. ASSUME NEW t \in TaskId, NEW s \in Terminal, FinishTask(t, s) PROVE AdmissionProtocol'
    BY <1>12, QuietProtocol DEF FinishTask
  <1>13. ASSUME NEW kind \in PolicyKinds, NEW config \in SplitConfigs, SetPolicy(kind, config)
         PROVE  AdmissionProtocol'
    BY <1>13, QuietProtocol DEF SetPolicy
  <1>14. ASSUME NEW cbs \in CallbackSets, SetCallbacks(cbs) PROVE AdmissionProtocol'
    BY <1>14, QuietProtocol DEF SetCallbacks
  <1>15. CASE UNCHANGED vars
    BY <1>15 DEF AdmissionProtocol, PartlyAdmitted, vars, threadVars, tableVars
  <1> QED BY <1>1, <1>2, <1>3, <1>4, <1>5, <1>6, <1>7, <1>8, <1>9, <1>10, <1>11, <1>12,
             <1>13, <1>14, <1>15 DEF Next, Submit, SubmitStep

\* Every step leaves the slot alone, frees it, or gives it to a task.
LEMMA SlotStep ==
    runningTask \in TaskId \cup {NoTask} /\ [Next]_vars => runningTask' \in TaskId \cup {NoTask}
  <1> SUFFICES ASSUME runningTask \in TaskId \cup {NoTask}, [Next]_vars
               PROVE  runningTask' \in TaskId \cup {NoTask}
    OBVIOUS
  <1>1. ASSUME NEW t \in TaskId, TaskStarted(t) PROVE runningTask' \in TaskId \cup {NoTask}
    BY <1>1 DEF TaskStarted, StartRefused
  <1>2. ASSUME NEW t \in TaskId, NEW s \in Terminal, FinishTask(t, s)
        PROVE  runningTask' \in TaskId \cup {NoTask}
    BY <1>2 DEF FinishTask, SlotAfterFinish
  <1>3. ASSUME NEW th \in Threads, SubmitStep(th) PROVE runningTask' = runningTask
    BY <1>3 DEF SubmitStep, EstimateReturns, SplitReturns, SplitFails, EnqueueChild,
                RollbackChild, RollbackParent, qpuVars
  <1>4. CASE Submit
    BY <1>4 DEF Submit, SubmitWhole, SubmitWithCallback, qpuVars
  <1>5. ASSUME NEW t \in TaskId, SelectNext(t) \/ \E prio \in Priorities : UpdatePriority(t, prio)
        PROVE  runningTask' = runningTask
    BY <1>5 DEF SelectNext, UpdatePriority, qpuVars
  <1>6. CASE \/ \E kind \in PolicyKinds, config \in SplitConfigs : SetPolicy(kind, config)
             \/ \E cbs \in CallbackSets : SetCallbacks(cbs)
    BY <1>6 DEF SetPolicy, SetCallbacks, qpuVars
  <1>7. CASE UNCHANGED vars
    BY <1>7 DEF vars, qpuVars
  <1> QED BY <1>1, <1>2, <1>3, <1>4, <1>5, <1>6, <1>7 DEF Next

\* The variables keep their types in every behaviour.
THEOREM TypeCorrect == Spec => []TypeOK
  <1>1. Init => TypeOK /\ AdmissionProtocol
    BY InitProtocol DEF TypeOK, Init
  <1>2. TypeOK /\ AdmissionProtocol /\ [Next]_vars => TypeOK' /\ AdmissionProtocol'
    BY TypeStep, ProtocolStep, SlotStep DEF TypeOK
  <1> QED BY <1>1, <1>2, PTL DEF Spec

\* The mutex protocol of qhw_sched_submit_task holds in every behaviour: at most
\* one admission is under way, its parent is WAITING, and the children before
\* the loop index, and no others, are QUEUED, in admission and in rollback.
THEOREM AdmissionProtocolHolds == Spec => []AdmissionProtocol
  <1>1. Init => OwnTypes /\ AdmissionProtocol
    BY InitProtocol
  <1>2. OwnTypes /\ AdmissionProtocol /\ [Next]_vars => OwnTypes' /\ AdmissionProtocol'
    BY TypeStep, ProtocolStep
  <1> QED BY <1>1, <1>2, PTL DEF Spec

----------------------------------------------------------------------------
(* The safety invariants.  Types and the mutex protocol strengthen each of *)
(* them.                                                                   *)

Base == OwnTypes /\ AdmissionProtocol

\* Types and protocol hold at first, ...
LEMMA BaseInit == Init => Base
  BY InitProtocol DEF Base

\* ... and every step keeps them.
LEMMA BaseStep == Base /\ [Next]_vars => Base'
  BY TypeStep, ProtocolStep DEF Base

----------------------------------------------------------------------------
(* The ways in which a step may change the task table, the queue counter   *)
(* and the QPU slot.  Every action of Next is one of them.                 *)

\* A task is enqueued.
Inserts(t) ==
    /\ state[t] = "ABSENT"
    /\ state' = [state EXCEPT ![t] = "QUEUED"]
    /\ queuedCount' = queuedCount + 1
    /\ runningTask' = runningTask

\* A split parent is inserted or removed.
Parks(t) ==
    /\ state[t] \in {"ABSENT", "WAITING"}
    /\ \E s \in {"ABSENT", "WAITING"} : state' = [state EXCEPT ![t] = s]
    /\ queuedCount' = queuedCount
    /\ runningTask' = runningTask

\* A queued task is handed out or rolled back.
Unqueues(t) ==
    /\ state[t] = "QUEUED"
    /\ \E s \in {"ABSENT", "ASSIGNED"} : state' = [state EXCEPT ![t] = s]
    /\ queuedCount' = Unqueued(queuedCount)
    /\ runningTask' = runningTask

\* The queue counter after a task has left the queue, if it was in it.
CountWithout(t) == IF state[t] = "QUEUED" THEN Unqueued(queuedCount) ELSE queuedCount

Starts(t) ==
    /\ state[t] \in {"QUEUED", "ASSIGNED"}
    /\ runningTask = NoTask
    /\ state' = [state EXCEPT ![t] = "RUNNING"]
    /\ queuedCount' = CountWithout(t)
    /\ runningTask' = t

\* A task finishes, alone or as the last child of its parent.
Finishes(t, s) ==
    /\ state[t] \in {"QUEUED", "ASSIGNED", "RUNNING"}
    /\ \/ state' = [state EXCEPT ![t] = s]
       \/ \E p \in TaskId \ {t}, v \in Terminal :
             /\ state[p] = "WAITING"
             /\ state' = [[state EXCEPT ![t] = s] EXCEPT ![p] = v]
    /\ queuedCount' = CountWithout(t)
    /\ runningTask' = SlotAfterFinish(t)

Keeps == UNCHANGED <<state, queuedCount, runningTask>>

Changes ==
    \/ \E t \in TaskId : Inserts(t) \/ Parks(t) \/ Unqueues(t) \/ Starts(t)
    \/ \E t \in TaskId, s \in Terminal : Finishes(t, s)
    \/ Keeps

\* enqueue_task_locked inserts one task or leaves things as they were.
LEMMA EnqueueChanges ==
    ASSUME OwnTypes, NEW t \in TaskId, NEW d, NEW prio, state[t] = "ABSENT",
           Enqueue(t, d, prio), runningTask' = runningTask
    PROVE  Inserts(t) \/ Keeps
  <1>1. CASE EnqueueOk(t, d, prio)
    BY <1>1 DEF EnqueueOk, TableInsert, Inserts
  <1>2. CASE EnqueueFailed
    BY <1>2 DEF EnqueueFailed, Keeps, Unqueued, OwnTypes, tableVars
  <1> QED BY <1>1, <1>2 DEF Enqueue

\* Every step changes the table, the counter and the slot in one of these ways.
LEMMA StepChanges == Base /\ [Next]_vars => Changes
  <1> SUFFICES ASSUME OwnTypes, AdmissionProtocol, [Next]_vars
               PROVE  Changes
    BY DEF Base
  <1>1. ASSUME NEW t \in TaskId, NEW parent \in CallerParents, NEW shots \in Shots,
               NEW prio \in Priorities, SubmitWhole(t, parent, shots, prio)
        PROVE  Changes
    BY <1>1, EnqueueChanges DEF SubmitWhole, Changes
  <1>2. ASSUME NEW t \in TaskId, NEW parent \in CallerParents, NEW shots \in Shots,
               NEW prio \in Priorities, NEW th \in Threads,
               SubmitWithCallback(th, t, parent, shots, prio)
        PROVE  Changes
    BY <1>2 DEF SubmitWithCallback, Changes, Keeps, tableVars, qpuVars
  <1>3. ASSUME NEW th \in Threads, EstimateReturns(th) PROVE Changes
    <2>1. CASE /\ state[call[th].task] = "ABSENT"
               /\ Enqueue(call[th].task, call[th].desc, call[th].priority)
      <3>1. call[th].task \in TaskId
        BY <1>3 DEF EstimateReturns, AdmissionProtocol
      <3> QED BY <1>3, <2>1, <3>1, EnqueueChanges DEF EstimateReturns, Changes
    <2>2. CASE UNCHANGED <<tableVars, enqueueSeqNext, queuedCount, policyVars>>
      BY <1>3, <2>2 DEF EstimateReturns, Changes, Keeps, tableVars
    <2> QED BY <1>3, <2>1, <2>2 DEF EstimateReturns, MayEnqueue
  <1>4. ASSUME NEW th \in Threads, NEW answer \in SplitAnswers, SplitReturns(th, answer)
        PROVE  Changes
    <2>1. CASE TableInsert(call[th].task, call[th].desc, call[th].priority, "WAITING")
      <3>1. call[th].task \in TaskId /\ state[call[th].task] = "ABSENT"
        BY <1>4 DEF SplitReturns, MaySplit, AdmissionProtocol
      <3>2. Parks(call[th].task)
        BY <1>4, <2>1, <3>1 DEF SplitReturns, TableInsert, Parks, qpuVars
      <3> QED BY <3>1, <3>2 DEF Changes
    <2>2. CASE UNCHANGED tableVars
      BY <1>4, <2>2 DEF SplitReturns, Changes, Keeps, tableVars, qpuVars
    <2> QED BY <1>4, <2>1, <2>2 DEF SplitReturns
  <1>5. ASSUME NEW th \in Threads, SplitFails(th) PROVE Changes
    BY <1>5 DEF SplitFails, Changes, Keeps, tableVars, qpuVars
  <1>6. ASSUME NEW th \in Threads, EnqueueChild(th) PROVE Changes
    <2> DEFINE t == call[th].children[call[th].next].id
    <2>1. lock = th /\ runningTask' = runningTask
      BY <1>6 DEF EnqueueChild
    <2>2. t \in TaskId /\ state[t] = "ABSENT"
      <3>1. call[th].next \in 1..Len(call[th].children) /\ Len(call[th].children) \in Nat
        BY <2>1, ChildAt
      <3>2. ~(call[th].next < call[th].next)
        BY <3>1
      <3> QED BY <2>1, <3>1, <3>2, ThreadAssumption DEF AdmissionProtocol, PartlyAdmitted
    <2>3. \E d, prio : Enqueue(t, d, prio)
      BY <1>6 DEF EnqueueChild, Enqueue
    <2> QED BY <2>1, <2>2, <2>3, EnqueueChanges DEF Changes
  <1>7. ASSUME NEW th \in Threads, RollbackChild(th) PROVE Changes
    <2> DEFINE t == call[th].children[call[th].next - 1].id
    <2>1. /\ lock = th /\ runningTask' = runningTask /\ call[th].next # 1
          /\ queuedCount' = Unqueued(queuedCount) /\ TableRemove(t)
      BY <1>7 DEF RollbackChild, RollbackDone
    <2>2. t \in TaskId /\ state[t] = "QUEUED"
      <3>1. call[th].next \in 1..Len(call[th].children) /\ Len(call[th].children) \in Nat
        BY <2>1, ChildAt
      <3>2. call[th].next - 1 \in 1..Len(call[th].children) /\ call[th].next - 1 < call[th].next
        BY <2>1, <3>1
      <3> QED BY <2>1, <3>2, ThreadAssumption DEF AdmissionProtocol, PartlyAdmitted
    <2>3. Unqueues(t)
      BY <2>1, <2>2 DEF Unqueues, TableRemove
    <2> QED BY <2>2, <2>3 DEF Changes
  <1>8. ASSUME NEW th \in Threads, RollbackParent(th) PROVE Changes
    <2>1. call[th].task \in TaskId /\ state[call[th].task] = "WAITING"
      BY <1>8, ChildAt, ThreadAssumption DEF RollbackParent, AdmissionProtocol, PartlyAdmitted
    <2>2. Parks(call[th].task)
      BY <1>8, <2>1 DEF RollbackParent, TableRemove, Parks, qpuVars
    <2> QED BY <2>1, <2>2 DEF Changes
  <1>9. ASSUME NEW t \in TaskId, SelectNext(t) PROVE Changes
    <2>1. CASE Assignable(t)
      BY <1>9, <2>1 DEF SelectNext, Assignable, Changes, Unqueues
    <2>2. CASE ~Assignable(t)
      BY <1>9, <2>2 DEF SelectNext, Changes, Keeps
    <2> QED BY <2>1, <2>2
  <1>10. ASSUME NEW t \in TaskId, TaskStarted(t) PROVE Changes
    <2>1. CASE StartRefused(t)
      BY <2>1 DEF StartRefused, Changes, Keeps
    <2>2. CASE runningTask' = t /\ state' = [state EXCEPT ![t] = "RUNNING"]
               /\ queuedCount' = CountWithout(t)
      BY <1>10, <2>2 DEF TaskStarted, Changes, Starts
    <2> QED BY <1>10, <2>1, <2>2 DEF TaskStarted, CountWithout
  <1>11. ASSUME NEW t \in TaskId, NEW prio \in Priorities, UpdatePriority(t, prio) PROVE Changes
    BY <1>11 DEF UpdatePriority, Changes, Keeps, qpuVars
  <1>12. ASSUME NEW t \in TaskId, NEW s \in Terminal, FinishTask(t, s) PROVE Changes
    <2> DEFINE p == desc[t].parent
               table == [state EXCEPT ![t] = s]
               counts == [tally[p] EXCEPT ![s] = @ + 1]
    <2>1. /\ state[t] \in {"QUEUED", "ASSIGNED", "RUNNING"}
          /\ queuedCount' = CountWithout(t) /\ runningTask' = SlotAfterFinish(t)
          /\ UpdateParentAfterChild(t, s, table)
      BY <1>12 DEF FinishTask, CountWithout
    <2>2. CASE state' = table
      BY <2>1, <2>2 DEF Changes, Finishes
    <2>3. CASE state' = [table EXCEPT ![p] = Verdict(counts)] /\ p # NoTask /\ table[p] = "WAITING"
      <3>1. p \in TaskId
        BY <2>3 DEF OwnTypes, DescType
      <3>2. p # t /\ state[p] = "WAITING"
        BY <2>3, <3>1 DEF OwnTypes, Terminal
      <3>3. Verdict(counts) \in Terminal
        BY DEF Verdict, Terminal
      <3> HIDE DEF counts, p
      <3> QED BY <2>1, <2>3, <3>1, <3>2, <3>3 DEF Changes, Finishes
    <2> HIDE DEF counts, table
    <2> QED BY <2>1, <2>2, <2>3, Zenon DEF UpdateParentAfterChild, counts
  <1>13. ASSUME NEW kind \in PolicyKinds, NEW config \in SplitConfigs, SetPolicy(kind, config)
         PROVE  Changes
    BY <1>13 DEF SetPolicy, Changes, Keeps, tableVars, qpuVars
  <1>14. ASSUME NEW cbs \in CallbackSets, SetCallbacks(cbs) PROVE Changes
    BY <1>14 DEF SetCallbacks, Changes, Keeps, tableVars, qpuVars
  <1>15. CASE UNCHANGED vars
    BY <1>15 DEF Changes, Keeps, vars, tableVars, qpuVars
  <1> QED BY <1>1, <1>2, <1>3, <1>4, <1>5, <1>6, <1>7, <1>8, <1>9, <1>10, <1>11, <1>12,
             <1>13, <1>14, <1>15 DEF Next, Submit, SubmitStep

----------------------------------------------------------------------------
\* A task is RUNNING exactly when it holds the QPU: for any number of tasks, no
\* refused start, cancellation or late completion leaves the slot taken by a
\* task that is not running, or a running task without the slot.
THEOREM QpuHeldByRunningTask == Spec => []RunningHoldsQpu
  <1>1. Init => RunningHoldsQpu
    <2>1. Init => runningTask = NoTask /\ state = [t \in TaskId |-> "ABSENT"]
      BY DEF Init
    <2> QED BY <2>1, NoTaskAssumption DEF RunningHoldsQpu
  <1>2. Base /\ RunningHoldsQpu /\ [Next]_vars => RunningHoldsQpu'
    <2> SUFFICES ASSUME Base, RunningHoldsQpu, Changes PROVE RunningHoldsQpu'
      BY StepChanges
    <2>0. state \in [TaskId -> States]
      BY DEF Base, OwnTypes
    <2>1. ASSUME NEW t \in TaskId, Inserts(t) PROVE RunningHoldsQpu'
      BY <2>0, <2>1 DEF Inserts, RunningHoldsQpu
    <2>2. ASSUME NEW t \in TaskId, Parks(t) PROVE RunningHoldsQpu'
      BY <2>0, <2>2 DEF Parks, RunningHoldsQpu
    <2>3. ASSUME NEW t \in TaskId, Unqueues(t) PROVE RunningHoldsQpu'
      BY <2>0, <2>3 DEF Unqueues, RunningHoldsQpu
    <2>4. ASSUME NEW t \in TaskId, Starts(t) PROVE RunningHoldsQpu'
      BY <2>0, <2>4, NoTaskAssumption DEF Starts, RunningHoldsQpu
    <2>5. ASSUME NEW t \in TaskId, NEW s \in Terminal, Finishes(t, s) PROVE RunningHoldsQpu'
      <3>1. "RUNNING" \notin Terminal
        BY DEF Terminal
      <3>2. runningTask' = IF runningTask = t THEN NoTask ELSE runningTask
        BY <2>5 DEF Finishes, SlotAfterFinish
      <3>3. \A u \in TaskId : state'[u] = "RUNNING" <=> state[u] = "RUNNING" /\ u # t
        <4>1. CASE state' = [state EXCEPT ![t] = s]
          BY <2>0, <3>1, <4>1
        <4>2. ASSUME NEW p \in TaskId \ {t}, NEW v \in Terminal, state[p] = "WAITING",
                     state' = [[state EXCEPT ![t] = s] EXCEPT ![p] = v]
              PROVE  \A u \in TaskId : state'[u] = "RUNNING" <=> state[u] = "RUNNING" /\ u # t
          BY <2>0, <3>1, <4>2
        <4> QED BY <2>5, <4>1, <4>2 DEF Finishes
      <3> QED BY <3>2, <3>3, NoTaskAssumption DEF RunningHoldsQpu
    <2>6. CASE Keeps
      BY <2>6 DEF Keeps, RunningHoldsQpu
    <2> QED BY <2>1, <2>2, <2>3, <2>4, <2>5, <2>6 DEF Changes
  <1> QED BY <1>1, <1>2, BaseInit, BaseStep, PTL DEF Spec

\* The counter c follows a queue that goes from Q to R.
Follows(Q, R, c, d) ==
    \/ \E t : t \notin Q /\ R = Q \cup {t} /\ d = c + 1
    \/ \E t \in Q : R = Q \ {t} /\ d = Unqueued(c)
    \/ R = Q /\ d = c

\* A counter that follows a queue keeps its distance to the number of tasks in
\* it: the decrement that stops at zero never stops there.
LEMMA FollowsKeeps ==
    ASSUME NEW Q, IsFiniteSet(Q), NEW R, NEW n \in Nat, NEW d,
           Follows(Q, R, Cardinality(Q) + n, d)
    PROVE  d = Cardinality(R) + n
  <1>1. Cardinality(Q) \in Nat
    BY FS_CardinalityType
  <1>2. ASSUME NEW t, t \notin Q, R = Q \cup {t}, d = (Cardinality(Q) + n) + 1
        PROVE  d = Cardinality(R) + n
    BY <1>1, <1>2, FS_AddElement
  <1>3. ASSUME NEW t \in Q, R = Q \ {t}, d = Unqueued(Cardinality(Q) + n)
        PROVE  d = Cardinality(R) + n
    <2>1. Cardinality(R) = Cardinality(Q) - 1 /\ Cardinality(R) \in Nat
      BY <1>3, FS_RemoveElement, FS_CardinalityType
    <2> QED BY <1>1, <1>3, <2>1 DEF Unqueued
  <1> QED BY <1>2, <1>3 DEF Follows

\* In every step the queue counter follows the set of queued tasks.
LEMMA CounterFollows ==
    Base /\ [Next]_vars => Follows(Queued, Queued', queuedCount, queuedCount')
  <1> DEFINE Goal == Follows(Queued, Queued', queuedCount, queuedCount')
  <1> SUFFICES ASSUME Base, Changes PROVE Goal
    BY StepChanges
  <1>0. state \in [TaskId -> States]
    BY DEF Base, OwnTypes
  <1>1. ASSUME NEW t \in TaskId, Inserts(t) PROVE Goal
    <2>1. Queued' = Queued \cup {t} /\ t \notin Queued
      BY <1>0, <1>1 DEF Inserts, Queued
    <2> QED BY <1>1, <2>1 DEF Inserts, Follows
  <1>2. ASSUME NEW t \in TaskId, Parks(t) PROVE Goal
    <2>1. Queued' = Queued
      BY <1>0, <1>2 DEF Parks, Queued
    <2> QED BY <1>2, <2>1 DEF Parks, Follows
  <1>3. ASSUME NEW t \in TaskId, Queued' = Queued \ {t}, queuedCount' = CountWithout(t)
        PROVE  Goal
    <2>1. CASE state[t] = "QUEUED"
      <3>1. t \in Queued
        BY <2>1 DEF Queued
      <3> QED BY <1>3, <2>1, <3>1 DEF CountWithout, Follows
    <2>2. CASE state[t] # "QUEUED"
      <3>1. Queued' = Queued
        BY <1>3, <2>2 DEF Queued
      <3> QED BY <1>3, <2>2, <3>1 DEF CountWithout, Follows
    <2> QED BY <2>1, <2>2
  <1>4. ASSUME NEW t \in TaskId, Unqueues(t) PROVE Goal
    <2>1. Queued' = Queued \ {t}
      BY <1>0, <1>4 DEF Unqueues, Queued
    <2> QED BY <1>3, <1>4, <2>1 DEF Unqueues, CountWithout
  <1>5. ASSUME NEW t \in TaskId, Starts(t) PROVE Goal
    <2>1. Queued' = Queued \ {t}
      BY <1>0, <1>5 DEF Starts, Queued
    <2> QED BY <1>3, <1>5, <2>1 DEF Starts
  <1>6. ASSUME NEW t \in TaskId, NEW s \in Terminal, Finishes(t, s) PROVE Goal
    <2>0. "QUEUED" \notin Terminal
      BY DEF Terminal
    <2>1. Queued' = Queued \ {t}
      <3>1. CASE state' = [state EXCEPT ![t] = s]
        BY <1>0, <2>0, <3>1 DEF Queued
      <3>2. ASSUME NEW p \in TaskId \ {t}, NEW v \in Terminal, state[p] = "WAITING",
                   state' = [[state EXCEPT ![t] = s] EXCEPT ![p] = v]
            PROVE  Queued' = Queued \ {t}
        BY <1>0, <2>0, <3>2 DEF Queued
      <3> QED BY <1>6, <3>1, <3>2 DEF Finishes
    <2> QED BY <1>3, <1>6, <2>1 DEF Finishes
  <1>7. CASE Keeps
    BY <1>7 DEF Keeps, Queued, Follows
  <1> QED BY <1>1, <1>2, <1>4, <1>5, <1>6, <1>7 DEF Changes

\* The queue counter is the number of QUEUED records in every reachable state,
\* between the rounds of an admission loop and of its rollback too.
THEOREM QueuedCountHolds == Spec => []QueuedCountExact
  <1>1. Init => QueuedCountExact
    <2> SUFFICES ASSUME Init PROVE QueuedCountExact
      OBVIOUS
    <2>1. Queued = {}
      BY DEF Init, Queued
    <2> QED BY <2>1, FS_EmptySet DEF Init, QueuedCountExact
  <1>2. Base /\ QueuedCountExact /\ [Next]_vars => QueuedCountExact'
    <2> SUFFICES ASSUME Base, QueuedCountExact, [Next]_vars PROVE QueuedCountExact'
      OBVIOUS
    <2>1. IsFiniteSet(Queued) /\ Cardinality(Queued) \in Nat
      BY QueuedFinite
    <2>2. Follows(Queued, Queued', queuedCount, queuedCount')
      BY CounterFollows
    <2>3. queuedCount = Cardinality(Queued) + 0
      BY <2>1 DEF QueuedCountExact
    <2>4. queuedCount' = Cardinality(Queued') + 0
      BY <2>1, <2>2, <2>3, FollowsKeeps
    <2>5. IsFiniteSet(Queued') /\ Cardinality(Queued') \in Nat
      BY FiniteAssumption, FS_Subset, FS_CardinalityType DEF Queued
    <2> QED BY <2>4, <2>5 DEF QueuedCountExact
  <1> QED BY <1>1, <1>2, BaseInit, BaseStep, PTL DEF Spec

----------------------------------------------------------------------------
(* The ready queue of the active policy.  Three of the invariants need each *)
(* other: without a policy there are no entries, so that a task submitted   *)
(* before the first policy finds no stale entry of its own later.           *)

ReadyInv ==
    /\ policy = "none" => ready = {}
    /\ NoTaskStranded
    /\ BuiltinReadyExact
    /\ PolicyKnowsPriority

\* enqueue_task_locked keeps the table and the ready queue in step.
LEMMA EnqueueReady ==
    ASSUME OwnTypes, ReadyInv, NEW t \in TaskId, NEW d, NEW prio, state[t] = "ABSENT",
           EnqueueOk(t, d, prio) \/ EnqueueFailed, UNCHANGED policy
    PROVE  ReadyInv'
  <1>1. CASE EnqueueFailed
    BY <1>1 DEF EnqueueFailed, ReadyInv, NoTaskStranded, BuiltinReadyExact, PolicyKnowsPriority,
                PolicyActive, Queued, tableVars, policyVars
  <1>2. CASE EnqueueOk(t, d, prio)
    <2>1. state' = [state EXCEPT ![t] = "QUEUED"] /\ priority' = [priority EXCEPT ![t] = prio]
      BY <1>2 DEF EnqueueOk, TableInsert
    <2>2. Queued' = Queued \cup {t} /\ t \notin Queued
      BY <2>1 DEF OwnTypes, Queued
    <2>3. CASE PolicyActive
      <3>1. /\ ready' = ready \cup {t}
            /\ entryPriority' = [entryPriority EXCEPT ![t] = prio]
        BY <1>2, <2>3, Zenon DEF EnqueueOk, PolicyInsert
      <3>2. NoTaskStranded' /\ BuiltinReadyExact'
        BY <2>2, <2>3, <3>1 DEF ReadyInv, NoTaskStranded, BuiltinReadyExact
      <3>3. \A u \in TaskId : u # t => priority'[u] = priority[u] /\ entryPriority'[u] = entryPriority[u]
        BY <2>1, <3>1 DEF OwnTypes
      <3>4. priority'[t] = prio /\ entryPriority'[t] = prio
        BY <2>1, <3>1 DEF OwnTypes
      <3>5. PolicyKnowsPriority'
        BY <2>2, <3>1, <3>3, <3>4 DEF ReadyInv, PolicyKnowsPriority, Queued
      <3> QED BY <2>3, <3>2, <3>5 DEF ReadyInv, PolicyActive
    <2>4. CASE ~PolicyActive
      <3>1. ready' = ready
        BY <1>2, <2>4 DEF EnqueueOk, PolicyInsert, policyVars
      <3> QED BY <2>4, <3>1 DEF ReadyInv, PolicyActive, NoTaskStranded, BuiltinReadyExact,
                               PolicyKnowsPriority
    <2> QED BY <2>3, <2>4
  <1> QED BY <1>1, <1>2

\* A task leaves the queue and the policy is told, or has handed it out itself.
LEMMA LeaveReady ==
    ASSUME OwnTypes, ReadyInv, NEW t \in TaskId, Queued' = Queued \ {t},
           \A u \in TaskId : u # t => priority'[u] = priority[u],
           PolicyForget(t), UNCHANGED policy
    PROVE  ReadyInv'
  <1>1. CASE PolicyDrop(t)
    <2>1. ready' = ready \ {t} /\ \A u \in TaskId : u # t => entryPriority'[u] = entryPriority[u]
      BY <1>1 DEF PolicyDrop, OwnTypes
    <2>2. NoTaskStranded' /\ BuiltinReadyExact' /\ (policy' = "none" => ready' = {})
      BY <2>1 DEF ReadyInv, NoTaskStranded, BuiltinReadyExact, PolicyActive
    <2>3. PolicyKnowsPriority'
      BY <2>1 DEF ReadyInv, PolicyKnowsPriority, OwnTypes
    <2> QED BY <2>2, <2>3 DEF ReadyInv
  <1>2. CASE policy = "plugin" /\ UNCHANGED policyVars
    <2>1. ready' = ready /\ entryPriority' = entryPriority
      BY <1>2 DEF policyVars
    <2>2. NoTaskStranded' /\ BuiltinReadyExact' /\ (policy' = "none" => ready' = {})
      BY <1>2, <2>1 DEF ReadyInv, NoTaskStranded, BuiltinReadyExact, PolicyActive
    <2>3. PolicyKnowsPriority'
      BY <2>1 DEF ReadyInv, PolicyKnowsPriority, OwnTypes
    <2> QED BY <2>2, <2>3 DEF ReadyInv
  <1> QED BY <1>1, <1>2 DEF PolicyForget

\* A step that leaves the queued tasks and the policy's entries alone.
LEMMA KeepReady ==
    ASSUME ReadyInv, Queued' = Queued, UNCHANGED <<policy, policyVars>>,
           \A u \in Queued : priority'[u] = priority[u]
    PROVE  ReadyInv'
  BY DEF ReadyInv, NoTaskStranded, BuiltinReadyExact, PolicyKnowsPriority, PolicyActive, policyVars

\* finish_task ends its task and leaves every other one alone, except a parent
\* that was WAITING for it.
LEMMA FinishTable ==
    ASSUME OwnTypes, NEW t \in TaskId, NEW s \in Terminal, FinishTask(t, s)
    PROVE  /\ state'[t] = s
           /\ \A u \in TaskId \ {t} :
                 state'[u] # state[u] => state[u] = "WAITING" /\ state'[u] \in Terminal
  <1> DEFINE p == desc[t].parent
             table == [state EXCEPT ![t] = s]
             counts == [tally[p] EXCEPT ![s] = @ + 1]
  <1>1. UpdateParentAfterChild(t, s, table)
    BY DEF FinishTask
  <1>2. Verdict(counts) \in Terminal /\ "WAITING" \notin Terminal
    BY DEF Verdict, Terminal
  <1> HIDE DEF counts
  <1>3. \/ state' = table
        \/ table[p] = "WAITING" /\ state' = [table EXCEPT ![p] = Verdict(counts)]
    <2> HIDE DEF table
    <2> QED BY <1>1, Zenon DEF UpdateParentAfterChild, counts
  <1>4. CASE state' = table
    BY <1>4 DEF OwnTypes
  <1>5. CASE table[p] = "WAITING" /\ state' = [table EXCEPT ![p] = Verdict(counts)]
    BY <1>2, <1>5 DEF OwnTypes
  <1> QED BY <1>3, <1>4, <1>5

\* It takes its task out of the queue and puts none in.
LEMMA FinishUnqueues ==
    ASSUME OwnTypes, NEW t \in TaskId, NEW s \in Terminal, FinishTask(t, s)
    PROVE  Queued' = Queued \ {t}
  <1>1. "QUEUED" \notin Terminal
    BY DEF Terminal
  <1> QED BY <1>1, FinishTable DEF Queued

\* The ready queue and the table agree at first, ...
LEMMA ReadyInit == Init => ReadyInv
  BY DEF Init, ReadyInv, NoTaskStranded, BuiltinReadyExact, PolicyKnowsPriority, PolicyActive

\* ... and every step keeps them in agreement.
LEMMA ReadyStep == Base /\ ReadyInv /\ [Next]_vars => ReadyInv'
  <1> SUFFICES ASSUME OwnTypes, AdmissionProtocol, ReadyInv, [Next]_vars
               PROVE  ReadyInv'
    BY DEF Base
  <1>1. ASSUME NEW t \in TaskId, NEW parent \in CallerParents, NEW shots \in Shots,
               NEW prio \in Priorities, SubmitWhole(t, parent, shots, prio)
        PROVE  ReadyInv'
    BY <1>1, EnqueueReady DEF SubmitWhole, Enqueue, setupVars
  <1>2. ASSUME NEW t \in TaskId, NEW parent \in CallerParents, NEW shots \in Shots,
               NEW prio \in Priorities, NEW th \in Threads,
               SubmitWithCallback(th, t, parent, shots, prio)
        PROVE  ReadyInv'
    BY <1>2, KeepReady DEF SubmitWithCallback, Queued, tableVars, setupVars
  <1>3. ASSUME NEW th \in Threads, EstimateReturns(th) PROVE ReadyInv'
    <2>1. CASE /\ state[call[th].task] = "ABSENT"
               /\ Enqueue(call[th].task, call[th].desc, call[th].priority)
      <3>1. call[th].task \in TaskId
        BY <1>3 DEF EstimateReturns, AdmissionProtocol
      <3> QED BY <1>3, <2>1, <3>1, EnqueueReady DEF EstimateReturns, Enqueue, setupVars
    <2>2. CASE UNCHANGED <<tableVars, enqueueSeqNext, queuedCount, policyVars>>
      BY <1>3, <2>2, KeepReady DEF EstimateReturns, Queued, tableVars, setupVars
    <2> QED BY <1>3, <2>1, <2>2 DEF EstimateReturns, MayEnqueue
  <1>4. ASSUME NEW th \in Threads, NEW answer \in SplitAnswers, SplitReturns(th, answer)
        PROVE  ReadyInv'
    <2>0. UNCHANGED <<policy, policyVars>>
      BY <1>4 DEF SplitReturns, setupVars
    <2>1. CASE TableInsert(call[th].task, call[th].desc, call[th].priority, "WAITING")
      <3>1. call[th].task \in TaskId /\ state[call[th].task] = "ABSENT"
        BY <1>4 DEF SplitReturns, MaySplit, AdmissionProtocol
      <3>2. Queued' = Queued /\ \A u \in Queued : priority'[u] = priority[u]
        BY <2>1, <3>1 DEF TableInsert, Queued, OwnTypes
      <3> QED BY <2>0, <3>2, KeepReady
    <2>2. CASE UNCHANGED tableVars
      BY <2>0, <2>2, KeepReady DEF Queued, tableVars
    <2> QED BY <1>4, <2>1, <2>2 DEF SplitReturns
  <1>5. ASSUME NEW th \in Threads, SplitFails(th) PROVE ReadyInv'
    BY <1>5, KeepReady DEF SplitFails, Queued, tableVars, setupVars
  <1>6. ASSUME NEW th \in Threads, EnqueueChild(th) PROVE ReadyInv'
    <2> DEFINE t == call[th].children[call[th].next].id
    <2>1. lock = th /\ UNCHANGED policy
      BY <1>6 DEF EnqueueChild, setupVars
    <2>2. t \in TaskId /\ state[t] = "ABSENT"
      <3>1. call[th].next \in 1..Len(call[th].children) /\ Len(call[th].children) \in Nat
        BY <2>1, ChildAt
      <3>2. ~(call[th].next < call[th].next)
        BY <3>1
      <3> QED BY <2>1, <3>1, <3>2, ThreadAssumption DEF AdmissionProtocol, PartlyAdmitted
    <2>3. \E d, prio : EnqueueOk(t, d, prio) \/ EnqueueFailed
      BY <1>6 DEF EnqueueChild
    <2> QED BY <2>1, <2>2, <2>3, EnqueueReady
  <1>7. ASSUME NEW th \in Threads, RollbackChild(th) PROVE ReadyInv'
    <2> DEFINE t == call[th].children[call[th].next - 1].id
    <2>1. /\ lock = th /\ call[th].next # 1
          /\ PolicyForget(t) /\ TableRemove(t) /\ UNCHANGED policy
      BY <1>7 DEF RollbackChild, RollbackDone, setupVars
    <2>2. t \in TaskId
      <3>1. call[th].next \in 1..Len(call[th].children) /\ Len(call[th].children) \in Nat
        BY <2>1, ChildAt
      <3>2. call[th].next - 1 \in 1..Len(call[th].children)
        BY <2>1, <3>1
      <3> QED BY <2>1, <3>2, ChildAt
    <2>3. Queued' = Queued \ {t} /\ \A u \in TaskId : u # t => priority'[u] = priority[u]
      BY <2>1, <2>2 DEF TableRemove, Queued, OwnTypes
    <2> QED BY <2>1, <2>2, <2>3, LeaveReady
  <1>8. ASSUME NEW th \in Threads, RollbackParent(th) PROVE ReadyInv'
    <2>1. call[th].task \in TaskId /\ state[call[th].task] = "WAITING"
      BY <1>8, ChildAt, ThreadAssumption DEF RollbackParent, AdmissionProtocol, PartlyAdmitted
    <2>2. Queued' = Queued /\ \A u \in Queued : priority'[u] = priority[u]
      BY <1>8, <2>1 DEF RollbackParent, TableRemove, Queued, OwnTypes
    <2> QED BY <1>8, <2>2, KeepReady DEF RollbackParent, setupVars
  <1>9. ASSUME NEW t \in TaskId, SelectNext(t) PROVE ReadyInv'
    <2>1. Queued' = Queued \ {t}
      <3>1. CASE Assignable(t)
        BY <1>9, <3>1 DEF SelectNext, Queued, OwnTypes
      <3>2. CASE ~Assignable(t)
        BY <1>9, <3>2 DEF SelectNext, Assignable, Queued
      <3> QED BY <3>1, <3>2
    <2> QED BY <1>9, <2>1, LeaveReady DEF SelectNext, PolicyForget, setupVars
  <1>10. ASSUME NEW t \in TaskId, TaskStarted(t) PROVE ReadyInv'
    <2>1. UNCHANGED <<policy, policyVars, priority>>
      BY <1>10 DEF TaskStarted, setupVars
    <2>2. CASE state' = state
      BY <2>1, <2>2, KeepReady DEF Queued
    <2>3. CASE state' = [state EXCEPT ![t] = "RUNNING"] /\ state[t] = "ASSIGNED"
      <3>1. Queued' = Queued
        BY <2>3 DEF Queued, OwnTypes
      <3> QED BY <2>1, <3>1, KeepReady
    <2>4. CASE ~PolicyActive
      BY <2>1, <2>4 DEF ReadyInv, NoTaskStranded, BuiltinReadyExact, PolicyKnowsPriority,
                        PolicyActive, policyVars
    <2> QED BY <1>10, <2>2, <2>3, <2>4 DEF TaskStarted, StartRefused
  <1>11. ASSUME NEW t \in TaskId, NEW prio \in Priorities, UpdatePriority(t, prio) PROVE ReadyInv'
    <2>1. UNCHANGED <<policy, state, ready>>
      BY <1>11 DEF UpdatePriority, setupVars
    <2>2. PolicyKnowsPriority'
      <3>1. CASE PriorityRefused(t, prio)
        BY <2>1, <3>1 DEF PriorityRefused, ReadyInv, PolicyKnowsPriority, Queued
      <3>2. CASE /\ priority' = [priority EXCEPT ![t] = prio]
                 /\ entryPriority' = IF t \in ready THEN [entryPriority EXCEPT ![t] = prio]
                                                    ELSE entryPriority
        BY <2>1, <3>2 DEF ReadyInv, PolicyKnowsPriority, Queued, OwnTypes
      <3> QED BY <1>11, <3>1, <3>2 DEF UpdatePriority
    <2> QED BY <2>1, <2>2 DEF ReadyInv, NoTaskStranded, BuiltinReadyExact, PolicyActive, Queued
  <1>12. ASSUME NEW t \in TaskId, NEW s \in Terminal, FinishTask(t, s) PROVE ReadyInv'
    BY <1>12, FinishUnqueues, LeaveReady DEF FinishTask, setupVars
  <1>13. ASSUME NEW kind \in PolicyKinds, NEW config \in SplitConfigs, SetPolicy(kind, config)
         PROVE  ReadyInv'
    <2>1. /\ policy' \in {"builtin", "plugin"} /\ Queued' = Queued /\ ready' = Queued
          /\ \A u \in Queued : entryPriority'[u] = priority'[u]
      BY <1>13, PolicyAssumption DEF SetPolicy, ReplayedTasks, Queued, tableVars
    <2> QED BY <2>1 DEF ReadyInv, NoTaskStranded, BuiltinReadyExact, PolicyKnowsPriority
  <1>14. ASSUME NEW cbs \in CallbackSets, SetCallbacks(cbs) PROVE ReadyInv'
    BY <1>14, KeepReady DEF SetCallbacks, Queued, tableVars
  <1>15. CASE UNCHANGED vars
    BY <1>15, KeepReady DEF vars, tableVars, setupVars, Queued
  <1> QED BY <1>1, <1>2, <1>3, <1>4, <1>5, <1>6, <1>7, <1>8, <1>9, <1>10, <1>11, <1>12,
             <1>13, <1>14, <1>15 DEF Next, Submit, SubmitStep

\* No QUEUED task is lost to the active policy, whichever policies were installed
\* and whichever of their callbacks failed.
THEOREM NoTaskStrandedHolds == Spec => []NoTaskStranded
  <1>1. ReadyInv => NoTaskStranded
    BY DEF ReadyInv
  <1> QED BY <1>1, ReadyInit, ReadyStep, BaseInit, BaseStep, PTL DEF Spec

\* A built-in policy holds exactly the QUEUED tasks: no rollback, cancellation or
\* change of policy leaves an entry of a task that is gone.
THEOREM BuiltinReadyExactHolds == Spec => []BuiltinReadyExact
  <1>1. ReadyInv => BuiltinReadyExact
    BY DEF ReadyInv
  <1> QED BY <1>1, ReadyInit, ReadyStep, BaseInit, BaseStep, PTL DEF Spec

\* The priority a policy orders by is the one in the task's record, through
\* refused updates, rollbacks and replays.
THEOREM PolicyKnowsPriorityHolds == Spec => []PolicyKnowsPriority
  <1>1. ReadyInv => PolicyKnowsPriority
    BY DEF ReadyInv
  <1> QED BY <1>1, ReadyInit, ReadyStep, BaseInit, BaseStep, PTL DEF Spec

----------------------------------------------------------------------------
(* The order of arrival.  Sequence numbers are handed out in ascending     *)
(* order, so that a task that is enqueued comes after all others in the    *)
(* enqueue list and in the policy's queue alike; the replay of             *)
(* qhw_sched_set_policy turns the one order into the other.                *)

SeqInv ==
    /\ enqueueSeqNext > 0
    /\ \A t \in TaskId : enqueueSeq[t] < enqueueSeqNext
    /\ \A t \in ready : entrySeq[t] < entrySeqNext
    /\ \A t, u \in Queued : enqueueSeq[t] = enqueueSeq[u] => t = u

OrderInv == SeqInv /\ ArrivalOrderKept

\* A task that is enqueued comes last in both orders.
LEMMA EnqueueOrder ==
    ASSUME OwnTypes, ReadyInv, OrderInv, NEW t \in TaskId, NEW d, NEW prio, state[t] = "ABSENT",
           EnqueueOk(t, d, prio) \/ EnqueueFailed
    PROVE  OrderInv'
  <1>1. CASE EnqueueFailed
    <2>1. UNCHANGED <<state, enqueueSeq, ready, entrySeq, entrySeqNext>>
          /\ enqueueSeqNext' = enqueueSeqNext + 1
      BY <1>1 DEF EnqueueFailed, tableVars, policyVars
    <2>2. SeqInv'
      BY <2>1 DEF OrderInv, SeqInv, Queued, OwnTypes
    <2> QED BY <2>1, <2>2 DEF OrderInv, ArrivalOrderKept, Queued
  <1>2. CASE EnqueueOk(t, d, prio)
    <2>1. /\ state' = [state EXCEPT ![t] = "QUEUED"]
          /\ enqueueSeq' = [enqueueSeq EXCEPT ![t] = enqueueSeqNext]
          /\ enqueueSeqNext' = enqueueSeqNext + 1
      BY <1>2 DEF EnqueueOk, TableInsert
    <2>2. Queued' = Queued \cup {t} /\ t \notin Queued
      BY <2>1 DEF OwnTypes, Queued
    <2>3. /\ enqueueSeq'[t] = enqueueSeqNext
          /\ \A u \in TaskId : u # t => enqueueSeq'[u] = enqueueSeq[u]
      BY <2>1 DEF OwnTypes
    <2>4. /\ enqueueSeqNext' > 0
          /\ \A u \in TaskId : enqueueSeq'[u] < enqueueSeqNext'
          /\ \A u, v \in Queued' : enqueueSeq'[u] = enqueueSeq'[v] => u = v
      BY <2>1, <2>2, <2>3 DEF OrderInv, SeqInv, OwnTypes, Queued
    <2>5. CASE PolicyActive
      <3>1. /\ ready' = ready \cup {t}
            /\ entrySeq' = [entrySeq EXCEPT ![t] = entrySeqNext]
            /\ entrySeqNext' = entrySeqNext + 1
        BY <1>2, <2>5, Zenon DEF EnqueueOk, PolicyInsert
      <3>2. /\ entrySeq'[t] = entrySeqNext
            /\ \A u \in TaskId : u # t => entrySeq'[u] = entrySeq[u]
        BY <3>1 DEF OwnTypes
      <3>3. \A u \in ready' : entrySeq'[u] < entrySeqNext'
        BY <3>1, <3>2 DEF OrderInv, SeqInv, OwnTypes
      <3>4. \A u \in ready \cap Queued : entrySeq'[u] < entrySeq'[t] /\ enqueueSeq'[u] < enqueueSeq'[t]
        BY <2>2, <2>3, <3>1, <3>2 DEF OrderInv, SeqInv, OwnTypes
      <3>5. \A u, v \in ready \cap Queued :
               (entrySeq'[u] < entrySeq'[v]) <=> (enqueueSeq'[u] < enqueueSeq'[v])
        BY <2>2, <2>3, <3>1, <3>2 DEF OrderInv, ArrivalOrderKept, OwnTypes
      <3>6. /\ ready' \cap Queued' \subseteq (ready \cap Queued) \cup {t}
            /\ \A u \in TaskId : entrySeq'[u] \in Nat /\ enqueueSeq'[u] \in Nat
        BY <2>1, <2>2, <3>1 DEF OwnTypes
      <3>7. ArrivalOrderKept'
        BY <3>4, <3>5, <3>6 DEF ArrivalOrderKept, Queued
      <3> QED BY <2>4, <3>3, <3>7 DEF OrderInv, SeqInv
    <2>6. CASE ~PolicyActive
      <3>1. ready' = {}
        BY <1>2, <2>6 DEF EnqueueOk, PolicyInsert, policyVars, ReadyInv, PolicyActive
      <3> QED BY <2>4, <3>1 DEF OrderInv, SeqInv, ArrivalOrderKept
    <2> QED BY <2>5, <2>6
  <1> QED BY <1>1, <1>2

\* A task that leaves the queue, with or without its entry, changes no order.
LEMMA LeaveOrder ==
    ASSUME OwnTypes, OrderInv, NEW t \in TaskId, Queued' \subseteq Queued,
           PolicyForget(t) \/ UNCHANGED policyVars,
           \A u \in TaskId : (enqueueSeq'[u] = enqueueSeq[u]) \/ (u \notin Queued' /\ enqueueSeq'[u] = 0),
           t \notin Queued' \/ UNCHANGED policyVars,
           UNCHANGED enqueueSeqNext
    PROVE  OrderInv'
  <1>1. /\ ready' \subseteq ready /\ entrySeqNext' = entrySeqNext
        /\ \A u \in ready' : entrySeq'[u] = entrySeq[u]
    <2>1. CASE PolicyDrop(t)
      BY <2>1 DEF PolicyDrop, OwnTypes
    <2>2. CASE UNCHANGED policyVars
      BY <2>2 DEF policyVars
    <2> QED BY <2>1, <2>2 DEF PolicyForget
  <1>2. SeqInv'
    BY <1>1 DEF OrderInv, SeqInv, Queued, OwnTypes
  <1>3. ArrivalOrderKept'
    BY <1>1 DEF OrderInv, ArrivalOrderKept, Queued, OwnTypes
  <1> QED BY <1>2, <1>3 DEF OrderInv

\* The rank of a queued task among the queued ones follows its sequence number.
LEMMA RankFollowsSeq ==
    ASSUME OwnTypes, NEW t \in Queued, NEW u \in Queued
    PROVE  /\ (ReplayRank(t) < ReplayRank(u)) <=> (enqueueSeq[t] < enqueueSeq[u])
           /\ ReplayRank(t) \in 1..Cardinality(Queued)
  <1> DEFINE UpTo(x) == {y \in Queued : enqueueSeq[y] <= enqueueSeq[x]}
  <1>0. \A x \in Queued : enqueueSeq[x] \in Nat
    BY DEF OwnTypes, Queued
  <1>1. ASSUME NEW x \in Queued
        PROVE  /\ IsFiniteSet(UpTo(x)) /\ ReplayRank(x) = Cardinality(UpTo(x))
               /\ Cardinality(UpTo(x)) \in 1..Cardinality(Queued)
    <2>1. IsFiniteSet(Queued) /\ IsFiniteSet(UpTo(x)) /\ UpTo(x) \subseteq Queued
      BY QueuedFinite
    <2>2. Cardinality(UpTo(x)) <= Cardinality(Queued) /\ Cardinality(UpTo(x)) \in Nat
          /\ Cardinality(Queued) \in Nat
      BY <2>1, FS_Subset, FS_CardinalityType
    <2>3. x \in UpTo(x)
      BY <1>0
    <2>4. Cardinality(UpTo(x)) # 0
      BY <2>1, <2>3, FS_EmptySet
    <2> QED BY <2>1, <2>2, <2>4 DEF ReplayRank
  <1>2. ASSUME NEW x \in Queued, NEW y \in Queued, enqueueSeq[x] < enqueueSeq[y]
        PROVE  Cardinality(UpTo(x)) < Cardinality(UpTo(y))
    <2>1. UpTo(x) \subseteq UpTo(y) /\ y \in UpTo(y) /\ y \notin UpTo(x)
      BY <1>0, <1>2
    <2>2. UpTo(x) # UpTo(y)
      BY <2>1
    <2> HIDE DEF UpTo
    <2>3. Cardinality(UpTo(x)) <= Cardinality(UpTo(y)) /\ Cardinality(UpTo(x)) # Cardinality(UpTo(y))
      BY <1>1, <2>1, <2>2, FS_Subset
    <2> QED BY <1>1, <2>3
  <1>3. ASSUME NEW x \in Queued, NEW y \in Queued, ~(enqueueSeq[x] < enqueueSeq[y])
        PROVE  ~(Cardinality(UpTo(x)) < Cardinality(UpTo(y)))
    <2>1. UpTo(y) \subseteq UpTo(x)
      BY <1>0, <1>3
    <2> HIDE DEF UpTo
    <2>2. Cardinality(UpTo(y)) <= Cardinality(UpTo(x))
      BY <1>1, <2>1, FS_Subset
    <2> QED BY <1>1, <2>2
  <1> HIDE DEF UpTo
  <1> QED BY <1>1, <1>2, <1>3

\* qhw_sched_set_policy: the replay hands the tasks over in enqueue order.
LEMMA ReplayOrder ==
    ASSUME OwnTypes, OrderInv, NEW kind, NEW config, SetPolicy(kind, config)
    PROVE  OrderInv'
  <1>1. /\ UNCHANGED <<state, enqueueSeq, enqueueSeqNext>> /\ ready' = Queued /\ Queued' = Queued
        /\ \A t \in Queued : entrySeq'[t] = ReplayRank(t)
        /\ entrySeqNext' = Cardinality(Queued) + 1
    BY DEF SetPolicy, ReplayedTasks, Queued, tableVars
  <1>2. \A t \in ready' : entrySeq'[t] < entrySeqNext'
    <2>1. Cardinality(Queued) \in Nat
      BY QueuedFinite
    <2> QED BY <1>1, <2>1, RankFollowsSeq
  <1>3. ArrivalOrderKept'
    BY <1>1, RankFollowsSeq DEF ArrivalOrderKept
  <1> QED BY <1>1, <1>2, <1>3 DEF OrderInv, SeqInv

\* The order holds in an empty table, ...
LEMMA OrderInit == Init => OrderInv
  BY DEF Init, OrderInv, SeqInv, ArrivalOrderKept, Queued

\* ... and every step keeps it.
LEMMA OrderStep == Base /\ ReadyInv /\ OrderInv /\ [Next]_vars => OrderInv'
  <1> SUFFICES ASSUME OwnTypes, AdmissionProtocol, ReadyInv, OrderInv, [Next]_vars
               PROVE  OrderInv'
    BY DEF Base
  <1>0. ASSUME UNCHANGED <<tableVars, enqueueSeqNext, policyVars>> PROVE OrderInv'
    BY <1>0 DEF OrderInv, SeqInv, ArrivalOrderKept, Queued, tableVars, policyVars
  <1>1. ASSUME NEW t \in TaskId, NEW parent \in CallerParents, NEW shots \in Shots,
               NEW prio \in Priorities, SubmitWhole(t, parent, shots, prio)
        PROVE  OrderInv'
    BY <1>1, EnqueueOrder DEF SubmitWhole, Enqueue
  <1>2. ASSUME NEW t \in TaskId, NEW parent \in CallerParents, NEW shots \in Shots,
               NEW prio \in Priorities, NEW th \in Threads,
               SubmitWithCallback(th, t, parent, shots, prio)
        PROVE  OrderInv'
    BY <1>0, <1>2 DEF SubmitWithCallback
  <1>3. ASSUME NEW th \in Threads, EstimateReturns(th) PROVE OrderInv'
    <2>1. CASE /\ state[call[th].task] = "ABSENT"
               /\ Enqueue(call[th].task, call[th].desc, call[th].priority)
      <3>1. call[th].task \in TaskId
        BY <1>3 DEF EstimateReturns, AdmissionProtocol
      <3> QED BY <2>1, <3>1, EnqueueOrder DEF Enqueue
    <2>2. CASE UNCHANGED <<tableVars, enqueueSeqNext, queuedCount, policyVars>>
      BY <1>0, <2>2
    <2> QED BY <1>3, <2>1, <2>2 DEF EstimateReturns, MayEnqueue
  <1>4. ASSUME NEW th \in Threads, NEW answer \in SplitAnswers, SplitReturns(th, answer)
        PROVE  OrderInv'
    <2>0. UNCHANGED <<ready, entrySeq, entrySeqNext>> /\ enqueueSeqNext' = enqueueSeqNext + 1
      BY <1>4 DEF SplitReturns, policyVars
    <2>1. CASE TableInsert(call[th].task, call[th].desc, call[th].priority, "WAITING")
      <3>1. call[th].task \in TaskId /\ state[call[th].task] = "ABSENT"
        BY <1>4 DEF SplitReturns, MaySplit, AdmissionProtocol
      <3>2. /\ Queued' = Queued /\ call[th].task \notin Queued
            /\ enqueueSeq'[call[th].task] = enqueueSeqNext
            /\ \A u \in TaskId : u # call[th].task => enqueueSeq'[u] = enqueueSeq[u]
        BY <2>1, <3>1 DEF TableInsert, Queued, OwnTypes
      <3>3. SeqInv'
        <4>1. \A u \in TaskId : enqueueSeq'[u] < enqueueSeqNext'
          BY <2>0, <3>1, <3>2 DEF OrderInv, SeqInv, OwnTypes
        <4>2. \A u, v \in Queued' : enqueueSeq'[u] = enqueueSeq'[v] => u = v
          BY <3>1, <3>2 DEF OrderInv, SeqInv, Queued
        <4> QED BY <2>0, <4>1, <4>2 DEF OrderInv, SeqInv, OwnTypes
      <3>4. ArrivalOrderKept'
        BY <2>0, <3>1, <3>2 DEF OrderInv, ArrivalOrderKept, Queued
      <3> QED BY <3>3, <3>4 DEF OrderInv
    <2>2. CASE UNCHANGED tableVars
      <3>1. SeqInv'
        BY <2>0, <2>2 DEF OrderInv, SeqInv, Queued, OwnTypes, tableVars
      <3> QED BY <2>0, <2>2, <3>1 DEF OrderInv, ArrivalOrderKept, Queued, tableVars
    <2> QED BY <1>4, <2>1, <2>2 DEF SplitReturns
  <1>5. ASSUME NEW th \in Threads, SplitFails(th) PROVE OrderInv'
    BY <1>0, <1>5 DEF SplitFails
  <1>6. ASSUME NEW th \in Threads, EnqueueChild(th) PROVE OrderInv'
    <2> DEFINE t == call[th].children[call[th].next].id
    <2>1. lock = th
      BY <1>6 DEF EnqueueChild
    <2>2. t \in TaskId /\ state[t] = "ABSENT"
      <3>1. call[th].next \in 1..Len(call[th].children) /\ Len(call[th].children) \in Nat
        BY <2>1, ChildAt
      <3>2. ~(call[th].next < call[th].next)
        BY <3>1
      <3> QED BY <2>1, <3>1, <3>2, ThreadAssumption DEF AdmissionProtocol, PartlyAdmitted
    <2>3. \E d, prio : EnqueueOk(t, d, prio) \/ EnqueueFailed
      BY <1>6 DEF EnqueueChild
    <2> QED BY <2>2, <2>3, EnqueueOrder
  <1>7. ASSUME NEW th \in Threads, RollbackChild(th) PROVE OrderInv'
    <2> DEFINE t == call[th].children[call[th].next - 1].id
    <2>1. /\ lock = th /\ call[th].next # 1 /\ PolicyForget(t) /\ TableRemove(t)
          /\ UNCHANGED enqueueSeqNext
      BY <1>7 DEF RollbackChild, RollbackDone
    <2>2. t \in TaskId
      <3>1. call[th].next \in 1..Len(call[th].children) /\ Len(call[th].children) \in Nat
        BY <2>1, ChildAt
      <3>2. call[th].next - 1 \in 1..Len(call[th].children)
        BY <2>1, <3>1
      <3> QED BY <2>1, <3>2, ChildAt
    <2>3. /\ Queued' \subseteq Queued /\ t \notin Queued' /\ enqueueSeq'[t] = 0
          /\ \A u \in TaskId : u # t => enqueueSeq'[u] = enqueueSeq[u]
      BY <2>1, <2>2 DEF TableRemove, Queued, OwnTypes
    <2> QED BY <2>1, <2>2, <2>3, LeaveOrder
  <1>8. ASSUME NEW th \in Threads, RollbackParent(th) PROVE OrderInv'
    <2>1. call[th].task \in TaskId /\ state[call[th].task] = "WAITING"
      BY <1>8, ChildAt, ThreadAssumption DEF RollbackParent, AdmissionProtocol, PartlyAdmitted
    <2>2. /\ Queued' \subseteq Queued /\ call[th].task \notin Queued' /\ enqueueSeq'[call[th].task] = 0
          /\ \A u \in TaskId : u # call[th].task => enqueueSeq'[u] = enqueueSeq[u]
      BY <1>8, <2>1 DEF RollbackParent, TableRemove, Queued, OwnTypes
    <2> QED BY <1>8, <2>1, <2>2, LeaveOrder DEF RollbackParent
  <1>9. ASSUME NEW t \in TaskId, SelectNext(t) PROVE OrderInv'
    <2>1. Queued' = Queued \ {t}
      <3>1. CASE Assignable(t)
        BY <1>9, <3>1 DEF SelectNext, Queued, OwnTypes
      <3>2. CASE ~Assignable(t)
        BY <1>9, <3>2 DEF SelectNext, Assignable, Queued
      <3> QED BY <3>1, <3>2
    <2> QED BY <1>9, <2>1, LeaveOrder DEF SelectNext, PolicyForget
  <1>10. ASSUME NEW t \in TaskId, TaskStarted(t) PROVE OrderInv'
    <2>1. UNCHANGED <<policyVars, enqueueSeq, enqueueSeqNext>>
      BY <1>10 DEF TaskStarted
    <2>2. Queued' \subseteq Queued
      BY <1>10 DEF TaskStarted, StartRefused, Queued, OwnTypes
    <2> QED BY <2>1, <2>2, LeaveOrder
  <1>11. ASSUME NEW t \in TaskId, NEW prio \in Priorities, UpdatePriority(t, prio) PROVE OrderInv'
    BY <1>11 DEF UpdatePriority, OrderInv, SeqInv, ArrivalOrderKept, Queued
  <1>12. ASSUME NEW t \in TaskId, NEW s \in Terminal, FinishTask(t, s) PROVE OrderInv'
    <2>1. PolicyForget(t) /\ UNCHANGED <<enqueueSeq, enqueueSeqNext>>
      BY <1>12 DEF FinishTask
    <2>2. Queued' \subseteq Queued /\ t \notin Queued'
      BY <1>12, FinishUnqueues
    <2> QED BY <2>1, <2>2, LeaveOrder
  <1>13. ASSUME NEW kind \in PolicyKinds, NEW config \in SplitConfigs, SetPolicy(kind, config)
         PROVE  OrderInv'
    BY <1>13, ReplayOrder
  <1>14. ASSUME NEW cbs \in CallbackSets, SetCallbacks(cbs) PROVE OrderInv'
    BY <1>0, <1>14 DEF SetCallbacks
  <1>15. CASE UNCHANGED vars
    BY <1>0, <1>15 DEF vars
  <1> QED BY <1>1, <1>2, <1>3, <1>4, <1>5, <1>6, <1>7, <1>8, <1>9, <1>10, <1>11, <1>12,
             <1>13, <1>14, <1>15 DEF Next, Submit, SubmitStep

\* The policy knows the waiting tasks in the order of their arrival, through
\* rollbacks that spend sequence numbers and through every change of policy.
THEOREM ArrivalOrderHolds == Spec => []ArrivalOrderKept
  <1>1. OrderInv => ArrivalOrderKept
    BY DEF OrderInv
  <1> QED BY <1>1, OrderInit, OrderStep, ReadyInit, ReadyStep, BaseInit, BaseStep, PTL DEF Spec

----------------------------------------------------------------------------
(* Admission under the plan of the moment.                                 *)

\* A step that makes no record where there was none admits nothing.
LEMMA NothingAdmitted ==
    ASSUME \A t \in TaskId : state[t] = "ABSENT" => state'[t] = "ABSENT"
    PROVE  AdmitsByPlan
  BY DEF AdmitsByPlan

\* enqueue_task_locked, for a slice or for a task that stays whole now.
LEMMA EnqueueAdmits ==
    ASSUME OwnTypes, NEW t \in TaskId, NEW d \in DescType, NEW prio, Enqueue(t, d, prio),
           d.slice \/ PlanFor(d.shots).kind = "whole"
    PROVE  AdmitsByPlan
  <1>1. CASE EnqueueOk(t, d, prio)
    <2>1. state' = [state EXCEPT ![t] = "QUEUED"] /\ desc' = [desc EXCEPT ![t] = d]
      BY <1>1 DEF EnqueueOk, TableInsert
    <2>2. /\ state'[t] = "QUEUED" /\ desc'[t] = d
          /\ \A u \in TaskId \ {t} : state'[u] = state[u]
      BY <2>1 DEF OwnTypes
    <2> QED BY <2>2 DEF AdmitsByPlan
  <1>2. CASE EnqueueFailed
    BY <1>2, NothingAdmitted DEF EnqueueFailed, tableVars
  <1> QED BY <1>1, <1>2 DEF Enqueue

\* submit_split_task_locked inserts the parent of the slices that were validated
\* against the plan, and the plan is the one of this moment.
LEMMA SplitAdmits ==
    ASSUME OwnTypes, AdmissionProtocol, NEW th \in Threads, NEW answer \in SplitAnswers,
           SplitReturns(th, answer)
    PROVE  AdmitsByPlan
  <1> DEFINE c == call[th]
             children == ChildrenOf(th, answer)
  <1>1. /\ c.task \in TaskId /\ state[c.task] = "ABSENT" /\ c.plan.kind = "split"
        /\ PlanFor(c.desc.shots) = c.plan
        /\ ValidChildTasks(c.task, children, c.plan, c.desc.shots, Present)
    BY DEF SplitReturns, MaySplit, AdmissionProtocol
  <1>2. /\ children \in Seq(ChildType) /\ Len(children) = Len(answer) /\ Len(answer) \in Nat
        /\ DOMAIN children = 1..Len(answer)
    BY ChildrenType
  <1>3. Len(answer) = c.plan.slice_count
        /\ \A k \in 1..Len(answer) : children[k].shots <= c.plan.slice_shots
    <2>1. c.plan \in PlanType
      BY DEF OwnTypes, CallType
    <2> HIDE DEF children
    <2>2. Len(children) = c.plan.slice_count
          /\ \A k \in 1..c.plan.slice_count : children[k].shots \in 1..c.plan.slice_shots
      BY <1>1 DEF ValidChildTasks
    <2> QED BY <1>2, <2>1, <2>2 DEF PlanType
  <1>4. CASE TableInsert(c.task, c.desc, c.priority, "WAITING")
             /\ childCount' = [childCount EXCEPT ![c.task] = Len(answer)]
             /\ lock' = th
             /\ call' = [call EXCEPT ![th].children = children, ![th].next = 1]
    <2>1. call'[lock'].children = children
      <3> HIDE DEF children
      <3> QED BY <1>4 DEF OwnTypes, CallType
    <2>2. /\ state'[c.task] = "WAITING" /\ desc'[c.task] = c.desc
          /\ childCount'[c.task] = Len(answer)
          /\ \A u \in TaskId \ {c.task} : state'[u] = state[u]
      BY <1>1, <1>4 DEF TableInsert, OwnTypes
    <2> HIDE DEF children
    <2> QED BY <1>1, <1>2, <1>3, <2>1, <2>2 DEF AdmitsByPlan
  <1>5. CASE UNCHANGED tableVars
    BY <1>5, NothingAdmitted DEF tableVars
  <1> QED BY <1>4, <1>5 DEF SplitReturns

\* Every step admits by the plan of the moment, if it admits a task at all.
LEMMA AdmitStep == Base /\ [Next]_vars => [AdmitsByPlan]_vars
  <1> SUFFICES ASSUME OwnTypes, AdmissionProtocol, Next PROVE AdmitsByPlan
    BY DEF Base
  <1>1. ASSUME NEW t \in TaskId, NEW parent \in CallerParents, NEW shots \in Shots,
               NEW prio \in Priorities, SubmitWhole(t, parent, shots, prio)
        PROVE  AdmitsByPlan
    <2> DEFINE d == [parent |-> parent, shots |-> shots, slice |-> FALSE]
    <2>1. d \in DescType /\ d.shots = shots
      BY SubmittedType
    <2> QED BY <1>1, <2>1, EnqueueAdmits DEF SubmitWhole
  <1>2. ASSUME NEW t \in TaskId, NEW parent \in CallerParents, NEW shots \in Shots,
               NEW prio \in Priorities, NEW th \in Threads,
               SubmitWithCallback(th, t, parent, shots, prio)
        PROVE  AdmitsByPlan
    BY <1>2, NothingAdmitted DEF SubmitWithCallback, tableVars
  <1>3. ASSUME NEW th \in Threads, EstimateReturns(th) PROVE AdmitsByPlan
    <2>1. CASE MayEnqueue(th) /\ Enqueue(call[th].task, call[th].desc, call[th].priority)
      <3>1. call[th].task \in TaskId /\ call[th].desc \in DescType
        BY <1>3 DEF EstimateReturns, AdmissionProtocol, OwnTypes, CallType
      <3> QED BY <2>1, <3>1, EnqueueAdmits DEF MayEnqueue
    <2>2. CASE UNCHANGED <<tableVars, enqueueSeqNext, queuedCount, policyVars>>
      BY <2>2, NothingAdmitted DEF tableVars
    <2> QED BY <1>3, <2>1, <2>2 DEF EstimateReturns
  <1>4. ASSUME NEW th \in Threads, NEW answer \in SplitAnswers, SplitReturns(th, answer)
        PROVE  AdmitsByPlan
    BY <1>4, SplitAdmits
  <1>5. ASSUME NEW th \in Threads, SplitFails(th) PROVE AdmitsByPlan
    BY <1>5, NothingAdmitted DEF SplitFails, tableVars
  <1>6. ASSUME NEW th \in Threads, EnqueueChild(th) PROVE AdmitsByPlan
    <2> DEFINE child == call[th].children[call[th].next]
               d == [parent |-> child.parent, shots |-> child.shots, slice |-> TRUE]
    <2>1. lock = th /\ \E prio : Enqueue(child.id, d, prio)
      BY <1>6 DEF EnqueueChild, Enqueue
    <2>2. child.id \in TaskId /\ d \in DescType /\ d.slice
      BY <2>1, ChildAt
    <2> QED BY <2>1, <2>2, EnqueueAdmits
  <1>7. ASSUME NEW th \in Threads, RollbackChild(th) PROVE AdmitsByPlan
    BY <1>7, NothingAdmitted DEF RollbackChild, TableRemove, OwnTypes
  <1>8. ASSUME NEW th \in Threads, RollbackParent(th) PROVE AdmitsByPlan
    BY <1>8, NothingAdmitted DEF RollbackParent, TableRemove, OwnTypes
  <1>9. ASSUME NEW t \in TaskId, SelectNext(t) PROVE AdmitsByPlan
    <2>1. CASE Assignable(t)
      BY <1>9, <2>1, NothingAdmitted DEF SelectNext, Assignable, OwnTypes
    <2>2. CASE ~Assignable(t)
      BY <1>9, <2>2, NothingAdmitted DEF SelectNext
    <2> QED BY <2>1, <2>2
  <1>10. ASSUME NEW t \in TaskId, TaskStarted(t) PROVE AdmitsByPlan
    BY <1>10, NothingAdmitted DEF TaskStarted, StartRefused, OwnTypes
  <1>11. ASSUME NEW t \in TaskId, NEW prio \in Priorities, UpdatePriority(t, prio)
         PROVE  AdmitsByPlan
    BY <1>11, NothingAdmitted DEF UpdatePriority
  <1>12. ASSUME NEW t \in TaskId, NEW s \in Terminal, FinishTask(t, s) PROVE AdmitsByPlan
    <2>1. state[t] # "ABSENT"
      BY <1>12 DEF FinishTask
    <2> QED BY <1>12, <2>1, FinishTable, NothingAdmitted
  <1>13. ASSUME NEW kind \in PolicyKinds, NEW config \in SplitConfigs, SetPolicy(kind, config)
         PROVE  AdmitsByPlan
    BY <1>13, NothingAdmitted DEF SetPolicy, tableVars
  <1>14. ASSUME NEW cbs \in CallbackSets, SetCallbacks(cbs) PROVE AdmitsByPlan
    BY <1>14, NothingAdmitted DEF SetCallbacks, tableVars
  <1> QED BY <1>1, <1>2, <1>3, <1>4, <1>5, <1>6, <1>7, <1>8, <1>9, <1>10, <1>11, <1>12,
             <1>13, <1>14 DEF Next, Submit, SubmitStep

\* Whatever options and callbacks are installed while a callback of a submission
\* runs without the mutex, its task is admitted under the plan of the moment.
THEOREM AdmittedUnderCurrentPlanHolds == Spec => AdmittedUnderCurrentPlan
  BY AdmitStep, BaseInit, BaseStep, PTL DEF Spec, AdmittedUnderCurrentPlan

----------------------------------------------------------------------------
(* The slices of a split request.  This part holds whatever parents the    *)
(* callers name: a task is a slice only when the admission loop made it.   *)

\* There is nothing in a record that is not in use; slices have a parent with
\* children, and are none themselves.
SlicesBelong ==
    \A t \in TaskId :
        /\ state[t] = "ABSENT" => ~desc[t].slice /\ childCount[t] = 0
        /\ desc[t].slice => /\ childCount[t] = 0 /\ desc[t].parent \in TaskId
                            /\ childCount[desc[t].parent] > 0

\* Tasks whose submission is in flight are no slices.
CallsNoSlices == \A th \in Threads : ~call[th].desc.slice

\* The tasks in S are the first n children, and their records hold the shots of
\* these.
AdmittedAs(children, n, S, records) ==
    /\ \A t \in S : \E k \in 1..n : t = children[k].id
    /\ \A k \in 1..n : children[k].id \in S /\ records[children[k].id].shots = children[k].shots

\* The slices admitted so far are the children before the loop index, with the
\* shots that were added up when the answer of the callback was checked.
AdmissionCarries ==
    lock # NoThread =>
        LET c == call[lock]
        IN  /\ childCount[c.task] = Len(c.children)
            /\ AdmittedAs(c.children, c.next - 1, SlicesOf(c.task), desc)
            /\ ShotsUpTo(c.children)[Len(c.children)] = desc[c.task].shots

\* The slices in S, taken one after the other, carry so many shots.
CarriedBy(n, S, records, shots) ==
    \E slices \in Bijection(1..n, S) :
        ShotsUpTo([k \in 1..n |-> records[slices[k]]])[n] = shots

CarryInv == SlicesBelong /\ CallsNoSlices /\ AdmissionCarries /\ SlicesCarryRequest

\* A total depends on nothing but the shots that are added.
LEMMA SameShotsSameTotal ==
    ASSUME NEW a, NEW b, Len(a) \in Nat, Len(b) = Len(a), \A i \in 1..Len(a) : a[i].shots = b[i].shots
    PROVE  ShotsUpTo(a) = ShotsUpTo(b)
  <1> DEFINE Solves(f, c) == f = [i \in 0..Len(c) |-> IF i = 0 THEN 0 ELSE f[i - 1] + c[i].shots]
  <1>1. ShotsUpTo(a) = CHOOSE f : Solves(f, a)
    BY DEF ShotsUpTo
  <1>2. ShotsUpTo(b) = CHOOSE f : Solves(f, b)
    BY DEF ShotsUpTo
  <1>3. ASSUME NEW f PROVE Solves(f, a) <=> Solves(f, b)
    <2>1. \A i \in 0..Len(a) : i # 0 => i \in 1..Len(a)
      OBVIOUS
    <2>2. [i \in 0..Len(a) |-> IF i = 0 THEN 0 ELSE f[i - 1] + a[i].shots]
            = [i \in 0..Len(b) |-> IF i = 0 THEN 0 ELSE f[i - 1] + b[i].shots]
      BY <2>1
    <2> QED BY <2>2
  <1> HIDE DEF Solves
  <1>4. (CHOOSE f : Solves(f, a)) = (CHOOSE f : Solves(f, b))
    BY <1>3
  <1> QED BY <1>1, <1>2, <1>4

\* Slices that keep their shots keep carrying the request.
LEMMA CarriedKept ==
    ASSUME NEW n \in Nat, NEW S, NEW f, NEW g, NEW shots, CarriedBy(n, S, f, shots),
           \A t \in S : g[t].shots = f[t].shots
    PROVE  CarriedBy(n, S, g, shots)
  <1>1. PICK slices \in Bijection(1..n, S) : ShotsUpTo([k \in 1..n |-> f[slices[k]]])[n] = shots
    BY DEF CarriedBy
  <1> DEFINE a == [k \in 1..n |-> f[slices[k]]]
             b == [k \in 1..n |-> g[slices[k]]]
  <1>2. \A k \in 1..n : slices[k] \in S
    BY DEF Bijection, Injection
  <1>3. Len(a) = n /\ Len(b) = n /\ \A k \in 1..n : a[k].shots = b[k].shots
    BY <1>2
  <1> HIDE DEF a, b
  <1>4. ShotsUpTo(a) = ShotsUpTo(b)
    BY <1>3, SameShotsSameTotal
  <1>5. ShotsUpTo(b)[n] = shots
    BY <1>1, <1>4 DEF a
  <1> QED BY <1>5 DEF CarriedBy, b

\* The slices of an admission that is complete carry what its children carry.
LEMMA CarriedInFull ==
    ASSUME NEW n \in Nat, NEW children, Len(children) = n, NEW f, NEW S,
           AdmittedAs(children, n, S, f),
           \A j, k \in 1..n : j # k => children[j].id # children[k].id
    PROVE  CarriedBy(n, S, f, ShotsUpTo(children)[n])
  <1> DEFINE slices == [k \in 1..n |-> children[k].id]
             b == [k \in 1..n |-> f[slices[k]]]
  <1> USE DEF AdmittedAs
  <1>1. slices \in Bijection(1..n, S)
    <2>1. slices \in [1..n -> S]
      OBVIOUS
    <2>2. \A j, k \in 1..n : slices[j] = slices[k] => j = k
      OBVIOUS
    <2>3. \A t \in S : \E k \in 1..n : slices[k] = t
      OBVIOUS
    <2> HIDE DEF slices
    <2> QED BY <2>1, <2>2, <2>3 DEF Bijection, Injection, Surjection, IsInjective
  <1>2. Len(b) = n /\ \A k \in 1..n : b[k].shots = children[k].shots
    OBVIOUS
  <1> HIDE DEF b
  <1>3. ShotsUpTo(b) = ShotsUpTo(children)
    BY <1>2, SameShotsSameTotal
  <1> HIDE DEF slices
  <1> QED BY <1>1, <1>3 DEF CarriedBy, b

\* There are as many slices as are carried.
LEMMA CarriedCount ==
    ASSUME NEW n \in Nat, NEW S, NEW f, NEW shots, CarriedBy(n, S, f, shots)
    PROVE  Cardinality(S) = n
  BY FS_CountingElements DEF CarriedBy, ExistsBijection

\* A task without children, or without a record, has no slices.
LEMMA NoneBelong ==
    ASSUME SlicesBelong, NEW p \in TaskId, childCount[p] = 0 \/ state[p] = "ABSENT"
    PROVE  childCount[p] = 0 /\ SlicesOf(p) = {}
  <1>1. childCount[p] = 0
    BY DEF SlicesBelong
  <1> SUFFICES ASSUME NEW t \in SlicesOf(p) PROVE FALSE
    BY <1>1
  <1>2. t \in TaskId /\ desc[t].slice /\ desc[t].parent = p
    BY DEF SlicesOf
  <1> QED BY <1>1, <1>2 DEF SlicesBelong

\* What every step does to the parents it does not concern.
LEMMA OthersCarry ==
    ASSUME OwnTypes, OwnTypes', CarryInv,
           \A p \in TaskId : childCount'[p] > 0 /\ ~Admitting(p)' =>
               \/ CarriedBy(childCount'[p], SlicesOf(p)', desc', desc'[p].shots)
               \/ /\ ~Admitting(p) /\ childCount'[p] = childCount[p]
                  /\ SlicesOf(p)' = SlicesOf(p) /\ desc'[p].shots = desc[p].shots
                  /\ \A t \in SlicesOf(p) : desc'[t].shots = desc[t].shots
    PROVE  SlicesCarryRequest'
  <1> SUFFICES ASSUME NEW p \in TaskId, childCount'[p] > 0, ~Admitting(p)'
               PROVE  CarriedBy(childCount'[p], SlicesOf(p)', desc', desc'[p].shots)
    BY DEF SlicesCarryRequest, CarriedBy
  <1>1. CASE /\ ~Admitting(p) /\ childCount'[p] = childCount[p]
             /\ SlicesOf(p)' = SlicesOf(p) /\ desc'[p].shots = desc[p].shots
             /\ \A t \in SlicesOf(p) : desc'[t].shots = desc[t].shots
    <2>1. childCount[p] \in Nat /\ CarriedBy(childCount[p], SlicesOf(p), desc, desc[p].shots)
      BY <1>1 DEF CarryInv, SlicesCarryRequest, CarriedBy, OwnTypes
    <2>2. CarriedBy(childCount[p], SlicesOf(p), desc', desc[p].shots)
      BY <1>1, <2>1, CarriedKept
    <2> QED BY <1>1, <2>2
  <1> QED BY <1>1

----------------------------------------------------------------------------
(* What the steps do to the slices *)

\* A step that removes no record and changes no descriptor.
LEMMA QuietCarries ==
    ASSUME OwnTypes, OwnTypes', CarryInv, UNCHANGED <<desc, childCount, lock>>,
           lock = NoThread \/ UNCHANGED call, CallsNoSlices',
           \A t \in TaskId : state'[t] = "ABSENT" => state[t] = "ABSENT"
    PROVE  CarryInv'
  <1>1. \A p \in TaskId : SlicesOf(p)' = SlicesOf(p) /\ (Admitting(p)' <=> Admitting(p))
    BY DEF SlicesOf, Admitting
  <1>2. SlicesBelong'
    BY DEF CarryInv, SlicesBelong
  <1>3. AdmissionCarries'
    <2>1. CASE lock = NoThread
      BY <2>1 DEF AdmissionCarries
    <2>2. CASE UNCHANGED call
      BY <2>2 DEF CarryInv, AdmissionCarries, SlicesOf
    <2> QED BY <2>1, <2>2
  <1>4. SlicesCarryRequest'
    BY <1>1, OthersCarry
  <1> QED BY <1>2, <1>3, <1>4 DEF CarryInv

\* A task that is not a slice is enqueued.
LEMMA EnqueueWholeCarries ==
    ASSUME OwnTypes, OwnTypes', CarryInv, NEW t \in TaskId, NEW d, NEW prio,
           state[t] = "ABSENT", ~d.slice, EnqueueOk(t, d, prio),
           lock = NoThread, lock' = NoThread, CallsNoSlices'
    PROVE  CarryInv'
  <1>1. /\ state' = [state EXCEPT ![t] = "QUEUED"] /\ desc' = [desc EXCEPT ![t] = d]
        /\ childCount' = childCount
    BY DEF EnqueueOk, TableInsert
  <1>2. /\ state'[t] = "QUEUED" /\ desc'[t] = d
        /\ \A u \in TaskId \ {t} : state'[u] = state[u] /\ desc'[u] = desc[u]
    BY <1>1 DEF OwnTypes
  <1>3. ~desc[t].slice /\ childCount[t] = 0
    BY DEF CarryInv, SlicesBelong
  <1>4. \A p \in TaskId : /\ SlicesOf(p)' = SlicesOf(p) /\ t \notin SlicesOf(p)
                          /\ ~Admitting(p) /\ ~Admitting(p)'
    BY <1>2, <1>3 DEF SlicesOf, Admitting
  <1>5. SlicesBelong'
    BY <1>1, <1>2, <1>3 DEF CarryInv, SlicesBelong
  <1>6. AdmissionCarries'
    BY DEF AdmissionCarries
  <1>7. \A p \in TaskId : \A u \in SlicesOf(p) : desc'[u] = desc[u]
    BY <1>2, <1>4 DEF SlicesOf
  <1>8. SlicesCarryRequest'
    BY <1>1, <1>2, <1>3, <1>4, <1>7, OthersCarry DEF OwnTypes
  <1> QED BY <1>5, <1>6, <1>8 DEF CarryInv

\* submit_split_task_locked inserts the parent: its children are checked and
\* none is a slice yet.
LEMMA InsertParentCarries ==
    ASSUME OwnTypes, OwnTypes', CarryInv, NEW th \in Threads, NEW p \in TaskId, NEW d, NEW prio,
           state[p] = "ABSENT", ~d.slice, TableInsert(p, d, prio, "WAITING"),
           NEW n \in Nat, n > 0, childCount' = [childCount EXCEPT ![p] = n],
           lock = NoThread, lock' = th, CallsNoSlices',
           call'[th].task = p, call'[th].next = 1, Len(call'[th].children) = n,
           ShotsUpTo(call'[th].children)[n] = d.shots
    PROVE  CarryInv'
  <1>1. state' = [state EXCEPT ![p] = "WAITING"] /\ desc' = [desc EXCEPT ![p] = d]
    BY DEF TableInsert
  <1>2. /\ state'[p] = "WAITING" /\ desc'[p] = d /\ childCount'[p] = n
        /\ \A u \in TaskId \ {p} : /\ state'[u] = state[u] /\ desc'[u] = desc[u]
                                   /\ childCount'[u] = childCount[u]
    BY <1>1 DEF OwnTypes
  <1>3. ~desc[p].slice /\ childCount[p] = 0 /\ SlicesOf(p) = {}
    BY NoneBelong DEF CarryInv, SlicesBelong
  <1>4. \A q \in TaskId : /\ SlicesOf(q)' = SlicesOf(q) /\ p \notin SlicesOf(q)
                          /\ ~Admitting(q) /\ (Admitting(q)' <=> q = p)
    BY <1>2, <1>3, ThreadAssumption DEF SlicesOf, Admitting
  <1>5. SlicesBelong'
    <2>1. \A u \in TaskId : desc'[u].slice => u # p /\ desc[u].slice /\ desc'[u] = desc[u]
      BY <1>2
    <2> QED BY <1>2, <2>1 DEF CarryInv, SlicesBelong
  <1>6. AdmissionCarries'
    <2>1. 1..(1 - 1) = {}
      OBVIOUS
    <2>2. SlicesOf(p)' = {}
      BY <1>3, <1>4
    <2>3. AdmittedAs(call'[th].children, 1 - 1, SlicesOf(p)', desc')
      BY <2>1, <2>2 DEF AdmittedAs
    <2> QED BY <1>2, <2>3 DEF AdmissionCarries
  <1>7. \A q \in TaskId : \A u \in SlicesOf(q) : desc'[u] = desc[u]
    BY <1>2, <1>4 DEF SlicesOf
  <1>8. SlicesCarryRequest'
    BY <1>2, <1>4, <1>7, OthersCarry
  <1> QED BY <1>5, <1>6, <1>8 DEF CarryInv

\* A call that returns leaves nothing behind in its thread.
LEMMA ReturnNoSlices ==
    ASSUME OwnTypes, CallsNoSlices, NEW th \in Threads, Return(th)
    PROVE  CallsNoSlices'
  <1>1. ~NoCall.desc.slice
    BY DEF NoCall, NoDesc
  <1>2. \A x \in Threads : call'[x] = IF x = th THEN NoCall ELSE call[x]
    BY DEF Return, OwnTypes
  <1> QED BY <1>1, <1>2 DEF CallsNoSlices

\* The child at the loop index becomes one more slice; with the last one the
\* parent carries its request.
LEMMA EnqueueChildCarries ==
    ASSUME OwnTypes, OwnTypes', AdmissionProtocol, CarryInv, NEW th \in Threads, EnqueueChild(th)
    PROVE  CarryInv'
  <1> DEFINE c == call[th]
             child == c.children[c.next]
             d == [parent |-> child.parent, shots |-> child.shots, slice |-> TRUE]
  <1>0. lock = th /\ th # NoThread
    BY ThreadAssumption DEF EnqueueChild
  <1>1. /\ c.next \in 1..Len(c.children) /\ Len(c.children) \in Nat
        /\ c.task \in TaskId /\ child.id \in TaskId
    BY <1>0, ChildAt
  <1> PICK p \in TaskId, t \in TaskId, n \in Nat : p = c.task /\ t = child.id /\ n = c.next - 1
    BY <1>1
  <1>2. /\ state[p] = "WAITING" /\ t # p /\ child.parent = p /\ state[t] = "ABSENT"
        /\ \A j, k \in 1..Len(c.children) : j # k => c.children[j].id # c.children[k].id
    <2>1. ~(c.next < c.next)
      BY <1>1
    <2> QED BY <1>0, <1>1, <2>1 DEF AdmissionProtocol, PartlyAdmitted
  <1>3. /\ childCount[p] = Len(c.children)
        /\ \A u \in SlicesOf(p) : \E k \in 1..n : u = c.children[k].id
        /\ \A k \in 1..n : /\ c.children[k].id \in SlicesOf(p)
                           /\ desc[c.children[k].id].shots = c.children[k].shots
        /\ ShotsUpTo(c.children)[Len(c.children)] = desc[p].shots
    BY <1>0 DEF CarryInv, AdmissionCarries, AdmittedAs
  <1>4. CASE EnqueueFailed /\ UNCHANGED <<call, lock>>
    <2>1. UNCHANGED <<state, desc, childCount, lock, call>>
      BY <1>4 DEF EnqueueFailed, tableVars
    <2>2. CallsNoSlices'
      BY <2>1 DEF CarryInv, CallsNoSlices
    <2> QED BY <2>1, <2>2, QuietCarries
  <1>5. CASE \E prio \in Priorities : EnqueueOk(t, d, prio)
             /\ IF c.next = Len(c.children)
                THEN Return(th) /\ lock' = NoThread
                ELSE call' = [call EXCEPT ![th].next = @ + 1] /\ UNCHANGED <<pc, lock>>
    <2>1. /\ state' = [state EXCEPT ![t] = "QUEUED"] /\ desc' = [desc EXCEPT ![t] = d]
          /\ childCount' = childCount
      BY <1>5 DEF EnqueueOk, TableInsert
    <2>2. /\ state'[t] = "QUEUED" /\ desc'[t] = d /\ d.slice /\ d.parent = p
          /\ d.shots = child.shots
          /\ \A u \in TaskId \ {t} : state'[u] = state[u] /\ desc'[u] = desc[u]
      BY <1>2, <2>1 DEF OwnTypes
    <2> HIDE DEF d
    <2>3. ~desc[t].slice /\ childCount[t] = 0
      BY <1>2 DEF CarryInv, SlicesBelong
    <2>4. /\ SlicesOf(p)' = SlicesOf(p) \cup {t} /\ t \notin SlicesOf(p)
          /\ \A q \in TaskId \ {p} : SlicesOf(q)' = SlicesOf(q) /\ t \notin SlicesOf(q)
      BY <2>2, <2>3 DEF SlicesOf
    <2>5. \A q \in TaskId : \A u \in SlicesOf(q) : desc'[u] = desc[u]
      BY <2>2, <2>3 DEF SlicesOf
    <2>6. SlicesBelong'
      <3>1. childCount[p] > 0
        BY <1>1, <1>3
      <3> QED BY <2>1, <2>2, <2>3, <3>1 DEF CarryInv, SlicesBelong
    <2>7. n + 1 = c.next /\ \A k \in 1..(n + 1) : k = n + 1 \/ k \in 1..n
      BY <1>1
    <2>8. \A k \in 1..n : k \in 1..(n + 1)
      OBVIOUS
    <2>9. n + 1 \in 1..(n + 1)
      OBVIOUS
    <2>10. \A u \in SlicesOf(p)' : \E k \in 1..(n + 1) : u = c.children[k].id
      <3>1. t = c.children[n + 1].id
        BY <2>7
      <3> HIDE DEF c, child
      <3> QED BY <1>3, <2>4, <2>8, <2>9, <3>1
    <2>11. \A k \in 1..(n + 1) : /\ c.children[k].id \in SlicesOf(p)'
                                 /\ desc'[c.children[k].id].shots = c.children[k].shots
      <3>1. \A k \in 1..n : /\ c.children[k].id \in SlicesOf(p)'
                            /\ desc'[c.children[k].id].shots = c.children[k].shots
        BY <1>3, <2>4, <2>5
      <3>2. /\ c.children[n + 1].id \in SlicesOf(p)'
            /\ desc'[c.children[n + 1].id].shots = c.children[n + 1].shots
        BY <2>2, <2>4, <2>7
      <3> QED BY <2>7, <3>1, <3>2
    <2>a. AdmittedAs(c.children, n + 1, SlicesOf(p)', desc')
      BY <2>10, <2>11 DEF AdmittedAs
    <2>12. ShotsUpTo(c.children)[Len(c.children)] = desc'[p].shots
      BY <1>2, <1>3, <2>2
    <2>13. \A q \in TaskId : q # p => /\ childCount'[q] = childCount[q] /\ ~Admitting(q)
                                      /\ SlicesOf(q)' = SlicesOf(q)
                                      /\ \A u \in SlicesOf(q) : desc'[u].shots = desc[u].shots
      BY <1>0, <2>1, <2>4, <2>5 DEF Admitting
    <2>14. \A q \in TaskId : q # p /\ childCount'[q] > 0 => desc'[q].shots = desc[q].shots
      BY <2>1, <2>2, <2>3
    <2>15. CASE c.next = Len(c.children)
      <3>1. Return(th) /\ lock' = NoThread
        BY <1>5, <2>15
      <3>2. CallsNoSlices'
        BY <3>1, ReturnNoSlices DEF CarryInv
      <3>3. AdmissionCarries'
        BY <3>1 DEF AdmissionCarries
      <3>4. n + 1 = Len(c.children) /\ n + 1 \in Nat
        BY <2>7, <2>15
      <3>5. CarriedBy(n + 1, SlicesOf(p)', desc', ShotsUpTo(c.children)[n + 1])
        BY <1>2, <2>a, <3>4, CarriedInFull
      <3>6. CarriedBy(childCount'[p], SlicesOf(p)', desc', desc'[p].shots)
        BY <1>3, <2>1, <2>12, <3>4, <3>5
      <3>7. SlicesCarryRequest'
        BY <2>13, <2>14, <3>6, OthersCarry
      <3> QED BY <2>6, <3>2, <3>3, <3>7 DEF CarryInv
    <2>16. CASE c.next # Len(c.children)
      <3>1. call' = [call EXCEPT ![th].next = @ + 1] /\ lock' = th
        BY <1>0, <1>5, <2>16
      <3>2. /\ call'[th].task = p /\ call'[th].next = c.next + 1 /\ call'[th].children = c.children
            /\ \A x \in Threads : call'[x].desc = call[x].desc
        BY <3>1 DEF OwnTypes, CallType
      <3>3. CallsNoSlices'
        BY <3>2 DEF CarryInv, CallsNoSlices
      <3>4. call'[th].next - 1 = n + 1
        BY <2>7, <3>2
      <3>5. AdmissionCarries'
        BY <1>3, <2>1, <2>a, <2>12, <3>1, <3>2, <3>4 DEF AdmissionCarries
      <3>6. \A q \in TaskId : Admitting(q)' <=> q = p
        BY <1>0, <3>1, <3>2 DEF Admitting
      <3>7. SlicesCarryRequest'
        BY <2>13, <2>14, <3>6, OthersCarry
      <3> QED BY <2>6, <3>3, <3>5, <3>7 DEF CarryInv
    <2> QED BY <2>15, <2>16
  <1> QED BY <1>4, <1>5 DEF EnqueueChild

\* The rollback takes the last slice away again.
LEMMA RollbackChildCarries ==
    ASSUME OwnTypes, OwnTypes', AdmissionProtocol, CarryInv, NEW th \in Threads, RollbackChild(th)
    PROVE  CarryInv'
  <1> DEFINE c == call[th]
  <1>0. lock = th /\ th # NoThread /\ c.next # 1 /\ lock' = th
        /\ call' = [call EXCEPT ![th].next = @ - 1]
    BY ThreadAssumption DEF RollbackChild, RollbackDone
  <1>1. /\ c.next \in 1..Len(c.children) /\ Len(c.children) \in Nat /\ c.task \in TaskId
        /\ \A k \in 1..Len(c.children) : c.children[k].id \in TaskId
    BY <1>0, ChildAt
  <1>a. c.next - 1 \in Nat /\ c.next - 1 \in 1..Len(c.children) /\ c.next - 1 < c.next
    BY <1>0, <1>1
  <1>b. c.children[c.next - 1].id \in TaskId
    BY <1>1, <1>a
  <1> HIDE DEF c
  <1> PICK p \in TaskId, t \in TaskId, n \in Nat :
          p = c.task /\ n = c.next - 1 /\ t = c.children[n].id
    BY <1>1, <1>a, <1>b
  <1> USE DEF c
  <1>2. /\ t # p /\ TableRemove(t) /\ \A k \in 1..(n - 1) : c.children[k].id # t
    <2>1. TableRemove(t)
      BY DEF RollbackChild
    <2>2. PartlyAdmitted(c)
      BY <1>0 DEF AdmissionProtocol
    <2>3. \A k \in 1..(n - 1) : k \in 1..Len(c.children) /\ k # n
      BY <1>1
    <2> QED BY <1>a, <2>1, <2>2, <2>3 DEF PartlyAdmitted
  <1>3. /\ childCount[p] = Len(c.children)
        /\ \A u \in SlicesOf(p) : \E k \in 1..n : u = c.children[k].id
        /\ \A k \in 1..n : /\ c.children[k].id \in SlicesOf(p)
                           /\ desc[c.children[k].id].shots = c.children[k].shots
        /\ ShotsUpTo(c.children)[Len(c.children)] = desc[p].shots
    BY <1>0 DEF CarryInv, AdmissionCarries, AdmittedAs
  <1>4. n \in 1..n /\ \A k \in 1..n : k = n \/ k \in 1..(n - 1)
    BY <1>a
  <1>5. t \in SlicesOf(p)
    BY <1>3, <1>4
  <1>6. /\ desc[t].slice /\ desc[t].parent = p /\ childCount[t] = 0 /\ SlicesOf(t) = {}
        /\ \A q \in TaskId \ {p} : t \notin SlicesOf(q)
    BY <1>5, NoneBelong DEF SlicesOf, CarryInv, SlicesBelong
  <1>7. /\ state'[t] = "ABSENT" /\ desc'[t] = NoDesc /\ childCount'[t] = 0
        /\ \A u \in TaskId \ {t} : /\ state'[u] = state[u] /\ desc'[u] = desc[u]
                                   /\ childCount'[u] = childCount[u]
    BY <1>2 DEF TableRemove, OwnTypes
  <1>8. ~NoDesc.slice
    BY DEF NoDesc
  <1>9. \A q \in TaskId : SlicesOf(q)' = SlicesOf(q) \ {t}
    <2>1. \A u \in TaskId : desc'[u].slice <=> u # t /\ desc[u].slice
      BY <1>7, <1>8
    <2>2. \A u \in TaskId : desc'[u].slice => desc'[u].parent = desc[u].parent
      BY <1>7, <1>8
    <2> QED BY <2>1, <2>2, Zenon DEF SlicesOf
  <1>10. SlicesBelong'
    <2> SUFFICES ASSUME NEW u \in TaskId
                 PROVE  /\ state'[u] = "ABSENT" => ~desc'[u].slice /\ childCount'[u] = 0
                        /\ desc'[u].slice => /\ childCount'[u] = 0 /\ desc'[u].parent \in TaskId
                                             /\ childCount'[desc'[u].parent] > 0
      BY DEF SlicesBelong
    <2>1. CASE u = t
      BY <1>7, <1>8, <2>1
    <2>2. CASE u # t
      <3>1. state'[u] = state[u] /\ desc'[u] = desc[u] /\ childCount'[u] = childCount[u]
        BY <1>7, <2>2
      <3>2. desc[u].slice => desc[u].parent # t
        BY <1>6 DEF CarryInv, SlicesBelong
      <3> QED BY <1>7, <3>1, <3>2 DEF CarryInv, SlicesBelong
    <2> QED BY <2>1, <2>2
  <1>11. /\ call'[th].task = p /\ call'[th].next = n /\ call'[th].children = c.children
         /\ \A x \in Threads : call'[x].desc = call[x].desc
    BY <1>0 DEF OwnTypes, CallType
  <1>12. CallsNoSlices'
    BY <1>11 DEF CarryInv, CallsNoSlices
  <1>13. AdmissionCarries'
    <2>1. \A k \in 1..(n - 1) : k \in 1..n
      OBVIOUS
    <2>2. SlicesOf(p)' = SlicesOf(p) \ {t}
      BY <1>9
    <2>3. \A u \in SlicesOf(p)' : \E k \in 1..(n - 1) : u = c.children[k].id
      BY <1>3, <1>4, <2>2
    <2>a. \A k \in 1..(n - 1) : /\ c.children[k].id \in SlicesOf(p)'
                                /\ desc'[c.children[k].id].shots = c.children[k].shots
      <3>1. \A k \in 1..(n - 1) : c.children[k].id \in SlicesOf(p) /\ c.children[k].id \in TaskId \ {t}
        BY <1>2, <1>3, <2>1 DEF SlicesOf
      <3> QED BY <1>3, <1>7, <2>1, <2>2, <3>1
    <2>4. childCount'[p] = Len(c.children) /\ desc'[p] = desc[p]
      BY <1>2, <1>3, <1>7
    <2>b. AdmittedAs(c.children, n - 1, SlicesOf(p)', desc')
      BY <2>3, <2>a DEF AdmittedAs
    <2> QED BY <1>0, <1>3, <1>11, <2>b, <2>4 DEF AdmissionCarries
  <1>14. \A q \in TaskId : (Admitting(q)' <=> q = p) /\ (Admitting(q) <=> q = p)
    BY <1>0, <1>11 DEF Admitting
  <1>15. ASSUME NEW q \in TaskId, q # p, childCount'[q] > 0
         PROVE  /\ childCount'[q] = childCount[q] /\ SlicesOf(q)' = SlicesOf(q)
                /\ desc'[q].shots = desc[q].shots
                /\ \A u \in SlicesOf(q) : desc'[u].shots = desc[u].shots
    <2>1. q # t
      BY <1>7, <1>15
    <2>2. t \notin SlicesOf(q) /\ SlicesOf(q) \subseteq TaskId
      BY <1>6, <1>15 DEF SlicesOf
    <2>3. SlicesOf(q) \ {t} = SlicesOf(q)
      BY <2>2
    <2> QED BY <1>7, <1>9, <2>1, <2>2, <2>3
  <1>16. SlicesCarryRequest'
    BY <1>14, <1>15, OthersCarry
  <1> QED BY <1>10, <1>12, <1>13, <1>16 DEF CarryInv

\* The rollback ends with a parent that has no slice left.
LEMMA RollbackParentCarries ==
    ASSUME OwnTypes, OwnTypes', AdmissionProtocol, CarryInv, NEW th \in Threads, RollbackParent(th)
    PROVE  CarryInv'
  <1> DEFINE c == call[th]
  <1>0. lock = th /\ th # NoThread /\ c.next = 1 /\ lock' = NoThread /\ c.task \in TaskId
        /\ Return(th)
    BY ChildAt, ThreadAssumption DEF RollbackParent, RollbackDone
  <1> PICK p \in TaskId : p = c.task
    BY <1>0
  <1>1. SlicesOf(p) = {} /\ TableRemove(p)
    <2>1. \A u \in SlicesOf(p) : \E k \in 1..(1 - 1) : u = c.children[k].id
      BY <1>0 DEF CarryInv, AdmissionCarries, AdmittedAs
    <2>2. 1..(1 - 1) = {}
      OBVIOUS
    <2> QED BY <2>1, <2>2 DEF RollbackParent
  <1>2. /\ state'[p] = "ABSENT" /\ desc'[p] = NoDesc /\ childCount'[p] = 0
        /\ \A u \in TaskId \ {p} : /\ state'[u] = state[u] /\ desc'[u] = desc[u]
                                   /\ childCount'[u] = childCount[u]
    BY <1>1 DEF TableRemove, OwnTypes
  <1>3. ~NoDesc.slice
    BY DEF NoDesc
  <1>4. childCount[p] > 0 /\ ~desc[p].slice
    <2>1. childCount[p] = Len(c.children) /\ 1 \in 1..Len(c.children) /\ Len(c.children) \in Nat
      BY <1>0, ChildAt DEF CarryInv, AdmissionCarries
    <2>2. childCount[p] > 0
      BY <2>1
    <2> QED BY <2>2 DEF CarryInv, SlicesBelong
  <1>5. \A q \in TaskId : SlicesOf(q)' = SlicesOf(q) /\ p \notin SlicesOf(q)
    BY <1>2, <1>3, <1>4 DEF SlicesOf
  <1>6. SlicesBelong'
    <2> SUFFICES ASSUME NEW u \in TaskId
                 PROVE  /\ state'[u] = "ABSENT" => ~desc'[u].slice /\ childCount'[u] = 0
                        /\ desc'[u].slice => /\ childCount'[u] = 0 /\ desc'[u].parent \in TaskId
                                             /\ childCount'[desc'[u].parent] > 0
      BY DEF SlicesBelong
    <2>1. CASE u = p
      BY <1>2, <1>3, <2>1
    <2>2. CASE u # p
      <3>1. state'[u] = state[u] /\ desc'[u] = desc[u] /\ childCount'[u] = childCount[u]
        BY <1>2, <2>2
      <3>2. desc[u].slice => desc[u].parent # p
        BY <1>1 DEF SlicesOf
      <3> QED BY <1>2, <3>1, <3>2 DEF CarryInv, SlicesBelong
    <2> QED BY <2>1, <2>2
  <1>7. CallsNoSlices'
    BY <1>0, ReturnNoSlices DEF CarryInv
  <1>8. AdmissionCarries'
    BY <1>0 DEF AdmissionCarries
  <1>9. \A q \in TaskId : ~Admitting(q)' /\ (Admitting(q) <=> q = p)
    BY <1>0 DEF Admitting
  <1>10. \A q \in TaskId : \A u \in SlicesOf(q) : desc'[u] = desc[u]
    BY <1>2, <1>5 DEF SlicesOf
  <1>11. SlicesCarryRequest'
    BY <1>2, <1>5, <1>9, <1>10, OthersCarry
  <1> QED BY <1>6, <1>7, <1>8, <1>11 DEF CarryInv

----------------------------------------------------------------------------
\* There are no slices in an empty table, ...
LEMMA CarryInit == Init => CarryInv
  <1> SUFFICES ASSUME Init PROVE CarryInv
    OBVIOUS
  <1>1. ~NoDesc.slice /\ NoCall.desc = NoDesc
    BY DEF NoDesc, NoCall
  <1>2. \A t \in TaskId : desc[t] = NoDesc /\ childCount[t] = 0
    BY DEF Init
  <1>3. SlicesBelong /\ CallsNoSlices
    BY <1>1, <1>2 DEF Init, SlicesBelong, CallsNoSlices
  <1>4. AdmissionCarries /\ SlicesCarryRequest
    BY <1>2 DEF Init, AdmissionCarries, SlicesCarryRequest
  <1> QED BY <1>3, <1>4 DEF CarryInv

\* ... and every step keeps account of them.
LEMMA CarryStep == Base /\ CarryInv /\ [Next]_vars => CarryInv'
  <1> SUFFICES ASSUME OwnTypes, AdmissionProtocol, CarryInv, [Next]_vars
               PROVE  CarryInv'
    BY DEF Base
  <1>a. OwnTypes'
    BY TypeStep
  <1>0. ASSUME UNCHANGED <<desc, childCount, lock, call>>,
               \A t \in TaskId : state'[t] = "ABSENT" => state[t] = "ABSENT"
        PROVE  CarryInv'
    <2>1. CallsNoSlices'
      BY <1>0 DEF CarryInv, CallsNoSlices
    <2> QED BY <1>0, <1>a, <2>1, QuietCarries
  <1>1. ASSUME NEW t \in TaskId, NEW parent \in CallerParents, NEW shots \in Shots,
               NEW prio \in Priorities, SubmitWhole(t, parent, shots, prio)
        PROVE  CarryInv'
    <2> DEFINE d == [parent |-> parent, shots |-> shots, slice |-> FALSE]
    <2>1. /\ lock = NoThread /\ state[t] = "ABSENT" /\ Enqueue(t, d, prio) /\ ~d.slice
          /\ UNCHANGED <<lock, call>>
      BY <1>1 DEF SubmitWhole, threadVars
    <2>2. CallsNoSlices'
      BY <2>1 DEF CarryInv, CallsNoSlices
    <2> HIDE DEF d
    <2>3. CASE EnqueueOk(t, d, prio)
      BY <1>a, <2>1, <2>2, <2>3, EnqueueWholeCarries
    <2>4. CASE EnqueueFailed
      BY <1>0, <2>1, <2>4 DEF EnqueueFailed, tableVars
    <2> QED BY <2>1, <2>3, <2>4 DEF Enqueue
  <1>2. ASSUME NEW t \in TaskId, NEW parent \in CallerParents, NEW shots \in Shots,
               NEW prio \in Priorities, NEW th \in Threads,
               SubmitWithCallback(th, t, parent, shots, prio)
        PROVE  CarryInv'
    <2>1. UNCHANGED <<state, desc, childCount, lock>> /\ lock = NoThread
      BY <1>2 DEF SubmitWithCallback, tableVars
    <2>2. CallsNoSlices'
      <3>1. /\ call'[th].desc = [parent |-> parent, shots |-> shots, slice |-> FALSE]
            /\ \A x \in Threads \ {th} : call'[x] = call[x]
        BY <1>2 DEF SubmitWithCallback, OwnTypes, NoCall
      <3>2. ~call'[th].desc.slice
        BY <3>1
      <3> QED BY <3>1, <3>2 DEF CarryInv, CallsNoSlices
    <2> QED BY <1>a, <2>1, <2>2, QuietCarries
  <1>3. ASSUME NEW th \in Threads, EstimateReturns(th) PROVE CarryInv'
    <2>1. lock = NoThread /\ lock' = lock /\ CallsNoSlices'
      BY <1>3, ReturnNoSlices DEF EstimateReturns, CarryInv
    <2>2. CASE UNCHANGED tableVars
      BY <1>a, <2>1, <2>2, QuietCarries DEF tableVars
    <2>3. CASE MayEnqueue(th) /\ EnqueueOk(call[th].task, call[th].desc, call[th].priority)
      <3>1. /\ call[th].task \in TaskId /\ ~call[th].desc.slice
            /\ state[call[th].task] = "ABSENT"
        BY <1>3, <2>3 DEF EstimateReturns, MayEnqueue, AdmissionProtocol, CarryInv, CallsNoSlices
      <3> QED BY <1>a, <2>1, <2>3, <3>1, EnqueueWholeCarries
    <2> QED BY <1>3, <2>2, <2>3 DEF EstimateReturns, Enqueue, EnqueueFailed
  <1>4. ASSUME NEW th \in Threads, NEW answer \in SplitAnswers, SplitReturns(th, answer)
        PROVE  CarryInv'
    <2> DEFINE c == call[th]
               children == ChildrenOf(th, answer)
    <2>0. lock = NoThread
      BY <1>4 DEF SplitReturns
    <2>1. CASE Return(th) /\ UNCHANGED <<tableVars, lock>>
      <3>1. CallsNoSlices'
        BY <2>1, ReturnNoSlices DEF CarryInv
      <3> QED BY <1>a, <2>0, <2>1, <3>1, QuietCarries DEF tableVars
    <2>2. CASE /\ TableInsert(c.task, c.desc, c.priority, "WAITING")
               /\ childCount' = [childCount EXCEPT ![c.task] = Len(answer)]
               /\ lock' = th
               /\ call' = [call EXCEPT ![th].children = children, ![th].next = 1]
      <3>1. /\ c.task \in TaskId /\ c.desc \in DescType /\ state[c.task] = "ABSENT" /\ ~c.desc.slice
        BY <1>4 DEF SplitReturns, MaySplit, AdmissionProtocol, OwnTypes, CallType, CarryInv, CallsNoSlices
      <3>2. /\ Len(answer) \in Nat /\ Len(children) = Len(answer) /\ Len(answer) > 0
            /\ ShotsUpTo(children)[Len(answer)] = c.desc.shots
        <4>1. /\ PlanFor(c.desc.shots) = c.plan /\ c.plan.kind = "split"
              /\ Len(children) = c.plan.slice_count
              /\ ShotsUpTo(children)[c.plan.slice_count] = c.desc.shots
          <5> HIDE DEF children
          <5>1. ValidChildTasks(c.task, children, c.plan, c.desc.shots, Present)
            BY <1>4 DEF SplitReturns, MaySplit, children
          <5> QED BY <1>4, <5>1 DEF SplitReturns, MaySplit, AdmissionProtocol, ValidChildTasks
        <4>2. c.plan.slice_count >= 1
          BY <3>1, <4>1, PlanForType DEF DescType
        <4>3. Len(answer) \in Nat /\ Len(children) = Len(answer)
          BY ChildrenType
        <4> HIDE DEF children
        <4> QED BY <4>1, <4>2, <4>3
      <3> HIDE DEF children
      <3>3. /\ call'[th].task = c.task /\ call'[th].next = 1 /\ call'[th].children = children
            /\ \A x \in Threads : call'[x].desc = call[x].desc
        BY <2>2 DEF OwnTypes, CallType
      <3>4. CallsNoSlices'
        BY <3>3 DEF CarryInv, CallsNoSlices
      <3>5. PICK p \in TaskId, d \in DescType, prio \in Priorities, n \in Nat :
                p = c.task /\ d = c.desc /\ prio = c.priority /\ n = Len(answer)
        BY <3>1, <3>2 DEF OwnTypes, CallType
      <3> QED BY <1>a, <2>0, <2>2, <3>1, <3>2, <3>3, <3>4, <3>5, InsertParentCarries
    <2> QED BY <1>4, <2>1, <2>2 DEF SplitReturns
  <1>5. ASSUME NEW th \in Threads, SplitFails(th) PROVE CarryInv'
    <2>1. lock = NoThread /\ UNCHANGED <<tableVars, lock>> /\ CallsNoSlices'
      BY <1>5, ReturnNoSlices DEF SplitFails, CarryInv
    <2> QED BY <1>a, <2>1, QuietCarries DEF tableVars
  <1>6. ASSUME NEW th \in Threads, EnqueueChild(th) PROVE CarryInv'
    BY <1>6, <1>a, EnqueueChildCarries
  <1>7. ASSUME NEW th \in Threads, RollbackChild(th) PROVE CarryInv'
    BY <1>7, <1>a, RollbackChildCarries
  <1>8. ASSUME NEW th \in Threads, RollbackParent(th) PROVE CarryInv'
    BY <1>8, <1>a, RollbackParentCarries
  <1>9. ASSUME NEW t \in TaskId, SelectNext(t) PROVE CarryInv'
    <2>1. UNCHANGED <<desc, childCount, lock, call>>
      BY <1>9 DEF SelectNext, threadVars
    <2>2. \A u \in TaskId : state'[u] = "ABSENT" => state[u] = "ABSENT"
      BY <1>9 DEF SelectNext, OwnTypes
    <2> QED BY <1>0, <2>1, <2>2
  <1>10. ASSUME NEW t \in TaskId, TaskStarted(t) PROVE CarryInv'
    <2>1. UNCHANGED <<desc, childCount, lock, call>>
      BY <1>10 DEF TaskStarted, threadVars
    <2>2. \A u \in TaskId : state'[u] = "ABSENT" => state[u] = "ABSENT"
      BY <1>10 DEF TaskStarted, StartRefused, OwnTypes
    <2> QED BY <1>0, <2>1, <2>2
  <1>11. ASSUME NEW t \in TaskId, NEW prio \in Priorities, UpdatePriority(t, prio)
         PROVE  CarryInv'
    BY <1>0, <1>11 DEF UpdatePriority, threadVars
  <1>12. ASSUME NEW t \in TaskId, NEW s \in Terminal, FinishTask(t, s) PROVE CarryInv'
    <2>1. UNCHANGED <<desc, childCount, lock, call>>
      BY <1>12 DEF FinishTask, threadVars
    <2>2. \A u \in TaskId : state'[u] = "ABSENT" => state[u] = "ABSENT"
      <3>1. "ABSENT" \notin Terminal
        BY DEF Terminal
      <3> QED BY <1>12, <3>1, FinishTable
    <2> QED BY <1>0, <2>1, <2>2
  <1>13. ASSUME NEW kind \in PolicyKinds, NEW config \in SplitConfigs, SetPolicy(kind, config)
         PROVE  CarryInv'
    BY <1>0, <1>13 DEF SetPolicy, tableVars, threadVars
  <1>14. ASSUME NEW cbs \in CallbackSets, SetCallbacks(cbs) PROVE CarryInv'
    BY <1>0, <1>14 DEF SetCallbacks, tableVars, threadVars
  <1>15. CASE UNCHANGED vars
    BY <1>0, <1>15 DEF vars, tableVars, threadVars
  <1> QED BY <1>1, <1>2, <1>3, <1>4, <1>5, <1>6, <1>7, <1>8, <1>9, <1>10, <1>11, <1>12,
             <1>13, <1>14, <1>15 DEF Next, Submit, SubmitStep

\* The slices of every admitted request carry exactly the shots it asked for,
\* however many there are and whatever else was admitted, rolled back or
\* finished since the callback's answer was checked.
THEOREM SlicesCarryRequestHolds == Spec => []SlicesCarryRequest
  <1>1. CarryInv => SlicesCarryRequest
    BY DEF CarryInv
  <1> QED BY <1>1, CarryInit, CarryStep, BaseInit, BaseStep, PTL DEF Spec

\* A split request is in the table with all its slices or not at all, however
\* many slices it has and wherever its admission fails; only the thread that
\* keeps the mutex during an admission sees less.
THEOREM SplitIsAllOrNothingHolds == Spec => []SplitIsAllOrNothing
  <1>1. Base /\ CarryInv => SplitIsAllOrNothing
    <2> SUFFICES ASSUME OwnTypes, CarryInv, NEW p \in TaskId, ~Admitting(p)
                 PROVE  Cardinality(SlicesOf(p)) = childCount[p]
      BY DEF Base, SplitIsAllOrNothing
    <2>1. childCount[p] \in Nat
      BY DEF OwnTypes
    <2>2. CASE childCount[p] = 0
      <3>1. SlicesOf(p) = {}
        BY <2>2, NoneBelong DEF CarryInv
      <3> QED BY <2>2, <3>1, FS_EmptySet
    <2>3. CASE childCount[p] > 0
      <3>1. CarriedBy(childCount[p], SlicesOf(p), desc, desc[p].shots)
        BY <2>3 DEF CarryInv, SlicesCarryRequest, CarriedBy
      <3> QED BY <2>1, <3>1, CarriedCount
    <2> QED BY <2>1, <2>2, <2>3
  <1> QED BY <1>1, CarryInit, CarryStep, BaseInit, BaseStep, PTL DEF Spec

----------------------------------------------------------------------------
(* The verdict of the slices.  This part and the refinement below it rest  *)
(* on callers leaving parent_task_id to the core: a task whose caller      *)
(* names a WAITING parent is counted in its tally like one of its slices,  *)
(* see the run foreign_parent.                                             *)

\* The field parent_task_id of a submitted task is not set.
ParentLeftToCore == CallerParents \subseteq {NoTask}

InState(p, s) == {c \in SlicesOf(p) : state[c] = s}

\* There is nothing in a record that is not in use.
AbsentIsBlank ==
    \A t \in TaskId : state[t] = "ABSENT" =>
        desc[t] = NoDesc /\ childCount[t] = 0 /\ tally[t] = NoTally

\* Tasks whose submission is in flight are no slices.
CallsAreWhole ==
    \A th \in Threads : call[th].desc.parent = NoTask /\ ~call[th].desc.slice

\* Slices, and only they, have a parent; a parent has slices and is none.
SlicesHaveParents ==
    \A t \in TaskId :
        /\ desc[t].slice <=> desc[t].parent # NoTask
        /\ desc[t].slice => childCount[desc[t].parent] > 0 /\ childCount[t] = 0

\* Parents, and only they, wait for their slices.
OnlyParentsWait ==
    \A p \in TaskId :
        IF childCount[p] > 0 THEN state[p] \in {"WAITING"} \cup Terminal
                             ELSE state[p] # "WAITING"

\* The tally in a parent's record counts its finished slices.
TallyExact ==
    \A p \in TaskId, s \in Terminal : tally[p][s] = Cardinality(InState(p, s))

\* The slices admitted so far are those before the loop index.
AdmissionCounts ==
    lock # NoThread =>
        LET c == call[lock]
        IN  /\ childCount[c.task] = Len(c.children)
            /\ Cardinality(SlicesOf(c.task)) = c.next - 1
            /\ \A k \in 1..(c.next - 1) : c.children[k].id \in SlicesOf(c.task)
            /\ \A t \in SlicesOf(c.task) : state[t] = "QUEUED"

\* The state of an admitted parent is the one its tally demands.
VerdictInForce ==
    \A p \in TaskId : childCount[p] > 0 /\ ~Admitting(p) =>
        state[p] = IF Settled(tally[p], childCount[p]) THEN Verdict(tally[p]) ELSE "WAITING"

SplitInv ==
    /\ AbsentIsBlank /\ CallsAreWhole /\ SlicesHaveParents /\ OnlyParentsWait
    /\ TallyExact /\ AdmissionCounts /\ VerdictInForce /\ SplitIsAllOrNothing

----------------------------------------------------------------------------
(* Facts about slices and their tally *)

\* Sets of tasks have a cardinality.
LEMMA TasksFinite ==
    ASSUME NEW S, S \subseteq TaskId
    PROVE  IsFiniteSet(S) /\ Cardinality(S) \in Nat
  BY FiniteAssumption, FS_Subset, FS_CardinalityType

\* A task without children has no slices.
LEMMA NoChildrenNoSlices ==
    ASSUME SlicesHaveParents, NEW p \in TaskId, childCount[p] = 0
    PROVE  SlicesOf(p) = {}
  <1> SUFFICES ASSUME NEW t \in SlicesOf(p) PROVE FALSE
    OBVIOUS
  <1>1. t \in TaskId /\ desc[t].slice /\ desc[t].parent = p
    BY DEF SlicesOf
  <1> QED BY <1>1 DEF SlicesHaveParents

\* A record that is not in use is no slice and has no slices.
LEMMA BlankRecord ==
    ASSUME SplitInv, NEW t \in TaskId, state[t] = "ABSENT"
    PROVE  desc[t] = NoDesc /\ ~desc[t].slice /\ childCount[t] = 0 /\ SlicesOf(t) = {}
  <1>1. desc[t] = NoDesc /\ childCount[t] = 0
    BY DEF SplitInv, AbsentIsBlank
  <1>2. ~NoDesc.slice
    BY DEF NoDesc
  <1> QED BY <1>1, <1>2, NoChildrenNoSlices DEF SplitInv

\* The tally of a parent reaches the number of its slices with the last of them.
LEMMA SettledWhenAllFinal ==
    ASSUME OwnTypes, TallyExact, NEW p \in TaskId, Cardinality(SlicesOf(p)) = childCount[p]
    PROVE  Settled(tally[p], childCount[p]) <=> \A c \in SlicesOf(p) : state[c] \in Terminal
  <1> DEFINE C == InState(p, "COMPLETED")
             F == InState(p, "FAILED")
             X == InState(p, "CANCELLED")
             S == SlicesOf(p)
  <1>1. S \subseteq TaskId /\ C \subseteq S /\ F \subseteq S /\ X \subseteq S
    BY DEF SlicesOf, InState
  <1>2. IsFiniteSet(S) /\ IsFiniteSet(C) /\ IsFiniteSet(F) /\ IsFiniteSet(X)
        /\ IsFiniteSet(C \cup F) /\ IsFiniteSet((C \cup F) \cup X)
        /\ Cardinality(S) \in Nat /\ Cardinality(C) \in Nat /\ Cardinality(F) \in Nat
        /\ Cardinality(X) \in Nat /\ Cardinality((C \cup F) \cup X) \in Nat
    <2> HIDE DEF C, F, X, S
    <2>1. C \subseteq TaskId /\ F \subseteq TaskId /\ X \subseteq TaskId
          /\ C \cup F \subseteq TaskId /\ (C \cup F) \cup X \subseteq TaskId
      BY <1>1
    <2> QED BY <1>1, <2>1, TasksFinite
  <1>3. C \cap F = {} /\ (C \cup F) \cap X = {}
    BY DEF InState
  <1>4. (C \cup F) \cup X = S <=> \A c \in S : state[c] \in Terminal
    BY DEF InState, Terminal
  <1> HIDE DEF C, F, X, S
  <1>5. Cardinality(C \cup F) = Cardinality(C) + Cardinality(F)
    <2>1. Cardinality(C \cup F) = Cardinality(C) + Cardinality(F) - Cardinality(C \cap F)
      BY <1>2, FS_Union
    <2>2. Cardinality(C \cap F) = 0
      BY <1>3, FS_EmptySet
    <2> QED BY <1>2, <2>1, <2>2
  <1>6. Cardinality((C \cup F) \cup X) = Cardinality(C) + Cardinality(F) + Cardinality(X)
    <2>1. Cardinality((C \cup F) \cup X) =
            Cardinality(C \cup F) + Cardinality(X) - Cardinality((C \cup F) \cap X)
      BY <1>2, FS_Union
    <2>2. Cardinality((C \cup F) \cap X) = 0
      BY <1>3, FS_EmptySet
    <2> QED BY <1>2, <1>5, <2>1, <2>2
  <1>7. Cardinality((C \cup F) \cup X) <= Cardinality(S)
        /\ (Cardinality(S) = Cardinality((C \cup F) \cup X) => S = (C \cup F) \cup X)
    <2>1. (C \cup F) \cup X \in SUBSET S
      BY <1>1
    <2> QED BY <1>2, <2>1, FS_Subset
  <1>8. /\ tally[p]["COMPLETED"] = Cardinality(C) /\ tally[p]["FAILED"] = Cardinality(F)
        /\ tally[p]["CANCELLED"] = Cardinality(X)
    BY DEF TallyExact, Terminal, C, F, X
  <1>9. Settled(tally[p], childCount[p]) <=> Cardinality((C \cup F) \cup X) >= Cardinality(S)
    BY <1>6, <1>8 DEF Settled, S
  <1>10. Cardinality((C \cup F) \cup X) >= Cardinality(S) <=> (C \cup F) \cup X = S
    BY <1>2, <1>7
  <1> QED BY <1>4, <1>9, <1>10 DEF S

\* The tally yields the verdict of the slices' own final states.
LEMMA VerdictOfSlices ==
    ASSUME OwnTypes, TallyExact, NEW p \in TaskId
    PROVE  LET final == {state[c] : c \in SlicesOf(p)}
           IN  Verdict(tally[p]) = IF "FAILED" \in final THEN "FAILED"
                                   ELSE IF "CANCELLED" \in final THEN "CANCELLED"
                                   ELSE "COMPLETED"
  <1>1. ASSUME NEW s \in Terminal
        PROVE  tally[p][s] > 0 <=> \E c \in SlicesOf(p) : state[c] = s
    <2>1. IsFiniteSet(InState(p, s)) /\ Cardinality(InState(p, s)) \in Nat
      BY TasksFinite DEF InState, SlicesOf
    <2>2. Cardinality(InState(p, s)) = 0 <=> InState(p, s) = {}
      BY <2>1, FS_EmptySet
    <2> QED BY <2>1, <2>2 DEF TallyExact, InState
  <1>2. /\ tally[p]["FAILED"] > 0 <=> "FAILED" \in {state[c] : c \in SlicesOf(p)}
        /\ tally[p]["CANCELLED"] > 0 <=> "CANCELLED" \in {state[c] : c \in SlicesOf(p)}
    BY <1>1 DEF Terminal
  <1> QED BY <1>2 DEF Verdict

\* The inductive invariant says of a parent what the caller sees of it.
LEMMA SplitInvSuffices == OwnTypes /\ SplitInv => SplitIsAllOrNothing /\ ParentFollowsSlices
  <1> SUFFICES ASSUME OwnTypes, SplitInv PROVE SplitIsAllOrNothing /\ ParentFollowsSlices
    OBVIOUS
  <1> SUFFICES ASSUME NEW p \in TaskId, childCount[p] > 0, ~Admitting(p)
               PROVE  LET final == {state[c] : c \in SlicesOf(p)}
                      IN  state[p] = IF ~(final \subseteq Terminal) THEN "WAITING"
                                     ELSE IF "FAILED" \in final THEN "FAILED"
                                     ELSE IF "CANCELLED" \in final THEN "CANCELLED"
                                     ELSE "COMPLETED"
    BY DEF SplitInv, ParentFollowsSlices
  <1>1. state[p] = IF Settled(tally[p], childCount[p]) THEN Verdict(tally[p]) ELSE "WAITING"
    BY DEF SplitInv, VerdictInForce
  <1>2. Settled(tally[p], childCount[p]) <=> {state[c] : c \in SlicesOf(p)} \subseteq Terminal
    BY SettledWhenAllFinal DEF SplitInv, SplitIsAllOrNothing
  <1> QED BY <1>1, <1>2, VerdictOfSlices DEF SplitInv

----------------------------------------------------------------------------
(* What the steps do to the invariant *)

\* A task that is handed out or started, or a step that changes no record.
LEMMA MoveSplit ==
    ASSUME OwnTypes, SplitInv, UNCHANGED <<desc, childCount, tally, lock>>,
           lock = NoThread \/ UNCHANGED <<state, call>>, CallsAreWhole',
           \A t \in TaskId : \/ state'[t] = state[t]
                             \/ {state[t], state'[t]} \subseteq {"QUEUED", "ASSIGNED", "RUNNING"}
    PROVE  SplitInv'
  <1>1. \A p \in TaskId : SlicesOf(p)' = SlicesOf(p) /\ Admitting(p)' = Admitting(p)
    BY DEF SlicesOf, Admitting
  <1>2. \A p \in TaskId, s \in Terminal : InState(p, s)' = InState(p, s)
    BY <1>1 DEF InState, Terminal, SlicesOf
  <1>3. AbsentIsBlank' /\ SlicesHaveParents' /\ OnlyParentsWait'
    <2>1. AbsentIsBlank'
      BY DEF SplitInv, AbsentIsBlank
    <2>2. SlicesHaveParents'
      BY DEF SplitInv, SlicesHaveParents
    <2>3. OnlyParentsWait'
      BY DEF SplitInv, OnlyParentsWait, Terminal
    <2> QED BY <2>1, <2>2, <2>3
  <1>4. TallyExact'
    BY <1>2 DEF SplitInv, TallyExact
  <1>5. AdmissionCounts'
    <2>1. CASE lock = NoThread
      BY <2>1 DEF AdmissionCounts
    <2>2. CASE UNCHANGED <<state, call>>
      BY <2>2 DEF SplitInv, AdmissionCounts, SlicesOf
    <2> QED BY <2>1, <2>2
  <1>6. VerdictInForce'
    <2> SUFFICES ASSUME NEW p \in TaskId, childCount[p] > 0, ~Admitting(p)
                 PROVE  state'[p] = IF Settled(tally[p], childCount[p])
                                    THEN Verdict(tally[p]) ELSE "WAITING"
      BY <1>1 DEF VerdictInForce
    <2>1. state[p] \notin {"QUEUED", "ASSIGNED", "RUNNING"}
      BY DEF SplitInv, OnlyParentsWait, Terminal
    <2> QED BY <2>1 DEF SplitInv, VerdictInForce
  <1>7. SplitIsAllOrNothing'
    BY <1>1 DEF SplitInv, SplitIsAllOrNothing
  <1> QED BY <1>3, <1>4, <1>5, <1>6, <1>7 DEF SplitInv

\* A whole task is enqueued.
LEMMA EnqueueWholeSplit ==
    ASSUME OwnTypes, SplitInv, NEW t \in TaskId, NEW d \in DescType, NEW prio,
           state[t] = "ABSENT", d.parent = NoTask, ~d.slice, EnqueueOk(t, d, prio),
           lock = NoThread, lock' = NoThread, CallsAreWhole'
    PROVE  SplitInv'
  <1>1. /\ state' = [state EXCEPT ![t] = "QUEUED"] /\ desc' = [desc EXCEPT ![t] = d]
        /\ childCount' = childCount /\ tally' = tally
    BY DEF EnqueueOk, TableInsert
  <1>2. /\ state'[t] = "QUEUED" /\ desc'[t] = d
        /\ \A u \in TaskId \ {t} : state'[u] = state[u] /\ desc'[u] = desc[u]
    BY <1>1 DEF OwnTypes
  <1>3. desc[t] = NoDesc /\ ~desc[t].slice /\ childCount[t] = 0
    BY BlankRecord
  <1>4. \A p \in TaskId : SlicesOf(p)' = SlicesOf(p) /\ ~Admitting(p) /\ ~Admitting(p)'
    BY <1>2, <1>3 DEF SlicesOf, Admitting
  <1>5. \A p \in TaskId, s \in Terminal : InState(p, s)' = InState(p, s)
    BY <1>2, <1>4 DEF InState, Terminal, SlicesOf
  <1>6. AbsentIsBlank'
    BY <1>1, <1>2 DEF SplitInv, AbsentIsBlank
  <1>7. SlicesHaveParents'
    BY <1>1, <1>2 DEF SplitInv, SlicesHaveParents
  <1>8. OnlyParentsWait'
    BY <1>1, <1>2, <1>3 DEF SplitInv, OnlyParentsWait
  <1>9. TallyExact'
    BY <1>1, <1>5 DEF SplitInv, TallyExact
  <1>10. AdmissionCounts'
    BY DEF AdmissionCounts
  <1>11. VerdictInForce'
    BY <1>1, <1>2, <1>3, <1>4 DEF SplitInv, VerdictInForce
  <1>12. SplitIsAllOrNothing'
    BY <1>1, <1>4 DEF SplitInv, SplitIsAllOrNothing
  <1> QED BY <1>6, <1>7, <1>8, <1>9, <1>10, <1>11, <1>12 DEF SplitInv

\* submit_split_task_locked inserts the parent: it has no slice yet.
LEMMA InsertParentSplit ==
    ASSUME OwnTypes, SplitInv, NEW th \in Threads, NEW p \in TaskId, NEW d \in DescType, NEW prio,
           state[p] = "ABSENT", d.parent = NoTask, ~d.slice, TableInsert(p, d, prio, "WAITING"),
           NEW n \in Nat, n > 0, childCount' = [childCount EXCEPT ![p] = n], tally' = tally,
           lock = NoThread, lock' = th, CallsAreWhole',
           call'[th].task = p, call'[th].next = 1, Len(call'[th].children) = n
    PROVE  SplitInv'
  <1>1. /\ state' = [state EXCEPT ![p] = "WAITING"] /\ desc' = [desc EXCEPT ![p] = d]
    BY DEF TableInsert
  <1>2. /\ state'[p] = "WAITING" /\ desc'[p] = d /\ childCount'[p] = n
        /\ \A u \in TaskId \ {p} : /\ state'[u] = state[u] /\ desc'[u] = desc[u]
                                   /\ childCount'[u] = childCount[u]
    BY <1>1 DEF OwnTypes
  <1>3. /\ desc[p] = NoDesc /\ ~desc[p].slice /\ childCount[p] = 0
        /\ SlicesOf(p) = {}
    BY BlankRecord
  <1>4. \A q \in TaskId : /\ SlicesOf(q)' = SlicesOf(q) /\ ~Admitting(q)
                          /\ Admitting(q)' <=> q = p
    BY <1>2, <1>3, ThreadAssumption DEF SlicesOf, Admitting
  <1>5. \A q \in TaskId, s \in Terminal : InState(q, s)' = InState(q, s)
    BY <1>2, <1>3, <1>4 DEF InState, Terminal, SlicesOf
  <1>6. AbsentIsBlank'
    BY <1>2 DEF SplitInv, AbsentIsBlank
  <1>7. SlicesHaveParents'
    BY <1>2, <1>3 DEF SplitInv, SlicesHaveParents
  <1>8. OnlyParentsWait'
    BY <1>2 DEF SplitInv, OnlyParentsWait
  <1>9. TallyExact'
    BY <1>5 DEF SplitInv, TallyExact
  <1>10. AdmissionCounts'
    <2>1. SlicesOf(p)' = {} /\ Cardinality({}) = 0
      BY <1>3, <1>4, FS_EmptySet
    <2>2. 1..(1 - 1) = {} /\ 1 - 1 = 0
      OBVIOUS
    <2> QED BY <1>2, <2>1, <2>2 DEF AdmissionCounts
  <1>11. VerdictInForce'
    BY <1>2, <1>4 DEF SplitInv, VerdictInForce
  <1>12. SplitIsAllOrNothing'
    BY <1>2, <1>4 DEF SplitInv, SplitIsAllOrNothing
  <1> QED BY <1>6, <1>7, <1>8, <1>9, <1>10, <1>11, <1>12 DEF SplitInv

\* A call that returns leaves nothing behind in its thread.
LEMMA ReturnWhole ==
    ASSUME OwnTypes, CallsAreWhole, NEW th \in Threads, Return(th)
    PROVE  CallsAreWhole'
  <1>1. call' = [call EXCEPT ![th] = NoCall]
    BY DEF Return
  <1>2. NoCall.desc.parent = NoTask /\ ~NoCall.desc.slice
    BY DEF NoCall, NoDesc
  <1>3. \A x \in Threads : call'[x] = IF x = th THEN NoCall ELSE call[x]
    BY <1>1 DEF OwnTypes
  <1> QED BY <1>2, <1>3 DEF CallsAreWhole

\* A parent none of whose slices has finished goes on waiting.
LEMMA FreshNotSettled ==
    ASSUME OwnTypes, TallyExact, NEW p \in TaskId, childCount[p] > 0,
           \A c \in SlicesOf(p) : state[c] = "QUEUED"
    PROVE  ~Settled(tally[p], childCount[p])
  <1>1. ASSUME NEW s \in Terminal PROVE tally[p][s] = 0
    <2>1. InState(p, s) = {}
      BY DEF InState, Terminal
    <2> QED BY <2>1, FS_EmptySet DEF TallyExact
  <1>2. tally[p]["COMPLETED"] = 0 /\ tally[p]["FAILED"] = 0 /\ tally[p]["CANCELLED"] = 0
    BY <1>1 DEF Terminal
  <1> QED BY <1>2 DEF Settled, OwnTypes

\* The child at the loop index becomes one more slice.
LEMMA EnqueueChildSplit ==
    ASSUME OwnTypes, AdmissionProtocol, SplitInv, NEW th \in Threads, EnqueueChild(th)
    PROVE  SplitInv'
  <1> DEFINE c == call[th]
             child == c.children[c.next]
             d == [parent |-> child.parent, shots |-> child.shots, slice |-> TRUE]
  <1>0. lock = th /\ th # NoThread
    BY ThreadAssumption DEF EnqueueChild
  <1>1. /\ c.next \in 1..Len(c.children) /\ Len(c.children) \in Nat
        /\ c.task \in TaskId /\ child.id \in TaskId /\ d \in DescType
    BY <1>0, ChildAt
  <1> PICK p \in TaskId, t \in TaskId : p = c.task /\ t = child.id
    BY <1>1
  <1>2. /\ state[p] = "WAITING" /\ t # p /\ child.parent = p /\ state[t] = "ABSENT"
    <2>1. ~(c.next < c.next)
      BY <1>1
    <2> QED BY <1>0, <1>1, <2>1 DEF AdmissionProtocol, PartlyAdmitted
  <1>3. /\ childCount[p] = Len(c.children) /\ Cardinality(SlicesOf(p)) = c.next - 1
        /\ \A k \in 1..(c.next - 1) : c.children[k].id \in SlicesOf(p)
        /\ \A u \in SlicesOf(p) : state[u] = "QUEUED"
    BY <1>0 DEF SplitInv, AdmissionCounts
  <1>4. CASE EnqueueFailed /\ UNCHANGED <<call, lock>>
    <2>1. UNCHANGED <<state, desc, childCount, tally, lock, call>>
      BY <1>4 DEF EnqueueFailed, tableVars
    <2>2. CallsAreWhole'
      BY <2>1 DEF SplitInv, CallsAreWhole
    <2> QED BY <2>1, <2>2, MoveSplit
  <1>5. CASE \E prio \in Priorities : EnqueueOk(t, d, prio)
             /\ IF c.next = Len(c.children)
                THEN Return(th) /\ lock' = NoThread
                ELSE call' = [call EXCEPT ![th].next = @ + 1] /\ UNCHANGED <<pc, lock>>
    <2>1. /\ state' = [state EXCEPT ![t] = "QUEUED"] /\ desc' = [desc EXCEPT ![t] = d]
          /\ childCount' = childCount /\ tally' = tally
      BY <1>5 DEF EnqueueOk, TableInsert
    <2>2. /\ state'[t] = "QUEUED" /\ desc'[t] = d /\ d.slice /\ d.parent = p
          /\ \A u \in TaskId \ {t} : state'[u] = state[u] /\ desc'[u] = desc[u]
      BY <1>1, <1>2, <2>1 DEF OwnTypes
    <2> HIDE DEF d, child
    <2>3. ~desc[t].slice /\ childCount[t] = 0
      BY <1>1, <1>2, BlankRecord
    <2>4. /\ SlicesOf(p)' = SlicesOf(p) \cup {t} /\ t \notin SlicesOf(p)
          /\ \A q \in TaskId \ {p} : SlicesOf(q)' = SlicesOf(q)
      BY <1>1, <2>2, <2>3 DEF SlicesOf
    <2>5. \A q \in TaskId, s \in Terminal : InState(q, s)' = InState(q, s)
      BY <1>1, <2>2, <2>4 DEF InState, Terminal, SlicesOf
    <2>6. Cardinality(SlicesOf(p)') = c.next
      <3>1. IsFiniteSet(SlicesOf(p))
        BY TasksFinite DEF SlicesOf
      <3>2. Cardinality(SlicesOf(p) \cup {t}) = Cardinality(SlicesOf(p)) + 1
        BY <2>4, <3>1, FS_AddElement
      <3> QED BY <1>1, <1>3, <2>4, <3>2
    <2>7. AbsentIsBlank'
      BY <2>1, <2>2 DEF SplitInv, AbsentIsBlank
    <2>8. SlicesHaveParents'
      <3>1. p # NoTask /\ childCount[p] > 0
        BY <1>1, <1>3, NoTaskAssumption
      <3> QED BY <2>1, <2>2, <2>3, <3>1 DEF SplitInv, SlicesHaveParents
    <2>9. OnlyParentsWait'
      BY <2>1, <2>2, <2>3 DEF SplitInv, OnlyParentsWait
    <2>10. TallyExact'
      BY <2>1, <2>5 DEF SplitInv, TallyExact
    <2>11. CASE c.next = Len(c.children)
      <3>1. Return(th) /\ lock' = NoThread
        BY <1>5, <2>11
      <3>2. CallsAreWhole'
        BY <3>1, ReturnWhole DEF SplitInv
      <3>3. AdmissionCounts'
        BY <3>1 DEF AdmissionCounts
      <3>4. \A q \in TaskId : ~Admitting(q)' /\ (Admitting(q) <=> q = p)
        BY <1>0, <3>1 DEF Admitting
      <3>5. SplitIsAllOrNothing'
        BY <1>3, <2>1, <2>4, <2>6, <2>11, <3>4 DEF SplitInv, SplitIsAllOrNothing
      <3>6. ~Settled(tally[p], childCount[p])
        BY <1>1, <1>3, FreshNotSettled DEF SplitInv
      <3>7. VerdictInForce'
        BY <1>1, <1>2, <2>1, <2>2, <2>3, <3>4, <3>6 DEF SplitInv, VerdictInForce
      <3> QED BY <2>7, <2>8, <2>9, <2>10, <3>2, <3>3, <3>5, <3>7 DEF SplitInv
    <2>12. CASE c.next # Len(c.children)
      <3>1. call' = [call EXCEPT ![th].next = @ + 1] /\ lock' = th
        BY <1>0, <1>5, <2>12
      <3>2. /\ call'[th].task = p /\ call'[th].next = c.next + 1 /\ call'[th].children = c.children
            /\ \A x \in Threads : call'[x].desc = call[x].desc
        BY <3>1 DEF OwnTypes, CallType
      <3>3. CallsAreWhole'
        BY <3>2 DEF SplitInv, CallsAreWhole
      <3>4. AdmissionCounts'
        <4>1. c.next + 1 - 1 = c.next /\ \A k \in 1..c.next : k = c.next \/ k \in 1..(c.next - 1)
          BY <1>1
        <4>2. \A k \in 1..c.next : c.children[k].id \in SlicesOf(p)'
          BY <1>3, <2>4, <4>1 DEF child
        <4>3. \A u \in SlicesOf(p)' : state'[u] = "QUEUED"
          BY <1>3, <2>2, <2>4 DEF SlicesOf
        <4>4. call'[th].next - 1 = c.next
          BY <1>1, <3>2
        <4> QED BY <1>3, <2>1, <2>6, <3>1, <3>2, <4>2, <4>3, <4>4 DEF AdmissionCounts
      <3>5. \A q \in TaskId : (Admitting(q)' <=> q = p) /\ (Admitting(q) <=> q = p)
        BY <1>0, <3>1, <3>2 DEF Admitting
      <3>6. SplitIsAllOrNothing'
        BY <2>1, <2>4, <3>5 DEF SplitInv, SplitIsAllOrNothing
      <3>7. VerdictInForce'
        BY <2>1, <2>2, <2>3, <3>5 DEF SplitInv, VerdictInForce
      <3> QED BY <2>7, <2>8, <2>9, <2>10, <3>3, <3>4, <3>6, <3>7 DEF SplitInv
    <2> QED BY <2>11, <2>12
  <1> QED BY <1>4, <1>5 DEF EnqueueChild

\* The rollback takes the last slice away again.
LEMMA RollbackChildSplit ==
    ASSUME OwnTypes, AdmissionProtocol, SplitInv, NEW th \in Threads, RollbackChild(th)
    PROVE  SplitInv'
  <1> DEFINE c == call[th]
  <1>0. lock = th /\ th # NoThread /\ c.next # 1 /\ lock' = th
        /\ call' = [call EXCEPT ![th].next = @ - 1]
    BY ThreadAssumption DEF RollbackChild, RollbackDone
  <1>1. /\ c.next \in 1..Len(c.children) /\ Len(c.children) \in Nat /\ c.task \in TaskId
        /\ c.next - 1 \in 1..Len(c.children) /\ c.next - 1 < c.next
        /\ \A k \in 1..Len(c.children) : c.children[k].id \in TaskId
    <2>1. /\ c.next \in 1..Len(c.children) /\ Len(c.children) \in Nat /\ c.task \in TaskId
          /\ \A k \in 1..Len(c.children) : c.children[k].id \in TaskId
      BY <1>0, ChildAt
    <2>2. c.next - 1 \in 1..Len(c.children) /\ c.next - 1 < c.next
      BY <1>0, <2>1
    <2> QED BY <2>1, <2>2
  <1>a. c.task \in TaskId /\ c.children[c.next - 1].id \in TaskId /\ c.next - 1 \in Nat
    BY <1>1
  <1> HIDE DEF c
  <1> PICK p \in TaskId, t \in TaskId, n \in Nat :
          p = c.task /\ n = c.next - 1 /\ t = c.children[n].id
    BY <1>a
  <1> USE DEF c
  <1>2. /\ t # p /\ state[t] = "QUEUED" /\ TableRemove(t)
        /\ \A k \in 1..(n - 1) : c.children[k].id # t
    <2>1. TableRemove(t)
      BY DEF RollbackChild
    <2>2. PartlyAdmitted(c)
      BY <1>0 DEF AdmissionProtocol
    <2>3. \A k \in 1..(n - 1) : k \in 1..Len(c.children) /\ k # n
      BY <1>1
    <2> QED BY <1>1, <2>1, <2>2, <2>3 DEF PartlyAdmitted
  <1>3. /\ childCount[p] = Len(c.children) /\ Cardinality(SlicesOf(p)) = n
        /\ \A k \in 1..n : c.children[k].id \in SlicesOf(p)
        /\ \A u \in SlicesOf(p) : state[u] = "QUEUED"
        /\ t \in SlicesOf(p)
    <2>1. n \in 1..n
      BY <1>1
    <2> QED BY <1>0, <2>1 DEF SplitInv, AdmissionCounts
  <1>4. /\ state'[t] = "ABSENT" /\ desc'[t] = NoDesc /\ childCount'[t] = 0 /\ tally'[t] = NoTally
        /\ \A u \in TaskId \ {t} : /\ state'[u] = state[u] /\ desc'[u] = desc[u]
                                   /\ childCount'[u] = childCount[u] /\ tally'[u] = tally[u]
    BY <1>2 DEF TableRemove, OwnTypes
  <1>5. ~NoDesc.slice /\ NoDesc.parent = NoTask
    BY DEF NoDesc
  <1>6. desc[t].slice /\ desc[t].parent = p /\ childCount[t] = 0 /\ SlicesOf(t) = {}
    <2>1. desc[t].slice /\ desc[t].parent = p
      BY <1>3 DEF SlicesOf
    <2>2. childCount[t] = 0
      BY <2>1 DEF SplitInv, SlicesHaveParents
    <2> QED BY <2>1, <2>2, NoChildrenNoSlices DEF SplitInv
  <1>7. /\ SlicesOf(p)' = SlicesOf(p) \ {t}
        /\ \A q \in TaskId \ {p} : SlicesOf(q)' = SlicesOf(q)
    <2>1. \A u \in TaskId : desc'[u].slice <=> u # t /\ desc[u].slice
      BY <1>4, <1>5
    <2>2. \A u \in TaskId : desc'[u].slice => desc'[u].parent = desc[u].parent
      BY <1>4, <1>5
    <2>3. \A q \in TaskId : SlicesOf(q)' = SlicesOf(q) \ {t}
      BY <2>1, <2>2, Zenon DEF SlicesOf
    <2>4. ASSUME NEW q \in TaskId \ {p} PROVE SlicesOf(q)' = SlicesOf(q)
      <3>1. t \notin SlicesOf(q)
        BY <1>6 DEF SlicesOf
      <3>2. SlicesOf(q) \ {t} = SlicesOf(q)
        BY <3>1
      <3> QED BY <2>3, <3>2
    <2> QED BY <2>3, <2>4
  <1>8. \A q \in TaskId, s \in Terminal : InState(q, s)' = InState(q, s)
    <2> SUFFICES ASSUME NEW q \in TaskId, NEW s \in Terminal
                 PROVE  InState(q, s)' = InState(q, s)
      OBVIOUS
    <2>1. SlicesOf(q)' \ {t} = SlicesOf(q) \ {t} /\ SlicesOf(q) \subseteq TaskId
          /\ t \notin SlicesOf(q)'
      BY <1>4, <1>5, <1>7 DEF SlicesOf
    <2>2. state[t] # s /\ \A u \in TaskId \ {t} : state'[u] = state[u]
      BY <1>2, <1>4 DEF Terminal
    <2>3. ASSUME NEW u PROVE u \in InState(q, s)' <=> u \in InState(q, s)
      <3>1. CASE u = t
        BY <2>1, <2>2, <3>1 DEF InState
      <3>2. CASE u # t
        <4>1. u \in SlicesOf(q)' <=> u \in SlicesOf(q)
          BY <2>1, <3>2
        <4> QED BY <2>1, <2>2, <3>2, <4>1 DEF InState
      <3> QED BY <3>1, <3>2
    <2> QED BY <2>3
  <1>9. Cardinality(SlicesOf(p)') = n - 1
    <2>1. IsFiniteSet(SlicesOf(p))
      BY TasksFinite DEF SlicesOf
    <2>2. Cardinality(SlicesOf(p) \ {t}) = Cardinality(SlicesOf(p)) - 1
      BY <1>3, <2>1, FS_RemoveElement
    <2> QED BY <1>3, <1>7, <2>2
  <1>10. AbsentIsBlank'
    BY <1>4 DEF SplitInv, AbsentIsBlank
  <1>11. SlicesHaveParents'
    <2> SUFFICES ASSUME NEW u \in TaskId
                 PROVE  /\ desc'[u].slice <=> desc'[u].parent # NoTask
                        /\ desc'[u].slice => childCount'[desc'[u].parent] > 0 /\ childCount'[u] = 0
      BY DEF SlicesHaveParents
    <2>1. CASE u = t
      BY <1>4, <1>5, <2>1
    <2>2. CASE u # t
      <3>1. desc'[u] = desc[u] /\ childCount'[u] = childCount[u]
        BY <1>4, <2>2
      <3>2. desc[u].slice => desc[u].parent # t /\ desc[u].parent \in TaskId
        BY <1>6 DEF SlicesOf, OwnTypes, DescType, SplitInv, SlicesHaveParents
      <3> QED BY <1>4, <3>1, <3>2 DEF SplitInv, SlicesHaveParents
    <2> QED BY <2>1, <2>2
  <1>12. OnlyParentsWait'
    BY <1>4 DEF SplitInv, OnlyParentsWait
  <1>13. TallyExact'
    <2> SUFFICES ASSUME NEW q \in TaskId, NEW s \in Terminal
                 PROVE  tally'[q][s] = Cardinality(InState(q, s)')
      BY DEF TallyExact
    <2>1. CASE q = t
      <3>1. InState(t, s) = {}
        BY <1>6 DEF InState
      <3> QED BY <1>4, <1>8, <2>1, <3>1, FS_EmptySet DEF NoTally
    <2>2. CASE q # t
      BY <1>4, <1>8, <2>2 DEF SplitInv, TallyExact
    <2> QED BY <2>1, <2>2
  <1>14. /\ call'[th].task = p /\ call'[th].next = n /\ call'[th].children = c.children
         /\ \A x \in Threads : call'[x].desc = call[x].desc
    BY <1>0 DEF OwnTypes, CallType
  <1>15. CallsAreWhole'
    BY <1>14 DEF SplitInv, CallsAreWhole
  <1>16. AdmissionCounts'
    <2>1. \A k \in 1..(n - 1) : c.children[k].id \in SlicesOf(p)'
      <3>1. \A k \in 1..(n - 1) : k \in 1..n
        OBVIOUS
      <3> QED BY <1>2, <1>3, <1>7, <3>1
    <2>2. \A u \in SlicesOf(p)' : state'[u] = "QUEUED"
      BY <1>3, <1>4, <1>7 DEF SlicesOf
    <2>3. childCount'[p] = Len(c.children)
      BY <1>2, <1>3, <1>4
    <2> QED BY <1>0, <1>9, <1>14, <2>1, <2>2, <2>3 DEF AdmissionCounts
  <1>17. \A q \in TaskId : (Admitting(q)' <=> q = p) /\ (Admitting(q) <=> q = p)
    BY <1>0, <1>14 DEF Admitting
  <1>18. SplitIsAllOrNothing'
    <2> SUFFICES ASSUME NEW q \in TaskId, q # p
                 PROVE  Cardinality(SlicesOf(q)') = childCount'[q]
      BY <1>17 DEF SplitIsAllOrNothing
    <2>1. Cardinality(SlicesOf(q)) = childCount[q]
      BY <1>17 DEF SplitInv, SplitIsAllOrNothing
    <2> QED BY <1>4, <1>6, <1>7, <2>1
  <1>19. VerdictInForce'
    BY <1>4, <1>17 DEF SplitInv, VerdictInForce
  <1> QED BY <1>10, <1>11, <1>12, <1>13, <1>15, <1>16, <1>18, <1>19 DEF SplitInv

\* The rollback ends with a parent that has no slice left.
LEMMA RollbackParentSplit ==
    ASSUME OwnTypes, AdmissionProtocol, SplitInv, NEW th \in Threads, RollbackParent(th)
    PROVE  SplitInv'
  <1> DEFINE c == call[th]
  <1>0. lock = th /\ th # NoThread /\ c.next = 1 /\ lock' = NoThread /\ c.task \in TaskId
        /\ Return(th)
    BY ChildAt, ThreadAssumption DEF RollbackParent, RollbackDone
  <1> PICK p \in TaskId : p = c.task
    BY <1>0
  <1>1. SlicesOf(p) = {} /\ TableRemove(p)
    <2>1. Cardinality(SlicesOf(p)) = 1 - 1
      BY <1>0 DEF SplitInv, AdmissionCounts
    <2>2. IsFiniteSet(SlicesOf(p))
      BY TasksFinite DEF SlicesOf
    <2> QED BY <2>1, <2>2, FS_EmptySet DEF RollbackParent
  <1>2. /\ state'[p] = "ABSENT" /\ desc'[p] = NoDesc /\ childCount'[p] = 0 /\ tally'[p] = NoTally
        /\ \A u \in TaskId \ {p} : /\ state'[u] = state[u] /\ desc'[u] = desc[u]
                                   /\ childCount'[u] = childCount[u] /\ tally'[u] = tally[u]
    BY <1>1 DEF TableRemove, OwnTypes
  <1>3. ~NoDesc.slice /\ NoDesc.parent = NoTask
    BY DEF NoDesc
  <1>4. childCount[p] > 0 /\ ~desc[p].slice
    <2>1. state[p] = "WAITING"
      BY <1>0 DEF AdmissionProtocol, PartlyAdmitted
    <2>2. childCount[p] # 0 /\ childCount[p] \in Nat
      BY <2>1 DEF SplitInv, OnlyParentsWait, OwnTypes
    <2> QED BY <2>2 DEF SplitInv, SlicesHaveParents
  <1>5. \A q \in TaskId : SlicesOf(q)' = SlicesOf(q)
    BY <1>2, <1>3, <1>4 DEF SlicesOf
  <1>6. \A q \in TaskId, s \in Terminal : InState(q, s)' = InState(q, s)
    BY <1>2, <1>4, <1>5 DEF InState, SlicesOf
  <1>7. AbsentIsBlank'
    BY <1>2 DEF SplitInv, AbsentIsBlank
  <1>8. SlicesHaveParents'
    <2> SUFFICES ASSUME NEW u \in TaskId
                 PROVE  /\ desc'[u].slice <=> desc'[u].parent # NoTask
                        /\ desc'[u].slice => childCount'[desc'[u].parent] > 0 /\ childCount'[u] = 0
      BY DEF SlicesHaveParents
    <2>1. CASE u = p
      BY <1>2, <1>3, <2>1
    <2>2. CASE u # p
      <3>1. desc'[u] = desc[u] /\ childCount'[u] = childCount[u]
        BY <1>2, <2>2
      <3>2. desc[u].slice => desc[u].parent # p /\ desc[u].parent \in TaskId
        BY <1>1 DEF SlicesOf, OwnTypes, DescType, SplitInv, SlicesHaveParents
      <3> QED BY <1>2, <3>1, <3>2 DEF SplitInv, SlicesHaveParents
    <2> QED BY <2>1, <2>2
  <1>9. OnlyParentsWait'
    BY <1>2 DEF SplitInv, OnlyParentsWait
  <1>10. TallyExact'
    <2> SUFFICES ASSUME NEW q \in TaskId, NEW s \in Terminal
                 PROVE  tally'[q][s] = Cardinality(InState(q, s)')
      BY DEF TallyExact
    <2>1. CASE q = p
      <3>1. InState(p, s) = {}
        BY <1>1 DEF InState
      <3> QED BY <1>2, <1>6, <2>1, <3>1, FS_EmptySet DEF NoTally
    <2>2. CASE q # p
      BY <1>2, <1>6, <2>2 DEF SplitInv, TallyExact
    <2> QED BY <2>1, <2>2
  <1>11. CallsAreWhole'
    BY <1>0, ReturnWhole DEF SplitInv
  <1>12. AdmissionCounts'
    BY <1>0 DEF AdmissionCounts
  <1>13. \A q \in TaskId : ~Admitting(q)' /\ (Admitting(q) <=> q = p)
    BY <1>0 DEF Admitting
  <1>14. SplitIsAllOrNothing'
    BY <1>1, <1>2, <1>5, <1>13, FS_EmptySet DEF SplitInv, SplitIsAllOrNothing
  <1>15. VerdictInForce'
    BY <1>2, <1>13 DEF SplitInv, VerdictInForce
  <1> QED BY <1>7, <1>8, <1>9, <1>10, <1>11, <1>12, <1>14, <1>15 DEF SplitInv

\* An unfinished slice has a WAITING parent other than itself.
LEMMA UnfinishedHasParent ==
    ASSUME OwnTypes, SplitInv, NEW t \in TaskId, lock = NoThread, desc[t].parent # NoTask,
           state[t] \notin Terminal
    PROVE  /\ desc[t].parent \in TaskId /\ desc[t].parent # t
           /\ state[desc[t].parent] = "WAITING" /\ childCount[desc[t].parent] > 0
           /\ t \in SlicesOf(desc[t].parent)
  <1>1. desc[t].slice /\ desc[t].parent \in TaskId
    BY DEF OwnTypes, DescType, SplitInv, SlicesHaveParents
  <1> PICK p \in TaskId : p = desc[t].parent
    BY <1>1
  <1>2. childCount[p] > 0 /\ childCount[t] = 0 /\ ~Admitting(p) /\ t \in SlicesOf(p)
    BY <1>1 DEF SplitInv, SlicesHaveParents, Admitting, SlicesOf
  <1>3. ~Settled(tally[p], childCount[p])
    <2>1. Cardinality(SlicesOf(p)) = childCount[p]
      BY <1>2 DEF SplitInv, SplitIsAllOrNothing
    <2> QED BY <1>2, <2>1, SettledWhenAllFinal DEF SplitInv
  <1>4. state[p] = "WAITING"
    BY <1>2, <1>3 DEF SplitInv, VerdictInForce
  <1> QED BY <1>1, <1>2, <1>4

\* update_parent_after_child_locked, for a task of a caller and for a slice.
LEMMA FinishEffect ==
    ASSUME OwnTypes, SplitInv, NEW t \in TaskId, NEW s \in Terminal, FinishTask(t, s)
    PROVE  /\ state[t] \in {"QUEUED", "ASSIGNED", "RUNNING"} /\ state'[t] = s
           /\ desc[t].parent = NoTask =>
                 /\ tally' = tally
                 /\ \A u \in TaskId \ {t} : state'[u] = state[u]
           /\ \A p \in TaskId : desc[t].parent = p =>
                 /\ tally'[p] = [tally[p] EXCEPT ![s] = @ + 1]
                 /\ state'[p] = IF Settled(tally'[p], childCount[p])
                                THEN Verdict(tally'[p]) ELSE "WAITING"
                 /\ \A u \in TaskId \ {t, p} : state'[u] = state[u]
                 /\ \A u \in TaskId \ {p} : tally'[u] = tally[u]
  <1> DEFINE table == [state EXCEPT ![t] = s]
  <1>1. /\ state[t] \in {"QUEUED", "ASSIGNED", "RUNNING"} /\ lock = NoThread
        /\ UpdateParentAfterChild(t, s, table)
    BY DEF FinishTask
  <1>2. /\ \A u \in TaskId : table[u] = IF u = t THEN s ELSE state[u]
        /\ table \in [TaskId -> States]
    BY DEF OwnTypes, States
  <1>3. state'[t] = s
    BY FinishTable
  <1>4. CASE desc[t].parent = NoTask
    <2>1. tally' = tally /\ state' = table
      <3> HIDE DEF table
      <3> QED BY <1>1, <1>4, Zenon DEF UpdateParentAfterChild
    <2> QED BY <1>1, <1>2, <1>3, <1>4, <2>1, NoTaskAssumption
  <1>5. ASSUME NEW p \in TaskId, desc[t].parent = p
        PROVE  /\ tally'[p] = [tally[p] EXCEPT ![s] = @ + 1]
               /\ state'[p] = IF Settled(tally'[p], childCount[p])
                              THEN Verdict(tally'[p]) ELSE "WAITING"
               /\ \A u \in TaskId \ {t, p} : state'[u] = state[u]
               /\ \A u \in TaskId \ {p} : tally'[u] = tally[u]
    <2> DEFINE counts == [tally[p] EXCEPT ![s] = @ + 1]
    <2>1. p # NoTask /\ p # t /\ table[p] = "WAITING"
      <3>1. p # NoTask /\ state[t] \notin Terminal
        BY <1>1, NoTaskAssumption DEF Terminal
      <3>2. p # t /\ state[p] = "WAITING"
        BY <1>1, <1>5, <3>1, UnfinishedHasParent
      <3> HIDE DEF table
      <3> QED BY <1>2, <3>1, <3>2
    <2> HIDE DEF table
    <2>2. /\ tally' = [tally EXCEPT ![p] = counts]
          /\ state' = IF Settled(counts, childCount[p])
                      THEN [table EXCEPT ![p] = Verdict(counts)] ELSE table
      BY <1>1, <1>5, <2>1, Zenon DEF UpdateParentAfterChild
    <2> HIDE DEF counts
    <2>3. tally'[p] = counts /\ \A u \in TaskId \ {p} : tally'[u] = tally[u]
      BY <2>2 DEF OwnTypes
    <2>4. CASE Settled(counts, childCount[p])
      <3>1. state' = [table EXCEPT ![p] = Verdict(counts)]
        BY <2>2, <2>4
      <3> QED BY <1>2, <2>3, <2>4, <3>1 DEF counts
    <2>5. CASE ~Settled(counts, childCount[p])
      <3>1. state' = table
        BY <2>2, <2>5
      <3> QED BY <1>2, <2>1, <2>3, <2>5, <3>1 DEF counts
    <2> QED BY <2>4, <2>5
  <1> QED BY <1>1, <1>3, <1>4, <1>5

\* A finished slice is counted once, by its parent.
LEMMA FinishSplit ==
    ASSUME OwnTypes, SplitInv, NEW t \in TaskId, NEW s \in Terminal, FinishTask(t, s)
    PROVE  SplitInv'
  <1>0. lock = NoThread /\ UNCHANGED <<desc, childCount, lock, call>>
    BY DEF FinishTask, threadVars
  <1>1. /\ state[t] \notin Terminal /\ state[t] # "ABSENT" /\ state[t] # "WAITING"
        /\ state'[t] = s /\ s # "ABSENT" /\ s # "WAITING"
    BY FinishEffect DEF Terminal
  <1>2. \A q \in TaskId : SlicesOf(q)' = SlicesOf(q) /\ ~Admitting(q) /\ ~Admitting(q)'
    BY <1>0 DEF SlicesOf, Admitting
  <1>3. \A u \in TaskId \ {t} : state'[u] # state[u] => state[u] = "WAITING" /\ state'[u] \in Terminal
    BY FinishTable
  <1>4. childCount[t] = 0
    BY <1>1 DEF SplitInv, OnlyParentsWait, OwnTypes
  <1>5. AbsentIsBlank'
    <2> SUFFICES ASSUME NEW u \in TaskId, state'[u] = "ABSENT"
                 PROVE  desc'[u] = NoDesc /\ childCount'[u] = 0 /\ tally'[u] = NoTally
      BY DEF AbsentIsBlank
    <2>1. u # t /\ state[u] = "ABSENT"
      BY <1>1, <1>3 DEF Terminal
    <2>2. desc[u] = NoDesc /\ childCount[u] = 0 /\ tally[u] = NoTally
      BY <2>1 DEF SplitInv, AbsentIsBlank
    <2>3. desc[t].parent # u
      <3> SUFFICES ASSUME desc[t].parent = u PROVE FALSE
        OBVIOUS
      <3> QED BY <1>0, <1>1, <2>1, UnfinishedHasParent, NoTaskAssumption
    <2>4. tally'[u] = tally[u]
      <3>1. CASE desc[t].parent = NoTask
        BY <3>1, FinishEffect
      <3>2. CASE desc[t].parent # NoTask
        <4> PICK p \in TaskId : p = desc[t].parent
          BY <3>2 DEF OwnTypes, DescType
        <4>1. /\ tally'[p] = [tally[p] EXCEPT ![s] = @ + 1]
              /\ \A x \in TaskId \ {p} : tally'[x] = tally[x]
          BY FinishEffect
        <4> QED BY <2>3, <4>1
      <3> QED BY <3>1, <3>2
    <2> QED BY <1>0, <2>2, <2>4
  <1>6. CallsAreWhole' /\ SlicesHaveParents' /\ SplitIsAllOrNothing' /\ AdmissionCounts'
    <2>1. CallsAreWhole'
      BY <1>0 DEF SplitInv, CallsAreWhole
    <2>2. SlicesHaveParents'
      BY <1>0 DEF SplitInv, SlicesHaveParents
    <2>3. SplitIsAllOrNothing'
      BY <1>0, <1>2 DEF SplitInv, SplitIsAllOrNothing
    <2>4. AdmissionCounts'
      BY <1>0 DEF AdmissionCounts
    <2> QED BY <2>1, <2>2, <2>3, <2>4
  <1>7. CASE desc[t].parent = NoTask
    <2>1. tally' = tally /\ \A u \in TaskId \ {t} : state'[u] = state[u]
      BY <1>7, FinishEffect
    <2>2. ~desc[t].slice
      BY <1>7 DEF SplitInv, SlicesHaveParents
    <2>3. \A q \in TaskId, x \in Terminal : InState(q, x)' = InState(q, x)
      BY <1>2, <2>1, <2>2 DEF InState, SlicesOf
    <2>4. TallyExact'
      BY <2>1, <2>3 DEF SplitInv, TallyExact
    <2>5. OnlyParentsWait'
      BY <1>0, <1>1, <1>4, <2>1 DEF SplitInv, OnlyParentsWait
    <2>6. VerdictInForce'
      BY <1>0, <1>2, <1>4, <2>1 DEF SplitInv, VerdictInForce
    <2> QED BY <1>5, <1>6, <2>4, <2>5, <2>6 DEF SplitInv
  <1>8. CASE desc[t].parent # NoTask
    <2>1. /\ desc[t].parent \in TaskId /\ desc[t].parent # t
          /\ state[desc[t].parent] = "WAITING" /\ childCount[desc[t].parent] > 0
          /\ t \in SlicesOf(desc[t].parent)
      BY <1>0, <1>1, <1>8, UnfinishedHasParent
    <2> PICK p \in TaskId : p = desc[t].parent
      BY <2>1
    <2>2. /\ tally'[p] = [tally[p] EXCEPT ![s] = @ + 1]
          /\ state'[p] = IF Settled(tally'[p], childCount[p]) THEN Verdict(tally'[p]) ELSE "WAITING"
          /\ \A u \in TaskId \ {t, p} : state'[u] = state[u]
          /\ \A u \in TaskId \ {p} : tally'[u] = tally[u]
      BY FinishEffect
    <2>3. \A q \in TaskId : p \notin SlicesOf(q) /\ (t \in SlicesOf(q) <=> q = p)
      <3>1. ~desc[p].slice /\ desc[t].slice
        BY <1>8, <2>1 DEF SplitInv, SlicesHaveParents
      <3> QED BY <3>1 DEF SlicesOf
    <2>4. ASSUME NEW q \in TaskId, NEW x \in Terminal
          PROVE  InState(q, x)' = IF q = p /\ x = s THEN InState(q, x) \cup {t} ELSE InState(q, x)
      <3>1. /\ SlicesOf(q)' = SlicesOf(q) /\ SlicesOf(q) \subseteq TaskId
            /\ \A u \in SlicesOf(q) : u # t => state'[u] = state[u]
        BY <1>2, <2>2, <2>3 DEF SlicesOf
      <3> QED BY <1>1, <2>3, <3>1 DEF InState
    <2>5. TallyExact'
      <3> SUFFICES ASSUME NEW q \in TaskId, NEW x \in Terminal
                   PROVE  tally'[q][x] = Cardinality(InState(q, x)')
        BY DEF TallyExact
      <3>1. tally[q] \in [Terminal -> Nat] /\ tally[q][x] = Cardinality(InState(q, x))
        BY DEF SplitInv, TallyExact, OwnTypes
      <3>2. CASE q = p /\ x = s
        <4>1. t \notin InState(q, x) /\ IsFiniteSet(InState(q, x))
          BY <1>1, TasksFinite DEF InState, SlicesOf
        <4>2. Cardinality(InState(q, x) \cup {t}) = Cardinality(InState(q, x)) + 1
          BY <4>1, FS_AddElement
        <4>3. tally'[q][x] = tally[q][x] + 1
          BY <2>2, <3>1, <3>2
        <4>4. InState(q, x)' = InState(q, x) \cup {t}
          BY <2>4, <3>2
        <4> QED BY <3>1, <4>2, <4>3, <4>4
      <3>3. CASE ~(q = p /\ x = s)
        <4>1. tally'[q][x] = tally[q][x]
          BY <2>2, <3>1, <3>3
        <4> QED BY <2>4, <3>1, <3>3, <4>1
      <3> QED BY <3>2, <3>3
    <2>6. OnlyParentsWait'
      <3>1. Verdict(tally'[p]) \in Terminal
        BY DEF Verdict, Terminal
      <3>2. state'[p] \in {"WAITING"} \cup Terminal
        BY <2>2, <3>1
      <3> QED BY <1>0, <1>1, <1>4, <2>1, <2>2, <3>2 DEF SplitInv, OnlyParentsWait
    <2>7. VerdictInForce'
      BY <1>0, <1>2, <1>4, <2>2 DEF SplitInv, VerdictInForce
    <2> QED BY <1>5, <1>6, <2>5, <2>6, <2>7 DEF SplitInv
  <1> QED BY <1>7, <1>8

----------------------------------------------------------------------------
\* There is nothing to count in an empty table, ...
LEMMA SplitInit == Init => SplitInv
  <1> SUFFICES ASSUME Init PROVE SplitInv
    OBVIOUS
  <1>1. ~NoDesc.slice /\ NoDesc.parent = NoTask /\ NoCall.desc = NoDesc
    BY DEF NoDesc, NoCall
  <1>2. \A t \in TaskId : state[t] = "ABSENT" /\ desc[t] = NoDesc /\ childCount[t] = 0 /\ tally[t] = NoTally
    BY DEF Init
  <1>3. \A p \in TaskId : SlicesOf(p) = {}
    BY <1>1, <1>2 DEF SlicesOf
  <1>4. \A p \in TaskId, s \in Terminal : tally[p][s] = 0 /\ InState(p, s) = {}
    BY <1>2, <1>3 DEF InState, NoTally
  <1>5. AbsentIsBlank /\ CallsAreWhole /\ SlicesHaveParents /\ OnlyParentsWait
    BY <1>1, <1>2 DEF Init, AbsentIsBlank, CallsAreWhole, SlicesHaveParents, OnlyParentsWait
  <1>6. TallyExact /\ SplitIsAllOrNothing
    BY <1>2, <1>3, <1>4, FS_EmptySet DEF TallyExact, SplitIsAllOrNothing
  <1>7. AdmissionCounts /\ VerdictInForce
    BY <1>2 DEF Init, AdmissionCounts, VerdictInForce
  <1> QED BY <1>5, <1>6, <1>7 DEF SplitInv

\* ... and every step keeps the count.
LEMMA SplitStep == ParentLeftToCore /\ Base /\ SplitInv /\ [Next]_vars => SplitInv'
  <1> SUFFICES ASSUME ParentLeftToCore, OwnTypes, AdmissionProtocol, SplitInv, [Next]_vars
               PROVE  SplitInv'
    BY DEF Base
  <1>0. ASSUME UNCHANGED <<tableVars, lock, call>> PROVE SplitInv'
    <2>1. CallsAreWhole'
      BY <1>0 DEF SplitInv, CallsAreWhole
    <2> QED BY <1>0, <2>1, MoveSplit DEF tableVars
  <1>1. ASSUME NEW t \in TaskId, NEW parent \in CallerParents, NEW shots \in Shots,
               NEW prio \in Priorities, SubmitWhole(t, parent, shots, prio)
        PROVE  SplitInv'
    <2> DEFINE d == [parent |-> parent, shots |-> shots, slice |-> FALSE]
    <2>1. d \in DescType /\ d.parent = NoTask /\ ~d.slice
      BY SubmittedType DEF ParentLeftToCore
    <2>2. /\ lock = NoThread /\ state[t] = "ABSENT" /\ Enqueue(t, d, prio)
          /\ UNCHANGED <<lock, call>>
      BY <1>1 DEF SubmitWhole, threadVars
    <2>3. CallsAreWhole'
      BY <2>2 DEF SplitInv, CallsAreWhole
    <2> HIDE DEF d
    <2>4. CASE EnqueueOk(t, d, prio)
      BY <2>1, <2>2, <2>3, <2>4, EnqueueWholeSplit
    <2>5. CASE EnqueueFailed
      BY <1>0, <2>2, <2>5 DEF EnqueueFailed
    <2> QED BY <2>2, <2>4, <2>5 DEF Enqueue
  <1>2. ASSUME NEW t \in TaskId, NEW parent \in CallerParents, NEW shots \in Shots,
               NEW prio \in Priorities, NEW th \in Threads,
               SubmitWithCallback(th, t, parent, shots, prio)
        PROVE  SplitInv'
    <2>1. UNCHANGED <<tableVars, lock>> /\ lock = NoThread
      BY <1>2 DEF SubmitWithCallback
    <2>2. CallsAreWhole'
      <3>1. /\ call'[th].desc = [parent |-> parent, shots |-> shots, slice |-> FALSE]
            /\ \A x \in Threads \ {th} : call'[x] = call[x]
        BY <1>2 DEF SubmitWithCallback, OwnTypes, NoCall
      <3>2. call'[th].desc.parent = NoTask /\ ~call'[th].desc.slice
        BY <3>1 DEF ParentLeftToCore
      <3> QED BY <3>1, <3>2 DEF SplitInv, CallsAreWhole
    <2> QED BY <2>1, <2>2, MoveSplit DEF tableVars
  <1>3. ASSUME NEW th \in Threads, EstimateReturns(th) PROVE SplitInv'
    <2>1. lock = NoThread /\ lock' = lock /\ CallsAreWhole'
      BY <1>3, ReturnWhole DEF EstimateReturns, SplitInv
    <2>2. CASE UNCHANGED tableVars
      BY <2>1, <2>2, MoveSplit DEF tableVars
    <2>3. CASE MayEnqueue(th) /\ EnqueueOk(call[th].task, call[th].desc, call[th].priority)
      <3>1. /\ call[th].task \in TaskId /\ call[th].desc \in DescType
            /\ call[th].desc.parent = NoTask /\ ~call[th].desc.slice
            /\ state[call[th].task] = "ABSENT"
        BY <1>3, <2>3 DEF EstimateReturns, MayEnqueue, AdmissionProtocol, OwnTypes, CallType,
                          SplitInv, CallsAreWhole
      <3> QED BY <2>1, <2>3, <3>1, EnqueueWholeSplit
    <2> QED BY <1>3, <2>2, <2>3 DEF EstimateReturns, Enqueue, EnqueueFailed
  <1>4. ASSUME NEW th \in Threads, NEW answer \in SplitAnswers, SplitReturns(th, answer)
        PROVE  SplitInv'
    <2> DEFINE c == call[th]
               children == ChildrenOf(th, answer)
    <2>0. lock = NoThread
      BY <1>4 DEF SplitReturns
    <2>1. CASE Return(th) /\ UNCHANGED <<tableVars, lock>>
      <3>1. CallsAreWhole'
        BY <2>1, ReturnWhole DEF SplitInv
      <3> QED BY <2>0, <2>1, <3>1, MoveSplit DEF tableVars
    <2>2. CASE /\ TableInsert(c.task, c.desc, c.priority, "WAITING")
               /\ childCount' = [childCount EXCEPT ![c.task] = Len(answer)]
               /\ lock' = th /\ UNCHANGED tally
               /\ call' = [call EXCEPT ![th].children = children, ![th].next = 1]
      <3>1. /\ c.task \in TaskId /\ c.desc \in DescType /\ state[c.task] = "ABSENT"
            /\ c.desc.parent = NoTask /\ ~c.desc.slice
        BY <1>4 DEF SplitReturns, MaySplit, AdmissionProtocol, OwnTypes, CallType, SplitInv, CallsAreWhole
      <3>2. Len(answer) \in Nat /\ Len(children) = Len(answer) /\ Len(answer) > 0
        <4>1. /\ PlanFor(c.desc.shots) = c.plan /\ c.plan.kind = "split"
              /\ Len(children) = c.plan.slice_count
          <5> HIDE DEF children
          <5>1. ValidChildTasks(c.task, children, c.plan, c.desc.shots, Present)
            BY <1>4 DEF SplitReturns, MaySplit, children
          <5> QED BY <1>4, <5>1 DEF SplitReturns, MaySplit, AdmissionProtocol, ValidChildTasks
        <4>2. c.plan.slice_count >= 1
          BY <3>1, <4>1, PlanForType DEF DescType
        <4> QED BY <4>1, <4>2, ChildrenType
      <3> HIDE DEF children
      <3>3. /\ call'[th].task = c.task /\ call'[th].next = 1 /\ call'[th].children = children
            /\ \A x \in Threads : call'[x].desc = call[x].desc
        BY <2>2 DEF OwnTypes, CallType
      <3>4. CallsAreWhole'
        BY <3>3 DEF SplitInv, CallsAreWhole
      <3>5. PICK p \in TaskId, d \in DescType, prio \in Priorities, n \in Nat :
                p = c.task /\ d = c.desc /\ prio = c.priority /\ n = Len(answer)
        BY <3>1, <3>2 DEF OwnTypes, CallType
      <3> QED BY <2>0, <2>2, <3>1, <3>2, <3>3, <3>4, <3>5, InsertParentSplit
    <2> QED BY <1>4, <2>1, <2>2 DEF SplitReturns
  <1>5. ASSUME NEW th \in Threads, SplitFails(th) PROVE SplitInv'
    <2>1. lock = NoThread /\ UNCHANGED <<tableVars, lock>> /\ CallsAreWhole'
      BY <1>5, ReturnWhole DEF SplitFails, SplitInv
    <2> QED BY <2>1, MoveSplit DEF tableVars
  <1>6. ASSUME NEW th \in Threads, EnqueueChild(th) PROVE SplitInv'
    BY <1>6, EnqueueChildSplit
  <1>7. ASSUME NEW th \in Threads, RollbackChild(th) PROVE SplitInv'
    BY <1>7, RollbackChildSplit
  <1>8. ASSUME NEW th \in Threads, RollbackParent(th) PROVE SplitInv'
    BY <1>8, RollbackParentSplit
  <1>9. ASSUME NEW t \in TaskId, SelectNext(t) PROVE SplitInv'
    <2>1. lock = NoThread /\ UNCHANGED <<desc, childCount, tally, lock, call>>
      BY <1>9 DEF SelectNext, threadVars
    <2>2. CallsAreWhole'
      BY <2>1 DEF SplitInv, CallsAreWhole
    <2>3. \A u \in TaskId : \/ state'[u] = state[u]
                            \/ {state[u], state'[u]} \subseteq {"QUEUED", "ASSIGNED", "RUNNING"}
      <3>1. CASE Assignable(t)
        BY <1>9, <3>1 DEF SelectNext, Assignable, OwnTypes
      <3>2. CASE ~Assignable(t)
        BY <1>9, <3>2 DEF SelectNext
      <3> QED BY <3>1, <3>2
    <2> QED BY <2>1, <2>2, <2>3, MoveSplit
  <1>10. ASSUME NEW t \in TaskId, TaskStarted(t) PROVE SplitInv'
    <2>1. lock = NoThread /\ UNCHANGED <<desc, childCount, tally, lock, call>>
      BY <1>10 DEF TaskStarted, threadVars
    <2>2. CallsAreWhole'
      BY <2>1 DEF SplitInv, CallsAreWhole
    <2>3. \A u \in TaskId : \/ state'[u] = state[u]
                            \/ {state[u], state'[u]} \subseteq {"QUEUED", "ASSIGNED", "RUNNING"}
      BY <1>10 DEF TaskStarted, StartRefused, OwnTypes
    <2> QED BY <2>1, <2>2, <2>3, MoveSplit
  <1>11. ASSUME NEW t \in TaskId, NEW prio \in Priorities, UpdatePriority(t, prio)
         PROVE  SplitInv'
    <2>1. UNCHANGED <<state, desc, childCount, tally, lock, call>>
      BY <1>11 DEF UpdatePriority, threadVars
    <2>2. CallsAreWhole'
      BY <2>1 DEF SplitInv, CallsAreWhole
    <2> QED BY <2>1, <2>2, MoveSplit
  <1>12. ASSUME NEW t \in TaskId, NEW s \in Terminal, FinishTask(t, s) PROVE SplitInv'
    BY <1>12, FinishSplit
  <1>13. ASSUME NEW kind \in PolicyKinds, NEW config \in SplitConfigs, SetPolicy(kind, config)
         PROVE  SplitInv'
    BY <1>0, <1>13 DEF SetPolicy, threadVars
  <1>14. ASSUME NEW cbs \in CallbackSets, SetCallbacks(cbs) PROVE SplitInv'
    BY <1>0, <1>14 DEF SetCallbacks, threadVars
  <1>15. CASE UNCHANGED vars
    BY <1>0, <1>15 DEF vars, threadVars
  <1> QED BY <1>1, <1>2, <1>3, <1>4, <1>5, <1>6, <1>7, <1>8, <1>9, <1>10, <1>11, <1>12,
             <1>13, <1>14, <1>15 DEF Next, Submit, SubmitStep

\* A parent waits exactly as long as one of its slices is unfinished, and then
\* takes the verdict of their own final states: the counters in its record can
\* neither be late nor miss a slice.
THEOREM ParentFollowsSlicesHolds ==
    ASSUME ParentLeftToCore
    PROVE  Spec => []ParentFollowsSlices
  <1>1. Base /\ SplitInv => ParentFollowsSlices
    BY SplitInvSuffices DEF Base
  <1>2. Base /\ SplitInv /\ [Next]_vars => SplitInv'
    BY SplitStep
  <1> QED BY <1>1, <1>2, SplitInit, BaseInit, BaseStep, PTL DEF Spec

----------------------------------------------------------------------------
(* The refinement: what the caller sees of the task table follows the      *)
(* lifecycle it was promised.                                              *)

\* While the mutex is free everything is visible, ...
LEMMA AllVisible ==
    OwnTypes /\ lock = NoThread =>
        VisibleState = state /\ VisibleParent = [t \in TaskId |-> desc[t].parent]
  BY DEF OwnTypes, VisibleState, VisibleParent, Hidden

\* ... before a step and after it.
LEMMA AllVisibleNext ==
    OwnTypes' /\ lock' = NoThread =>
        VisibleState' = state' /\ VisibleParent' = [t \in TaskId |-> desc'[t].parent]
  BY DEF OwnTypes, VisibleState, VisibleParent, Hidden

\* A step that changes nothing the caller sees of any task.
LEMMA NothingVisible ==
    ASSUME UNCHANGED runningTask,
           \A t \in TaskId : /\ VisibleState'[t] = VisibleState[t]
                             /\ VisibleParent'[t] = VisibleParent[t]
    PROVE  UNCHANGED Lifecycle!vars
  <1>1. VisibleState' = VisibleState
    BY DEF VisibleState
  <1>2. VisibleParent' = VisibleParent
    BY DEF VisibleParent
  <1> QED BY <1>1, <1>2 DEF Lifecycle!vars

\* An operation that leaves states and descriptors alone.
LEMMA KeepVisible ==
    ASSUME UNCHANGED <<state, desc, lock, runningTask>>, lock = NoThread \/ UNCHANGED call
    PROVE  UNCHANGED Lifecycle!vars
  BY DEF Lifecycle!vars, VisibleState, VisibleParent, Hidden

\* A whole task is accepted.
LEMMA EnqueueAccepts ==
    ASSUME OwnTypes, OwnTypes', SplitInv, NEW t \in TaskId, NEW d \in DescType, NEW prio,
           state[t] = "ABSENT", d.parent = NoTask, EnqueueOk(t, d, prio),
           lock = NoThread, lock' = NoThread, UNCHANGED runningTask
    PROVE  Lifecycle!Accept(t)
  <1>1. /\ VisibleState = state /\ VisibleParent = [u \in TaskId |-> desc[u].parent]
        /\ VisibleState' = state' /\ VisibleParent' = [u \in TaskId |-> desc'[u].parent]
    BY AllVisible, AllVisibleNext
  <1>2. state' = [state EXCEPT ![t] = "QUEUED"] /\ desc' = [desc EXCEPT ![t] = d]
    BY DEF EnqueueOk, TableInsert
  <1>3. desc[t].parent = NoTask
    BY BlankRecord DEF NoDesc
  <1>4. VisibleParent' = VisibleParent
    <2>1. \A u \in TaskId : desc'[u].parent = desc[u].parent
      BY <1>2, <1>3 DEF OwnTypes
    <2> QED BY <1>1, <2>1
  <1> QED BY <1>1, <1>2, <1>4 DEF Lifecycle!Accept, Lifecycle!Absent

\* The parent of an admission that has just begun is not visible.
LEMMA SplitReturnsHides ==
    ASSUME OwnTypes, AdmissionProtocol, SplitInv, NEW th \in Threads, NEW answer \in SplitAnswers,
           SplitReturns(th, answer)
    PROVE  UNCHANGED Lifecycle!vars
  <1> DEFINE c == call[th]
  <1>0. lock = NoThread /\ UNCHANGED runningTask
    BY DEF SplitReturns, qpuVars
  <1>1. CASE UNCHANGED <<tableVars, lock>>
    BY <1>0, <1>1, KeepVisible DEF tableVars
  <1>2. CASE /\ TableInsert(c.task, c.desc, c.priority, "WAITING") /\ lock' = th
             /\ call' = [call EXCEPT ![th].children = ChildrenOf(th, answer), ![th].next = 1]
    <2>1. c.task \in TaskId /\ state[c.task] = "ABSENT" /\ c.desc \in DescType
      BY DEF SplitReturns, MaySplit, AdmissionProtocol, OwnTypes, CallType
    <2> PICK p \in TaskId : p = c.task
      BY <2>1
    <2>2. desc[p].parent = NoTask /\ SlicesOf(p) = {}
      BY <2>1, BlankRecord DEF NoDesc
    <2>3. \A u \in TaskId \ {p} : /\ state'[u] = state[u] /\ desc'[u] = desc[u]
                                  /\ desc[u].parent # p
      <3>1. \A u \in TaskId \ {p} : state'[u] = state[u] /\ desc'[u] = desc[u]
        BY <1>2 DEF TableInsert, OwnTypes
      <3>2. \A u \in TaskId : desc[u].parent = p => u \in SlicesOf(p)
        BY NoTaskAssumption DEF SlicesOf, SplitInv, SlicesHaveParents
      <3> QED BY <2>2, <3>1, <3>2
    <2>4. call'[th].task = p /\ lock' = th /\ th # NoThread
      BY <1>2, ThreadAssumption DEF OwnTypes, CallType
    <2>5. \A u \in TaskId : ~Hidden(u) /\ (Hidden(u)' <=> u = p)
      BY <1>0, <2>3, <2>4 DEF Hidden
    <2>6. \A u \in TaskId : VisibleState'[u] = VisibleState[u] /\ VisibleParent'[u] = VisibleParent[u]
      BY <2>1, <2>2, <2>3, <2>5 DEF VisibleState, VisibleParent
    <2> QED BY <1>0, <2>6, NothingVisible
  <1> QED BY <1>1, <1>2 DEF SplitReturns

\* The slices become visible with their parent, when the last one is admitted.
LEMMA EnqueueChildAccepts ==
    ASSUME OwnTypes, OwnTypes', AdmissionProtocol, SplitInv, NEW th \in Threads, EnqueueChild(th)
    PROVE  \/ UNCHANGED Lifecycle!vars
           \/ \E p \in TaskId, slices \in SUBSET TaskId : Lifecycle!AcceptSplit(p, slices)
  <1> DEFINE c == call[th]
             child == c.children[c.next]
             d == [parent |-> child.parent, shots |-> child.shots, slice |-> TRUE]
  <1>0. lock = th /\ th # NoThread /\ UNCHANGED runningTask
    BY ThreadAssumption DEF EnqueueChild
  <1>1. /\ c.next \in 1..Len(c.children) /\ Len(c.children) \in Nat
        /\ c.task \in TaskId /\ child.id \in TaskId
    BY <1>0, ChildAt
  <1> PICK p \in TaskId, t \in TaskId : p = c.task /\ t = child.id
    BY <1>1
  <1>2. state[p] = "WAITING" /\ t # p /\ child.parent = p /\ state[t] = "ABSENT"
    <2>1. ~(c.next < c.next)
      BY <1>1
    <2> QED BY <1>0, <1>1, <2>1 DEF AdmissionProtocol, PartlyAdmitted
  <1>3. CASE EnqueueFailed /\ UNCHANGED <<call, lock>>
    BY <1>0, <1>3, KeepVisible DEF EnqueueFailed, tableVars
  <1>4. CASE (\E prio \in Priorities : EnqueueOk(t, d, prio))
             /\ IF c.next = Len(c.children)
                THEN Return(th) /\ lock' = NoThread
                ELSE call' = [call EXCEPT ![th].next = @ + 1] /\ UNCHANGED <<pc, lock>>
    <2>1. /\ state'[t] = "QUEUED" /\ desc'[t].parent = p
          /\ \A u \in TaskId \ {t} : state'[u] = state[u] /\ desc'[u] = desc[u]
      <3>1. state' = [state EXCEPT ![t] = "QUEUED"] /\ desc' = [desc EXCEPT ![t] = d]
        BY <1>4 DEF EnqueueOk, TableInsert
      <3>2. d.parent = p
        BY <1>2
      <3> HIDE DEF d
      <3> QED BY <3>1, <3>2 DEF OwnTypes
    <2>2. desc[t].parent = NoTask /\ t \notin SlicesOf(p)
      BY <1>2, BlankRecord DEF NoDesc, SlicesOf
    <2>3. /\ desc[p].parent = NoTask
          /\ \A u \in TaskId : desc[u].parent = p <=> u \in SlicesOf(p)
          /\ \A u \in SlicesOf(p) : state[u] = "QUEUED"
      <3>1. childCount[p] # 0
        BY <1>2 DEF SplitInv, OnlyParentsWait
      <3>2. desc[p].parent = NoTask
        BY <3>1 DEF SplitInv, SlicesHaveParents
      <3>3. \A u \in TaskId : desc[u].parent = p <=> u \in SlicesOf(p)
        BY NoTaskAssumption DEF SlicesOf, SplitInv, SlicesHaveParents
      <3>4. \A u \in SlicesOf(p) : state[u] = "QUEUED"
        BY <1>0 DEF SplitInv, AdmissionCounts
      <3> QED BY <3>2, <3>3, <3>4
    <2>4. \A u \in TaskId : Hidden(u) <=> u = p \/ desc[u].parent = p
      BY <1>0 DEF Hidden
    <2>5. CASE c.next = Len(c.children)
      <3> DEFINE slices == SlicesOf(p) \cup {t}
      <3>1. lock' = NoThread
        BY <1>4, <2>5
      <3>2. VisibleState' = state' /\ VisibleParent' = [u \in TaskId |-> desc'[u].parent]
        BY <3>1, AllVisibleNext
      <3>3. slices \in SUBSET TaskId /\ slices # {} /\ p \notin slices
        BY <1>2, <2>3, NoTaskAssumption DEF SlicesOf
      <3>4. VisibleState[p] = "ABSENT" /\ \A u \in slices : VisibleState[u] = "ABSENT"
        BY <1>2, <2>3, <2>4, <3>3 DEF VisibleState
      <3>5. \A u \in TaskId : state'[u] = IF u = p THEN "WAITING"
                                          ELSE IF u \in slices THEN "QUEUED" ELSE VisibleState[u]
        BY <1>2, <2>1, <2>3, <2>4 DEF VisibleState
      <3>6. state' = [u \in TaskId |-> IF u = p THEN "WAITING"
                                       ELSE IF u \in slices THEN "QUEUED" ELSE VisibleState[u]]
        <4> HIDE DEF slices
        <4> QED BY <3>5 DEF OwnTypes
      <3>7. \A u \in TaskId : desc'[u].parent = IF u \in slices THEN p ELSE VisibleParent[u]
        BY <1>2, <2>1, <2>3, <2>4 DEF VisibleParent
      <3>8. VisibleParent' = [u \in TaskId |-> IF u \in slices THEN p ELSE VisibleParent[u]]
        BY <3>2, <3>7
      <3> HIDE DEF slices
      <3>9. Lifecycle!AcceptSplit(p, slices)
        BY <1>0, <3>2, <3>3, <3>4, <3>6, <3>8 DEF Lifecycle!AcceptSplit, Lifecycle!Absent
      <3> QED BY <3>3, <3>9
    <2>6. CASE c.next # Len(c.children)
      <3>1. lock' = th /\ call'[th].task = p
        BY <1>0, <1>4, <2>6 DEF OwnTypes, CallType
      <3>2. \A u \in TaskId : Hidden(u)' <=> u = p \/ desc'[u].parent = p
        BY <1>0, <3>1 DEF Hidden
      <3>3. \A u \in TaskId : VisibleState'[u] = VisibleState[u] /\ VisibleParent'[u] = VisibleParent[u]
        BY <1>2, <2>1, <2>2, <2>4, <3>2 DEF VisibleState, VisibleParent
      <3> QED BY <1>0, <3>3, NothingVisible
    <2> QED BY <2>5, <2>6
  <1> QED BY <1>3, <1>4 DEF EnqueueChild

\* What a rollback takes out of the table was not visible.
LEMMA RollbackHides ==
    ASSUME OwnTypes, AdmissionProtocol, SplitInv, NEW th \in Threads,
           RollbackChild(th) \/ RollbackParent(th)
    PROVE  UNCHANGED Lifecycle!vars
  <1> DEFINE c == call[th]
  <1>0. lock = th /\ th # NoThread /\ UNCHANGED runningTask
    BY ThreadAssumption DEF RollbackChild, RollbackParent, qpuVars
  <1>1. /\ c.next \in 1..Len(c.children) /\ Len(c.children) \in Nat /\ c.task \in TaskId
        /\ \A k \in 1..Len(c.children) : c.children[k].id \in TaskId
    BY <1>0, ChildAt
  <1> PICK p \in TaskId : p = c.task
    BY <1>1
  <1>2. /\ \A u \in TaskId : Hidden(u) <=> u = p \/ u \in SlicesOf(p)
        /\ Cardinality(SlicesOf(p)) = c.next - 1
        /\ \A k \in 1..(c.next - 1) : c.children[k].id \in SlicesOf(p)
    <2>1. \A u \in TaskId : desc[u].parent = p <=> u \in SlicesOf(p)
      BY NoTaskAssumption DEF SlicesOf, SplitInv, SlicesHaveParents
    <2> QED BY <1>0, <2>1 DEF Hidden, SplitInv, AdmissionCounts
  <1>3. NoDesc.parent = NoTask
    BY DEF NoDesc
  <1>4. CASE RollbackChild(th)
    <2>1. c.next # 1
      BY <1>4 DEF RollbackChild, RollbackDone
    <2>2. c.next - 1 \in 1..(c.next - 1) /\ c.next - 1 \in 1..Len(c.children)
      BY <1>1, <2>1
    <2>3. PICK t \in TaskId : t = c.children[c.next - 1].id /\ t \in SlicesOf(p)
      BY <1>1, <1>2, <2>2
    <2>4. /\ state'[t] = "ABSENT" /\ desc'[t] = NoDesc
          /\ \A u \in TaskId \ {t} : state'[u] = state[u] /\ desc'[u] = desc[u]
      BY <1>4, <2>3 DEF RollbackChild, TableRemove, OwnTypes
    <2>5. lock' = th /\ call'[th].task = p
      BY <1>0, <1>4 DEF RollbackChild, OwnTypes, CallType
    <2>6. \A u \in TaskId \ {t} : Hidden(u)' <=> Hidden(u)
      BY <1>0, <2>4, <2>5 DEF Hidden
    <2>7. \A u \in TaskId : VisibleState'[u] = VisibleState[u] /\ VisibleParent'[u] = VisibleParent[u]
      BY <1>2, <1>3, <2>3, <2>4, <2>6 DEF VisibleState, VisibleParent
    <2> QED BY <1>0, <2>7, NothingVisible
  <1>5. CASE RollbackParent(th)
    <2>1. SlicesOf(p) = {}
      <3>1. IsFiniteSet(SlicesOf(p)) /\ c.next - 1 = 0
        BY <1>5, TasksFinite DEF RollbackParent, RollbackDone, SlicesOf
      <3> QED BY <1>2, <3>1, FS_EmptySet
    <2>2. /\ state'[p] = "ABSENT" /\ desc'[p] = NoDesc /\ lock' = NoThread
          /\ \A u \in TaskId \ {p} : state'[u] = state[u] /\ desc'[u] = desc[u]
      BY <1>5 DEF RollbackParent, TableRemove, OwnTypes
    <2>3. \A u \in TaskId : ~Hidden(u)'
      BY <2>2 DEF Hidden
    <2>4. \A u \in TaskId : VisibleState'[u] = VisibleState[u] /\ VisibleParent'[u] = VisibleParent[u]
      BY <1>2, <1>3, <2>1, <2>2, <2>3 DEF VisibleState, VisibleParent
    <2> QED BY <1>0, <2>4, NothingVisible
  <1> QED BY <1>4, <1>5

\* A task ends, and with the last slice its parent: the counters of the parent's
\* record give the verdict that the final states of the slices demand.
LEMMA FinishEnds ==
    ASSUME OwnTypes, OwnTypes', SplitInv, SplitInv', NEW t \in TaskId, NEW s \in Terminal,
           FinishTask(t, s)
    PROVE  Lifecycle!End(t, s)
  <1> DEFINE after == [VisibleState EXCEPT ![t] = s]
             outcomes == {after[c] : c \in {u \in TaskId : VisibleParent[u] = VisibleParent[t]}}
  <1>0. /\ lock = NoThread /\ lock' = NoThread /\ UNCHANGED <<desc, childCount>>
        /\ s = "COMPLETED" => state[t] = "RUNNING"
        /\ runningTask' = IF runningTask = t THEN NoTask ELSE runningTask
    BY DEF FinishTask, SlotAfterFinish, threadVars
  <1>1. /\ VisibleState = state /\ VisibleParent = [u \in TaskId |-> desc[u].parent]
        /\ VisibleState' = state' /\ VisibleParent' = VisibleParent
    BY <1>0, AllVisible, AllVisibleNext
  <1>2. state[t] \in {"QUEUED", "ASSIGNED", "RUNNING"} /\ state'[t] = s
    BY FinishEffect
  <1>3. /\ VisibleParent[t] = desc[t].parent
        /\ \A u \in TaskId : after[u] = IF u = t THEN s ELSE state[u]
        /\ DOMAIN after = TaskId
    BY <1>1 DEF OwnTypes
  <1>4. state' = IF VisibleParent[t] # NoTask /\ outcomes \subseteq Terminal
                 THEN [after EXCEPT ![VisibleParent[t]] = Lifecycle!Judge(outcomes)] ELSE after
    <2>1. CASE desc[t].parent = NoTask
      <3>1. \A u \in TaskId \ {t} : state'[u] = state[u]
        BY <2>1, FinishEffect
      <3>2. state' = [state EXCEPT ![t] = s]
        BY <1>2, <3>1 DEF OwnTypes
      <3> HIDE DEF outcomes
      <3> QED BY <1>1, <1>3, <2>1, <3>2
    <2>2. CASE desc[t].parent # NoTask
      <3>1. /\ desc[t].parent \in TaskId /\ desc[t].parent # t
            /\ state[desc[t].parent] = "WAITING" /\ childCount[desc[t].parent] > 0
        <4>1. state[t] \notin Terminal
          BY <1>2 DEF Terminal
        <4> QED BY <1>0, <2>2, <4>1, UnfinishedHasParent
      <3> PICK p \in TaskId : p = desc[t].parent
        BY <3>1
      <3>2. /\ tally'[p] = [tally[p] EXCEPT ![s] = @ + 1]
            /\ \A u \in TaskId \ {t, p} : state'[u] = state[u]
        BY FinishEffect
      <3>3. \A u \in TaskId : desc[u].parent = p <=> u \in SlicesOf(p)
        BY NoTaskAssumption DEF SlicesOf, SplitInv, SlicesHaveParents
      <3>4. SlicesOf(p)' = SlicesOf(p) /\ p \notin SlicesOf(p)
        <4>1. desc[p].parent # p
          BY <3>1, NoTaskAssumption DEF SplitInv, SlicesHaveParents
        <4> QED BY <1>0, <4>1 DEF SlicesOf
      <3>5. outcomes = {state'[c] : c \in SlicesOf(p)}
        <4>1. {u \in TaskId : VisibleParent[u] = VisibleParent[t]} = SlicesOf(p)
          BY <1>1, <1>3, <3>3 DEF SlicesOf
        <4>2. \A u \in SlicesOf(p) : after[u] = state'[u]
          BY <1>2, <1>3, <3>2, <3>4 DEF SlicesOf
        <4> HIDE DEF after
        <4> QED BY <4>1, <4>2
      <3> HIDE DEF outcomes
      <3>6. state'[p] = IF ~(outcomes \subseteq Terminal) THEN "WAITING" ELSE Lifecycle!Judge(outcomes)
        <4>1. ParentFollowsSlices'
          BY SplitInvSuffices, PTL
        <4>2. childCount'[p] > 0 /\ ~Admitting(p)'
          BY <1>0, <3>1 DEF Admitting
        <4> QED BY <3>4, <3>5, <4>1, <4>2 DEF ParentFollowsSlices, Lifecycle!Judge
      <3>7. CASE outcomes \subseteq Terminal
        <4>1. state' = [after EXCEPT ![p] = Lifecycle!Judge(outcomes)]
          BY <1>2, <1>3, <3>1, <3>2, <3>6, <3>7 DEF OwnTypes
        <4> QED BY <1>3, <2>2, <3>7, <4>1
      <3>8. CASE ~(outcomes \subseteq Terminal)
        <4>1. state' = after
          BY <1>2, <1>3, <3>1, <3>2, <3>6, <3>8 DEF OwnTypes
        <4> QED BY <3>8, <4>1
      <3> QED BY <3>7, <3>8
    <2> QED BY <2>1, <2>2
  <1> HIDE DEF outcomes, after
  <1>5. VisibleState' = IF VisibleParent[t] # NoTask /\ outcomes \subseteq Lifecycle!Final
                        THEN [after EXCEPT ![VisibleParent[t]] = Lifecycle!Judge(outcomes)] ELSE after
    BY <1>1, <1>4 DEF Terminal, Lifecycle!Final
  <1> QED BY <1>0, <1>1, <1>2, <1>5, Zenon DEF Lifecycle!End, outcomes, after

\* Every step of the scheduler is a step of the lifecycle or changes nothing
\* that the caller sees.
LEMMA LifecycleStep ==
    ParentLeftToCore /\ Base /\ Base' /\ SplitInv /\ SplitInv' /\ [Next]_vars
        => [Lifecycle!Next]_Lifecycle!vars
  <1> SUFFICES ASSUME ParentLeftToCore, OwnTypes, OwnTypes', AdmissionProtocol, SplitInv, SplitInv',
                      [Next]_vars
               PROVE  Lifecycle!Next \/ UNCHANGED Lifecycle!vars
    BY DEF Base
  <1>0. ASSUME UNCHANGED <<tableVars, lock, call, runningTask>>
        PROVE  UNCHANGED Lifecycle!vars
    BY <1>0, KeepVisible DEF tableVars
  <1>1. ASSUME NEW t \in TaskId, NEW parent \in CallerParents, NEW shots \in Shots,
               NEW prio \in Priorities, SubmitWhole(t, parent, shots, prio)
        PROVE  Lifecycle!Next \/ UNCHANGED Lifecycle!vars
    <2> DEFINE d == [parent |-> parent, shots |-> shots, slice |-> FALSE]
    <2>1. d \in DescType /\ d.parent = NoTask
      BY SubmittedType DEF ParentLeftToCore
    <2>2. /\ lock = NoThread /\ state[t] = "ABSENT" /\ Enqueue(t, d, prio)
          /\ UNCHANGED <<lock, call, runningTask>>
      BY <1>1 DEF SubmitWhole, threadVars
    <2> HIDE DEF d
    <2>3. CASE EnqueueOk(t, d, prio)
      <3>1. Lifecycle!Accept(t)
        BY <2>1, <2>2, <2>3, EnqueueAccepts
      <3> QED BY <3>1 DEF Lifecycle!Next
    <2>4. CASE EnqueueFailed
      BY <1>0, <2>2, <2>4 DEF EnqueueFailed
    <2> QED BY <2>2, <2>3, <2>4 DEF Enqueue
  <1>2. ASSUME NEW t \in TaskId, NEW parent \in CallerParents, NEW shots \in Shots,
               NEW prio \in Priorities, NEW th \in Threads,
               SubmitWithCallback(th, t, parent, shots, prio)
        PROVE  UNCHANGED Lifecycle!vars
    BY <1>2, KeepVisible DEF SubmitWithCallback, tableVars, qpuVars
  <1>3. ASSUME NEW th \in Threads, EstimateReturns(th)
        PROVE  Lifecycle!Next \/ UNCHANGED Lifecycle!vars
    <2>1. lock = NoThread /\ UNCHANGED <<lock, runningTask>>
      BY <1>3 DEF EstimateReturns
    <2>2. CASE UNCHANGED tableVars
      BY <2>1, <2>2, KeepVisible DEF tableVars
    <2>3. CASE MayEnqueue(th) /\ EnqueueOk(call[th].task, call[th].desc, call[th].priority)
      <3>1. /\ call[th].task \in TaskId /\ call[th].desc \in DescType
            /\ call[th].desc.parent = NoTask /\ state[call[th].task] = "ABSENT"
        BY <1>3, <2>3 DEF EstimateReturns, MayEnqueue, AdmissionProtocol, OwnTypes, CallType,
                          SplitInv, CallsAreWhole
      <3>2. PICK t \in TaskId, d \in DescType : t = call[th].task /\ d = call[th].desc
        BY <3>1
      <3>3. Lifecycle!Accept(t)
        BY <2>1, <2>3, <3>1, <3>2, EnqueueAccepts
      <3> QED BY <3>3 DEF Lifecycle!Next
    <2> QED BY <1>3, <2>2, <2>3 DEF EstimateReturns, Enqueue, EnqueueFailed
  <1>4. ASSUME NEW th \in Threads, NEW answer \in SplitAnswers, SplitReturns(th, answer)
        PROVE  UNCHANGED Lifecycle!vars
    BY <1>4, SplitReturnsHides
  <1>5. ASSUME NEW th \in Threads, SplitFails(th) PROVE UNCHANGED Lifecycle!vars
    BY <1>5, KeepVisible DEF SplitFails, tableVars, qpuVars
  <1>6. ASSUME NEW th \in Threads, EnqueueChild(th)
        PROVE  Lifecycle!Next \/ UNCHANGED Lifecycle!vars
    BY <1>6, EnqueueChildAccepts DEF Lifecycle!Next
  <1>7. ASSUME NEW th \in Threads, RollbackChild(th) \/ RollbackParent(th)
        PROVE  UNCHANGED Lifecycle!vars
    BY <1>7, RollbackHides
  <1>8. ASSUME NEW t \in TaskId, SelectNext(t)
        PROVE  Lifecycle!Next \/ UNCHANGED Lifecycle!vars
    <2>1. lock = NoThread /\ UNCHANGED <<lock, desc, runningTask>>
      BY <1>8 DEF SelectNext, threadVars
    <2>2. CASE Assignable(t)
      <3>1. state[t] = "QUEUED" /\ state' = [state EXCEPT ![t] = "ASSIGNED"]
        BY <1>8, <2>2 DEF SelectNext, Assignable
      <3>2. Lifecycle!Assign(t)
        BY <2>1, <3>1, AllVisible, AllVisibleNext DEF Lifecycle!Assign
      <3> QED BY <3>2 DEF Lifecycle!Next
    <2>3. CASE ~Assignable(t)
      BY <1>8, <2>1, <2>3, KeepVisible DEF SelectNext
    <2> QED BY <2>2, <2>3
  <1>9. ASSUME NEW t \in TaskId, TaskStarted(t)
        PROVE  Lifecycle!Next \/ UNCHANGED Lifecycle!vars
    <2>1. lock = NoThread /\ UNCHANGED <<lock, desc>>
      BY <1>9 DEF TaskStarted, threadVars
    <2>2. CASE StartRefused(t)
      BY <2>1, <2>2, KeepVisible DEF StartRefused
    <2>3. CASE runningTask' = t /\ state' = [state EXCEPT ![t] = "RUNNING"]
      <3>1. state[t] \in {"QUEUED", "ASSIGNED"} /\ runningTask = NoTask
        BY <1>9 DEF TaskStarted
      <3>2. Lifecycle!Start(t)
        BY <2>1, <2>3, <3>1, AllVisible, AllVisibleNext DEF Lifecycle!Start
      <3> QED BY <3>2 DEF Lifecycle!Next
    <2> QED BY <1>9, <2>2, <2>3 DEF TaskStarted
  <1>10. ASSUME NEW t \in TaskId, NEW prio \in Priorities, UpdatePriority(t, prio)
         PROVE  UNCHANGED Lifecycle!vars
    BY <1>10, KeepVisible DEF UpdatePriority, threadVars, qpuVars
  <1>11. ASSUME NEW t \in TaskId, NEW s \in Terminal, FinishTask(t, s)
         PROVE  Lifecycle!Next
    <2>1. Lifecycle!End(t, s) /\ s \in Lifecycle!Final
      BY <1>11, FinishEnds DEF Terminal, Lifecycle!Final
    <2> QED BY <2>1 DEF Lifecycle!Next
  <1>12. ASSUME NEW kind \in PolicyKinds, NEW config \in SplitConfigs, SetPolicy(kind, config)
         PROVE  UNCHANGED Lifecycle!vars
    BY <1>0, <1>12 DEF SetPolicy, threadVars, qpuVars
  <1>13. ASSUME NEW cbs \in CallbackSets, SetCallbacks(cbs) PROVE UNCHANGED Lifecycle!vars
    BY <1>0, <1>13 DEF SetCallbacks, threadVars, qpuVars
  <1>14. CASE UNCHANGED vars
    BY <1>0, <1>14 DEF vars, threadVars, qpuVars
  <1> QED BY <1>1, <1>2, <1>3, <1>4, <1>5, <1>6, <1>7, <1>8, <1>9, <1>10, <1>11, <1>12,
             <1>13, <1>14 DEF Next, Submit, SubmitStep

\* The scheduler keeps the promise of TaskLifecycle, for every number of tasks,
\* threads, slices and policies: an operation that fails half way leaves nothing
\* visible behind, tasks are handed out once and run one at a time, and a parent
\* ends with its last slice and with the verdict of all of them.
THEOREM LifecycleImplemented ==
    ASSUME ParentLeftToCore
    PROVE  Spec => ImplementsLifecycle
  <1>1. Init => Lifecycle!Init
    <2> SUFFICES ASSUME Init PROVE Lifecycle!Init
      OBVIOUS
    <2>1. OwnTypes /\ lock = NoThread /\ runningTask = NoTask
      BY BaseInit DEF Base, Init
    <2>2. VisibleState = state /\ VisibleParent = [t \in TaskId |-> desc[t].parent]
      BY <2>1, AllVisible
    <2>3. VisibleParent = [t \in TaskId |-> NoTask]
      BY <2>2 DEF Init, NoDesc
    <2> QED BY <2>1, <2>2, <2>3 DEF Init, Lifecycle!Init
  <1>2. Base /\ SplitInv /\ [Next]_vars => SplitInv'
    BY SplitStep
  <1>3. Base /\ Base' /\ SplitInv /\ SplitInv' /\ [Next]_vars => [Lifecycle!Next]_Lifecycle!vars
    BY LifecycleStep
  <1> QED BY <1>1, <1>2, <1>3, SplitInit, BaseInit, BaseStep, PTL
          DEF Spec, ImplementsLifecycle, Lifecycle!Spec
=============================================================================

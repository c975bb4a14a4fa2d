----------------------------- MODULE Scheduler -----------------------------
(***************************************************************************)
(* The scheduler core (src/src/qhw_scheduler.c) with the task table it     *)
(* owns (qhw_task.c), the runtime counters of the QPU it drives (qhw_qpu.h) *)
(* and the installation of policies (qhw_sched_set_policy, qhw_plugin.c).  *)
(*                                                                         *)
(* Every public operation runs under the scheduler mutex.  An operation    *)
(* that keeps the mutex from its first to its last step is one action; its *)
(* early returns are the action's guard.  qhw_sched_submit_task gives the  *)
(* mutex up while a cost or split callback of the caller runs, so it is a  *)
(* sequence of actions of a thread, and its last part, which admits a      *)
(* split request child by child and undoes it when one child fails, is a   *)
(* sequence of actions that keep the mutex.                                *)
(*                                                                         *)
(* A policy is seen from the core: the entries of its ready queue, and     *)
(* which of its callbacks may fail.  The policies are modelled by their    *)
(* own modules.                                                            *)
(***************************************************************************)
EXTENDS Split, FiniteSets, Functions

CONSTANTS
    Threads, NoThread,  \* callers that may have a submission in flight
    PolicyKinds,        \* the kinds of policy a caller may install, see below
    SplitConfigs,       \* the split options passed to set_policy
    CallbackSets,       \* the callback sets passed to set_callbacks
    QpuMaxShots,        \* MAX_SHOTS of the QPU profile, 0 when absent
    Shots,              \* shot counts of submitted tasks
    Priorities,
    CallerParents,      \* values of parent_task_id in submitted tasks
    SplitAnswers,       \* what a split_task callback may fill in
    MaxSeq              \* bound: enqueue sequence numbers handed out

\* "builtin": once a task is in its ready queue, the other callbacks succeed
\* (fifo, priority, round_robin, ordered).  "plugin": a loaded policy whose
\* on_task_priority_changed, on_task_started and on_task_finished may fail.
ASSUME PolicyAssumption == PolicyKinds \subseteq {"builtin", "plugin"}
ASSUME ThreadAssumption == NoThread \notin Threads
ASSUME FiniteAssumption == IsFiniteSet(TaskId)
ASSUME PriorityAssumption == Priorities # {}
ASSUME ConfigAssumption ==
    /\ SplitConfigs \subseteq SplitConfigType
    /\ CallbackSets \subseteq [split_task : BOOLEAN, estimate_cost : BOOLEAN]
    /\ QpuMaxShots \in Nat
    /\ Shots \subseteq Nat
    /\ CallerParents \subseteq TaskId \cup {NoTask}
    /\ SplitAnswers \subseteq
          Seq([id : TaskId \cup {NoTask}, slice_index : Nat, shots : Nat])
    /\ MaxSeq \in Nat

VARIABLES
    lock,           \* the thread that keeps the mutex between two actions
    policy,         \* the active policy: "none" or its kind
    splitConfig,    \* its split options
    callbacks,      \* sched->callbacks: which ones are not NULL
    state,          \* task table: record->state; "ABSENT" when there is no record
    desc,           \*   record->desc: parent_task_id, shots, whether it is a slice
    priority,       \*   record->desc.priority
    enqueueSeq,     \*   record->enqueue_seq, the order of the enqueue list
    childCount,     \*   record->child_count
    tally,          \*   record->{completed,failed,cancelled}_child_count
    enqueueSeqNext,
    queuedCount,    \* qpu->runtime.queued_count
    runningTask,    \* qpu->runtime.running_task_id
    finishedCount,  \* qpu->runtime.{completed,failed,cancelled}_count
    ready,          \* the tasks in the active policy's ready queue
    entrySeq,       \*   the order in which the policy was told of them
    entryPriority,  \*   the priority the policy was last told
    entrySeqNext,
    pc, call        \* per thread: the phase of its submission, and its locals

tableVars  == <<state, desc, priority, enqueueSeq, childCount, tally>>
qpuVars    == <<queuedCount, runningTask, finishedCount>>
policyVars == <<ready, entrySeq, entryPriority, entrySeqNext>>
setupVars  == <<policy, splitConfig, callbacks>>
threadVars == <<lock, pc, call>>
vars == <<tableVars, enqueueSeqNext, qpuVars, policyVars, setupVars, threadVars>>

Terminal == {"COMPLETED", "FAILED", "CANCELLED"}
Live     == {"QUEUED", "ASSIGNED", "RUNNING", "WAITING"}
States   == Terminal \cup Live \cup {"ABSENT"}
Phases   == {"idle", "estimate", "split", "enqueue", "rollback"}

DescType == [parent : TaskId \cup {NoTask}, shots : Nat, slice : BOOLEAN]
NoDesc   == [parent |-> NoTask, shots |-> 0, slice |-> FALSE]
NoTally  == [s \in Terminal |-> 0]
AnyPriority == CHOOSE p \in Priorities : TRUE

\* The locals of qhw_sched_submit_task: the caller's task, the plan made
\* before the mutex was released, the children and the loop index.
CallType == [task : TaskId \cup {NoTask}, desc : DescType, priority : Priorities,
             plan : PlanType, children : Seq(ChildType), next : Nat]
NoCall   == [task |-> NoTask, desc |-> NoDesc, priority |-> AnyPriority,
             plan |-> Whole, children |-> <<>>, next |-> 0]

\* The types of what one scheduler keeps and of the counters it changes.
OwnTypes ==
    /\ lock \in Threads \cup {NoThread}
    /\ policy \in {"none"} \cup PolicyKinds
    /\ splitConfig \in SplitConfigType
    /\ callbacks \in [split_task : BOOLEAN, estimate_cost : BOOLEAN]
    /\ state \in [TaskId -> States]
    /\ desc \in [TaskId -> DescType]
    /\ priority \in [TaskId -> Priorities]
    /\ enqueueSeq \in [TaskId -> Nat]
    /\ childCount \in [TaskId -> Nat]
    /\ tally \in [TaskId -> [Terminal -> Nat]]
    /\ enqueueSeqNext \in Nat
    /\ queuedCount \in Nat
    /\ finishedCount \in [Terminal -> Nat]
    /\ ready \subseteq TaskId
    /\ entrySeq \in [TaskId -> Nat]
    /\ entryPriority \in [TaskId -> Priorities]
    /\ entrySeqNext \in Nat
    /\ pc \in [Threads -> Phases]
    /\ call \in [Threads -> CallType]

\* The slot of a QPU that one scheduler drives holds a task of this scheduler.
TypeOK == OwnTypes /\ runningTask \in TaskId \cup {NoTask}

\* qhw_sched_create: no policy, no callbacks, an empty task table.
Init ==
    /\ lock = NoThread
    /\ policy = "none"
    /\ splitConfig = NoSplitConfig
    /\ callbacks = [split_task |-> FALSE, estimate_cost |-> FALSE]
    /\ state = [t \in TaskId |-> "ABSENT"]
    /\ desc = [t \in TaskId |-> NoDesc]
    /\ priority = [t \in TaskId |-> AnyPriority]
    /\ enqueueSeq = [t \in TaskId |-> 0]
    /\ childCount = [t \in TaskId |-> 0]
    /\ tally = [t \in TaskId |-> NoTally]
    /\ enqueueSeqNext = 1
    /\ queuedCount = 0
    /\ runningTask = NoTask
    /\ finishedCount = [s \in Terminal |-> 0]
    /\ ready = {}
    /\ entrySeq = [t \in TaskId |-> 0]
    /\ entryPriority = [t \in TaskId |-> AnyPriority]
    /\ entrySeqNext = 1
    /\ pc = [th \in Threads |-> "idle"]
    /\ call = [th \in Threads |-> NoCall]

----------------------------------------------------------------------------
Present == {t \in TaskId : state[t] # "ABSENT"}
Queued  == {t \in TaskId : state[t] = "QUEUED"}

PolicyActive == policy # "none"

\* compute_split_config under the options, callbacks and profile of this moment.
PlanFor(shots) ==
    ComputeSplitConfig(splitConfig, QpuMaxShots, shots, callbacks.split_task)

\* qpu_runtime_task_unqueued
Unqueued(count) == IF count > 0 THEN count - 1 ELSE 0

\* qhw_task_table_insert_state, successful
TableInsert(t, d, prio, st) ==
    /\ state' = [state EXCEPT ![t] = st]
    /\ desc' = [desc EXCEPT ![t] = d]
    /\ priority' = [priority EXCEPT ![t] = prio]
    /\ enqueueSeq' = [enqueueSeq EXCEPT ![t] = enqueueSeqNext]

\* qhw_task_table_remove
TableRemove(t) ==
    /\ state' = [state EXCEPT ![t] = "ABSENT"]
    /\ desc' = [desc EXCEPT ![t] = NoDesc]
    /\ priority' = [priority EXCEPT ![t] = AnyPriority]
    /\ enqueueSeq' = [enqueueSeq EXCEPT ![t] = 0]
    /\ childCount' = [childCount EXCEPT ![t] = 0]
    /\ tally' = [tally EXCEPT ![t] = NoTally]

\* policy.on_task_submit, successful: the task is appended to the ready queue.
\* A built-in policy refuses a task it holds already; a plugin that has kept an
\* entry of a task that was rolled back may put the new one in its place.
PolicyInsert(t, prio) ==
    IF PolicyActive
    THEN /\ policy = "builtin" => t \notin ready
         /\ ready' = ready \cup {t}
         /\ entrySeq' = [entrySeq EXCEPT ![t] = entrySeqNext]
         /\ entryPriority' = [entryPriority EXCEPT ![t] = prio]
         /\ entrySeqNext' = entrySeqNext + 1
    ELSE UNCHANGED policyVars

\* The entry of t leaves the ready queue.
PolicyDrop(t) ==
    /\ ready' = ready \ {t}
    /\ entrySeq' = [entrySeq EXCEPT ![t] = 0]
    /\ entryPriority' = [entryPriority EXCEPT ![t] = AnyPriority]
    /\ UNCHANGED entrySeqNext

\* Mutant: on_task_finished is not called.
PolicyForgetNever(t) == UNCHANGED policyVars

\* policy.on_task_finished: a task that is not in the queue is no error; a
\* plugin may fail and leave its entry behind.
PolicyForget(t) ==
    \/ PolicyDrop(t)
    \/ policy = "plugin" /\ t \in ready /\ UNCHANGED policyVars

\* enqueue_task_locked, both outcomes.  It fails when a record cannot be
\* allocated or the policy refuses the task; the record is then removed and
\* the count taken back, but the sequence number is spent.
EnqueueOk(t, d, prio) ==
    /\ TableInsert(t, d, prio, "QUEUED")
    /\ PolicyInsert(t, prio)
    /\ queuedCount' = queuedCount + 1
    /\ enqueueSeqNext' = enqueueSeqNext + 1
    /\ UNCHANGED <<childCount, tally>>

EnqueueFailed ==
    /\ enqueueSeqNext' = enqueueSeqNext + 1
    /\ queuedCount' = Unqueued(queuedCount + 1)
    /\ UNCHANGED <<tableVars, policyVars>>

Enqueue(t, d, prio) == EnqueueOk(t, d, prio) \/ EnqueueFailed

Return(th) ==
    /\ pc' = [pc EXCEPT ![th] = "idle"]
    /\ call' = [call EXCEPT ![th] = NoCall]

SeqLeft(n) == enqueueSeqNext + n <= MaxSeq + 1

----------------------------------------------------------------------------
(* qhw_sched_submit_task *)

\* A request that stays whole, no cost callback: the mutex is never released.
SubmitWhole(t, parent, shots, prio) ==
    /\ lock = NoThread /\ SeqLeft(1)
    /\ state[t] = "ABSENT"
    /\ PlanFor(shots).kind = "whole"
    /\ ~callbacks.estimate_cost
    /\ Enqueue(t, [parent |-> parent, shots |-> shots, slice |-> FALSE], prio)
    /\ UNCHANGED <<runningTask, finishedCount, setupVars, threadVars>>

\* Otherwise the plan and the callbacks are copied and the mutex is released
\* while the caller's callback runs.
SubmitWithCallback(th, t, parent, shots, prio) ==
    /\ lock = NoThread
    /\ pc[th] = "idle"
    /\ state[t] = "ABSENT"
    /\ \/ /\ PlanFor(shots).kind = "whole"
          /\ callbacks.estimate_cost
          /\ pc' = [pc EXCEPT ![th] = "estimate"]
       \/ /\ PlanFor(shots).kind = "split"
          /\ pc' = [pc EXCEPT ![th] = "split"]
    /\ call' = [call EXCEPT ![th] =
                  [NoCall EXCEPT !.task = t, !.priority = prio, !.plan = PlanFor(shots),
                                 !.desc = [parent |-> parent, shots |-> shots, slice |-> FALSE]]]
    /\ UNCHANGED <<tableVars, enqueueSeqNext, qpuVars, policyVars, setupVars, lock>>

\* Mutant: the plan is not recomputed after the cost callback.
MayEnqueueStale(th) == state[call[th].task] = "ABSENT"

\* The checks after the cost callback: the id is still free and the request
\* still stays whole.
MayEnqueue(th) ==
    /\ state[call[th].task] = "ABSENT"
    /\ PlanFor(call[th].desc.shots).kind = "whole"

\* The cost callback returned and the mutex is taken again.  The call fails
\* when the callback failed or a check does.
EstimateReturns(th) ==
    /\ pc[th] = "estimate"
    /\ lock = NoThread
    /\ \/ /\ MayEnqueue(th) /\ SeqLeft(1)
          /\ Enqueue(call[th].task, call[th].desc, call[th].priority)
       \/ UNCHANGED <<tableVars, enqueueSeqNext, queuedCount, policyVars>>
    /\ Return(th)
    /\ UNCHANGED <<runningTask, finishedCount, setupVars, lock>>

\* The children as the core prepared them and the callback completed them.
ChildrenOf(th, answer) ==
    [k \in DOMAIN answer |->
        [id |-> answer[k].id, parent |-> call[th].task,
         slice_index |-> answer[k].slice_index,
         slice_count |-> Len(answer), shots |-> answer[k].shots]]

\* The checks after the split callback: the id is still free, the plan is
\* still the one the callback was given, and its children are valid.
MaySplit(th, answer) ==
    LET c == call[th]
    IN  /\ state[c.task] = "ABSENT"
        /\ PlanFor(c.desc.shots) = c.plan
        /\ ValidChildTasks(c.task, ChildrenOf(th, answer), c.plan, c.desc.shots, Present)

\* The split callback (and the cost callback for each child) returned and the
\* mutex is taken again: submit_split_task_locked inserts the parent, WAITING,
\* and goes on to the children with the mutex held; or the call fails.
SplitReturns(th, answer) ==
    /\ pc[th] = "split"
    /\ lock = NoThread
    /\ MaySplit(th, answer)
    /\ SeqLeft(Len(answer) + 1)
    /\ enqueueSeqNext' = enqueueSeqNext + 1
    /\ \/ /\ TableInsert(call[th].task, call[th].desc, call[th].priority, "WAITING")
          /\ childCount' = [childCount EXCEPT ![call[th].task] = Len(answer)]
          /\ lock' = th
          /\ pc' = [pc EXCEPT ![th] = "enqueue"]
          /\ call' = [call EXCEPT ![th].children = ChildrenOf(th, answer),
                                  ![th].next = 1]
          /\ UNCHANGED tally
       \/ /\ Return(th)                         \* no memory for the parent
          /\ UNCHANGED <<tableVars, lock>>
    /\ UNCHANGED <<qpuVars, policyVars, setupVars>>

\* The split callback or the cost callback of a child fails, or the answer is
\* refused: by a test of validate_child_tasks, or because its tables do not fit
\* the memory or a size_t.
SplitFails(th) ==
    /\ pc[th] = "split"
    /\ lock = NoThread
    /\ Return(th)
    /\ UNCHANGED <<tableVars, enqueueSeqNext, qpuVars, policyVars, setupVars, lock>>

\* One round of the loop of submit_split_task_locked.  A child starts as a copy
\* of its parent's descriptor, and the callback may have changed its priority.
EnqueueChild(th) ==
    LET c     == call[th]
        child == c.children[c.next]
        d     == [parent |-> child.parent, shots |-> child.shots, slice |-> TRUE]
    IN  /\ pc[th] = "enqueue"
        /\ lock = th
        /\ \/ /\ \E prio \in Priorities : EnqueueOk(child.id, d, prio)
              /\ IF c.next = Len(c.children)
                 THEN Return(th) /\ lock' = NoThread
                 ELSE /\ call' = [call EXCEPT ![th].next = @ + 1]
                      /\ UNCHANGED <<pc, lock>>
           \/ /\ EnqueueFailed
              /\ pc' = [pc EXCEPT ![th] = "rollback"]
              /\ UNCHANGED <<call, lock>>
        /\ UNCHANGED <<runningTask, finishedCount, setupVars>>

\* Mutant: the loop stops one child early.
RollbackDoneEarly(th) == call[th].next <= 2

\* Every child admitted before the failure has been removed again.
RollbackDone(th) == call[th].next = 1

\* Mutant: the loop index is not decremented.
RollbackChildForever(th) ==
    LET t == call[th].children[call[th].next - 1].id
    IN  /\ pc[th] = "rollback"
        /\ lock = th
        /\ ~RollbackDone(th)
        /\ PolicyDrop(t)
        /\ queuedCount' = Unqueued(queuedCount)
        /\ TableRemove(t)
        /\ UNCHANGED <<enqueueSeqNext, runningTask, finishedCount, setupVars, threadVars>>

\* remove_queued_task_locked, for the children admitted before the failure,
\* last one first.
RollbackChild(th) ==
    LET t == call[th].children[call[th].next - 1].id
    IN  /\ pc[th] = "rollback"
        /\ lock = th
        /\ ~RollbackDone(th)
        /\ PolicyForget(t)
        /\ queuedCount' = Unqueued(queuedCount)
        /\ TableRemove(t)
        /\ call' = [call EXCEPT ![th].next = @ - 1]
        /\ UNCHANGED <<enqueueSeqNext, runningTask, finishedCount, setupVars, lock, pc>>

RollbackParent(th) ==
    /\ pc[th] = "rollback"
    /\ lock = th
    /\ RollbackDone(th)
    /\ TableRemove(call[th].task)
    /\ Return(th)
    /\ lock' = NoThread
    /\ UNCHANGED <<enqueueSeqNext, qpuVars, policyVars, setupVars>>

----------------------------------------------------------------------------
(* The other operations of the caller *)

\* Mutant: the state of the record is not checked.
AssignableAny(t) == state[t] # "ABSENT"

\* The record found for the policy's choice may be handed out.
Assignable(t) == state[t] = "QUEUED"

\* qhw_sched_select_next: the policy hands out the entry of t.  An entry whose
\* record is gone or no longer QUEUED is dropped and the call fails.  A plugin whose
\* select_next fails keeps its entries; the core then changes nothing either.
SelectNext(t) ==
    /\ lock = NoThread
    /\ PolicyActive
    /\ t \in ready
    /\ PolicyDrop(t)
    /\ IF Assignable(t)
       THEN /\ state' = [state EXCEPT ![t] = "ASSIGNED"]
            /\ queuedCount' = Unqueued(queuedCount)
       ELSE UNCHANGED <<state, queuedCount>>
    /\ UNCHANGED <<desc, priority, enqueueSeq, childCount, tally, enqueueSeqNext,
                   runningTask, finishedCount, setupVars, threadVars>>

\* Mutant: the old priority is not restored.
PriorityRefusedKept(t, prio) ==
    /\ policy = "plugin"
    /\ priority' = [priority EXCEPT ![t] = prio]
    /\ UNCHANGED entryPriority

\* policy.on_task_priority_changed fails and the record is restored.
PriorityRefused(t, prio) ==
    /\ policy = "plugin"
    /\ UNCHANGED <<priority, entryPriority>>

\* qhw_sched_task_update_priority: the record is changed first and restored
\* when policy.on_task_priority_changed fails.
UpdatePriority(t, prio) ==
    /\ lock = NoThread
    /\ state[t] = "QUEUED"
    /\ \/ /\ priority' = [priority EXCEPT ![t] = prio]
          /\ entryPriority' = IF t \in ready THEN [entryPriority EXCEPT ![t] = prio]
                                             ELSE entryPriority
       \/ PriorityRefused(t, prio)
    /\ UNCHANGED <<state, desc, enqueueSeq, childCount, tally, enqueueSeqNext, qpuVars,
                   ready, entrySeq, entrySeqNext, setupVars, threadVars>>

\* Mutant: the QPU slot stays taken.
StartRefusedKeepsSlot(t) ==
    /\ policy = "plugin"
    /\ runningTask' = t
    /\ UNCHANGED <<state, queuedCount>>

\* policy.on_task_started fails: the slot, the state and the count that were
\* set are put back before the mutex is released.
StartRefused(t) ==
    /\ policy = "plugin"
    /\ UNCHANGED <<runningTask, state, queuedCount>>

\* qhw_sched_task_started: an assigned task, or a queued one while there is no
\* policy, takes the QPU if it is free.
TaskStarted(t) ==
    /\ lock = NoThread
    /\ \/ state[t] = "ASSIGNED"
       \/ state[t] = "QUEUED" /\ ~PolicyActive
    /\ runningTask = NoTask
    /\ \/ /\ runningTask' = t
          /\ state' = [state EXCEPT ![t] = "RUNNING"]
          /\ queuedCount' = IF state[t] = "QUEUED" THEN Unqueued(queuedCount) ELSE queuedCount
       \/ StartRefused(t)
    /\ UNCHANGED <<desc, priority, enqueueSeq, childCount, tally, enqueueSeqNext,
                   finishedCount, policyVars, setupVars, threadVars>>

\* Mutant: the parent's state is set on failure and cancellation only.
VerdictUnset(counts) ==
    IF counts["FAILED"] > 0 THEN "FAILED"
    ELSE IF counts["CANCELLED"] > 0 THEN "CANCELLED"
    ELSE "UNKNOWN"

\* Mutant: a parent that has a cancelled child is cancelled, failed ones or not.
VerdictCancelFirst(counts) ==
    IF counts["CANCELLED"] > 0 THEN "CANCELLED"
    ELSE IF counts["FAILED"] > 0 THEN "FAILED"
    ELSE "COMPLETED"

\* The state a parent takes from the tally of its children.
Verdict(counts) ==
    IF counts["FAILED"] > 0 THEN "FAILED"
    ELSE IF counts["CANCELLED"] > 0 THEN "CANCELLED"
    ELSE "COMPLETED"

\* Mutant: one terminal child more than there are is waited for.
SettledLate(counts, children) ==
    counts["COMPLETED"] + counts["FAILED"] + counts["CANCELLED"] > children

Settled(counts, children) ==
    counts["COMPLETED"] + counts["FAILED"] + counts["CANCELLED"] >= children

\* update_parent_after_child_locked; table is the task table with t finished.
UpdateParentAfterChild(t, s, table) ==
    LET p      == desc[t].parent
        counts == [tally[p] EXCEPT ![s] = @ + 1]
    IN  IF p # NoTask /\ table[p] = "WAITING"
        THEN /\ tally' = [tally EXCEPT ![p] = counts]
             /\ state' = IF Settled(counts, childCount[p])
                         THEN [table EXCEPT ![p] = Verdict(counts)] ELSE table
        ELSE /\ state' = table
             /\ UNCHANGED tally

\* Mutant: finishing any task frees the QPU.
SlotAfterFinishAny(t) == NoTask

\* qpu_runtime_task_finished: only the running task gives its slot back.
SlotAfterFinish(t) == IF runningTask = t THEN NoTask ELSE runningTask

CountFinished(t, s) == finishedCount' = [finishedCount EXCEPT ![s] = @ + 1]

\* finish_task, for qhw_sched_task_completed, _failed and _cancelled.  A failing
\* policy.on_task_finished makes the call fail but undoes nothing.
FinishTask(t, s) ==
    /\ lock = NoThread
    /\ state[t] \in {"QUEUED", "ASSIGNED", "RUNNING"}
    /\ s = "COMPLETED" => state[t] = "RUNNING"
    /\ queuedCount' = IF state[t] = "QUEUED" THEN Unqueued(queuedCount) ELSE queuedCount
    /\ runningTask' = SlotAfterFinish(t)
    /\ CountFinished(t, s)
    /\ UpdateParentAfterChild(t, s, [state EXCEPT ![t] = s])
    /\ PolicyForget(t)
    /\ UNCHANGED <<desc, priority, enqueueSeq, childCount, enqueueSeqNext, setupVars, threadVars>>

\* Mutant: replay walks the enqueue list from its tail.
ReplayRankReversed(t) == Cardinality({u \in Queued : enqueueSeq[u] >= enqueueSeq[t]})

\* The position of queued task t in the enqueue list, among the queued ones.
ReplayRank(t) == Cardinality({u \in Queued : enqueueSeq[u] <= enqueueSeq[t]})

\* Mutant: replay is forgotten.
ReplayedTasksNone == {}

\* qhw_task_table_for_each_queued: the records set_policy replays.
ReplayedTasks == Queued

\* qhw_sched_set_policy: a fresh policy state is filled by replaying the queued
\* records in enqueue order and replaces the old one.  When init or the replay
\* of one record fails, the new state is dropped and nothing has changed.
SetPolicy(kind, config) ==
    /\ lock = NoThread
    /\ policy' = kind
    /\ splitConfig' = config
    /\ ready' = ReplayedTasks
    /\ entrySeq' = [t \in TaskId |-> IF t \in ReplayedTasks THEN ReplayRank(t) ELSE 0]
    /\ entryPriority' = [t \in TaskId |-> IF t \in ReplayedTasks THEN priority[t] ELSE AnyPriority]
    /\ entrySeqNext' = Cardinality(ReplayedTasks) + 1
    /\ UNCHANGED <<tableVars, enqueueSeqNext, qpuVars, callbacks, threadVars>>

\* qhw_sched_set_callbacks
SetCallbacks(cbs) ==
    /\ lock = NoThread
    /\ callbacks' = cbs
    /\ UNCHANGED <<tableVars, enqueueSeqNext, qpuVars, policyVars, policy, splitConfig,
                   threadVars>>

----------------------------------------------------------------------------
Submit ==
    \E t \in TaskId, parent \in CallerParents, shots \in Shots, prio \in Priorities :
        \/ SubmitWhole(t, parent, shots, prio)
        \/ \E th \in Threads : SubmitWithCallback(th, t, parent, shots, prio)

SubmitStep(th) ==
    \/ EstimateReturns(th)
    \/ \E answer \in SplitAnswers : SplitReturns(th, answer)
    \/ SplitFails(th)
    \/ EnqueueChild(th)
    \/ RollbackChild(th)
    \/ RollbackParent(th)

Next ==
    \/ Submit
    \/ \E th \in Threads : SubmitStep(th)
    \/ \E t \in TaskId : SelectNext(t)
    \/ \E t \in TaskId : TaskStarted(t)
    \/ \E t \in TaskId, prio \in Priorities : UpdatePriority(t, prio)
    \/ \E t \in TaskId, s \in Terminal : FinishTask(t, s)
    \/ \E kind \in PolicyKinds, config \in SplitConfigs : SetPolicy(kind, config)
    \/ \E cbs \in CallbackSets : SetCallbacks(cbs)

Spec == Init /\ [][Next]_vars

\* Callbacks return and a thread goes on with its call; the caller keeps running
\* its dispatch loop (select, start, complete).  A refused select_next or
\* task_started changes nothing, so it is not the step that fairness demands: a
\* plugin is assumed not to refuse for ever what the loop asks of it again and
\* again.  Nothing is assumed of refused submissions, of completions that a plugin
\* refuses, of cancellations, priority changes or changes of policy.
Fairness ==
    /\ \A th \in Threads : WF_vars(SubmitStep(th))
    /\ WF_vars(\E t \in TaskId : SelectNext(t))
    /\ \A t \in TaskId : WF_vars(TaskStarted(t)) /\ WF_vars(FinishTask(t, "COMPLETED"))

FairSpec == Spec /\ Fairness

----------------------------------------------------------------------------
(* Properties *)

\* The admission or rollback of call c between two rounds of its loop.
PartlyAdmitted(c) ==
    /\ state[c.task] = "WAITING"
    /\ c.next \in 1..Len(c.children)
    /\ \A k \in 1..Len(c.children) :
          /\ c.children[k].id \in TaskId \ {c.task}
          /\ c.children[k].parent = c.task
          /\ state[c.children[k].id] = IF k < c.next THEN "QUEUED" ELSE "ABSENT"
    /\ \A j, k \in 1..Len(c.children) :
          j # k => c.children[j].id # c.children[k].id

\* The mutex protocol of qhw_sched_submit_task.  The thread that keeps the mutex
\* is the one that admits or rolls back a split request; its parent is WAITING,
\* the children before the loop index are QUEUED and all others still absent.
AdmissionProtocol ==
    /\ \A th \in Threads :
          /\ pc[th] \in {"enqueue", "rollback"} <=> lock = th
          /\ pc[th] # "idle" => call[th].task \in TaskId
          /\ pc[th] = "split" => call[th].plan.kind = "split"
    /\ lock # NoThread => PartlyAdmitted(call[lock])

\* A task is RUNNING exactly when it holds the QPU's only slot: no start
\* rollback, cancellation or late completion of another task frees or keeps
\* the slot wrongly (qpu_runtime_task_started, _unstarted, _finished).
RunningHoldsQpu == \A t \in TaskId : state[t] = "RUNNING" <=> runningTask = t

\* queued_count is the number of QUEUED records after every operation and in
\* every step of a split admission and of its rollback; the saturating
\* decrement of qpu_runtime_task_unqueued never hides a lost increment.
QueuedCountExact == queuedCount = Cardinality(Queued)

\* No QUEUED task is lost to the active policy: it is in the ready queue, also
\* after failed callbacks, rollbacks and a change of policy in the middle.
NoTaskStranded == PolicyActive => Queued \subseteq ready

\* A built-in policy holds no entry of a task that was handed out, has finished
\* or was rolled back, so set_policy and the rollback leave nothing stale.
BuiltinReadyExact == policy = "builtin" => ready = Queued

\* The policy knows the waiting tasks in the order in which they were enqueued,
\* also when it was installed after them and they were replayed.
ArrivalOrderKept ==
    \A t, u \in ready \cap Queued :
        (entrySeq[t] < entrySeq[u]) <=> (enqueueSeq[t] < enqueueSeq[u])

\* The priority a policy orders a waiting task by is the one in its record,
\* also when the policy refused a change (rollback in task_update_priority).
PolicyKnowsPriority ==
    \A t \in ready \cap Queued : entryPriority[t] = priority[t]

SlicesOf(p) == {t \in TaskId : desc[t].slice /\ desc[t].parent = p}

\* The parent whose admission is still in progress under the mutex.
Admitting(p) == lock # NoThread /\ call[lock].task = p

\* A split request is admitted with all its slices or not at all: outside the
\* admission loop every slice has its parent and every parent all its slices.
SplitIsAllOrNothing ==
    \A p \in TaskId : ~Admitting(p) =>
        Cardinality(SlicesOf(p)) = childCount[p]

\* The shots of the slices admitted for a parent, each counted once, add up to
\* its request: the checks made on the callback's answer still hold of the
\* records that the admission loop leaves in the table.
SlicesCarryRequest ==
    \A p \in TaskId : childCount[p] > 0 /\ ~Admitting(p) =>
        \E slices \in Bijection(1..childCount[p], SlicesOf(p)) :
            ShotsUpTo([k \in 1..childCount[p] |-> desc[slices[k]]])[childCount[p]]
                = desc[p].shots

\* A split parent waits exactly as long as one of its slices is unfinished, and
\* then takes the verdict of its slices' own final states: FAILED before
\* CANCELLED before COMPLETED (update_parent_after_child_locked).
ParentFollowsSlices ==
    \A p \in TaskId : childCount[p] > 0 /\ ~Admitting(p) =>
        LET final == {state[c] : c \in SlicesOf(p)}
        IN  state[p] = IF ~(final \subseteq Terminal) THEN "WAITING"
                       ELSE IF "FAILED" \in final THEN "FAILED"
                       ELSE IF "CANCELLED" \in final THEN "CANCELLED"
                       ELSE "COMPLETED"

\* A parent does not finish before its slices: "Completion of the parent is
\* derived from completion of all children" (docs/detailed-design.md).
ParentEndsAfterSlices ==
    \A p \in TaskId : childCount[p] > 0 /\ ~Admitting(p) /\ state[p] \in Terminal =>
        \A c \in SlicesOf(p) : state[c] \in Terminal

\* A step admits a whole task that need not be split under the options of this
\* moment, or a parent whose slices are the ones these options ask for.
AdmitsByPlan ==
    \A t \in TaskId : state[t] = "ABSENT" =>
        /\ state'[t] = "QUEUED" /\ ~desc'[t].slice => PlanFor(desc'[t].shots).kind = "whole"
        /\ state'[t] = "WAITING" =>
              LET plan == PlanFor(desc'[t].shots)
              IN  /\ plan.kind = "split"
                  /\ childCount'[t] = plan.slice_count
                  /\ \A k \in DOMAIN call'[lock'].children :
                        call'[lock'].children[k].shots <= plan.slice_shots

\* A task is admitted under the split options in force when it is admitted,
\* although they were first read before the mutex was given up to a callback.
AdmittedUnderCurrentPlan == [][AdmitsByPlan]_vars

\* Under a running dispatch loop every admitted task, a split parent included,
\* reaches a final state, whatever policies are installed in between.
AdmittedTaskSettles ==
    \A t \in TaskId :
        (state[t] \in Live /\ lock = NoThread) ~> state[t] \in Terminal

\* Every submission returns, and the mutex is given back by an admission or its
\* rollback: no call waits for ever, in whatever phase the callbacks leave it.
SubmissionReturns == \A th \in Threads : pc[th] # "idle" ~> pc[th] = "idle"

\* A request that is being admitted, or whose admission is being undone, is not
\* yet accepted: its parent and its slices are hidden from the caller.
Hidden(t) == lock # NoThread /\ (t = call[lock].task \/ desc[t].parent = call[lock].task)

VisibleState  == [t \in TaskId |-> IF Hidden(t) THEN "ABSENT" ELSE state[t]]
VisibleParent == [t \in TaskId |-> IF Hidden(t) THEN NoTask ELSE desc[t].parent]

Lifecycle ==
    INSTANCE TaskLifecycle WITH
        status <- VisibleState, parent <- VisibleParent, qpu <- runningTask

\* Every behaviour of the scheduler is one the caller was promised: operations
\* that fail half way leave nothing visible behind, and the counters of a
\* parent record yield the verdict of the slices themselves.
ImplementsLifecycle == Lifecycle!Spec
=============================================================================

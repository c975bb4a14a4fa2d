----------------------------- MODULE SharedQpu -----------------------------
(***************************************************************************)
(* Two schedulers on one QPU.  qhw_sched_create retains the QPU handle it  *)
(* is given, so several schedulers may drive one handle: each has a mutex, *)
(* a task table and a policy of its own, and they share the running slot   *)
(* and the counters of qpu->runtime.                                       *)
(*                                                                         *)
(* The first scheduler is Scheduler with all its operations.  The other is *)
(* a second instance of it for whole tasks of one priority, without policy *)
(* and callbacks: its caller starts queued tasks in any order.  The        *)
(* application may destroy it and create it again.  Task identifiers are   *)
(* unique within a scheduler only: an identifier of both TaskId and        *)
(* OtherTaskId is in use by both.                                          *)
(*                                                                         *)
(* A step is one operation of one scheduler.  The QPU's lock is taken and  *)
(* released for each access, so operations of two schedulers can interleave *)
(* at these points; but each access adds to or subtracts from a counter,   *)
(* or takes the slot when it is free and otherwise ends the operation      *)
(* unchanged, so an interleaving has the effect of the operations one      *)
(* after the other.                                                        *)
(***************************************************************************)
EXTENDS Scheduler

CONSTANTS
    OtherTaskId,        \* the identifiers the other scheduler's caller uses
    OtherMaxSeq,        \* bound: enqueue sequence numbers it hands out in one life
    MaxRestarts         \* bound: how often it is destroyed and created again

ASSUME SharedAssumption ==
    /\ IsFiniteSet(OtherTaskId) /\ NoTask \notin OtherTaskId
    /\ OtherMaxSeq \in Nat /\ MaxRestarts \in Nat

VARIABLES
    otherLock, otherSplitConfig,        \* the other scheduler; these two never change
    otherState, otherEnqueueSeq, otherEnqueueSeqNext,
    restarts,           \* how often it was destroyed
    abandonedQueued,    \* history: tasks that were QUEUED when it was
    abandonedRunning    \* history: identifiers that were RUNNING when it was

otherVars == <<otherLock, otherSplitConfig, otherState, otherEnqueueSeq,
               otherEnqueueSeqNext>>
historyVars == <<restarts, abandonedQueued, abandonedRunning>>
ownVars    == <<tableVars, enqueueSeqNext, policyVars, setupVars, threadVars>>
sharedVars == <<vars, otherVars, historyVars>>

\* What the other scheduler's operations never change keeps its initial value.
Other ==
    INSTANCE Scheduler WITH
        TaskId <- OtherTaskId, Threads <- {}, PolicyKinds <- {}, SplitConfigs <- {},
        CallbackSets <- {}, Shots <- {0}, Priorities <- {AnyPriority},
        CallerParents <- {NoTask}, SplitAnswers <- {},
        MaxSeq <- OtherMaxSeq,
        lock <- otherLock, pc <- <<>>, call <- <<>>,
        policy <- "none", splitConfig <- otherSplitConfig,
        callbacks <- [split_task |-> FALSE, estimate_cost |-> FALSE],
        state <- otherState, enqueueSeq <- otherEnqueueSeq,
        enqueueSeqNext <- otherEnqueueSeqNext,
        desc <- [t \in OtherTaskId |-> NoDesc],
        priority <- [t \in OtherTaskId |-> AnyPriority],
        childCount <- [t \in OtherTaskId |-> 0],
        tally <- [t \in OtherTaskId |-> NoTally],
        ready <- {}, entrySeq <- [t \in OtherTaskId |-> 0],
        entryPriority <- [t \in OtherTaskId |-> AnyPriority], entrySeqNext <- 1

\* qhw_sched_create, for a QPU that exists
CreateOther ==
    /\ otherLock' = NoThread
    /\ otherSplitConfig' = NoSplitConfig
    /\ otherState' = [t \in OtherTaskId |-> "ABSENT"]
    /\ otherEnqueueSeq' = [t \in OtherTaskId |-> 0]
    /\ otherEnqueueSeqNext' = 1

SharedInit ==
    /\ Init
    /\ Other!Init
    /\ restarts = 0
    /\ abandonedQueued = 0
    /\ abandonedRunning = {}

\* Mutant: the counter of the QPU is cleared, the other scheduler's tasks or not.
DestroyQpuCleared == queuedCount' = 0 /\ UNCHANGED <<runningTask, finishedCount>>

\* What qhw_sched_destroy does to the runtime state of the QPU: nothing.
DestroyQpu == UNCHANGED qpuVars

\* qhw_sched_destroy frees the records of the other scheduler, and the
\* application creates it again on the same QPU.
RestartOther ==
    /\ restarts < MaxRestarts
    /\ restarts' = restarts + 1
    /\ abandonedQueued' = abandonedQueued + Cardinality(Other!Queued)
    /\ abandonedRunning' =
          abandonedRunning \cup {t \in OtherTaskId : otherState[t] = "RUNNING"}
    /\ CreateOther
    /\ DestroyQpu
    /\ UNCHANGED ownVars

SharedNext ==
    \/ Next /\ UNCHANGED <<otherVars, historyVars>>
    \/ Other!Next /\ UNCHANGED <<ownVars, historyVars>>
    \/ RestartOther

SharedSpec == SharedInit /\ [][SharedNext]_sharedVars

----------------------------------------------------------------------------
\* queued_count is the number of tasks queued in either scheduler, and those
\* that were queued when a scheduler was destroyed stay counted for ever: no
\* decrement of one scheduler is lost to or doubled by the other.
QueuedCountShared ==
    queuedCount = Cardinality(Queued) + Cardinality(Other!Queued) + abandonedQueued

\* An identifier that one scheduler alone uses holds the slot exactly while its
\* task runs: neither the other scheduler's completions, cancellations and
\* refused starts nor its restart free or take it.  The identifier of a task
\* that ran when its scheduler was destroyed may keep the slot.
SlotFollowsOwnTasks ==
    /\ \A t \in TaskId \ OtherTaskId : state[t] = "RUNNING" <=> runningTask = t
    /\ \A t \in OtherTaskId \ TaskId :
          /\ otherState[t] = "RUNNING" => runningTask = t
          /\ runningTask = t => otherState[t] = "RUNNING" \/ t \in abandonedRunning
=============================================================================

--------------------------- MODULE FifoScheduler ---------------------------
(***************************************************************************)
(* The scheduler core composed with the fifo policy                        *)
(* (src/src/plugins/fifo.c) over the list form of the ready queue          *)
(* (src/src/policy/qhw_ready_queue.c): every callback the core makes is a  *)
(* step of the list, and select_next pops its front.  In this composition  *)
(* the kind "builtin" is fifo; a "plugin" is any other policy, and while   *)
(* one is installed there is no list.                                      *)
(*                                                                         *)
(* The ready queue's index by_id holds the tasks of the list; it is the    *)
(* core's ready.                                                           *)
(***************************************************************************)
EXTENDS Scheduler, SequencesExt

VARIABLE fifo       \* state->ready.fifo, front first

fifoVars == <<vars, fifo>>

\* qhw_ready_queue_insert, list form
PushBack(list, t) == Append(list, t)

\* qhw_ready_queue_remove, list form
Unlink(list, t) == RemoveAt(list, CHOOSE k \in DOMAIN list : list[k] = t)

\* Mutant: the records are walked from the newest.
ReplayedListReversed(kind) ==
    IF kind = "builtin"
    THEN [k \in 1..Cardinality(ReplayedTasks) |->
             CHOOSE t \in ReplayedTasks : ReplayRank(t) = Cardinality(ReplayedTasks) + 1 - k]
    ELSE <<>>

\* The list of a state that set_policy has created and filled by replay.
ReplayedList(kind) ==
    IF kind = "builtin"
    THEN [k \in 1..Cardinality(ReplayedTasks) |->
             CHOOSE t \in ReplayedTasks : ReplayRank(t) = k]
    ELSE <<>>

\* fifo_on_task_submit and fifo_on_task_finished, as the core's step called them.
FifoCallback ==
    IF policy # "builtin" THEN UNCHANGED fifo
    ELSE \/ \E t \in ready' \ ready : fifo' = PushBack(fifo, t)
         \/ \E t \in ready \ ready' : fifo' = Unlink(fifo, t)
         \/ ready' = ready /\ UNCHANGED fifo

FifoSubmit == (Submit \/ \E th \in Threads : SubmitStep(th)) /\ FifoCallback

\* fifo_select_next pops the front; any other policy chooses freely.
FifoSelectNext ==
    \/ /\ policy = "builtin" /\ fifo # <<>>
       /\ SelectNext(Head(fifo))
       /\ fifo' = Tail(fifo)
    \/ /\ policy = "plugin"
       /\ \E t \in TaskId : SelectNext(t)
       /\ UNCHANGED fifo

FifoFinishTask == (\E t \in TaskId, s \in Terminal : FinishTask(t, s)) /\ FifoCallback

FifoSetPolicy ==
    \E kind \in PolicyKinds, config \in SplitConfigs :
        SetPolicy(kind, config) /\ fifo' = ReplayedList(kind)

\* fifo_on_task_started and fifo_on_task_priority_changed do nothing.
FifoKeeps ==
    /\ \/ \E t \in TaskId : TaskStarted(t)
       \/ \E t \in TaskId, prio \in Priorities : UpdatePriority(t, prio)
       \/ \E cbs \in CallbackSets : SetCallbacks(cbs)
    /\ UNCHANGED fifo

FifoNext == FifoSubmit \/ FifoSelectNext \/ FifoFinishTask \/ FifoSetPolicy \/ FifoKeeps

FifoSpec == Init /\ fifo = <<>> /\ [][FifoNext]_fifoVars

----------------------------------------------------------------------------
\* Under fifo the task that is handed out is the one that has waited longest of
\* all queued tasks of the table, also after failed and rolled back submissions,
\* cancellations out of the middle, and a replay into a fresh list.
FirstComeFirstServed ==
    [][policy = "builtin" =>
          \A t \in TaskId : state[t] = "QUEUED" /\ state'[t] = "ASSIGNED" =>
              \A u \in Queued : enqueueSeq[t] <= enqueueSeq[u]]_fifoVars
=============================================================================

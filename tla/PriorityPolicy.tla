--------------------------- MODULE PriorityPolicy --------------------------
(***************************************************************************)
(* The priority policy (src/src/plugins/priority.c) over its ready heap    *)
(* (qhw_ready_queue.c) and its heap of refresh times                       *)
(* (qhw_deadline_refresh.c).  The core calls it under its mutex, so the    *)
(* callbacks do not interleave; the clock does not wait for the mutex.     *)
(* select_next reads it once to decide which refresh times have come, and  *)
(* again for every task it refreshes, so it is a sequence of actions.      *)
(*                                                                         *)
(* A heap is a set of entries with the key they were last sifted by; an    *)
(* entry whose key no longer matches its fields stands in the wrong place. *)
(* A heap that shrank keeps its memory, so putting a task back into the    *)
(* refresh heap it was just taken from does not fail (the heaps belong to  *)
(* qhw_datastructures, which is not part of this repository).              *)
(***************************************************************************)
EXTENDS DeadlineBoost, FiniteSets

CONSTANTS
    TaskId, NoTask,
    BoostConfigs,       \* the options passed to set_policy
    Bases,              \* priorities of tasks
    Deadlines, Runtimes,    \* deadline_ns and estimated_runtime_ns; 0: not set
    MaxNow,             \* bound: the clock stops here
    MaxSeq              \* bound: sequence numbers handed out

ASSUME PriorityPolicyAssumption ==
    /\ NoTask \notin TaskId
    /\ MaxNow \in Nat /\ MaxNow < WordMax
    /\ MaxSeq \in Nat
    /\ BoostConfigs \subseteq {c \in BoostConfigType : Accepted(c)}
    /\ Bases \subseteq IntMin..IntMax
    /\ Deadlines \subseteq 0..WordMax /\ Runtimes \subseteq 0..WordMax

VARIABLES
    config,     \* state->boost
    now,        \* the monotonic clock
    ready,      \* state->ready: the tasks in its table and its heap
    entry,      \* struct qhw_ready_task of each of them
    seqNext,    \* state->ready.next_seq
    refresh,    \* state->refresh: the tasks in the heap of refresh times
    selecting,  \* select_next is in progress
    loopNow,    \* its now_ns
    chosen      \* the last assignment; NoTask: NOT_FOUND

vars == <<config, now, ready, entry, seqNext, refresh, selecting, loopNow, chosen>>

NoEntry == [base |-> 0, deadline |-> 0, runtime |-> 0, seq |-> 0,
            effective |-> 0, next |-> Never, key |-> 0]

Init ==
    /\ config \in BoostConfigs
    /\ now = 0
    /\ ready = {}
    /\ entry = [t \in TaskId |-> NoEntry]
    /\ seqNext = 0
    /\ refresh = {}
    /\ selecting = FALSE /\ loopNow = 0
    /\ chosen = NoTask

\* The boost of an entry at some moment.
BoostAt(e, moment) == Compute(config, e.base, e.deadline, e.runtime, moment)

\* Mutant: the ready heap is not sifted after a change.
SiftedKeyNever(e, effective) == e.key

\* qhw_ready_queue_reorder is called when the effective priority has changed.
SiftedKey(e, effective) == IF effective # e.effective THEN effective ELSE e.key

\* The entry priority_refresh_task leaves.
Refreshed(e) ==
    LET r == BoostAt(e, now)
    IN  [e EXCEPT !.effective = r.effective_priority,
                  !.next = r.next_refresh,
                  !.key = SiftedKey(e, r.effective_priority)]

\* The refresh heap after qhw_deadline_refresh_remove and _insert of t.
RefreshHeap(t, e) == IF e.next = Never THEN refresh \ {t} ELSE refresh \cup {t}

\* priority_refresh_task
RefreshTask(t, e) ==
    /\ entry' = [entry EXCEPT ![t] = Refreshed(e)]
    /\ refresh' = RefreshHeap(t, Refreshed(e))

\* The entry qhw_ready_queue_insert creates.
NewEntry(base, deadline, runtime) ==
    [base |-> base, deadline |-> deadline, runtime |-> runtime,
     seq |-> seqNext, effective |-> base, next |-> Never, key |-> base]

\* priority_on_task_submit
OnTaskSubmit(t, base, deadline, runtime) ==
    /\ ~selecting
    /\ t \notin ready
    /\ seqNext < MaxSeq
    /\ ready' = ready \cup {t}
    /\ RefreshTask(t, NewEntry(base, deadline, runtime))
    /\ seqNext' = seqNext + 1
    /\ UNCHANGED <<config, now, selecting, loopNow, chosen>>

\* The refresh heap cannot grow: the entry is taken out of the ready queue.
OnTaskSubmitFails(t) ==
    /\ ~selecting
    /\ t \notin ready
    /\ seqNext < MaxSeq
    /\ seqNext' = seqNext + 1
    /\ UNCHANGED <<config, now, ready, entry, refresh, selecting, loopNow, chosen>>

\* priority_select_next reads the clock ...
SelectBegins ==
    /\ ~selecting
    /\ selecting' = TRUE
    /\ loopNow' = now
    /\ UNCHANGED <<config, now, ready, entry, seqNext, refresh, chosen>>

\* refresh_compare
RefreshesBefore(t, u) ==
    \/ entry[t].next < entry[u].next
    \/ entry[t].next = entry[u].next /\ entry[t].seq < entry[u].seq

Expired == {t \in refresh : entry[t].next <= loopNow}

\* ... refreshes the tasks whose time has come, earliest first ...
RefreshExpired ==
    /\ selecting
    /\ \E t \in Expired :
          /\ \A u \in Expired \ {t} : RefreshesBefore(t, u)
          /\ RefreshTask(t, entry[t])
    /\ UNCHANGED <<config, now, ready, seqNext, selecting, loopNow, chosen>>

\* priority_compare, by the keys the heap was last sifted by
Before(t, u) ==
    \/ entry[t].key > entry[u].key
    \/ entry[t].key = entry[u].key /\ entry[t].seq < entry[u].seq

\* Mutant: the task stays in the table of the ready queue.
ReadyAfterPopKept(t) == ready

\* qhw_ready_queue_pop
ReadyAfterPop(t) == ready \ {t}

\* Mutant: the refresh time of the task that is handed out stays.
RefreshAfterPopKept(t) == refresh

\* The refresh time of the top of the heap is removed before the top is.
RefreshAfterPop(t) == refresh \ {t}

\* ... and hands out the top of the heap.
SelectEnds ==
    /\ selecting
    /\ Expired = {}
    /\ \/ /\ ready = {}
          /\ chosen' = NoTask
          /\ UNCHANGED <<ready, entry, refresh>>
       \/ \E t \in ready :
             /\ \A u \in ready \ {t} : Before(t, u)
             /\ chosen' = t
             /\ ready' = ReadyAfterPop(t)
             /\ refresh' = RefreshAfterPop(t)
             /\ entry' = [entry EXCEPT ![t] = NoEntry]
    /\ selecting' = FALSE /\ loopNow' = 0
    /\ UNCHANGED <<config, now, seqNext>>

\* priority_on_task_priority_changed; a task that is not held is an error.
OnTaskPriorityChanged(t, base) ==
    /\ ~selecting
    /\ t \in ready
    /\ RefreshTask(t, [entry[t] EXCEPT !.base = base])
    /\ UNCHANGED <<config, now, ready, seqNext, selecting, loopNow, chosen>>

\* qhw_ready_queue_remove
ReadyAfterRemove(t) == ready \ {t}

\* priority_on_task_finished; a task that is not held is no error.
OnTaskFinished(t) ==
    /\ ~selecting
    /\ t \in ready
    /\ ready' = ReadyAfterRemove(t)
    /\ refresh' = refresh \ {t}
    /\ entry' = [entry EXCEPT ![t] = NoEntry]
    /\ UNCHANGED <<config, now, seqNext, selecting, loopNow, chosen>>

Tick ==
    /\ now < MaxNow
    /\ now' = now + 1
    /\ UNCHANGED <<config, ready, entry, seqNext, refresh, selecting, loopNow, chosen>>

Next ==
    \/ \E t \in TaskId, base \in Bases, deadline \in Deadlines, runtime \in Runtimes :
          OnTaskSubmit(t, base, deadline, runtime)
    \/ \E t \in TaskId : OnTaskSubmitFails(t) \/ OnTaskFinished(t)
    \/ \E t \in TaskId, base \in Bases : OnTaskPriorityChanged(t, base)
    \/ SelectBegins \/ RefreshExpired \/ SelectEnds
    \/ Tick

Spec == Init /\ [][Next]_vars

\* A call of select_next goes on until it returns.
FairSpec == Spec /\ WF_vars(RefreshExpired \/ SelectEnds)

----------------------------------------------------------------------------
\* The two heaps and the table agree: a refresh time belongs to a waiting task
\* (the heap of refresh times points into the entries, which are freed when a
\* task leaves), a task has one exactly while its tier can still rise, and the
\* ready heap is sifted by the effective priorities its entries have now.
QueuesAgree ==
    /\ refresh \subseteq ready
    /\ \A t \in ready : t \in refresh <=> entry[t].next # Never
    /\ \A t \in ready : entry[t].key = entry[t].effective

\* select_next hands out the best task: no other one had, all the time the call
\* took, a higher boosted priority, or the same and an earlier arrival.
SelectionIsBest ==
    [][selecting /\ ~selecting' =>
          \A u \in ready \ {chosen'} :
              \E mt, mu \in loopNow..now :
                  LET t  == chosen'
                      pt == BoostAt(entry[t], mt).effective_priority
                      pu == BoostAt(entry[u], mu).effective_priority
                  IN  pt > pu \/ (pt = pu /\ entry[t].seq < entry[u].seq)]_vars

\* select_next returns: the refresh loop comes to an end although every refresh
\* sets a new refresh time and the clock goes on.
SelectReturns == selecting ~> ~selecting

Contract == INSTANCE PolicyContract WITH pool <- ready

\* priority is a policy the core can use.
ImplementsContract == Contract!Spec
=============================================================================

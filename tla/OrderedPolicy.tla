--------------------------- MODULE OrderedPolicy ---------------------------
(***************************************************************************)
(* The ordered policy (src/src/plugins/ordered.c) and its order keys       *)
(* (src/src/policy/qhw_order_key.c).  With a ROUND_ROBIN key the waiting   *)
(* tasks are kept in one ready heap per group and the groups in a heap of  *)
(* their own, ordered by the best task of each and by the group's ticket;  *)
(* without one there is a single ready heap, here the group TheQueue.      *)
(*                                                                         *)
(* As in PriorityPolicy, heaps are sets of entries with the key they were  *)
(* last sifted by, a heap that shrank keeps its memory, the callbacks run  *)
(* under the scheduler mutex, and the clock runs on during select_next.    *)
(***************************************************************************)
EXTENDS DeadlineBoost, GroupMap, FiniteSets, Sequences

CONSTANTS
    NoTask, NoGroup, TheQueue,
    OrderConfigs,       \* the order keys and boosts passed to set_policy
    Descs,              \* task descriptors, as far as the policy reads them
    Bases,              \* priorities given by a change of priority
    MaxNow,             \* bound: the clock stops here
    MaxSeq, MaxTicket   \* bounds: sequence numbers of a queue, tickets handed out

Keys == {"PRIORITY", "SJF", "LJF", "FIFO", "ROUND_ROBIN"}

\* struct qhw_order_config; QHW_ORDER_KEY_MAX is 8
OrderConfigType ==
    {c \in [keys : Seq(Keys), boost : BoostConfigType] :
        Len(c.keys) \in 1..8 /\ Accepted(c.boost)}

\* The fields of a task and of its metadata that the policy reads.
DescType ==
    [base : IntMin..IntMax, deadline : 0..WordMax, reservation : Ids, job : Ids,
     cost : 0..WordMax, runtime : 0..WordMax, meta_runtime : 0..WordMax, shots : 0..WordMax]

ASSUME OrderedAssumption ==
    /\ TaskId \subseteq Nat /\ IsFiniteSet(TaskId) /\ NoTask \notin TaskId
    /\ NoGroup \notin GroupKey /\ TheQueue \notin GroupKey \cup {NoGroup}
    /\ \A c \in OrderConfigs : c \in OrderConfigType
    /\ Descs \subseteq DescType /\ Bases \subseteq IntMin..IntMax
    /\ MaxNow \in Nat /\ MaxNow < WordMax
    /\ MaxSeq \in Nat /\ MaxTicket \in Nat

VARIABLES
    config,         \* state->order
    now,            \* the monotonic clock
    group,          \* state->group_tasks: the group of each waiting task
    entry,          \* struct qhw_ready_task of each
    groups,         \* state->groups
    ticket,         \* group->ticket
    seqNext,        \* group->ready.next_seq
    head,           \* the group heap: what each group was last sifted by
    nextTicket,     \* state->next_group_ticket
    refresh,        \* state->refresh: the tasks in the heap of refresh times
    selecting, loopNow,     \* select_next is in progress, and its now_ns
    chosen,         \* the last assignment; NoTask: NOT_FOUND
    passed          \* history: turns of other groups while a group waits, up to two,
                    \* kept when ROUND_ROBIN is the first key

groupVars  == <<group, groups, ticket, seqNext, head, nextTicket, passed>>
selectVars == <<selecting, loopNow, chosen>>
vars == <<config, now, groupVars, entry, refresh, selectVars>>

AnyGroup == GroupKey \cup {TheQueue}
NoTurns  == [h \in AnyGroup |-> 0]
NoView   == [effective |-> 0, cost |-> 0, seq |-> 0, ticket |-> 0, id |-> NoTask]
NoEntry  == [base |-> 0, cost |-> 0, deadline |-> 0, runtime |-> 0, seq |-> 0,
             effective |-> 0, next |-> Never, key |-> 0]

Init ==
    /\ config \in OrderConfigs
    /\ now = 0
    /\ group = [t \in TaskId |-> NoGroup]
    /\ entry = [t \in TaskId |-> NoEntry]
    /\ groups = {}
    /\ ticket = [g \in AnyGroup |-> 0]
    /\ seqNext = [g \in AnyGroup |-> 0]
    /\ head = [g \in AnyGroup |-> NoView]
    /\ nextTicket = 1
    /\ refresh = {}
    /\ selecting = FALSE /\ loopNow = 0
    /\ chosen = NoTask
    /\ passed = [g \in AnyGroup |-> NoTurns]

Held == {t \in TaskId : group[t] # NoGroup}

\* qhw_order_config_uses_cost, _uses_round_robin
Uses(key) == \E i \in DOMAIN config.keys : config.keys[i] = key
UsesCost  == Uses("SJF") \/ Uses("LJF")
UsesRoundRobin == Uses("ROUND_ROBIN")

\* What a key compares, the smaller value first.
KeyValue(key, x) ==
    CASE key = "PRIORITY"    -> -x.effective
      [] key = "SJF"         -> x.cost
      [] key = "LJF"         -> -x.cost
      [] key = "FIFO"        -> x.seq
      [] key = "ROUND_ROBIN" -> x.ticket

\* The first n keys do not tell x and y apart.
Level(order, x, y, n) ==
    \A i \in 1..n : KeyValue(order.keys[i], x) = KeyValue(order.keys[i], y)

\* qhw_order_compare_groups: the first key that differs, else the task id.
Precedes(order, x, y) ==
    \/ \E i \in DOMAIN order.keys :
          /\ Level(order, x, y, i - 1)
          /\ KeyValue(order.keys[i], x) < KeyValue(order.keys[i], y)
    \/ Level(order, x, y, Len(order.keys)) /\ x.id < y.id

\* A task as a heap sees it.
View(t, effective, e, tick) ==
    [effective |-> effective, cost |-> e.cost, seq |-> e.seq, ticket |-> tick, id |-> t]

\* The ready heap of a group.
Views(g, grouped, entries, tick) ==
    {View(t, entries[t].key, entries[t], tick) : t \in {u \in TaskId : grouped[u] = g}}

\* The top of a heap.
First(order, views) == CHOOSE x \in views : \A y \in views \ {x} : Precedes(order, x, y)

\* The top of a group's ready heap, as the group heap sees it.
BestOf(g, grouped, entries, tick) == First(config, Views(g, grouped, entries, tick))

\* Mutant: the group keeps its place in the group heap.
HeadAfterNever(g) == IF head[g] = NoView THEN BestOf(g, group', entry', ticket'[g]) ELSE head[g]

\* qhw_heap_push or ordered_group_reheapify.
HeadAfter(g) == BestOf(g, group', entry', ticket'[g])

\* qhw_order_refresh_task
BoostAt(e, moment) == Compute(config.boost, e.base, e.deadline, e.runtime, moment)

\* The entry ordered_refresh_task leaves; the ready heap is sifted when the
\* effective priority has changed.
Refreshed(e) ==
    LET r == BoostAt(e, now)
    IN  [e EXCEPT !.effective = r.effective_priority,
                  !.next = r.next_refresh,
                  !.key = IF r.effective_priority # e.effective
                          THEN r.effective_priority ELSE e.key]

\* ordered_refresh_task, without the group heap
RefreshTask(t, e) ==
    /\ entry' = [entry EXCEPT ![t] = Refreshed(e)]
    /\ refresh' = IF Refreshed(e).next = Never THEN refresh \ {t} ELSE refresh \cup {t}

----------------------------------------------------------------------------
GroupOf(t, d) ==
    IF UsesRoundRobin THEN GroupKeyFromTask(t, d.reservation, d.job) ELSE TheQueue

\* ordered_group_get gives a new group a ticket.
TicketOnSubmit(g) == IF UsesRoundRobin /\ g \notin groups THEN nextTicket ELSE ticket[g]

TicketsTaken(g) == IF UsesRoundRobin /\ g \notin groups THEN 1 ELSE 0

\* qhw_policy_task_estimated_cost: the first estimate that is not 0, of the
\* descriptor (cost, runtime) and then of its metadata (runtime, shots).
EstimatedCost(d) ==
    LET estimates == <<d.cost, d.runtime, d.meta_runtime, d.shots>>
        known     == {i \in 1..4 : estimates[i] # 0}
    IN  IF known = {} THEN 1 ELSE estimates[CHOOSE i \in known : \A j \in known : i <= j]

\* The entry qhw_ready_queue_insert creates.
NewEntry(g, d) ==
    [base |-> d.base, cost |-> IF UsesCost THEN EstimatedCost(d) ELSE 1,
     deadline |-> d.deadline, runtime |-> d.runtime, seq |-> seqNext[g],
     effective |-> d.base, next |-> Never, key |-> d.base]

MaySubmit(t, g) ==
    /\ ~selecting
    /\ group[t] = NoGroup
    /\ seqNext[g] < MaxSeq /\ nextTicket + TicketsTaken(g) <= MaxTicket

\* ordered_on_task_submit, ordered_submit_round_robin
OnTaskSubmit(t, d) ==
    LET g == GroupOf(t, d)
    IN  /\ MaySubmit(t, g)
        /\ group' = [group EXCEPT ![t] = g]
        /\ groups' = groups \cup {g}
        /\ ticket' = [ticket EXCEPT ![g] = TicketOnSubmit(g)]
        /\ nextTicket' = nextTicket + TicketsTaken(g)
        /\ RefreshTask(t, NewEntry(g, d))
        /\ seqNext' = [seqNext EXCEPT ![g] = @ + 1]
        /\ head' = [head EXCEPT ![g] = HeadAfter(g)]
        /\ UNCHANGED <<config, now, selectVars, passed>>

\* Something cannot be allocated and all is undone, but for the ticket of a new
\* group and the sequence number of a queue that stays, if it came to that.
OnTaskSubmitFails(t, d) ==
    LET g == GroupOf(t, d)
    IN  /\ MaySubmit(t, g)
        /\ nextTicket' \in {nextTicket, nextTicket + TicketsTaken(g)}
        /\ \/ UNCHANGED seqNext
           \/ /\ g \in groups \cup {TheQueue}
              /\ seqNext' = [seqNext EXCEPT ![g] = @ + 1]
        /\ UNCHANGED <<config, now, group, groups, ticket, head, entry, refresh,
                       selectVars, passed>>

\* Mutant: a group without tasks stays in the map and in the heap.
GroupsWithoutNone(g) == groups

\* ordered_group_destroy
GroupsWithout(g) == groups \ {g}

\* Mutant: the group is given up with the first task that leaves it.
LastsNever(g, t) == FALSE

\* Whether the group's ready heap still has a task when t is gone.
Lasts(g, t) == \E u \in TaskId \ {t} : group[u] = g

\* Task t leaves its group, which is destroyed with its last task and otherwise
\* sifted again with ticket tick.
Leave(t, tick) ==
    LET g == group[t]
    IN  /\ group' = [group EXCEPT ![t] = NoGroup]
        /\ entry' = [entry EXCEPT ![t] = NoEntry]
        /\ refresh' = refresh \ {t}
        /\ IF Lasts(g, t)
           THEN /\ ticket' = [ticket EXCEPT ![g] = tick]
                /\ head' = [head EXCEPT ![g] = HeadAfter(g)]
                /\ UNCHANGED <<groups, seqNext>>
           ELSE /\ groups' = GroupsWithout(g)
                /\ ticket' = [ticket EXCEPT ![g] = 0]
                /\ head' = [head EXCEPT ![g] = NoView]
                /\ seqNext' = IF UsesRoundRobin THEN [seqNext EXCEPT ![g] = 0] ELSE seqNext

\* ordered_on_task_finished, ordered_remove_group_task
OnTaskFinished(t) ==
    /\ ~selecting
    /\ t \in Held
    /\ Leave(t, ticket[group[t]])
    /\ passed' = IF group[t] \in groups' THEN passed ELSE [passed EXCEPT ![group[t]] = NoTurns]
    /\ UNCHANGED <<config, now, nextTicket, selectVars>>

\* ordered_on_task_priority_changed
OnTaskPriorityChanged(t, base) ==
    /\ ~selecting
    /\ t \in Held
    /\ RefreshTask(t, [entry[t] EXCEPT !.base = base])
    /\ UNCHANGED <<group, groups, ticket, seqNext, nextTicket>>
    /\ head' = [head EXCEPT ![group[t]] = HeadAfter(group[t])]
    /\ UNCHANGED <<config, now, selectVars, passed>>

\* ordered_select_next reads the clock, ...
SelectBegins ==
    /\ ~selecting
    /\ selecting' = TRUE
    /\ loopNow' = now
    /\ UNCHANGED <<config, now, groupVars, entry, refresh, chosen>>

Expired == {t \in refresh : entry[t].next <= loopNow}

\* refresh_compare
RefreshesBefore(t, u) ==
    \/ entry[t].next < entry[u].next
    \/ entry[t].next = entry[u].next /\ entry[t].seq < entry[u].seq
    \/ entry[t].next = entry[u].next /\ entry[t].seq = entry[u].seq /\ t < u

\* ... refreshes the tasks whose time has come (ordered_refresh_expired), ...
RefreshExpired ==
    /\ selecting
    /\ \E t \in Expired :
          /\ \A u \in Expired \ {t} : RefreshesBefore(t, u)
          /\ RefreshTask(t, entry[t])
          /\ UNCHANGED <<group, groups, ticket, seqNext, nextTicket, passed>>
          /\ head' = [head EXCEPT ![group[t]] = HeadAfter(group[t])]
    /\ UNCHANGED <<config, now, selectVars>>

\* Mutant: a group that was served keeps its ticket.
TicketAfterTurnKept(g) == ticket[g]

\* ordered_select_round_robin sends a group that was served behind the others.
TicketAfterTurn(g) == IF UsesRoundRobin THEN nextTicket ELSE ticket[g]

\* ... and hands out the top of the first group (ordered_select_round_robin).
SelectEnds ==
    /\ selecting
    /\ Expired = {}
    /\ \/ /\ groups = {}
          /\ chosen' = NoTask
          /\ UNCHANGED <<groupVars, entry, refresh>>
       \/ \E g \in groups :
             LET t == BestOf(g, group, entry, ticket[g]).id
             IN  /\ \A h \in groups \ {g} : Precedes(config, head[g], head[h])
                 /\ chosen' = t
                 /\ Leave(t, TicketAfterTurn(g))
                 /\ nextTicket' = nextTicket + (IF UsesRoundRobin /\ g \in groups' THEN 1 ELSE 0)
                 /\ passed' = [h \in AnyGroup |->
                                 IF h \notin groups \ {g} \/ config.keys[1] # "ROUND_ROBIN"
                                 THEN NoTurns
                                 ELSE [passed[h] EXCEPT ![g] = IF @ < 2 THEN @ + 1 ELSE @]]
    /\ nextTicket' <= MaxTicket
    /\ selecting' = FALSE /\ loopNow' = 0
    /\ UNCHANGED <<config, now>>

Tick ==
    /\ now < MaxNow
    /\ now' = now + 1
    /\ UNCHANGED <<config, groupVars, entry, refresh, selectVars>>

Next ==
    \/ \E t \in TaskId, d \in Descs : OnTaskSubmit(t, d) \/ OnTaskSubmitFails(t, d)
    \/ \E t \in TaskId : OnTaskFinished(t)
    \/ \E t \in TaskId, base \in Bases : OnTaskPriorityChanged(t, base)
    \/ SelectBegins \/ RefreshExpired \/ SelectEnds
    \/ Tick

Spec == Init /\ [][Next]_vars

----------------------------------------------------------------------------
\* The heaps, the map and the index agree: the groups in the map are those with
\* a waiting task, each stands in the group heap where its best task of this
\* moment puts it, no two have one ticket, and a refresh time belongs to a
\* waiting task.  Every change of a group's best task, by arrival, boost,
\* priority or departure, has to reach the group heap for this.
GroupsAgree ==
    /\ groups = {group[t] : t \in Held}
    /\ \A g \in AnyGroup \ groups : head[g] = NoView
    /\ \A g \in groups : head[g] = BestOf(g, group, entry, ticket[g])
    /\ UsesRoundRobin => \A g, h \in groups : g # h => ticket[g] # ticket[h]
    /\ refresh = {t \in Held : entry[t].next # Never}
    /\ \A t \in Held : entry[t].key = entry[t].effective

\* A waiting task as its configured order sees it at some moment.
ViewAt(t, moment) ==
    View(t, BoostAt(entry[t], moment).effective_priority, entry[t], ticket[group[t]])

\* select_next hands out the task that the configured keys put first: no other
\* one was ahead of it all the time the call took, in its group or in another.
OrderedSelectionIsBest ==
    [][selecting /\ ~selecting' =>
          \A u \in Held \ {chosen'} :
              \E mt, mu \in loopNow..now :
                  Precedes(config, ViewAt(chosen', mt), ViewAt(u, mu))]_vars

\* When ROUND_ROBIN is the first key groups take turns: while a group waits, no
\* other one is served twice, though groups are destroyed and created again.
GroupsTakeTurns ==
    config.keys[1] = "ROUND_ROBIN" =>
        \A g \in groups, h \in AnyGroup : passed[g][h] <= 1

\* "If all configured keys compare equal, insertion order and then task_id
\* provide a deterministic tie-breaker" (docs/schedulers.md): of two tasks that
\* all keys of the only queue put level, the one inserted first is handed out.
TiesFollowInsertion ==
    [][selecting /\ ~selecting' /\ ~UsesRoundRobin =>
          \A u \in Held \ {chosen'} :
              Level(config, ViewAt(chosen', now), ViewAt(u, now), Len(config.keys)) =>
                  entry[chosen'].seq < entry[u].seq]_vars

Contract == INSTANCE PolicyContract WITH pool <- Held

\* ordered is a policy the core can use.
ImplementsContract == Contract!Spec
=============================================================================

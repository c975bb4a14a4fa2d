----------------------------- MODULE RoundRobin ----------------------------
(***************************************************************************)
(* The round_robin policy (src/src/plugins/round_robin.c) with its group   *)
(* map (src/src/policy/qhw_group_map.c): tasks wait in one list per group, *)
(* the groups that have a waiting task stand in a list of active groups,   *)
(* and select_next takes the first task of the first group and sends the   *)
(* group to the end.  The core calls the policy under its mutex, so each   *)
(* callback is one action.                                                 *)
(***************************************************************************)
EXTENDS GroupMap, SequencesExt

CONSTANTS NoTask, NoGroup

ASSUME RRAssumption == NoTask \notin TaskId /\ NoGroup \notin GroupKey

VARIABLES
    tasks,          \* state->tasks: the group of each task held, or NoGroup
    groups,         \* state->groups: the keys in the group map
    ready,          \* group->ready
    readyCount,     \* group->ready_count
    active,         \* state->active_groups
    chosen,         \* the last assignment; NoTask: NOT_FOUND
    passed          \* history: passed[g][h] counts the turns of h since g was
                    \*   last put at the end of the active list, up to two

vars == <<tasks, groups, ready, readyCount, active, chosen, passed>>

Held == {t \in TaskId : tasks[t] # NoGroup}

Init ==
    /\ tasks = [t \in TaskId |-> NoGroup]
    /\ groups = {}
    /\ ready = [g \in GroupKey |-> <<>>]
    /\ readyCount = [g \in GroupKey |-> 0]
    /\ active = <<>>
    /\ chosen = NoTask
    /\ passed = [g \in GroupKey |-> [h \in GroupKey |-> 0]]

\* rr_group_get: the group is found, or created and put into the map.
GroupGet(set, g) == set \cup {g}

\* rr_group_free: the group leaves the map and its memory is gone.
GroupFree(set, g) == set \ {g}

NoTurns == [h \in GroupKey |-> 0]

\* rr_on_task_submit puts a group into the active list with its first task.
Activate(list, g) == IF readyCount[g] = 0 THEN Append(list, g) ELSE list

\* rr_on_task_submit
OnTaskSubmit(t, reservation, job) ==
    LET g == GroupKeyFromTask(t, reservation, job)
    IN  /\ tasks[t] = NoGroup
        /\ tasks' = [tasks EXCEPT ![t] = g]
        /\ groups' = GroupGet(groups, g)
        /\ active' = Activate(active, g)
        /\ ready' = [ready EXCEPT ![g] = Append(@, t)]
        /\ readyCount' = [readyCount EXCEPT ![g] = @ + 1]
        /\ UNCHANGED <<chosen, passed>>

\* Mutant: a group that was created for the failed submission stays.
GroupsAfterFailureKept(g) == groups \cup {g}

\* The group map after a failed submission: the group was found or created,
\* and is freed when it has no task.
GroupsAfterFailure(g) ==
    IF readyCount[g] = 0 THEN GroupFree(GroupGet(groups, g), g) ELSE GroupGet(groups, g)

\* rr_on_task_submit when there is no memory for the task's own record.
OnTaskSubmitFails(t, reservation, job) ==
    /\ tasks[t] = NoGroup
    /\ groups' = GroupsAfterFailure(GroupKeyFromTask(t, reservation, job))
    /\ UNCHANGED <<tasks, ready, readyCount, active, chosen, passed>>

\* Mutant: a group with waiting tasks keeps its place.
RotateStays(list, g) == <<g>> \o Tail(list)

\* A group that still has a waiting task goes to the end.
Rotate(list, g) == Append(Tail(list), g)

\* rr_select_next.  Its answer to an active group without tasks is left out:
\* ListsAgree shows that there is no such group.
SelectNext ==
    \/ /\ active = <<>>
       /\ chosen' = NoTask
       /\ UNCHANGED <<tasks, groups, ready, readyCount, active, passed>>
    \/ /\ active # <<>>
       /\ LET g    == Head(active)
              t    == Head(ready[g])
              more == readyCount[g] > 1
          IN  /\ ready[g] # <<>> /\ readyCount[g] > 0
              /\ chosen' = t
              /\ tasks' = [tasks EXCEPT ![t] = NoGroup]
              /\ ready' = [ready EXCEPT ![g] = Tail(@)]
              /\ readyCount' = [readyCount EXCEPT ![g] = @ - 1]
              /\ active' = IF more THEN Rotate(active, g) ELSE Tail(active)
              /\ groups' = IF more THEN groups ELSE GroupFree(groups, g)
              /\ passed' = [h \in GroupKey |->
                              IF h \notin ToSet(Tail(active)) THEN NoTurns
                              ELSE [passed[h] EXCEPT ![g] = IF @ < 2 THEN @ + 1 ELSE @]]

\* qhw_list_remove takes a link out of its list, wherever it stands.
Unlink(list, x) == RemoveAt(list, CHOOSE k \in DOMAIN list : list[k] = x)

\* Mutant: the group leaves the active list with any of its tasks.
ActiveWithoutEager(g) == IF g \in ToSet(active) THEN Unlink(active, g) ELSE active

\* rr_remove_ready_task takes a group without tasks out of the active list.
ActiveWithout(g) == IF readyCount[g] = 1 THEN Unlink(active, g) ELSE active

\* rr_on_task_finished: a task that is not held is no error.
OnTaskFinished(t) ==
    LET g == tasks[t]
    IN  /\ tasks[t] # NoGroup
        /\ readyCount[g] > 0
        /\ tasks' = [tasks EXCEPT ![t] = NoGroup]
        /\ ready' = [ready EXCEPT ![g] = Unlink(@, t)]
        /\ readyCount' = [readyCount EXCEPT ![g] = @ - 1]
        /\ active' = ActiveWithout(g)
        /\ groups' = IF readyCount[g] = 1 THEN GroupFree(groups, g) ELSE groups
        /\ passed' = IF readyCount[g] = 1 THEN [passed EXCEPT ![g] = NoTurns] ELSE passed
        /\ UNCHANGED chosen

Next ==
    \/ \E t \in TaskId, reservation, job \in Ids :
          \/ OnTaskSubmit(t, reservation, job)
          \/ OnTaskSubmitFails(t, reservation, job)
    \/ SelectNext
    \/ \E t \in TaskId : OnTaskFinished(t)

Spec == Init /\ [][Next]_vars

\* The caller's dispatch loop keeps asking for work.
FairSpec == Spec /\ WF_vars(SelectNext)

----------------------------------------------------------------------------
\* The lists, the counters and the two maps tell the same story: the map holds
\* exactly the groups in the active list, none twice; each has as many waiting
\* tasks as its counter says, at least one; and a task is in the list of the
\* group it points to, and in no other.  A group that is freed while something
\* still leads to it, or a group nobody will ever free, would break this.
ListsAgree ==
    /\ ToSet(active) = groups /\ IsInjective(active)
    /\ \A g \in GroupKey :
          /\ readyCount[g] = Len(ready[g])
          /\ g \in groups <=> readyCount[g] > 0
          /\ IsInjective(ready[g])
          /\ ToSet(ready[g]) = {t \in TaskId : tasks[t] = g}

\* Every waiting group gets its turn: while a group waits, no other group is
\* served twice, however tasks arrive, are cancelled or change group.
TurnsAreFair ==
    \A g \in ToSet(active), h \in GroupKey : passed[g][h] <= 1

\* A waiting task is handed out (or withdrawn) in the end, although other tasks
\* of its group and of other groups keep arriving.
NoStarvation == \A t \in TaskId : (t \in Held) ~> (t \notin Held)

Contract == INSTANCE PolicyContract WITH pool <- Held

\* round_robin is a policy the core can use.
ImplementsContract == Contract!Spec
=============================================================================

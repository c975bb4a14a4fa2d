--------------------------- MODULE TaskLifecycle ---------------------------
(***************************************************************************)
(* What the scheduler promises its caller about tasks, without mutex,      *)
(* ready queues, counters or callbacks: a request is accepted whole or as  *)
(* a parent with all its slices, a task is handed out once, the QPU runs   *)
(* one task at a time, a final state is final, and a split parent takes    *)
(* its verdict from the final states of its slices at the moment the last  *)
(* of them finishes.  Scheduler implements this specification.             *)
(***************************************************************************)
CONSTANTS TaskId, NoTask

VARIABLES
    status,     \* the state of each task as qhw_sched_task_get_state reports it
    parent,     \* the split parent of a slice
    qpu         \* the task that occupies the QPU

vars == <<status, parent, qpu>>

Final == {"COMPLETED", "FAILED", "CANCELLED"}

Init ==
    /\ status = [t \in TaskId |-> "ABSENT"]
    /\ parent = [t \in TaskId |-> NoTask]
    /\ qpu = NoTask

Absent(t) == status[t] = "ABSENT"

Accept(t) ==
    /\ Absent(t)
    /\ status' = [status EXCEPT ![t] = "QUEUED"]
    /\ UNCHANGED <<parent, qpu>>

AcceptSplit(p, slices) ==
    /\ Absent(p)
    /\ slices # {} /\ p \notin slices
    /\ \A c \in slices : Absent(c)
    /\ status' = [t \in TaskId |-> IF t = p THEN "WAITING"
                                  ELSE IF t \in slices THEN "QUEUED"
                                  ELSE status[t]]
    /\ parent' = [t \in TaskId |-> IF t \in slices THEN p ELSE parent[t]]
    /\ UNCHANGED qpu

Assign(t) ==
    /\ status[t] = "QUEUED"
    /\ status' = [status EXCEPT ![t] = "ASSIGNED"]
    /\ UNCHANGED <<parent, qpu>>

Start(t) ==
    /\ status[t] \in {"QUEUED", "ASSIGNED"}
    /\ qpu = NoTask
    /\ status' = [status EXCEPT ![t] = "RUNNING"]
    /\ qpu' = t
    /\ UNCHANGED parent

\* The verdict of final states: FAILED before CANCELLED before COMPLETED.
Judge(finals) ==
    IF "FAILED" \in finals THEN "FAILED"
    ELSE IF "CANCELLED" \in finals THEN "CANCELLED"
    ELSE "COMPLETED"

\* Task t takes its final state s, and with it its parent when t was the last
\* unfinished slice.
End(t, s) ==
    LET p        == parent[t]
        after    == [status EXCEPT ![t] = s]
        outcomes == {after[c] : c \in {u \in TaskId : parent[u] = p}}
    IN  /\ status[t] \in {"QUEUED", "ASSIGNED", "RUNNING"}
        /\ s = "COMPLETED" => status[t] = "RUNNING"
        /\ status' = IF p # NoTask /\ outcomes \subseteq Final
                     THEN [after EXCEPT ![p] = Judge(outcomes)] ELSE after
        /\ qpu' = IF qpu = t THEN NoTask ELSE qpu
        /\ UNCHANGED parent

Next ==
    \/ \E t \in TaskId : Accept(t) \/ Assign(t) \/ Start(t)
    \/ \E p \in TaskId, slices \in SUBSET TaskId : AcceptSplit(p, slices)
    \/ \E t \in TaskId, s \in Final : End(t, s)

Spec == Init /\ [][Next]_vars
=============================================================================

------------------------------ MODULE GroupMap -----------------------------
(***************************************************************************)
(* The groups of the round_robin policy and of the ordered policy's        *)
(* ROUND_ROBIN key (src/src/policy/qhw_group_map.c): tasks of one          *)
(* reservation, else of one job, else a single task.                       *)
(***************************************************************************)
EXTENDS Integers

CONSTANTS
    TaskId,
    Ids             \* values of reservation_id and job_id; 0: not set

ASSUME IdsAssumption == Ids \subseteq Nat

\* One table per kind of group: an id means nothing across the tables.
GroupKey == [kind : {"reservation", "job"}, id : Ids \ {0}] \cup
            [kind : {"task"}, id : TaskId]

\* qhw_group_key_from_task
GroupKeyFromTask(t, reservation, job) ==
    IF reservation # 0 THEN [kind |-> "reservation", id |-> reservation]
    ELSE IF job # 0 THEN [kind |-> "job", id |-> job]
    ELSE [kind |-> "task", id |-> t]
=============================================================================

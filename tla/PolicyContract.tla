--------------------------- MODULE PolicyContract --------------------------
(***************************************************************************)
(* What the scheduler core relies on in every policy plugin                *)
(* (qhw_sched_plugin_desc_t): the tasks it was told of and has not been    *)
(* told to forget form a pool; select_next hands out one of them, once,    *)
(* and answers NOT_FOUND only when there is none; a callback that fails    *)
(* changes nothing.  Scheduler uses a policy through this contract: its    *)
(* variable ready is the pool.                                             *)
(***************************************************************************)
CONSTANTS TaskId, NoTask

VARIABLES
    pool,       \* the tasks the policy holds
    chosen      \* the answer of the last select_next; NoTask: NOT_FOUND

vars == <<pool, chosen>>

Init == pool = {} /\ chosen = NoTask

OnTaskSubmit(t) ==
    /\ t \notin pool
    /\ pool' = pool \cup {t}
    /\ UNCHANGED chosen

SelectNext ==
    \/ /\ pool = {}
       /\ chosen' = NoTask
       /\ UNCHANGED pool
    \/ \E t \in pool : chosen' = t /\ pool' = pool \ {t}

OnTaskFinished(t) ==
    /\ pool' = pool \ {t}
    /\ UNCHANGED chosen

Next ==
    \/ \E t \in TaskId : OnTaskSubmit(t) \/ OnTaskFinished(t)
    \/ SelectNext

Spec == Init /\ [][Next]_vars
=============================================================================

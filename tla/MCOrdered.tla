----------------------------- MODULE MCOrdered -----------------------------
(***************************************************************************)
(* Orders with and without groups; one job of two kinds of tasks, single   *)
(* tasks, and a task whose deadline comes while it waits.                  *)
(***************************************************************************)
EXTENDS OrderedPolicy

MCIntMin == -8
MCIntMax == 7

Boost ==
    [enabled |-> TRUE, normal_threshold |-> 2, urgent_threshold |-> 4,
     critical_threshold |-> 8, normal_boost |-> 1, urgent_boost |-> 2,
     critical_boost |-> 2]

MCOrderConfigs ==
    [keys : {<<"ROUND_ROBIN", "PRIORITY">>, <<"PRIORITY", "ROUND_ROBIN", "FIFO">>,
             <<"LJF", "SJF">>},
     boost : {Boost}]

PriorityOnly == [keys : {<<"PRIORITY">>}, boost : {Boost}]

Desc(deadline, job, cost, runtime, shots) ==
    [base |-> 0, deadline |-> deadline, reservation |-> 0, job |-> job,
     cost |-> cost, runtime |-> runtime, meta_runtime |-> 0, shots |-> shots]

MCDescs == {Desc(0, 1, 0, 0, 1), Desc(2, 1, 2, 1, 0), Desc(2, 0, 0, 1, 0)}
=============================================================================

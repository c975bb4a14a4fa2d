----------------------------- MODULE MCPriority ----------------------------
(***************************************************************************)
(* A boost that grows with urgency, and one that does not: the thresholds  *)
(* are checked when a policy is configured, the boosts are not.            *)
(***************************************************************************)
EXTENDS PriorityPolicy

MCIntMin == -8
MCIntMax == 7

MCBoostConfigs ==
    {c \in [enabled : BOOLEAN, normal_threshold : {2}, urgent_threshold : {4},
            critical_threshold : {8}, normal_boost : {1}, urgent_boost : {2},
            critical_boost : {3, -1}] : c.enabled \/ c.critical_boost = 3}
=============================================================================

-------------------------- MODULE MCDeadlineBoost --------------------------
(***************************************************************************)
(* The deadline boost over all inputs of a small machine word.             *)
(***************************************************************************)
EXTENDS BoostedTask

CONSTANT Thresholds

\* A signed word of three bits, and boosts that leave it at both ends.
MCIntMin == -4
MCIntMax == 3
MCTaskBases == {-2, 2}
Boosts == {-3, 2}

MCTaskConfigs ==
    {c \in [enabled : {TRUE}, normal_threshold : Thresholds, urgent_threshold : Thresholds,
            critical_threshold : Thresholds, normal_boost : {1}, urgent_boost : Boosts,
            critical_boost : Boosts] : Accepted(c)}
=============================================================================

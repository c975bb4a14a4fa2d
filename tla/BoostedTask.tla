---------------------------- MODULE BoostedTask ----------------------------
(***************************************************************************)
(* One task with a deadline under one configuration of the boost, and the  *)
(* clock a policy reads: what qhw_deadline_boost_compute answers at every  *)
(* moment of the task's life.                                              *)
(***************************************************************************)
EXTENDS DeadlineBoost

CONSTANTS TaskConfigs, TaskBases, TaskRuntimes  \* the inputs of the computation

ASSUME BoostedTaskAssumption ==
    /\ TaskConfigs \subseteq {c \in BoostConfigType : Accepted(c)}
    /\ TaskBases \subseteq IntMin..IntMax
    /\ TaskRuntimes \subseteq 0..WordMax

VARIABLES taskConfig, taskBase, taskDeadline, taskRuntime, clock

taskVars == <<taskConfig, taskBase, taskDeadline, taskRuntime, clock>>

TaskInit ==
    /\ taskConfig \in TaskConfigs /\ taskBase \in TaskBases
    /\ taskDeadline \in 0..WordMax /\ taskRuntime \in TaskRuntimes
    /\ clock = 0

ClockTicks ==
    /\ clock < WordMax
    /\ clock' = clock + 1
    /\ UNCHANGED <<taskConfig, taskBase, taskDeadline, taskRuntime>>

TaskSpec == TaskInit /\ [][ClockTicks]_taskVars

Result(at) == Compute(taskConfig, taskBase, taskDeadline, taskRuntime, at)

\* The tier does not change before the moment qhw_deadline_boost_compute names
\* for the next look, so a policy that looks then is never late.
RefreshNeverLate ==
    \A later \in clock..WordMax : later < Result(clock).next_refresh =>
        Result(later).tier = Result(clock).tier

\* The effective priority is the boosted priority held within the signed range,
\* and the sum before it never leaves that range.
BoostSaturates ==
    LET boost == [none |-> 0, normal |-> taskConfig.normal_boost,
                  urgent |-> taskConfig.urgent_boost,
                  critical |-> taskConfig.critical_boost][Result(clock).tier]
        sum   == taskBase + boost
    IN  Result(clock).effective_priority =
            IF sum > IntMax THEN IntMax ELSE IF sum < IntMin THEN IntMin ELSE sum

\* Both builds of scale_div_ceil_u64, with and without 128-bit integers, give the
\* same answer, at the edges of the word too.
BuildsAgree ==
    \A value \in {taskRuntime, clock} :
        ScaleDivCeil(value, taskDeadline) = ScaleDivCeilPortable(value, taskDeadline)
=============================================================================

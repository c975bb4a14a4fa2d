------------------------------- MODULE Split -------------------------------
(***************************************************************************)
(* Submission-time shot splitting: when a request is split, into how many  *)
(* slices, and which answers of the split_task callback the core accepts.  *)
(* (src/src/qhw_scheduler.c, src/src/qhw_split.c)                          *)
(*                                                                         *)
(* A shot count, limit or threshold of 0 means "not configured", as in the *)
(* source.  A request of 0 shots and a request without SHOTS metadata take *)
(* the same path (neither exceeds a threshold), so 0 stands for both.      *)
(***************************************************************************)
EXTENDS Integers, Sequences

CONSTANTS TaskId, NoTask    \* task identifiers; NoTask is QHW_SCHED_INVALID_TASK_ID

ASSUME NoTaskAssumption == NoTask \notin TaskId

\* The options of an active policy that concern splitting.  The option
\* min_remainder_shots is stored by the source and read by nothing.
SplitConfigType ==
    [max_shots : Nat, shot_threshold : Nat, max_children : Nat]

\* qhw_sched_split_config_init: nothing configured.
NoSplitConfig ==
    [max_shots |-> 0, shot_threshold |-> 0, max_children |-> 0]

MinNonzero(left, right) ==
    IF left = 0 \/ (right # 0 /\ right <= left) THEN right ELSE left

\* What compute_split_config decides about a request.
Whole       == [kind |-> "whole", slice_shots |-> 0, slice_count |-> 0]
Unsupported == [kind |-> "unsupported", slice_shots |-> 0, slice_count |-> 0]
PlanType    == [kind : {"whole", "unsupported", "split"},
                slice_shots : Nat, slice_count : Nat]

\* Mutant: a quotient without remainder is rounded up as well.
CeilDivAlways(a, b) == (a \div b) + 1

\* The slices a request is cut into, a last short one included.
CeilDiv(a, b) == (a \div b) + (IF a % b # 0 THEN 1 ELSE 0)

\* Mutant: the threshold is not clamped to the slice size.
LateThresholdPlan(config, qpuMax, requested, canSplit) ==
    LET slice     == MinNonzero(config.max_shots, qpuMax)
        threshold == IF config.shot_threshold = 0 THEN slice ELSE config.shot_threshold
        count     == CeilDiv(requested, slice)
    IN  IF slice = 0 \/ requested <= threshold THEN Whole
        ELSE IF (config.max_children # 0 /\ count > config.max_children) \/ ~canSplit
        THEN Unsupported
        ELSE [kind |-> "split", slice_shots |-> slice, slice_count |-> count]

\* compute_split_config.  canSplit: a split_task callback is registered.
ComputeSplitConfig(config, qpuMax, requested, canSplit) ==
    LET slice     == MinNonzero(config.max_shots, qpuMax)
        threshold == IF config.shot_threshold \in 1..slice
                     THEN config.shot_threshold ELSE slice
        count     == CeilDiv(requested, slice)
    IN  IF slice = 0 \/ requested <= threshold THEN Whole
        ELSE IF (config.max_children # 0 /\ count > config.max_children) \/ ~canSplit
        THEN Unsupported
        ELSE [kind |-> "split", slice_shots |-> slice, slice_count |-> count]

----------------------------------------------------------------------------
\* One descriptor filled in by the split_task callback.
ChildType == [id : TaskId \cup {NoTask}, parent : TaskId \cup {NoTask},
              slice_index : Nat, slice_count : Nat, shots : Nat]

\* ShotsUpTo(children)[i] is total_shots after the first i children.
ShotsUpTo(children) ==
    LET total[i \in 0..Len(children)] ==
            IF i = 0 THEN 0 ELSE total[i - 1] + children[i].shots
    IN  total

\* Mutant: the shots are not added up.
ValidChildTasksUnsummed(parent, children, plan, requested, present) ==
    /\ Len(children) = plan.slice_count
    /\ \A i \in DOMAIN children :
          /\ children[i].id \notin present \cup {NoTask, parent}
          /\ children[i].shots \in 1..plan.slice_shots
    /\ \A i, j \in DOMAIN children : i # j => children[i].id # children[j].id

\* validate_child_tasks, as a predicate: the answer names fresh, distinct
\* tasks of this parent, numbers the slices 0..n-1 and hands out exactly the
\* requested shots, no slice exceeding slice_shots.  ChildValidation runs the
\* loop of the source and shows that it decides this predicate.
ValidChildTasks(parent, children, plan, requested, present) ==
    LET n == plan.slice_count
    IN  /\ Len(children) = n
        /\ \A i \in 1..n :
              /\ children[i].id \notin present \cup {NoTask, parent}
              /\ children[i].parent = parent
              /\ children[i].slice_index \in 0..(n - 1)
              /\ children[i].slice_count = n
              /\ children[i].shots \in 1..plan.slice_shots
        /\ \A i, j \in 1..n : i # j =>
              /\ children[i].id # children[j].id
              /\ children[i].slice_index # children[j].slice_index
        /\ ShotsUpTo(children)[n] = requested
=============================================================================

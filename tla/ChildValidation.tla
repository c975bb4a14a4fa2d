-------------------------- MODULE ChildValidation --------------------------
(***************************************************************************)
(* One split submission seen by itself: compute_split_config decides on a  *)
(* plan, the split_task callback answers with any children at all, and     *)
(* validate_child_tasks walks over them, child by child, with its two      *)
(* "seen" tables and its running total.  (src/src/qhw_scheduler.c)         *)
(***************************************************************************)
EXTENDS Split, FiniteSets

CONSTANTS
    Parent,         \* the task being split
    Present,        \* the ids in the task table when the lock is taken again
    Configs,        \* the policies' split options
    QpuLimits,      \* values of the QPU profile's MAX_SHOTS (0: absent)
    Requests,       \* shots requested by the caller
    Answers(_),     \* the sequences of n children a callback may answer
    Word            \* unsigned integers are taken modulo Word (2^64 in the source)

ASSUME ChildValidationAssumption ==
    /\ Word \in Nat /\ Requests \subseteq 0..(Word - 1)
    /\ Configs \subseteq SplitConfigType /\ QpuLimits \subseteq Nat
    /\ \A n \in 1..(Word - 1) : Answers(n) \subseteq [1..n -> ChildType]

VARIABLES
    config, qpuMax, requested,      \* the inputs of compute_split_config
    children,                       \* the callback's answer
    i,                              \* children examined so far
    seen, seen_slices,              \* the two hash tables of validate_child_tasks
    total_shots,
    rc                              \* "plan", "running", "OK" or "INVALID_ARG"

vars == <<config, qpuMax, requested, children, i, seen, seen_slices, total_shots, rc>>

Plan == ComputeSplitConfig(config, qpuMax, requested, TRUE)

Init ==
    /\ config \in Configs /\ qpuMax \in QpuLimits /\ requested \in Requests
    /\ children = <<>>
    /\ i = 0
    /\ seen = {} /\ seen_slices = {}
    /\ total_shots = 0
    /\ rc = "plan"

\* callbacks.split_task(...) returns QHW_SCHED_OK with these children.
CallbackAnswers ==
    /\ rc = "plan"
    /\ Plan.kind = "split"
    /\ \E answer \in Answers(Plan.slice_count) : children' = answer
    /\ rc' = "running"
    /\ UNCHANGED <<config, qpuMax, requested, i, seen, seen_slices, total_shots>>

\* Mutant: a slice is compared with the whole request, not with what is left.
AcceptableUpToRequest(c) ==
    /\ c.id \notin {NoTask, Parent} \cup Present \cup seen
    /\ c.parent = Parent
    /\ c.slice_count = Plan.slice_count
    /\ c.slice_index < Plan.slice_count
    /\ c.slice_index \notin seen_slices
    /\ c.shots # 0
    /\ c.shots <= Plan.slice_shots
    /\ c.shots <= requested

\* The tests of the loop body on child c.  A slice_index that the callback
\* leaves out fails like one that is out of range.
Acceptable(c) ==
    /\ c.id \notin {NoTask, Parent} \cup Present \cup seen
    /\ c.parent = Parent
    /\ c.slice_count = Plan.slice_count
    /\ c.slice_index < Plan.slice_count
    /\ c.slice_index \notin seen_slices
    /\ c.shots # 0
    /\ c.shots <= Plan.slice_shots
    /\ c.shots <= (requested - total_shots) % Word

AcceptChild ==
    /\ rc = "running"
    /\ i < Len(children)
    /\ LET c == children[i + 1]
       IN  /\ Acceptable(c)
           /\ seen_slices' = seen_slices \cup {c.slice_index}
           /\ seen' = seen \cup {c.id}
           /\ total_shots' = (total_shots + c.shots) % Word
    /\ i' = i + 1
    /\ UNCHANGED <<config, qpuMax, requested, children, rc>>

RejectChild ==
    /\ rc = "running"
    /\ i < Len(children)
    /\ ~Acceptable(children[i + 1])
    /\ rc' = "INVALID_ARG"
    /\ UNCHANGED <<config, qpuMax, requested, children, i, seen, seen_slices, total_shots>>

\* Mutant: the total is not compared after the loop.
FinishWithoutTotal ==
    /\ rc = "running"
    /\ i = Len(children)
    /\ rc' = "OK"
    /\ UNCHANGED <<config, qpuMax, requested, children, i, seen, seen_slices, total_shots>>

\* After the loop: the slices must add up to the request.
Finish ==
    /\ rc = "running"
    /\ i = Len(children)
    /\ rc' = IF total_shots = requested THEN "OK" ELSE "INVALID_ARG"
    /\ UNCHANGED <<config, qpuMax, requested, children, i, seen, seen_slices, total_shots>>

Next == CallbackAnswers \/ AcceptChild \/ RejectChild \/ Finish

Spec == Init /\ [][Next]_vars

----------------------------------------------------------------------------
\* The loop of validate_child_tasks, with its early exits, its two tables and
\* its running remainder, answers exactly the declarative ValidChildTasks.
LoopDecidesValidity ==
    rc \in {"OK", "INVALID_ARG"} =>
        (rc = "OK" <=> ValidChildTasks(Parent, children, Plan, requested, Present))

\* The remainder requested_shots - total_shots of validate_child_tasks never
\* wraps around, whatever the callback answers.
RemainderNeverWraps == total_shots <= requested

\* Whatever the callback answers, what compute_split_config and
\* validate_child_tasks let through fits the device and the policy: an unsplit
\* request and every accepted slice stay within both limits, where configured.
AdmittedWorkFitsLimits ==
    LET limits      == {qpuMax, config.max_shots} \ {0}
        Fits(shots) == \A limit \in limits : shots <= limit
    IN  /\ Plan.kind = "whole" => Fits(requested)
        /\ rc = "OK" => \A k \in DOMAIN children : Fits(children[k].shots)

\* compute_split_config asks for the least number of slices that can carry the
\* request, so a callback that fills its slices in turn is always accepted.
PlanIsLeast ==
    Plan.kind = "split" =>
        /\ Plan.slice_count * Plan.slice_shots >= requested
        /\ (Plan.slice_count - 1) * Plan.slice_shots < requested
        /\ config.max_children # 0 => Plan.slice_count <= config.max_children
=============================================================================

---------------------------- MODULE MCScheduler ----------------------------
EXTENDS Scheduler, TLC

CONSTANTS t1, t2, t3, t4, th1, th2

FourTasks == {t1, t2, t3, t4}
ThreeTasks == {t1, t2, t3}

NoSplitting == {NoSplitConfig}
NoCallbacks == [split_task : {FALSE}, estimate_cost : {FALSE}]
SplitOnly   == [split_task : {TRUE}, estimate_cost : {FALSE}]
BothCallbacks == [split_task : {TRUE}, estimate_cost : {TRUE}]

SplitOptions == [max_shots |-> 1, shot_threshold |-> 0, max_children |-> 0]

AlwaysSplit == {SplitOptions}

\* No splitting, and slices of one shot.
MaySplitConfigs == {NoSplitConfig, SplitOptions}

\* Slices of one shot, and of two shots from two shots on.
TwoWaysToSlice ==
    { SplitOptions, [max_shots |-> 2, shot_threshold |-> 1, max_children |-> 0] }

WithSplitCallback == [split_task : {TRUE}, estimate_cost : BOOLEAN]

\* Two slices of one shot; the ids are any two, equal or not.
PairAnswers ==
    { <<[id |-> x, slice_index |-> 0, shots |-> 1],
        [id |-> y, slice_index |-> 1, shots |-> 1]>> : x, y \in TaskId }

\* One slice, which may fall short of the request.
SingleAnswers ==
    { <<[id |-> x, slice_index |-> 0, shots |-> s]>> : x \in TaskId, s \in {1, 2} }

AnyAnswers == PairAnswers \cup SingleAnswers

\* A caller that numbers its slices t3 and t4.
OneAnswer ==
    { <<[id |-> t3, slice_index |-> 0, shots |-> 1],
        [id |-> t4, slice_index |-> 1, shots |-> 1]>> }

TaskSymmetry == Permutations(TaskId)
FullSymmetry == Permutations(TaskId) \cup Permutations(Threads)
=============================================================================

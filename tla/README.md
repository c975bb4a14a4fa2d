# qhw-scheduler in TLA+

`qhw_scheduler` is a C library that schedules quantum tasks on a QPU. A caller
submits tasks, asks which task to run next, and reports starts and completions;
a policy plugin decides the order; tasks that are too large for the device are
split at submission. This directory models the task life cycle, the splitting,
the exchange of policies, the four bundled policies, schedulers that share a QPU,
and the lifetimes of QPU handles and policy libraries in TLA+. TLC checks them on
small instances; TLAPS proves every safety property of the passing runs for every
value of the constants: the invariants and action properties of the core, of the
splitting, of the handles and of the four policies, the arithmetic of the deadline
boost, and that core and policies implement their abstract specifications.

    tlc -config MCSplit.cfg MCScheduler      # a run; PROJECT.json names the module of each cfg
    tlapm SchedulerProofs.tla                # the proofs of a module

## The system

| Component | State | Operations | Works with |
| --- | --- | --- | --- |
| scheduler core (`qhw_scheduler.c`) | mutex, callbacks, the active policy | create, set_callbacks, submit_task, select_next, task_started, task_completed / failed / cancelled, update_priority | everything below |
| task table (`qhw_task.c`) | a record per task: state, copied descriptor, enqueue number, tallies of children | insert, remove, find, walk of the queued records | owned by the core |
| splitting (`qhw_split.c`, core) | the active policy's split options | compute_split_config, validate_child_tasks, admission of the children | calls the caller's split and cost callbacks **without the mutex** |
| policy installation (`qhw_plugin.c`) | plugin descriptor and its state | set_policy: init, replay of the queued records, fini of the old state | reads the task table |
| plugin registry (`qhw_plugin.c`) | loaded descriptors and library handles | load_plugin, list_policies, closing of the libraries in destroy | dlopen and dlclose; the active policy runs the libraries' code |
| QPU (`qhw_qpu.c`, core) | one running slot, queued and finished counters, reference count | runtime_task_queued / unqueued / started / unstarted / finished, create, retain, release, destroy | shared by schedulers |
| fifo, priority, round_robin, ordered (`plugins/`) | ready queues, heap of refresh times, groups | on_task_submit, select_next, on_task_priority_changed, on_task_started, on_task_finished | called by the core under its mutex |
| policy helpers (`policy/`) | ready queue (heap or list), refresh heap, group map, order keys | insert, pop, remove, reorder; the deadline boost | used by the policies |
| threading (`qhw_thread.c`) | the mutex, or nothing in the user-serialised mode | lock, unlock | core, QPU |
| Python façade, SWIG (`python/`, `swg/`) | callables, a list of retained metadata | conversions, trampolines of callbacks | runs inside the unlocked window of submit_task |

What is hard in this code, and where the properties aim:

- **The unlocked window of `submit_task`.** Options, callbacks and the table are
  read, the mutex is given up to a callback, and the answer is used afterwards.
  Another thread may meanwhile take the id, or install another policy.
- **Failures half way.** A child in the middle of a split is refused; a policy
  refuses a start, a priority or a completion after the record has changed; an
  allocation fails between two inserts.
- **Cached facts.** The effective priority of a task holds until a refresh time;
  a group stands in a heap by its best task; the queue counter is kept beside
  the table; a policy keeps its own copy of what waits.
- **Orders.** Slices end in any order and one verdict has to come out; queued
  tasks are replayed into a new policy; groups appear and vanish while others wait.
- **What is shared, and for how long.** Several schedulers may hold one QPU, with
  one slot and one set of counters, and may be destroyed in any order; a policy's
  code and the names handed out live in libraries that are opened and closed
  outside the scheduler mutex.
- **Edges of arithmetic.** Remainders that could wrap, limits that may be absent,
  saturating sums, two algorithms for one division.

`PROJECT.json` lists each of these at its line, with the properties that watch it.

## Modules

| Module | Models | State and actions against the code |
| --- | --- | --- |
| `Split` | `compute_split_config`, the meaning of `validate_child_tasks` | operators; a plan is whole, split or unsupported |
| `ChildValidation` | the loop of `validate_child_tasks` | loop index, running total (unsigned, of width `Word`), seen indices; one action per round |
| `TaskLifecycle` | *abstract*: what a caller is promised | status and parent of each task, the QPU's slot; a split request appears at once, and a parent ends with its last slice |
| `Scheduler` | core, task table, QPU counters, set_policy | one action per operation that keeps the mutex; `submit_task` is `SubmitWhole` when no callback is called, else `SubmitWithCallback`, then `EstimateReturns` or `SplitReturns` / `SplitFails`, then `EnqueueChild`, `RollbackChild`, `RollbackParent` with the mutex kept (`lock`) |
| `FifoScheduler` | the core composed with `fifo.c` over the list form of `qhw_ready_queue.c` | `Scheduler` and the list; every callback the core makes changes it, and `select_next` pops its front |
| `SharedQpu` | two schedulers on one QPU | `Scheduler` and a second instance of it (`Other`) with the slot and the counters shared; the second may be destroyed and created again (`RestartOther`) |
| `Handles` | `qhw_qpu.c`, the registry of `qhw_plugin.c`, create and destroy of `qhw_scheduler.c` | reference count, phases of each scheduler, libraries registered, active and listed, opens per library; `load_plugin`, `destroy` and the release of a QPU in the steps that other threads can see |
| `PolicyContract` | *abstract*: what the core relies on in a policy | a pool of tasks; selection removes one of them, and answers NOT_FOUND only for an empty pool |
| `GroupMap` | `qhw_group_map.c` | the group of a task |
| `RoundRobin` | `round_robin.c` | list of active groups, list of tasks of each, task index; the callbacks |
| `DeadlineBoost` | `qhw_deadline_boost.c` | operators, with the word size a constant |
| `BoostedTask` | one task and the clock a policy reads | the inputs of `qhw_deadline_boost_compute`, and its answer at every moment |
| `PriorityPolicy` | `priority.c`, heap form of `qhw_ready_queue.c`, `qhw_deadline_refresh.c` | entries with the key each was last sifted by, the tasks with a refresh time, the clock |
| `OrderedPolicy` | `ordered.c`, `qhw_order_key.c`, `qhw_policy_metadata.c` | the same per group, tickets, and the group heap with what each group was last sifted by |
| `SchedulerProofs` | | the theorems about `Scheduler` and its splitting |
| `CompositionProofs` | | the theorems about `SharedQpu` and `FifoScheduler` |
| `HandlesProofs`, `RoundRobinProofs`, `PriorityProofs`, `OrderedProofs`, `BoostProofs`, `ChildValidationProofs` | | the theorems about the module of that name (`BoostProofs`: `DeadlineBoost` and `BoostedTask`, with the lemmas on entries that both boosted policies use) |

`MCScheduler`, `MCSharedQpu`, `MCFifo`, `MCHandles`, `MCChildValidation`,
`MCDeadlineBoost`, `MCPriority` and `MCOrdered` give the constants their values; `MCRoundRobin.cfg` needs no module
of its own.

Conventions. A record that does not exist has state `ABSENT`. An operation that
is refused by an early return is a step that is not enabled, or, where the
refusal comes after changes that are undone, an alternative of its action, so
that what is undone is visible (`EnqueueFailed`, `StartRefused`,
`PriorityRefused`). The `Mutant` operators are plausible errors of the code;
each property of a passing run is violated when one of them replaces its
original.

The core sees a policy as its ready queue and the callbacks that may fail. A
`builtin` policy may refuse a submission (memory), but once a task is in its
queue the other callbacks succeed. Of a `plugin` every callback may fail:
`on_task_submit`, `on_task_started` and `on_task_priority_changed` as the alternatives
`EnqueueFailed`, `StartRefused` and `PriorityRefused`; `on_task_finished` with the entry
dropped or kept; and `init` and `select_next` with nothing changed in the core, which is
no step. A plugin that fails in `select_next` is taken to keep its entries: one that
drops a task and fails has lost it, and the core cannot know. When a plugin has kept the
entry of a child that was rolled back, and the identifier is submitted again, it may
refuse the task or put it in the place of the old entry (`PolicyInsert`). That
`RoundRobin`, `PriorityPolicy` and `OrderedPolicy` behave as the core
assumes is the property `ImplementsContract` of each. `fifo` is composed with the
core instead: in `FifoScheduler` the kind `builtin` is fifo, and its list moves
with the callbacks the core really makes, failures and rollbacks included.

`SharedQpu` takes an operation of one scheduler as one step, although the two
schedulers have different mutexes and the QPU's lock is taken and given back for
each access. That is sound because of what the accesses are: they add one to a
counter or subtract one that was added, or they take the slot if it is free and
otherwise end the operation with nothing changed. An operation that meets the
other one half way therefore does what it would do before or after it. Neither
create nor destroy touches the counters: what was queued or running when a
scheduler is destroyed stays in `queued_count` and in the slot (`DestroyQpu`), and
the properties account for it.

`Handles` assumes the rules of the API: a QPU is passed to create by someone who
holds it, a scheduler is destroyed when no call on it is in progress and the
arrays of `list_policies` are freed (`qhw_sched_free_policy_info_array` needs the
scheduler), and calls on a `THREAD_USER` scheduler are serialised. One array per
scheduler is out at a time.

Heaps are modelled by their entries together with the key by which each was last
sifted. Selection takes the entry whose *sifted* key is first, so a missing
sift is visible as a wrong selection. The heap and hash table code is a library
outside the repository; it is used as those structures promise, and a heap that
has shrunk is taken to keep its memory, so that a push after a pop succeeds.

## Runs

| Run | Configuration | What it shows |
| --- | --- | --- |
| `lifecycle` | two schedulers on one QPU with two tasks each, one identifier used by both; the first with built-in and failing policies exchanged at will and two priorities, the second destroyed and created again | neither scheduler upsets the other: `SlotFollowsOwnTasks`, `QueuedCountShared`; and the policy's priorities are those of the table: `PolicyKnowsPriority` |
| `split` | four tasks, requests of two shots, options that split them or do not, a failing policy | admission and rollback are all or nothing; the parent waits for its last slice and takes the right verdict; counter and slot are exact: `TypeOK`, `SplitIsAllOrNothing`, `ParentFollowsSlices`, `RunningHoldsQpu`, `NoTaskStranded`, `QueuedCountExact` |
| `window` | core with fifo or another policy, two threads, cost and split callbacks answering anything, two split options | what is used after the window is still true: `AdmissionProtocol`, `AdmittedUnderCurrentPlan`, `SlicesCarryRequest`; the policy holds the queued tasks and no others: `BuiltinReadyExact`; tasks leave in the order of arrival, whatever was rolled back, cancelled or replayed before: `ArrivalOrderKept`, `FirstComeFirstServed`; and the core implements `TaskLifecycle` (`ImplementsLifecycle`) |
| `handles` | two schedulers of either threading mode, two loading threads, three libraries of which two have the same name and not the same thread flags | no code or name is used after its library was closed, and none that does not support the mode (`PolicyCodeMapped`); the QPU lives exactly as long as its holders (`QpuOutlivesHolders`); in the end all is closed and freed (`EverythingReleased`) |
| `liveness` | three tasks, split by every policy, cost and split callbacks, a failing policy, with fairness | `AdmittedTaskSettles`, `SubmissionReturns` |
| `child_validation` | all requests up to five shots, all small options and answers | the loop accepts exactly what the declarative meaning accepts, its remainder never wraps, the plan is the least one and respects every limit |
| `round_robin` | three tasks in reservation, job and single groups | lists, counters and map agree, groups take turns, nobody starves, the contract holds |
| `deadline_boost` | every deadline and clock value of a small word, five thresholds and runtimes, boosts that overflow | a refresh time is never late, sums saturate, both builds of the division agree |
| `priority` | two tasks, deadlines that pass while they wait, a clock that moves inside select_next, growing and falling boosts, boosts off | the heaps agree, the best task by the clock of the moment is handed out, the refresh loop ends, the contract holds |
| `ordered` | three tasks, three lists of keys, a deadline that comes nearer | map, heaps and index agree, groups take turns under a leading ROUND_ROBIN, the first task by the keys is handed out, the contract holds |
| `foreign_parent` | *violated* | see Findings |
| `ordered_ties` | *violated* | see Findings |

**Bounds and why they are enough.** `MaxSeq` caps the enqueue numbers handed
out; it is one above the tasks of the first scheduler in `lifecycle`, so that a
task can be refused and submitted again after others. Two tasks per scheduler, one
with an identifier of its own and one that both use, are all the ways in which the
schedulers can meet at the slot; one restart (`MaxRestarts`) and one submission per
life (`OtherMaxSeq`) leave each kind of remainder on the QPU, a task that was queued
and one that ran. Three tasks are the least that show an order
beside a task that runs (`window`); four are a parent, two slices and a bystander. Two
shots and slices of one shot give the smallest split with a middle, in which
the second child can fail after the first; longer splits repeat the same round,
and the theorems about the loop hold for every length. A submission that meets
the stale entry of a rolled back child takes one more request size than `split` has: its
invariants were checked once with `Shots = {1, 2}` and options that always split, too
long for a regular run (988,000 states), and the theorems cover it. Two threads are all a
window needs: one in it, one that acts meanwhile. Two schedulers and two threads
are the least with a library open twice, a name registered in between, and a QPU
given up in either order. The word sizes of
`DeadlineBoost` (24 and 32 values, three and four bits signed) are small
enough to enumerate every pair of deadline and clock, and the values of the
thresholds lie at zero, below, at and above the scale and at the edge of the
word. `MaxNow` lets a task of `priority` pass through every tier while it waits,
and one of `ordered` become urgent; `MaxTicket` and the sequence bounds let a
group be served, destroyed and created again. Symmetry over tasks and threads is used in runs without liveness, where
no definition distinguishes them; `ordered` compares ids and uses none.

**Fairness.** `Scheduler!Fairness`: a callback of the caller returns and the
thread goes on with its call; the caller keeps asking for the next task,
starts what it was given and reports its completion. These are steps of the
caller's dispatch loop as the examples and tests write it; a dispatch loop
that stops schedules nothing. A start or a selection that a plugin refuses leaves
everything as it was, so it does not count as the step that fairness asks for: it is
assumed that a plugin does not refuse for ever what the loop repeats. Other failures,
cancellations and policy changes are not assumed to happen or to stop. `RoundRobin` assumes that select_next is called again
while something waits; `Handles` that a thread goes on with the load, the destroy or
the release it is in, and not that anybody begins one; `PriorityPolicy` that a call of select_next goes on, as
the thread holds the scheduler mutex. `CHECK_DEADLOCK FALSE` is set where the model really
ends: a validation loop that is done, and clocks and counters at their bounds.

## Proofs

Each theorem holds for every value of the constants that satisfies the `ASSUME` of
the module it is about: finite sets of tasks, schedulers and threads of any size, any
policies, options, callbacks, answers and priorities, any machine word.

| Module | Theorem | States |
| --- | --- | --- |
| `SchedulerProofs` | `TypeCorrect` | `Spec => []TypeOK` |
| | `AdmissionProtocolHolds` | `Spec => []AdmissionProtocol` |
| | `QpuHeldByRunningTask` | `Spec => []RunningHoldsQpu` |
| | `QueuedCountHolds` | `Spec => []QueuedCountExact` |
| | `NoTaskStrandedHolds` | `Spec => []NoTaskStranded` |
| | `BuiltinReadyExactHolds` | `Spec => []BuiltinReadyExact` |
| | `PolicyKnowsPriorityHolds` | `Spec => []PolicyKnowsPriority` |
| | `ArrivalOrderHolds` | `Spec => []ArrivalOrderKept` |
| | `AdmittedUnderCurrentPlanHolds` | `Spec => AdmittedUnderCurrentPlan`, an action property |
| | `SlicesCarryRequestHolds` | `Spec => []SlicesCarryRequest` |
| | `SplitIsAllOrNothingHolds` | `Spec => []SplitIsAllOrNothing` |
| | `ParentFollowsSlicesHolds` | `ParentLeftToCore` gives `Spec => []ParentFollowsSlices` |
| | `LifecycleImplemented` | `ParentLeftToCore` gives `Spec => ImplementsLifecycle`, the refinement of `TaskLifecycle` |
| `CompositionProofs` | `QueuedCountSharedHolds` | `SharedSpec => []QueuedCountShared` |
| | `SlotFollowsOwnTasksHolds` | `SharedSpec => []SlotFollowsOwnTasks` |
| | `FirstComeFirstServedHolds` | `FifoSpec => FirstComeFirstServed`, an action property |
| `HandlesProofs` | `QpuOutlivesHoldersHolds` | `Spec => []QpuOutlivesHolders` |
| | `PolicyCodeMappedHolds` | `Spec => []PolicyCodeMapped` |
| `ChildValidationProofs` | `RemainderNeverWrapsHolds` | `Spec => []RemainderNeverWraps` |
| | `LoopDecidesValidityHolds` | `Spec => []LoopDecidesValidity` |
| | `AdmittedWorkFitsLimitsHolds` | `Spec => []AdmittedWorkFitsLimits` |
| | `PlanIsLeastHolds` | `Spec => []PlanIsLeast` |
| `RoundRobinProofs` | `ListsAgreeHolds` | `Spec => []ListsAgree` |
| | `TurnsAreFairHolds` | `Spec => []TurnsAreFair` |
| | `RoundRobinContract` | `Spec => ImplementsContract`, the refinement of `PolicyContract` |
| `BoostProofs` | `RefreshNeverLateHolds` | `TaskSpec => []RefreshNeverLate` |
| | `BoostSaturatesHolds` | `TaskSpec => []BoostSaturates` |
| | `BuildsAgreeHolds` | `TaskSpec => []BuildsAgree` |
| `PriorityProofs` | `QueuesAgreeHolds` | `Spec => []QueuesAgree` |
| | `SelectionIsBestHolds` | `Spec => SelectionIsBest`, an action property |
| | `PriorityContract` | `Spec => ImplementsContract` |
| `OrderedProofs` | `GroupsAgreeHolds` | `Spec => []GroupsAgree` |
| | `GroupsTakeTurnsHolds` | `Spec => []GroupsTakeTurns` |
| | `OrderedSelectionIsBestHolds` | `Spec => OrderedSelectionIsBest`, an action property |
| | `OrderedContract` | `Spec => ImplementsContract` |

The safety part of a specification is all these proofs use: where `Spec` states
fairness, the theorem does not depend on it.

**The core.** Types alone are not inductive: in the admission loop the next child is
an element of the children only because the loop index is within bounds, and a thread
may remove a child only because it is queued. The invariant `Base` is therefore
`OwnTypes /\ AdmissionProtocol`: who keeps the mutex, and that the children below the
loop index, and no others, are queued. It leaves out the type of the slot, which on a
shared QPU may hold a task of another scheduler (`TypeOK` adds it), so that the same
lemmas serve `Scheduler` and `SharedQpu`. `TypeStep` and `ProtocolStep` have one step
per action.

`StepChanges` then sorts every action into six ways of changing the table, the queue
counter and the slot: inserting, parking a parent, unqueueing, starting, finishing,
and leaving all as it is. `QpuHeldByRunningTask` and `QueuedCountHolds` are arguments
over six cases instead of all actions; the counter needs `Base`, since the rollback
decrements it for a child that must have been queued. The next three theorems share
`ReadyInv`: queued tasks are in the ready queue, with the priority of their record,
and for a built-in policy nothing else is. `ArrivalOrderHolds` adds `SeqInv`: enqueue
numbers lie below the next one and no two queued tasks have the same, which is what
makes a replay meet the records in an order that has no ties.
`AdmittedUnderCurrentPlanHolds` needs `Base` only: that the calls in progress hold
what they were made with, and that each admission repeats its tests with the mutex.

**Splitting: the slices.** `SlicesCarryRequest` and `SplitIsAllOrNothing` share the
invariant `CarryInv`. While a request is admitted or rolled back, its slices are
exactly the children below the loop index, with the shots these had when the total was
checked, and that total is the request (`AdmissionCarries`). When the loop ends, the
children themselves are the required enumeration of the slices, and their shots add up
because a total depends on the shots alone (`SameShotsSameTotal`, from the definition of
`ShotsUpTo` as a choice). Afterwards no operation can change the shots of a slice or
add one: only the admission loop makes slices (`SlicesBelong`, `CallsNoSlices`), and
the records of a request leave the table during its rollback only. The number of the
slices follows from their enumeration. Both theorems hold whatever parents the callers
name in `parent_task_id`.

**Splitting: the verdict.** `ParentFollowsSlices` is not inductive.
`SplitInv` adds that the tally of a parent is, for each final state, the number of its
slices in it (`TallyExact`), how many slices there are while a request is admitted or
rolled back (`AdmissionCounts`), that a parent is settled when the tally has reached
its child count and not before (`VerdictInForce`), that slices have a parent with
children and only such parents wait, and that records which do not exist hold
nothing. This theorem and the refinement rest on the hypothesis `ParentLeftToCore`, that
callers do not set `parent_task_id`: without it they are false, as the run
`foreign_parent` shows. `LifecycleImplemented` uses the mapping of `Scheduler`, under
which a request in admission or rollback is not visible yet: `SplitReturns` and the
rollback are stutters, the last `EnqueueChild` is the step that accepts the whole
request, and `FinishTask` ends a slice and, with the last one, its parent.

**A shared QPU.** The steps of the first scheduler are sorted by `StepChanges`, those
of the second, which is an instance of the same module, by `OtherStepChanges`. Both
theorems are then about sums: `CounterFollows` and `OtherCounterFollows` say that the
counter moves by as much as the number of queued tasks. Destroying a scheduler moves
its queued tasks to `abandonedQueued` and keeps the sum.

**fifo.** A step of `FifoScheduler` is a step of `Scheduler` (`FifoStepIsCoreStep`), so
all theorems of `SchedulerProofs` hold for it too. `ListInv` says that the list holds the
ready tasks in ascending order of their enqueue numbers (`Lists`). `QueueMoves` sums up
what a step of the core may do to the ready queue: it adds a task with a number above
all others, takes one out, or leaves it, and never numbers a waiting task anew. For a
replay the list is built by rank, and `OrderInv`, the invariant of `ArrivalOrderHolds`,
says that the ranks follow the numbers. What `select_next` pops is then the least
number of the ready queue, which by `BuiltinReadyExact` is that of all queued tasks.

**Handles.** `QpuInv` is `QpuOutlivesHolders` with types: the reference count is the
number of holders, so the last release is the one that leaves none. `LibInv` has the
balance of opens (`OpensBalanced`): a library has been opened as often as there are
registries with it and loads in progress with it. For that count the registry of a
scheduler must hold no library twice, which is so because its names are distinct
(`RegistryInOrder`), and loads must be of live schedulers (`LoadsAreLive`).

**Split plans and the validation loop.** `LoopInv` says of the loop index what the
loop has established so far (`Examined`): both tables hold the children below the
index, these passed, and the running total is `ShotsUpTo` at the index. The remainder
is exact because the total does not exceed the request. That a refusal is right needs
`TotalsRise`: a total that is exceeded once is exceeded in the end. What the recursive
functions `ShotsUpTo` and the loop of `ScaledRemainderCeil` compute is proved by
induction in the form of a least counterexample: `LeastNumber` derives from the
library's theorem on well-founded relations that every non-empty set of numbers has a
least element, and `InductionUpTo` follows for sets. The library's induction theorems
are not usable directly, as they take an operator as parameter.

**round_robin.** `ListInv` is `ListsAgree` with types; its proof rests on three lemmas
about lists without duplicates (`PushBack`, `PopFront`, `TakeOut`). `TurnsAreFair`
holds because a group that was served stands behind every group that has waited since:
`TurnsInv` states it as positions in the active list.

**Deadline boost and priority.** `RefreshNeverLate` comes from two facts: the scaled
quotient rounded up is the least number whose product is large enough
(`ScaleDivCeilLeast`), so urgency rises as time runs out and exceeds a threshold
exactly inside its window (`UrgencyRises`, `UrgencyOutsideWindow`). `BuildsAgree` is
division in two parts: each turn of the portable loop keeps quotient and remainder of
what was added (`AddKeepsDivision`). `SelectionIsBest` needs, beside `QueuesAgree`,
that what an entry says was computed at some moment not after now
(`EntriesOnceCurrent`); by `RefreshNeverLate` it is then still right at the moment
`select_next` looks, unless its refresh time has passed, and those entries have been
refreshed before the choice.

**ordered.** Everything rests on the order that the configured keys define: `Precedes` is
a strict total order of views with different ids, whatever the list of keys
(`PrecedesTotal`, `PrecedesNotSelf`, `PrecedesTransitive`; the keys are compared up to
the first difference, which is the least element of a set of indices). So a finite heap
has a first element, the one that fewest others precede (`FirstExists`, from
`LeastNumber`). `PolicyInv` is `GroupsAgree` with types, that the
tickets in use lie below the next one (`TicketsPast`), and that entries were computed at
some moment not after now (`EntriesOnceCurrent`). Three lemmas say what keeps
`GroupsAgree`: a task that arrives in a group, one that leaves it, and one whose key
changes where it stands (`ArriveStep`, `LeaveStep`, `StayStep`); each callback is one of
these. `GroupsTakeTurns` adds `TurnsInv`: a group that was served while another waited has
a later ticket than that one, and with ROUND_ROBIN in front the earliest ticket is served
(`FirstHasEarliestTicket`). `OrderedSelectionIsBest` needs that the first of the groups'
first tasks precedes every waiting task (`TopPrecedesAll`), which uses transitivity, and,
as for priority, that every entry is right for some moment of the call.

All inductive invariants were checked with TLC on the instances of the runs before
they were proved.

**Only model-checked.** Every invariant and every action property of the passing runs
is proved. What TLC alone checks is liveness, which is out of the prover's reach with its
fairness and ENABLED: `AdmittedTaskSettles`, `SubmissionReturns`, `NoStarvation`,
`SelectReturns` and `EverythingReleased`. The refinements proved are of specifications
without fairness.

## Findings

- `foreign_parent`: `update_parent_after_child_locked` tallies every finished
  task whose `parent_task_id` names a waiting parent. Nothing stops a caller from
  submitting a whole task with that field set; when it completes, the parent
  reaches its child count and is reported finished while a slice is still
  queued. `docs/detailed-design.md` says that completion of the parent is
  derived from completion of all children. The other runs take
  `CallerParents = {NoTask}`, the use the documents describe.
- `ordered_ties`: the fallback of `qhw_order_compare_groups` is `task_id`, not
  insertion order then `task_id` as `docs/schedulers.md` says. It shows when FIFO
  is not among the keys.

An observation that contradicts no document, as these speak of one scheduler per QPU
handle, although the code counts references to the handle: the slot compares task
identifiers alone, and identifiers are unique within a scheduler only. When two
schedulers on one QPU use the same identifier, the end of one of these tasks frees
the slot that the other holds, and two tasks can be RUNNING. `SlotFollowsOwnTasks`
is therefore stated for identifiers that one scheduler alone uses.

## What is not modelled, and why

- The parsers of options: the models take the configurations they accept. The
  test the parser makes on the resulting thresholds is `Accepted`.
- The Python façade. Its conversions are pure, and its trampolines are callbacks
  that answer anything, as in `Scheduler`. Its own shared state is the list of
  metadata that the children of a split hold: the beginning and the end of a
  submission free the whole list (`swg/qhw_scheduler.i`,
  `qhw_sched_submit_task_allow_threads`), also what a concurrent submission
  through the same Python scheduler put there and still uses. It is listed as a
  hazard and not modelled.
- Allocator wrappers and getters: no state of a live scheduler depends on them. A
  failing allocation is a choice in each action that allocates.
- The text of the last error. `load_plugin` writes it without the mutex, although
  `docs/detailed-design.md` says that a thread-safe scheduler protects its error
  state; no operation of the core reads it.
- Hash table, heap and list: a library outside the repository.
- The user-serialised threading mode of the core's operations: its behaviours are
  those with one thread. `Handles` has both modes.

## Plan

Done, in this order: `Split`, `ChildValidation`, `TaskLifecycle`, `Scheduler`
with its runs and first theorems; `PolicyContract`, `GroupMap`, `RoundRobin`;
`DeadlineBoost`, `PriorityPolicy`; `OrderedPolicy`; `SharedQpu`, `FifoScheduler`,
`Handles`. What the repository has beyond these is named in the section above; the
metadata list of the façade is the one part of it with a state of its own.

Proved: what the table under Proofs lists, which is all that is planned to be. A change
of the code that adds an action to a module adds a step to the lemmas named `...Step` of
its proof module; one that changes an operator is met by the lemmas about it.

SPECIFICATION SharedSpec
CONSTANTS
    t1 = t1
    t2 = t2
    t3 = t3
    t4 = t4
    th1 = th1
    th2 = th2
    NoTask = NoTask
    NoThread = NoThread
    TaskId <- TwoTasks
    OtherTaskId <- OtherTasks
    MaxRestarts = 1
    OtherMaxSeq = 1
    Threads = {th1}
    PolicyKinds = {"builtin", "plugin"}
    SplitConfigs <- NoSplitting
    CallbackSets <- NoCallbacks
    QpuMaxShots = 0
    Shots = {1}
    Priorities = {0, 1}
    CallerParents = {NoTask}
    SplitAnswers <- PairAnswers
    MaxSeq = 3
INVARIANTS
    SlotFollowsOwnTasks
    QueuedCountShared
    PolicyKnowsPriority

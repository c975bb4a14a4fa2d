SPECIFICATION Spec
CONSTANTS
    t1 = t1
    t2 = t2
    t3 = t3
    t4 = t4
    th1 = th1
    th2 = th2
    NoTask = NoTask
    NoThread = NoThread
    TaskId <- FourTasks
    Threads = {th1}
    PolicyKinds = {}
    SplitConfigs <- NoSplitting
    CallbackSets <- SplitOnly
    QpuMaxShots = 1
    Shots = {1, 2}
    Priorities = {0}
    CallerParents = {NoTask, t1}
    SplitAnswers <- OneAnswer
    MaxSeq = 4
INVARIANT ParentEndsAfterSlices

SPECIFICATION Spec
CONSTANTS
    t1 = t1
    t2 = t2
    t3 = t3
    t4 = t4
    th1 = th1
    th2 = th2
    NoTask = NoTask
    NoThread = NoThread
    TaskId <- FourTasks
    Threads = {th1}
    PolicyKinds = {"plugin"}
    SplitConfigs <- MaySplitConfigs
    CallbackSets <- SplitOnly
    QpuMaxShots = 0
    Shots = {2}
    Priorities = {0}
    CallerParents = {NoTask}
    SplitAnswers <- PairAnswers
    MaxSeq = 4
SYMMETRY TaskSymmetry
INVARIANTS
    TypeOK
    QueuedCountExact
    NoTaskStranded
    SplitIsAllOrNothing
    ParentFollowsSlices
    RunningHoldsQpu

SPECIFICATION FairSpec
CONSTANTS
    t1 = t1
    t2 = t2
    t3 = t3
    t4 = t4
    th1 = th1
    th2 = th2
    NoTask = NoTask
    NoThread = NoThread
    TaskId <- ThreeTasks
    Threads = {th1}
    PolicyKinds = {"plugin"}
    SplitConfigs <- AlwaysSplit
    CallbackSets <- BothCallbacks
    QpuMaxShots = 0
    Shots = {2}
    Priorities = {0}
    CallerParents = {NoTask}
    SplitAnswers <- PairAnswers
    MaxSeq = 3
PROPERTIES
    AdmittedTaskSettles
    SubmissionReturns

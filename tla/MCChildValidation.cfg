SPECIFICATION Spec
CONSTANTS
    p = p
    a1 = a1
    a2 = a2
    a3 = a3
    old = old
    NoTask = NoTask
    TaskId <- MCTaskId
    Parent = p
    Present = {old}
    Configs <- MCConfigs
    QpuLimits = {0, 2, 3}
    Requests <- MCRequests
    Answers <- MCAnswers
    Word = 16
INVARIANTS
    LoopDecidesValidity
    RemainderNeverWraps
    AdmittedWorkFitsLimits
    PlanIsLeast
CHECK_DEADLOCK FALSE

SPECIFICATION FairSpec
CONSTANTS
    WordMax = 31
    IntMin <- MCIntMin
    IntMax <- MCIntMax
    Scale = 4
    TaskId = {t1, t2}
    NoTask = NoTask
    BoostConfigs <- MCBoostConfigs
    Bases = {0, 2}
    Deadlines = {0, 5}
    Runtimes = {2}
    MaxNow = 6
    MaxSeq = 3
INVARIANTS
    QueuesAgree
PROPERTIES
    SelectionIsBest
    SelectReturns
    ImplementsContract
CHECK_DEADLOCK FALSE

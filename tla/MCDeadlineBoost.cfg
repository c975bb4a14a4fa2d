SPECIFICATION TaskSpec
CONSTANTS
    WordMax = 23
    IntMin <- MCIntMin
    IntMax <- MCIntMax
    Scale = 5
    Thresholds = {0, 1, 5, 10, 23}
    TaskConfigs <- MCTaskConfigs
    TaskBases <- MCTaskBases
    TaskRuntimes = {0, 1, 2, 7, 23}
INVARIANTS
    RefreshNeverLate
    BoostSaturates
    BuildsAgree
CHECK_DEADLOCK FALSE

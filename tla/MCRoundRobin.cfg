SPECIFICATION FairSpec
CONSTANTS
    TaskId = {t1, t2, t3}
    NoTask = NoTask
    NoGroup = NoGroup
    Ids = {0, 1}
INVARIANTS
    ListsAgree
    TurnsAreFair
PROPERTIES
    ImplementsContract
    NoStarvation

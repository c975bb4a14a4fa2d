SPECIFICATION Spec
CONSTANTS
    WordMax = 31
    IntMin <- MCIntMin
    IntMax <- MCIntMax
    Scale = 4
    TaskId = {1, 2, 3}
    NoTask = NoTask
    NoGroup = NoGroup
    TheQueue = TheQueue
    Ids = {0, 1}
    OrderConfigs <- PriorityOnly
    Descs <- MCDescs
    Bases = {1}
    MaxNow = 1
    MaxSeq = 3
    MaxTicket = 4
PROPERTY
    TiesFollowInsertion
CHECK_DEADLOCK FALSE

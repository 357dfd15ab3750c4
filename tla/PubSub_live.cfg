SPECIFICATION FairSpec
CONSTANTS
    w1 = w1
    p1 = p1
    p2 = p2
    Publisher = {p1, p2}
    Watcher = {w1}
    Selector <- MCAnySelector
    Object <- MCOneObject
    Wild = ""
    Cap = 2
    Record = FALSE
    MaxEvents = 0
    MaxStops = 2
PROPERTIES PublishReturns StopCompletes ConsumerLearnsEnd
CHECK_DEADLOCK FALSE

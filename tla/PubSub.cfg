SPECIFICATION Spec
CONSTANTS
    w1 = w1
    p1 = p1
    p2 = p2
    Publisher = {p1, p2}
    Watcher = {w1}
    Selector <- MCSelector
    Object <- MCObject
    Wild = ""
    Cap = 1
    Record = TRUE
    MaxEvents = 2
    MaxStops = 3
INVARIANTS NoPanic NoSilentLoss InOrder
CHECK_DEADLOCK FALSE

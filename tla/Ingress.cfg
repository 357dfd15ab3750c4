SPECIFICATION FairSpec
CONSTANTS
    MaxStarts = 2
    Cluster <- MCCluster
    Initial <- MCInitial
    Request <- MCRequest
    Unsynced = Unsynced
    Cap = 1
    Informers = 1
    MaxChanges = 1
INVARIANTS StopStops
PROPERTIES RoutesFollow CancelledEnds
CHECK_DEADLOCK FALSE

SPECIFICATION FairSpec
CONSTANTS
    srv = srv
    agt = agt
    Node = {srv, agt}
    Server = srv
    MaxRequests = 2
    MaxFaults = 2
INVARIANTS OneShutdownPerRequest
PROPERTIES UncordonAfterShutdown RequestServed Settles DrainedFirst
CHECK_DEADLOCK FALSE

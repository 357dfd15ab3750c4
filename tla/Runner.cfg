SPECIFICATION FairSpec
CONSTANTS
    cmdA = cmdA
    cmdB = cmdB
    c1 = c1
    NoCmd = NoCmd
    Cmd = {cmdA, cmdB}
    Caller = {c1}
    Slots = 2
INVARIANTS NoStrayProcess
PROPERTIES KeepsPromise CallsReturn EndReported

SPECIFICATION SyncSpec
CONSTANTS
    k1 = k1
    k2 = k2
    v1 = v1
    v2 = v2
    c1 = c1
    c2 = c2
    ui = ui
    NoVal = NoVal
    Key = {k1, k2}
    Val = {v1, v2}
    Client = {c1}
    Watcher = {ui}
    Cap = 2
    MaxSeq = 3
SYMMETRY Sym
INVARIANTS VersionIdentifiesContent StreamEndsAtStore VersionsAdvance CopyAddsUp
CHECK_DEADLOCK FALSE

SPECIFICATION Spec
CONSTANTS
    s1 = s1
    s2 = s2
    z = z
    x = x
    c1 = c1
    r1 = r1
    None = None
    Torn = Torn
    NumKeys = 2
    Sp = {s1, s2}
    Status = {z, x}
    ZeroStatus = z
    Client = {}
    Reader = {}
    PowerFails = FALSE
    MaxSeq = 4
    MaxRestart = 2
PROPERTIES DurableSpec
CHECK_DEADLOCK FALSE

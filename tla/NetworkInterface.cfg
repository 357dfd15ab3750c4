SPECIFICATION FairSpec
CONSTANTS
    MaxConf = 2
    MaxChanges = 2
    MaxFaults = 1
INVARIANTS OneModeAtATime RestIsRight
PROPERTIES WifiSettles AddressesSettle
CHECK_DEADLOCK FALSE

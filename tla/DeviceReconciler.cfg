SPECIFICATION FairSpec
CONSTANTS
    Manager <- MCManager
    Controllers <- MCControllers
    Slots = 2
    MaxChanges = 1
    MaxFaults = 1
INVARIANTS ManagersExclude RestIsRight
PROPERTIES Converges DownIsShown JoinTokenAppears
CHECK_DEADLOCK FALSE

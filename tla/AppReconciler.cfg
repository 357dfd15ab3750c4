SPECIFICATION FairSpec
CONSTANTS
    MaxConf = 1
    Incomplete = {0}
    MaxChanges = 2
INVARIANT RestIsRight
PROPERTIES SecretExists Installs DeletionEnds StateIsTrue
CHECK_DEADLOCK FALSE

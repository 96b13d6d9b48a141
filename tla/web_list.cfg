SPECIFICATION FairListSpec
CONSTANTS
    PageSize = 2
    Order = {1, 2}
    Deployment <- MCDeployment
    Used <- MCUsed
    None = None
    MaxCalls = 4
INVARIANTS
    ListTypeOK
    ShownIsOnePage
    MarkIsEarned
    DatasetIsWhole
PROPERTIES
    ListComesBack
CHECK_DEADLOCK FALSE

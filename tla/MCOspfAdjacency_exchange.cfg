CONSTANTS
    Router = {1, 2}
    Key = {1, 2}
    Own <- MCOwn
    Starts <- MCStarts
    PerPage = 1
    InitialSeq = {1}
    MaxOriginate = 1
    MaxFaults = 2
SPECIFICATION Spec
CHECK_DEADLOCK FALSE
INVARIANT FullMeansSynced
INVARIANT RequestsAreNews
PROPERTY EventuallySynced

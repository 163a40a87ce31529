CONSTANTS
    k1 = k1
    Session = {1, 2}
    Key = {k1}
    Val = {1, 2}
    LocalVal = 1
    Internal = {}
    Client = {}
    AddPath = {2}
    MaxPaths = 2
    Rejected <- OneRejects
    Denied <- LocalDenied
    Refused <- SomeRefused
    Static = {k1}
    Retaining = {1}
    Intervals = {}
    MaxTime = 1
SPECIFICATION Spec
CHECK_DEADLOCK FALSE
INVARIANT NoGhostInLocRib
INVARIANT NoLostPrefix
INVARIANT SplitHorizon
INVARIANT PeerPathsRecorded
INVARIANT ExportExact
INVARIANT AdjInFollowsPeer

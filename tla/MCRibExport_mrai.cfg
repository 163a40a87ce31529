CONSTANTS
    k1 = k1
    Session = {1, 2}
    Key = {k1}
    Val = {1}
    LocalVal = 1
    Internal = {1, 2}
    Client = {2}
    AddPath = {2}
    MaxPaths = 2
    Rejected <- NoneRejected
    Denied <- NoneDenied
    Refused <- NoneRefused
    Static = {}
    Retaining = {}
    Intervals = {0, 2}
    MaxTime = 2
SPECIFICATION Spec
CHECK_DEADLOCK FALSE
INVARIANT PendingNotOverdue
PROPERTY MraiSpacing

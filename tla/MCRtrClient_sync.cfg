CONSTANTS
    a = a
    b = b
    Roa = {a, b}
    Databases = {{}, {a}, {b}}
    Versions = {1, 2}
    Refresh = 1
    Expire = 2
    MaxSession = 2
    MaxSerial = 1
    MaxFaults = 2
SPECIFICATION Spec
CHECK_DEADLOCK FALSE
INVARIANT RecordsExact
INVARIANT ExpiredDataGone
PROPERTY EventuallyCurrent
PROPERTY ImplementsReplica

SPECIFICATION Spec
CONSTANTS
    lo = lo
    hi = hi
    Daemon <- MCDaemon
    Higher = hi
    WithBfd <- MCWithBfd
    Streams = 1
    MaxFaults = 1
INVARIANT OneTransport
INVARIANT SameTransport
PROPERTY EstablishedStays
PROPERTY BfdDownEndsSession
PROPERTY SomeSessionComesUp
CHECK_DEADLOCK FALSE

CONSTANTS
    r1 = r1
    r2 = r2
    Peer <- MCPeer
    Scenarios <- MCScenarios
    ConnectRetry = 2
SPECIFICATION Spec
INVARIANT NoUpdateDropped
INVARIANT NoHalfOpenSession
PROPERTY HoldExpiryMeansSilence
PROPERTY DeadPeerDetected
PROPERTY SessionComesUp

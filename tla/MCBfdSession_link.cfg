SPECIFICATION Spec
CONSTANTS
    a = a
    b = b
    End <- MCEnd
    Mult <- MCMult
    Tx <- MCTx
    Rx <- MCRx
    IdleTx = 2
    Changes <- MCChanges
    PassiveEnds <- MCPassiveEnds
    Reuse <- MCReuse
    MaxEvents = 2
INVARIANT UpMeansHeard
INVARIANT NoFalseDown
PROPERTY SessionComesUp
PROPERTY LossDetected
PROPERTY PollEnds

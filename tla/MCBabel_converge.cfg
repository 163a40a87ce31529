SPECIFICATION Spec
CONSTANTS
    Router = {1, 2, 3}
    Link <- MCTriangle
    Origin = {1, 2}
    Boot <- MCBoot
    CheckLink <- MCCheckLink
    SeqnoMod = 8
    MaxMetric = 5
    Hold = 2
    FaultKinds = {"loss", "link", "restart", "static"}
    MaxFaults = 1
PROPERTY RoutesLearned

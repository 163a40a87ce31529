\* OSPFv2: a router restarts, and hears a Database Description before a Hello.
CONSTANTS
    MaxId = 3
    Router = {1, 2, 3}
    Labs <- Restart
SPECIFICATION FairSpec
INVARIANT NeighborQualifies

\* Three routers on a broadcast segment.
CONSTANTS
    MaxId = 3
    Router = {1, 2, 3}
    Labs <- AllLabs
SPECIFICATION FairSpec
INVARIANT TypeOK
INVARIANT NeverBoth
INVARIANT AdjacencyFollowsElection
PROPERTY Agree

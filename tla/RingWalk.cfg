CONSTANTS
    Node = {1, 2, 3, 4}
    Self = 1
    Replicas = 3
    Arrangements <- FourNodes
    ListHashes = {1}
    MaxGossips = 2
SPECIFICATION FairSpec
INVARIANT TypeOK
PROPERTY WalkEnds
CHECK_DEADLOCK FALSE

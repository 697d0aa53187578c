CONSTANTS
    Node = {1, 2, 3, 4}
    Self = 1
    Replicas = 3
    Arrangements <- FourNodes
    ListHashes <- Hashes
SPECIFICATION Spec
INVARIANTS TypeOK PreferenceListIsNearest
PROPERTY PreferenceListIsStable

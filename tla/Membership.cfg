CONSTANTS
    N = 3
    Settings <- MCSettings
SPECIFICATION FairSpec
INVARIANTS TypeOK RingIsAddressable SeedKnowsAll
PROPERTY FormsCluster
CHECK_DEADLOCK FALSE

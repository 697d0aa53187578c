CONSTANTS
    Task = {t1, t2}
    Nobody = Nobody
    Kinds <- AllKinds
SPECIFICATION FairSpec
INVARIANTS TypeOK CirclesAreGuardedSends
PROPERTY TasksEnd
CHECK_DEADLOCK FALSE

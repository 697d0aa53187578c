CONSTANTS
    Task = {t1, t2}
    Nobody = Nobody
    Kinds <- Detecting
SPECIFICATION Spec
INVARIANT NoCircularWait
CHECK_DEADLOCK FALSE

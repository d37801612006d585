SPECIFICATION FairSpec
CONSTANTS
    Daemons = {d1, d2}
    Threads = {t1, t2}
    Main = t1
    Nobody = Nobody
    Floor = 1
    ReadErrors = TRUE
    EffectBound = 2
INVARIANTS
    TypeOK
    GenerationsDiffer
PROPERTIES
    FenceHolds
    HandoverCompletes
CHECK_DEADLOCK FALSE

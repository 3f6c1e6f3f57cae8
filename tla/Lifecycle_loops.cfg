SPECIFICATION FairSpec
CONSTANTS
    Loops = {t1, t2, t3}
    NoLoop = NoLoop
    Callers = {c1, c2}
INVARIANTS
    OneLoop
    StoppedLoopIsFenced
PROPERTIES
    StoppedLoopEnds

SPECIFICATION Spec
CONSTANTS
    e1 = e1
    e2 = e2
    parent = parent
    kid1 = kid1
    Events = {e1}
    Sessions = {parent, kid1}
    NoSession = NoSession
    ParentOf <- OneParentOf
    ChildOf <- OneChildOf
    Tokens = {t1, t2, t3, t4, t5}
    NoToken = NoToken
    MaxAttempts = 2
    MaxGeneration = 1
    Drainers = {d1, d2}
    NoDrainer = NoDrainer
    NoEvent = NoEvent
    StoreFaults = FALSE
    Jobs = {}
    Waiting = {e1}
    OneShot = {}
    MaxReviews = 1
    MaxDeletes = 0
    MaxUserTurns = 0
    MaxLosses = 1
    MaxStops = 0
    MaxShutdowns = 1
INVARIANTS
    TypeOK
    NoUnreviewedDuplicate
    EvidenceIsCurrent
PROPERTIES
    ResendOnlyWhenGone
    KeepsPromise
SYMMETRY DrainSymmetry

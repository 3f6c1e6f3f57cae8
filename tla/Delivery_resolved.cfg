SPECIFICATION Spec
CONSTANTS
    e1 = e1
    e2 = e2
    parent = parent
    kid1 = kid1
    Events = {e1}
    Sessions = {parent, kid1}
    NoSession = NoSession
    ParentOf <- OneParentOf
    ChildOf <- OneChildOf
    Tokens = {t1, t2, t3, t4, t5}
    NoToken = NoToken
    MaxAttempts = 1
    MaxGeneration = 1
    Drainers = {d1}
    NoDrainer = NoDrainer
    NoEvent = NoEvent
    StoreFaults = FALSE
    Jobs = {}
    Waiting = {}
    OneShot = {}
    MaxReviews = 0
    MaxDeletes = 0
    MaxUserTurns = 0
    MaxLosses = 0
    MaxStops = 0
    MaxShutdowns = 0
PROPERTIES
    ResolvedStaysResolved

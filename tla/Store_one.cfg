SPECIFICATION CallsSpec
CONSTANTS
    e1 = e1
    parent = parent
    kid = kid
    Events = {e1}
    Sessions = {parent, kid}
    NoSession = NoSession
    ParentOf <- OneParentOf
    ChildOf <- OneChildOf
    Tokens = {t1, t2}
    NoToken = NoToken
    MaxAttempts = 1
    MaxGeneration = 3
INVARIANTS
    CallsTypeOK
    ReceiptIsTrusted
    DeletedIsGone
PROPERTIES
    VerdictIsFinal
    RemovalLeavesTombstone
    AllowanceIsSpentOnce
    TablesKeepPromise

SPECIFICATION Spec
CONSTANTS
    Servers = {a, b}
    Launcher = a
    Conns = {c1, c2, c3}
    NoConn = NoConn
    MaxLines = 2
    MaxBreaks = 2
SYMMETRY ConnSymmetry
INVARIANTS
    TypeOK
    LinesInOrder
    DoneUnlessGivenUp
    NumbersAgree
CHECK_DEADLOCK FALSE

SPECIFICATION Spec
CONSTANTS
    Servers = {a}
    Launcher = a
    Conns = {c1, c2, c3}
    NoConn = NoConn
    MaxLines = 2
    MaxBreaks = 2
SYMMETRY ConnSymmetry
INVARIANTS
    DoneIsWritten
CHECK_DEADLOCK FALSE

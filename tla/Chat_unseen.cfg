SPECIFICATION Spec
CONSTANTS
    MaxEvents = 2
    MaxRetries = 1
    ToolLines = {3}
    Repeats = {}
    Terminals = FALSE
    Unseeded = FALSE
INVARIANT ShownWhenStreamed

\* The same processes, asked what the comment in observe says of the fleet.
CONSTANTS
    i1 = i1
    i2 = i2
    c1 = c1
    c2 = c2
    Instance = {i1, i2}
    Caller = {c1, c2}
    On <- MCOn
    Threshold = 2
    Window = 2
    Cooldown = 1
    Shared = TRUE

SPECIFICATION Spec
PROPERTIES OnlyHealthMovesWindow


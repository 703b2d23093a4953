SPECIFICATION Spec
CONSTANTS
    Caller = {c1, c2}
    Unset = Unset
    Configs <- MCConfigs
    Estimate = {1, 3}
    Minute = 2
    Penalty = 1
    Forms = {"local", "quota", "redis"}
    MaxDelay = 1
    MaxTime = 3
SYMMETRY Callers
CHECK_DEADLOCK FALSE
INVARIANTS LocalRateHeld
PROPERTIES DenialJustified

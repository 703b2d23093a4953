CONSTANTS
    j1 = j1
    j2 = j2
    NoJob = NoJob
    Job = {j1}
    Token = {t1, t2}
    NoToken = NoToken
    BaseCharge = 2
    Headroom = 1
    CancelLen = 1
    MaxJobs = 1
    MaxBaseBytes = 2
    MaxTerminalBytes = 1
    MaxWaiting = 1
    MaxDlq = 1
    MaxDlqBytes = 2
    Score <- MCScore
    TimelyReaper = TRUE
    MaxAttempts = 1
    Permits = 2
    PumpCapacity = 1
    MaxFaults = 1

SPECIFICATION GatewaySpec
INVARIANTS ResultIsVerdict GuardCovers StreamWhole NothingMissed DispatchesBounded
CHECK_DEADLOCK FALSE
SYMMETRY TokenSymmetry

CONSTANTS
    j1 = j1
    j2 = j2
    Job = {j1, j2}
    Token = {t1, t2}
    NoToken = NoToken
    BaseCharge = 2
    Headroom = 2
    CancelLen = 1
    MaxJobs = 2
    MaxBaseBytes = 4
    MaxTerminalBytes = 3
    MaxWaiting = 1
    MaxDlq = 1
    MaxDlqBytes = 2
    Score <- MCScore
    TimelyReaper = FALSE

SPECIFICATION Spec
INVARIANTS IndexAgreement BytesConserved
PROPERTIES StaleSilent OneVerdict
CHECK_DEADLOCK FALSE

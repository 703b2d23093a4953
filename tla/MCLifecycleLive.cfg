CONSTANTS
    j1 = j1
    j2 = j2
    Job = {j1}
    Token = {t1, t2}
    NoToken = NoToken
    BaseCharge = 2
    Headroom = 2
    CancelLen = 1
    MaxJobs = 1
    MaxBaseBytes = 2
    MaxTerminalBytes = 2
    MaxWaiting = 1
    MaxDlq = 1
    MaxDlqBytes = 2
    Score <- MCScore
    TimelyReaper = TRUE
SPECIFICATION FairSpec
PROPERTIES ReservationsReleased
CHECK_DEADLOCK FALSE

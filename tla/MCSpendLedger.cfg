\* Two attempts in one window, priced and unpriced, with every order of
\* snapshots and settlements, up to the exact range; and three attempts over
\* three windows: the retained-attempt limit, purges cut by the batch, and
\* reports that come after the purge.
SPECIFICATION Spec
CONSTANTS
    Attempt = {a1, a2, a3}
    Quote <- MCQuote
    Amount = {0, 1, 3}
    Limit = 3
    MaxExact = 4
    WindowSecs = 2
    Retention = 1
    MaxRetained = 2
    Batch = 1
    Permits = 2
    MaxNow = 4
SYMMETRY Symmetry
CONSTRAINT Explored
CHECK_DEADLOCK FALSE
INVARIANTS LedgerBalances CapHolds SettledByBill WindowsReferenced
PROPERTIES ReservationKept

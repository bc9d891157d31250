CONSTANTS
    r1 = r1
    r2 = r2
    n1 = n1
    n2 = n2
    c1 = c1
    Callers = {c1}
    CallerOf <- MCCallerOf
    Burst = 1
    PerToken = 2
    IdleDrop = 2
    MaxClock = 3
    Lag = 1
    MaxRestarts = 1
    Requests = {r1, r2}
    Notes = {n1, n2}
    NoteOf <- MCNoteOf
    Signed = {n1, n2}
    Denom <- MCDenom
    MaxAnnounced = 1
    QueueSize = 1
    NoJob = NoJob
SPECIFICATION FairSpec
INVARIANTS NonceNeverShared OkMeansPaid ConflictMeansPaid RateBounded
PROPERTIES WorkerComesBack
CHECK_DEADLOCK FALSE

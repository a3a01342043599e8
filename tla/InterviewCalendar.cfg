CONSTANTS
    Workers = {w1, w2}
    Interviews = {i1, i2}
    Events = {e1, e2}
    MaxRound = 1
    MaxTime = 1
    MaxSequence = 2
    MaxFailed = 1
    MailConfigured = TRUE
    None = None
SPECIFICATION FairSpec
INVARIANTS EventIdIsGood
PROPERTIES CancelledStaysCancelled EveryBookingIsMailed
\* With the bounds used up nothing more is asked of the system, and it rests.
CHECK_DEADLOCK FALSE

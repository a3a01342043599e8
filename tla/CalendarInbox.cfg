\* One handler at a time: a booking by POST /api/schedule, then cancelled.
CONSTANTS
    Workers = {w1}
    Interviews = {i1, i2}
    Events = {e1, e2}
    MaxRound = 1
    MaxTime = 2
    MaxSequence = 3
    MaxFailed = 1
    MailConfigured = TRUE
    None = None
SPECIFICATION Spec
INVARIANT InboxesShowTheRow
\* With the bounds used up nothing more is asked of the system, and it rests.
CHECK_DEADLOCK FALSE

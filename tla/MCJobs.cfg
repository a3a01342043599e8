CONSTANTS
    None = None
    Processes = {p1, p2}
    Rows = {r1}
    MaxCrashes = 2
    MaxDrops = 1
    MaxRequeues = 1
    Apps = {a1, a2}
    Flaky = {"nexai_invite", "proctoring_session"}
    MaxFaults = 1
    MaxRestarts = 2
    Parts = {"jobs"}
SPECIFICATION FairServerSpec
INVARIANT OneRunner
INVARIANT MailedOnce
PROPERTY SomebodyRuns
PROPERTY RowsSettle
\* The work is done.
CHECK_DEADLOCK FALSE

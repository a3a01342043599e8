CONSTANTS
    None = None
    Processes = {p1, p2}
    Rows = {r1}
    MaxCrashes = 2
    MaxDrops = 1
    MaxRequeues = 1
    Apps = {a1, a2}
    Flaky = {"nexai_invite", "proctoring_session"}
    MaxFaults = 1
    MaxRestarts = 2
    Parts = {"schema", "stages"}
SPECIFICATION ServerSpec
INVARIANT ServesComplete
INVARIANT OnlyTheOldBotLeft
PROPERTY CurrentStagesStand
SYMMETRY Symmetry
CONSTRAINT Apart
\* A process that serves need not be restarted again.
CHECK_DEADLOCK FALSE

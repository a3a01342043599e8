CONSTANTS
    Handlers = {h1, h2}
    MaxInvites = 2
    MaxAnswers = 2
    Modes = {"scripted", "conversational"}
    Workers = {w1, w2}
    Tabs = {t1, t2}
    MaxSessions = 1
    MaxFlags = 2
    Kinds = {"monitoring_gap", "termination_discrepancy", "secret_misuse"}
    Types = {"multi_face", "phone_detected"}
    Devices = {"laptop", "phone"}
    MaxTicks = 5
SPECIFICATION Spec
INVARIANTS AnswersSurvive TrackerPendingIsOpen TabsHoldTheSecret
INVARIANTS AlertsHaveASender ReplayAgrees
PROPERTY CompletedStands
CONSTRAINT InBounds
SYMMETRY Symmetry
\* The interview is over after MaxTicks.
CHECK_DEADLOCK FALSE

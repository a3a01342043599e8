SPECIFICATION Spec
CONSTANTS
    None = None
    New = New
    Editors = {e1, e2}
    Rounds = {r1, r2, r3}
    Numbers <- SomeNumbers
    MaxRounds = 2
    MaxEdits = 2
    Reqs = {q1}
    PlanRows = {l1}
    Apps = {a1, a2}
    ReqOf <- Competing
    Syncs = {s1, s2}
    Creators = {c1, c2}
    Old = {2}
    MaxCode = 7
SYMMETRY Symmetry
CONSTRAINT OneClash
INVARIANTS  GivesUpLate
PROPERTY HandWrittenStands
\* The rounds may be left with every editor answered and every edit used up, and the codes end
\* at MaxCode.
CHECK_DEADLOCK FALSE

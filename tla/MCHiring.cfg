SPECIFICATION HiringSpec
CONSTANTS
    None = None
    Parts = {"pipeline", "feedback"}
    Workers = {w1}
    Offers = {o1}
    MaxSteps = 2
    Terms = {low, high}
    MaxBatch = 3
    Handlers = {h1, h2}
    Configs <- Rounds
    Panelists = {p1, p2}
    Tabs = {t1, t2}
    Verdicts = {"yes", "no"}
    MaxDeaths = 1
SYMMETRY Symmetry
INVARIANTS NoLevelSkipped ManagerIsTold

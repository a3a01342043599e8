SPECIFICATION HiringSpec
CONSTANTS
    None = None
    Parts = {"offers"}
    Workers = {w1, w2}
    Offers = {o1}
    MaxSteps = 2
    Terms = {low, high}
    MaxBatch = 2
    Handlers = {h1, h2}
    Configs <- Rounds
    Panelists = {p1, p2}
    Tabs = {t1, t2}
    Verdicts = {"yes", "no"}
    MaxDeaths = 1
CONSTRAINT InBounds
SYMMETRY Symmetry
INVARIANTS ApprovedInOrder ApprovedTermsStand HandedOverOnce
PROPERTIES FollowsTheChain

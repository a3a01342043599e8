CONSTANTS
    Workers = {w1, w2}
    Requests = {r1, r2}
    Interviews = {i1, i2}
    Managers = {h1}
    MaxRound = 1
    MinSlots = 2
    MaxSlots = 2
    Horizon = 2
    MaxTime = 2
    MaxBatch = 2
    None = None
SYMMETRY Symmetry
SPECIFICATION Spec
INVARIANTS TypeOK OneBookingPerRequest SlotsFollowRequest CandidateSeesOneProposal
PROPERTIES SettledStaysSettled
\* With the bounds used up nothing more is asked of the system, and it rests.
CHECK_DEADLOCK FALSE

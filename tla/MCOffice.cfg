CONSTANTS
    Workers = {w1, w2}
    Parts = {"documents", "preboarding", "onboarding", "vendors", "identity"}
    DocTypes = {identity_proof, payslip}
    MaxRequests = 2
    MaxReviews = 1
    Policies = {"hr_policy", "it_security"}
    MaxAssets = 1
    Tasks = {"welcome_letter", "induction"}
    MaxCode = 2
    Checks = {"employment", "education"}
    MaxSyncs = 2
    MaxReports = 2
    Sessions = {s1, s2}
    MaxVersion = 2
    MaxFailures = 1
SPECIFICATION OfficeSpec
INVARIANTS CompleteIsEarned RevokedStaysOut
PROPERTY VerdictStands
SYMMETRY Symmetry
\* The joiner has joined and the bounds on requests, pushes and tokens are used up.
CHECK_DEADLOCK FALSE

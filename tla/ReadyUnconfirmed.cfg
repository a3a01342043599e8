CONSTANTS
    Workers = {w1, w2}
    Parts = {"preboarding"}
    DocTypes = {identity_proof, payslip}
    MaxRequests = 2
    MaxReviews = 1
    Policies = {"hr_policy", "it_security"}
    MaxAssets = 1
    Tasks = {"welcome_letter", "induction"}
    MaxCode = 2
    Checks = {"employment", "education"}
    MaxSyncs = 2
    MaxReports = 2
    Sessions = {s1, s2}
    MaxVersion = 2
    MaxFailures = 1
SPECIFICATION OfficeSpec
INVARIANT ReadyMeansConfirmed
\* Nothing is left to do once every bound is used up.
CHECK_DEADLOCK FALSE

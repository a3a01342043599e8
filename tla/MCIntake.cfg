SPECIFICATION IntakeSpec
CONSTANTS
    None = None
    Mails = {m1}
    Files = {f1, f2}
    EmailJobs = {j1}
    FolderJobs = {j2}
    Lookback = 2
    Buffer = 1
    MaxDay = 3
    Workers = {w1, w2}
    Contents = {a, b}
    Attachments <- MailAttachments
    MaxIds = 2
    Requests = {r1, r2}
    Emails = {e1, e2}
    Phones = {p1}
    DriveEmails <- OneEmail
    Rows = {x1, x2}
    EmailOf <- SameEmail
    Senders <- OneSender
    MaxApps = 2
SYMMETRY Symmetry
INVARIANTS WindowCovers StopsSoon ReadMeansIngested RowHasFile BlockHolds WaitsForALink
PROPERTY StatusStands

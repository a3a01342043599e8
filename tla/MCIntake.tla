------------------------------- MODULE MCIntake -------------------------------
(***************************************************************************)
(* One run for how candidates come in: the CV repository, by               *)
(* CvRepository's own names, the scans of a mailbox (MailboxScan), the     *)
(* doors to a requisition (CandidateIntake) and a campus drive             *)
(* (CampusDrive).  A behaviour moves one of them, fixed at the start.      *)
(***************************************************************************)
EXTENDS CvRepository, Integers, TLC

CONSTANTS
    Files, EmailJobs, FolderJobs, Lookback, Buffer, MaxDay,
    Requests, Emails, Phones,
    DriveEmails, Rows, EmailOf, Senders, MaxApps

VARIABLES
    part,
    day, arrived, checkpoint, paused, flagging, job, scan, walked, first, after,
    listed, cand, app, req, throughout,
    row, drive, made, session, token, invite, sending

\* The one mail with both contents; every row of the drive names the same candidate.
MailAttachments == [m \in Mails |-> CHOOSE s \in [1..2 -> Contents] : s[1] # s[2]]
OneEmail == {CHOOSE e \in Emails : TRUE}
SameEmail == [r \in Rows |-> CHOOSE e \in Emails : TRUE]
\* One worker sends the drive's mails.
OneSender == {CHOOSE w \in Workers : TRUE}

M == INSTANCE MailboxScan
I == INSTANCE CandidateIntake
D == INSTANCE CampusDrive WITH Emails <- DriveEmails, Workers <- Senders, app <- drive

\* What the modules assume of their constants.
ASSUME IntakeConstants ==
    /\ M!ScanAssumption
    /\ I!IntakeAssumption
    /\ D!CampusAssumption

mVars == <<day, arrived, checkpoint, paused, flagging, job, scan, walked, first, after>>
iVars == <<listed, cand, app, req, throughout>>
dVars == <<row, drive, made, session, token, invite, sending>>
allVars == <<part, vars, mVars, iVars, dVars>>

\* The list's first state is no matter but to I.
IntakeInit ==
    /\ part \in {"window", "stop", "repository", "doors", "drive"}
    /\ M!Init /\ Init /\ I!Init /\ D!Init
    /\ part # "doors" => listed = None

\* The folder has no window; stopping is a matter of hours, and of any two scanners.
IntakeNext ==
    \/ /\ part = "window" /\ M!Next /\ \A j \in FolderJobs : scan'[j] = scan[j]
       /\ UNCHANGED <<part, vars, iVars, dVars>>
    \/ /\ part = "stop" /\ M!Next /\ day' = day /\ \A j \in EmailJobs : scan'[j] = scan[j]
       /\ UNCHANGED <<part, vars, iVars, dVars>>
    \/ part = "repository" /\ Next /\ UNCHANGED <<part, mVars, iVars, dVars>>
    \/ part = "doors" /\ I!Next /\ UNCHANGED <<part, mVars, vars, dVars>>
    \/ part = "drive" /\ D!Next /\ UNCHANGED <<part, mVars, vars, iVars>>

IntakeSpec == IntakeInit /\ [][IntakeNext]_allVars

\* Requests are interchangeable, and so are the rows of the drive.
Symmetry == Permutations(Requests) \cup Permutations(Rows)

-----------------------------------------------------------------------------
\* No mail is left out between the first window and the next (MailboxScan).
WindowCovers == M!WindowCovers
\* Told to stop, a scanner finishes the item it is at (MailboxScan).
StopsSoon == M!StopsSoon
\* No request that names the employer puts anybody of a listed company into the pipeline
\* (CandidateIntake).
BlockHolds == I!BlockHolds
\* No intake moves an application that is there (CandidateIntake).
StatusStands == I!StatusStands
\* Whoever is mailed in a campus drive has an interview to open (CampusDrive).
WaitsForALink == D!WaitsForALink
=============================================================================

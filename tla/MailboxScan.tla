------------------------------ MODULE MailboxScan ------------------------------
(***************************************************************************)
(* Scanning one recruiter's mailbox for CVs, and the ingest folder.  The   *)
(* poller (recruiter_email_worker) and the jobs of "Scan My Email" walk    *)
(* the mails that arrived since the mailbox's checkpoint less a buffer of  *)
(* days (scan_gmail_inbox), and move the checkpoint to now at the end of a *)
(* scan nobody stopped.  A job of "Scan Ingest Folder" walks the files of  *)
(* a folder.  Master stop and the jobs' own Stop are read between two      *)
(* items.  What becomes of an attachment is CvRepository's.                *)
(*                                                                         *)
(* A step is a statement or the walk over one item.  Time is in days: the  *)
(* search's `after:` has no finer grain.  Walking includes failing: an     *)
(* attachment's error is counted, and nothing is walked again for it.      *)
(***************************************************************************)
EXTENDS Integers, FiniteSets

CONSTANTS
    None,
    Mails, Files,     \* mails with an attachment; files of the ingest folder
    EmailJobs, FolderJobs,
    Lookback, Buffer, \* days: _DEFAULT_LOOKBACK_DAYS, _CHECKPOINT_BUFFER_DAYS
    MaxDay            \* bound: days

ScanAssumption ==
    /\ Lookback \in Nat /\ Buffer \in Nat /\ MaxDay \in Nat
    /\ Lookback >= 2 * Buffer
    /\ None \notin Int

VARIABLES
    day,
    arrived,     \* per mail: the day it arrived, None before
    checkpoint,  \* app_user.gmail_last_scan_at, None before the first scan
    paused,      \* system_status cv_scan_paused
    flagging,    \* master_stop has paused and not yet flagged the running jobs
    job,         \* cv_ingest_jobs: status and cancel_requested, per job
    scan,        \* what each scanner is doing
    walked,      \* ghost: items some scan has walked
    first,       \* ghost: first day of the window of the scan that set the first checkpoint
    after        \* ghost: items walked by a scanner since it was told to stop

vars == <<day, arrived, checkpoint, paused, flagging, job, scan, walked, first, after>>

-----------------------------------------------------------------------------
Jobs == EmailJobs \cup FolderJobs
Scanners == {"poller"} \cup Jobs

Idle == [pc |-> "idle", since |-> None, left |-> {}, item |-> None, began |-> None,
         from |-> None, cancelled |-> FALSE]

Init ==
    /\ day = 0 /\ arrived = [m \in Mails |-> None]
    /\ checkpoint = None
    /\ paused = FALSE /\ flagging = FALSE
    /\ job = [j \in Jobs |-> [status |-> "done", cancel |-> FALSE]]
    /\ scan = [s \in Scanners |-> Idle]
    /\ walked = {} /\ first = None
    /\ after = [s \in Scanners |-> 0]

\* What a scanner asks between two items: the poller the master stop, a job its flag too.
ShouldStop(s) == paused \/ (s \in Jobs /\ job[s].cancel)

Arrive(m) ==
    /\ arrived[m] = None
    /\ arrived' = [arrived EXCEPT ![m] = day]
    /\ UNCHANGED <<day, checkpoint, paused, flagging, job, scan, walked, first, after>>

\* A scan is taken to end within Buffer days of reading the checkpoint.
Tick ==
    /\ day < MaxDay
    /\ \A s \in Scanners : scan[s].began # None => day - scan[s].began < Buffer
    /\ day' = day + 1
    /\ UNCHANGED <<arrived, checkpoint, paused, flagging, job, scan, walked, first, after>>

-----------------------------------------------------------------------------
(* The beginning of a scan. *)

\* run_one_pass reads every recruiter's row first.
BeginPoll ==
    /\ scan["poller"].pc = "idle" /\ ~paused
    /\ scan' = [scan EXCEPT !["poller"] = [Idle EXCEPT !.pc = "begun", !.since = checkpoint,
                                                  !.began = day]]
    /\ UNCHANGED <<day, arrived, checkpoint, paused, flagging, job, walked, first, after>>

\* And asks before each mailbox whether to go on.
OpenPoll ==
    /\ scan["poller"].pc = "begun"
    /\ scan' = IF paused THEN [scan EXCEPT !["poller"] = Idle]
               ELSE [scan EXCEPT !["poller"].pc = "search"]
    /\ UNCHANGED <<day, arrived, checkpoint, paused, flagging, job, walked, first, after>>

\* scan_email and scan_folder: is_scan_paused has been read ...
BeginJob(j) ==
    /\ scan[j].pc = "idle" /\ job[j].status # "running" /\ ~paused
    /\ scan' = [scan EXCEPT ![j] =
                   IF j \in EmailJobs
                   THEN [Idle EXCEPT !.pc = "begun", !.since = checkpoint, !.began = day]
                   ELSE [Idle EXCEPT !.pc = "begun"]]
    /\ UNCHANGED <<day, arrived, checkpoint, paused, flagging, job, walked, first, after>>

\* ... and the job's row is inserted, and the background task started.
InsertJob(j) ==
    /\ j \in Jobs /\ scan[j].pc = "begun"
    /\ job' = [job EXCEPT ![j] = [status |-> "running", cancel |-> FALSE]]
    /\ scan' = [scan EXCEPT ![j].pc = "search"]
    /\ after' = [after EXCEPT ![j] = 0]
    /\ UNCHANGED <<day, arrived, checkpoint, paused, flagging, walked, first>>

\* The window's first day.
Cutoff(since) == IF since = None THEN day - Lookback ELSE since - Buffer

\* The mails the search finds, by date alone: read or unread.
Found(cutoff) == {m \in Mails : arrived[m] # None /\ arrived[m] >= cutoff}

Search(s) ==
    /\ s \notin FolderJobs /\ scan[s].pc = "search"
    /\ LET cutoff == Cutoff(scan[s].since)
       IN  scan' = [scan EXCEPT ![s] = [@ EXCEPT !.pc = "ask", !.left = Found(cutoff),
                                                 !.from = IF first = None THEN cutoff ELSE None,
                                                 !.since = None]]
    /\ UNCHANGED <<day, arrived, checkpoint, paused, flagging, job, walked, first, after>>

\* The login fails: the poller goes on to the next mailbox, a job is done.
LoginFails(s) ==
    /\ s \notin FolderJobs /\ scan[s].pc = "search"
    /\ scan' = [scan EXCEPT ![s] = Idle]
    /\ job' = IF s \in Jobs THEN [job EXCEPT ![s].status = "done"] ELSE job
    /\ UNCHANGED <<day, arrived, checkpoint, paused, flagging, walked, first, after>>

ListFolder(j) ==
    /\ j \in FolderJobs /\ scan[j].pc = "search"
    /\ scan' = [scan EXCEPT ![j].pc = "ask", ![j].left = Files]
    /\ UNCHANGED <<day, arrived, checkpoint, paused, flagging, job, walked, first, after>>

-----------------------------------------------------------------------------
(* The loop. *)

\* Mutant for StopsSoon: a job reads its own flag alone.
AskOwnFlag(s) ==
    /\ scan[s].pc = "ask" /\ scan[s].left # {}
    /\ IF s \in Jobs /\ job[s].cancel
       THEN scan' = [scan EXCEPT ![s].pc = "end", ![s].cancelled = TRUE]
       ELSE \E i \in scan[s].left :
                scan' = [scan EXCEPT ![s].pc = "walk", ![s].item = i, ![s].left = @ \ {i}]
    /\ UNCHANGED <<day, arrived, checkpoint, paused, flagging, job, walked, first, after>>

Ask(s) ==
    /\ scan[s].pc = "ask" /\ scan[s].left # {}
    /\ IF ShouldStop(s)
       THEN scan' = [scan EXCEPT ![s].pc = "end", ![s].cancelled = TRUE]
       ELSE \E i \in scan[s].left :
                scan' = [scan EXCEPT ![s].pc = "walk", ![s].item = i, ![s].left = @ \ {i}]
    /\ UNCHANGED <<day, arrived, checkpoint, paused, flagging, job, walked, first, after>>

Walk(s) ==
    /\ scan[s].pc = "walk"
    /\ walked' = walked \cup {scan[s].item}
    /\ after' = IF ShouldStop(s) THEN [after EXCEPT ![s] = @ + 1] ELSE after
    /\ scan' = [scan EXCEPT ![s].pc = "ask", ![s].item = None]
    /\ UNCHANGED <<day, arrived, checkpoint, paused, flagging, job, first>>

\* The connection to the mailbox breaks in the middle of the scan.
Breaks(s) ==
    /\ s \notin FolderJobs /\ scan[s].pc = "walk"
    /\ scan' = [scan EXCEPT ![s] = Idle]
    /\ job' = IF s \in Jobs THEN [job EXCEPT ![s].status = "done"] ELSE job
    /\ UNCHANGED <<day, arrived, checkpoint, paused, flagging, walked, first, after>>

Exhausted(s) ==
    /\ scan[s].pc = "ask" /\ scan[s].left = {}
    /\ scan' = [scan EXCEPT ![s].pc = "end"]
    /\ UNCHANGED <<day, arrived, checkpoint, paused, flagging, job, walked, first, after>>

-----------------------------------------------------------------------------
(* The end. *)

\* Mutant for WindowCovers: the end of a stopped scan moves the checkpoint too.
MoveAnyway(s) ==
    /\ scan[s].pc = "end"
    /\ IF s \in FolderJobs THEN UNCHANGED <<checkpoint, first>>
       ELSE /\ checkpoint' = day
            /\ first' = IF first = None THEN scan[s].from ELSE first
    /\ scan' = [scan EXCEPT ![s].pc = "report"]
    /\ UNCHANGED <<day, arrived, paused, flagging, job, walked, after>>

\* Only a scan that was not stopped moves the checkpoint, to the time it ends.
MoveCheckpoint(s) ==
    /\ scan[s].pc = "end"
    /\ IF s \in FolderJobs \/ scan[s].cancelled THEN UNCHANGED <<checkpoint, first>>
       ELSE /\ checkpoint' = day
            /\ first' = IF first = None THEN scan[s].from ELSE first
    /\ scan' = [scan EXCEPT ![s].pc = "report"]
    /\ UNCHANGED <<day, arrived, paused, flagging, job, walked, after>>

Report(s) ==
    /\ scan[s].pc = "report"
    /\ job' = IF s \in Jobs
              THEN [job EXCEPT ![s].status = IF scan[s].cancelled THEN "cancelled" ELSE "done"]
              ELSE job
    /\ scan' = [scan EXCEPT ![s] = Idle]
    /\ UNCHANGED <<day, arrived, checkpoint, paused, flagging, walked, first, after>>

\* The process dies: a job's row stays 'running'.
Die(s) ==
    /\ scan[s].pc # "idle"
    /\ scan' = [scan EXCEPT ![s] = Idle]
    /\ UNCHANGED <<day, arrived, checkpoint, paused, flagging, job, walked, first, after>>

-----------------------------------------------------------------------------
(* Stopping. *)

CancelJob(j) ==
    /\ job[j].status = "running" /\ ~job[j].cancel
    /\ job' = [job EXCEPT ![j].cancel = TRUE]
    /\ UNCHANGED <<day, arrived, checkpoint, paused, flagging, scan, walked, first, after>>

\* Two statements: the switch, and the flags of the running jobs.
MasterStop ==
    /\ ~paused /\ paused' = TRUE /\ flagging' = TRUE
    /\ UNCHANGED <<day, arrived, checkpoint, job, scan, walked, first, after>>

FlagJobs ==
    /\ flagging /\ flagging' = FALSE
    /\ job' = [j \in Jobs |-> IF job[j].status = "running" THEN [job[j] EXCEPT !.cancel = TRUE]
                              ELSE job[j]]
    /\ UNCHANGED <<day, arrived, checkpoint, paused, scan, walked, first, after>>

\* What has no flag of its own is told to stop no longer.
MasterResume ==
    /\ paused /\ paused' = FALSE
    /\ after' = [s \in Scanners |-> IF s \in Jobs /\ job[s].cancel THEN after[s] ELSE 0]
    /\ UNCHANGED <<day, arrived, checkpoint, flagging, job, scan, walked, first>>

Next ==
    \/ Tick \/ BeginPoll \/ OpenPoll \/ MasterStop \/ FlagJobs \/ MasterResume
    \/ \E m \in Mails : Arrive(m)
    \/ \E j \in Jobs : BeginJob(j) \/ InsertJob(j) \/ ListFolder(j) \/ CancelJob(j)
    \/ \E s \in Scanners :
        \/ Search(s) \/ LoginFails(s) \/ Ask(s) \/ Walk(s) \/ Breaks(s) \/ Exhausted(s)
        \/ MoveCheckpoint(s) \/ Report(s) \/ Die(s)

Spec == Init /\ [][Next]_vars

-----------------------------------------------------------------------------
\* "A stopped scan may not have walked the whole window, so the next run should still cover it"
\* (_run_imap_ingest).  Between the first window's first day and the first day the next scan is
\* going to look at, no mail has been left out, whatever was stopped, broke or overlapped.
WindowCovers ==
    checkpoint # None =>
        \A m \in Mails :
            arrived[m] # None /\ arrived[m] >= first /\ arrived[m] < checkpoint - Buffer
                => m \in walked

\* "It stops within one file/message" (cancel_job); master stop "stops every scan path at once"
\* (is_scan_paused): told to stop, a scanner finishes at most the item it is at.
StopsSoon == \A s \in Scanners : ShouldStop(s) => after[s] <= 1
=============================================================================

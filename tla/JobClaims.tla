------------------------------- MODULE JobClaims -------------------------------
(***************************************************************************)
(* The background jobs (main.py's lock and watchdog, services/*_worker.py, *)
(* services/cv_enricher.py, services/prerender.py).  Every web process     *)
(* tries for one advisory lock; the one that gets it runs the job loops.   *)
(* A loop's pass claims the rows that are due in one UPDATE, with a time   *)
(* at which the claim runs out, then works on them one by one and records  *)
(* each outcome.  Processes die anywhere, and PostgreSQL drops the         *)
(* connection that holds the lock without its process taking notice.       *)
(*                                                                         *)
(* A behaviour is about the rows of one job, `kind`.  Time is abstracted   *)
(* to due: a row's next attempt, or the end of a claim on it, has come.    *)
(***************************************************************************)
EXTENDS Naturals, FiniteSets

CONSTANTS
    Processes,    \* web processes
    Rows,         \* rows the job works on; the batch limit is not below their number
    None,         \* no process, no row
    MaxCrashes,   \* bound: processes that die, and passes that are cut short
    MaxDrops,     \* bound: lock connections that are dropped
    MaxRequeues   \* bound: times a recruiter queues an invite again

JobAssumption ==
    /\ None \notin Processes \cup Rows
    /\ MaxCrashes \in Nat /\ MaxDrops \in Nat /\ MaxRequeues \in Nat

VARIABLES
    kind,     \* the job
    holder,   \* the process whose connection holds the advisory lock
    proc,     \* per process: down, waiting for the lock, or running the loops
    row,
    pass,     \* per process: the rows of its pass, and the one it works on
    hand,     \* per process: a row a handler works on outside any pass
    crashes, drops, requeues,
    excused   \* ghost: rows of which a person may get a second mail, as MailedOnce says

vars == <<kind, holder, proc, row, pass, hand, crashes, drops, requeues, excused>>

-----------------------------------------------------------------------------
Mail == {"campus", "linkedin", "feedback"}
Kinds == Mail \cup {"cv", "render"}
MaxAttempts == 3

NoPass == [rows |-> {}, cur |-> None, mailed |-> FALSE, seen |-> [r \in Rows |-> 0]]
Working(p) == pass[p].rows # {} \/ pass[p].cur # None
HeldBy(p, r) == r \in pass[p].rows \/ r = pass[p].cur
Running == {p \in Processes : proc[p] = "running"}
\* The row whose mail is out with nothing saying so.
Unrecorded(p) == IF pass[p].mailed THEN {pass[p].cur} \ {None} ELSE {}

NewRow == [status |-> "todo", due |-> TRUE, attempts |-> 0, wanted |-> TRUE, mails |-> 0]

Init ==
    /\ kind \in Kinds
    /\ holder = None
    /\ proc = [p \in Processes |-> "waiting"]
    /\ row = [r \in Rows |-> NewRow]
    /\ pass = [p \in Processes |-> NoPass]
    /\ hand = [p \in Processes |-> None]
    /\ crashes = 0 /\ drops = 0 /\ requeues = 0 /\ excused = {}

-----------------------------------------------------------------------------
(* The advisory lock. *)

\* Mutant for OneRunner: the lock is taken on a connection of the pool, and goes with it.
TryLockPooled(p) ==
    /\ proc[p] = "waiting" /\ holder = None
    /\ proc' = [proc EXCEPT ![p] = "running"]
    /\ UNCHANGED <<kind, holder, row, pass, hand, crashes, drops, requeues, excused>>

\* pg_try_advisory_lock, retried until it is won; then the loops start.
TryLock(p) ==
    /\ proc[p] = "waiting" /\ holder = None
    /\ holder' = p
    /\ proc' = [proc EXCEPT ![p] = "running"]
    /\ UNCHANGED <<kind, row, pass, hand, crashes, drops, requeues, excused>>

\* Mutant for SomebodyRuns: an attempt that loses is the last.
TryLockOnce(p) ==
    /\ proc[p] = "waiting"
    /\ holder' = IF holder = None THEN p ELSE holder
    /\ proc' = [proc EXCEPT ![p] = IF holder = None THEN "running" ELSE "idle"]
    /\ UNCHANGED <<kind, row, pass, hand, crashes, drops, requeues, excused>>

\* One round of the watchdog; a round that loses changes nothing.
Watchdog(p) == TryLock(p)

\* The session that held the lock ends; its process does not notice.
DropConnection ==
    /\ drops < MaxDrops /\ holder # None
    /\ holder' = None
    /\ drops' = drops + 1
    /\ UNCHANGED <<kind, proc, row, pass, hand, crashes, requeues, excused>>

\* A process dies with its passes, its handlers and its connections; a mail that is out by
\* then stays unrecorded.
Die(p) ==
    /\ crashes < MaxCrashes /\ proc[p] # "down"
    /\ crashes' = crashes + 1
    /\ proc' = [proc EXCEPT ![p] = "down"]
    /\ pass' = [pass EXCEPT ![p] = NoPass]
    /\ hand' = [hand EXCEPT ![p] = None]
    /\ holder' = IF holder = p THEN None ELSE holder
    /\ excused' = excused \cup Unrecorded(p)
    /\ UNCHANGED <<kind, row, drops, requeues>>

\* uvicorn starts a worker process again.
Start(p) ==
    /\ proc[p] = "down"
    /\ proc' = [proc EXCEPT ![p] = "waiting"]
    /\ UNCHANGED <<kind, holder, row, pass, hand, crashes, drops, requeues, excused>>

-----------------------------------------------------------------------------
(* A pass of the loop. *)

MailClaimable(r) == row[r].status = "todo" /\ row[r].wanted /\ row[r].due
\* Mutant for RowsSettle: a claimed row is left to its claimer.
CvUnclaimed(r) == row[r].status = "todo"
\* A claim on a row is the status processing, with its own time to run out.
CvClaimable(r) == row[r].status = "todo" \/ (row[r].status = "busy" /\ row[r].due)
RenderClaimable(r) ==
    /\ row[r].due
    /\ row[r].status = "todo" \/ (row[r].status = "failed" /\ row[r].attempts < MaxAttempts)

Claimable(r) ==
    CASE kind \in Mail -> MailClaimable(r)
      [] kind = "cv" -> CvClaimable(r)
      [] kind = "render" -> RenderClaimable(r)

\* Mutant for MailedOnce: the rows are read, not claimed.
Unclaimed(r) == row[r]
\* What the claiming UPDATE sets.
Claimed(r) ==
    CASE kind \in Mail -> [row[r] EXCEPT !.due = FALSE]
      [] kind = "cv" -> [row[r] EXCEPT !.due = FALSE, !.status = "busy"]
      [] kind = "render" -> [row[r] EXCEPT !.due = FALSE, !.attempts = @ + 1]

\* Every due row is claimed by one UPDATE, which skips the rows another pass is claiming; the
\* enricher claims one.  The columns the pass goes by are read with it.
Claim(p) ==
    /\ proc[p] = "running" /\ ~Working(p)
    /\ \E batch \in SUBSET {r \in Rows : Claimable(r)} :
          /\ IF kind = "cv" THEN Cardinality(batch) = 1
             ELSE batch # {} /\ batch = {r \in Rows : Claimable(r)}
          /\ row' = [r \in Rows |-> IF r \in batch THEN Claimed(r) ELSE row[r]]
          /\ pass' = [pass EXCEPT ![p] =
                        [NoPass EXCEPT !.rows = batch, !.seen = [r \in Rows |-> row[r].attempts]]]
    /\ UNCHANGED <<kind, holder, proc, hand, crashes, drops, requeues, excused>>

\* The pass turns to its next row.
Take(p, r) ==
    /\ r \in pass[p].rows /\ pass[p].cur = None
    /\ pass' = [pass EXCEPT ![p].rows = @ \ {r}, ![p].cur = r]
    /\ row' = IF kind = "render" THEN [row EXCEPT ![r].status = "busy"] ELSE row
    /\ UNCHANGED <<kind, holder, proc, hand, crashes, drops, requeues, excused>>

\* Mails are counted as none, one, or more than one.
OneMore(n) == IF n = 2 THEN 2 ELSE n + 1

\* send_email returns: the mail is out, and nothing says so yet.
Send(p) ==
    /\ kind \in Mail /\ pass[p].cur # None /\ ~pass[p].mailed
    /\ pass' = [pass EXCEPT ![p].mailed = TRUE]
    /\ row' = [row EXCEPT ![pass[p].cur].mails = OneMore(@)]
    /\ UNCHANGED <<kind, holder, proc, hand, crashes, drops, requeues, excused>>

Finished(x) ==
    IF kind \in {"linkedin", "feedback"}
    THEN [x EXCEPT !.status = "done", !.attempts = 0]
    ELSE [x EXCEPT !.status = "done"]

\* The outcome is recorded, whatever the row has become since it was claimed.
Succeed(p) ==
    /\ pass[p].cur # None /\ (kind \in Mail => pass[p].mailed)
    /\ row' = [row EXCEPT ![pass[p].cur] = Finished(@)]
    /\ pass' = [pass EXCEPT ![p].cur = None, ![p].mailed = FALSE]
    /\ UNCHANGED <<kind, holder, proc, hand, crashes, drops, requeues, excused>>

\* A failed attempt: the n-th, by the count the pass has read.  The last one of an invite is
\* final; a reminder starts over after its whole period.
FailedMail(x, n) ==
    IF n < MaxAttempts THEN [x EXCEPT !.attempts = n, !.due = FALSE]
    ELSE IF kind = "campus" THEN [x EXCEPT !.status = "failed", !.attempts = n, !.due = TRUE]
    ELSE [x EXCEPT !.attempts = 0, !.due = FALSE]

Failed(x, n) == IF kind \in Mail THEN FailedMail(x, n) ELSE [x EXCEPT !.status = "failed"]

Fail(p) ==
    /\ pass[p].cur # None /\ ~pass[p].mailed
    /\ row' = [row EXCEPT ![pass[p].cur] = Failed(@, pass[p].seen[pass[p].cur] + 1)]
    /\ pass' = [pass EXCEPT ![p].cur = None]
    /\ UNCHANGED <<kind, holder, proc, hand, crashes, drops, requeues, excused>>

\* After the mail the UPDATE that records it fails, and the attempt counts as failed; or, of an
\* invite, the next statement does, the batch's count.
FailLate(p) ==
    /\ pass[p].cur # None /\ pass[p].mailed
    /\ LET n == pass[p].seen[pass[p].cur] + 1
       IN  \/ /\ row' = [row EXCEPT ![pass[p].cur] = Failed(@, n)]
              /\ excused' = excused \cup Unrecorded(p)
           \/ /\ kind = "campus"
              /\ row' = [row EXCEPT ![pass[p].cur] = Failed(Finished(@), n)]
              /\ UNCHANGED excused
    /\ pass' = [pass EXCEPT ![p].cur = None, ![p].mailed = FALSE]
    /\ UNCHANGED <<kind, holder, proc, hand, crashes, drops, requeues>>

\* The UPDATE that records a failure fails as well: the pass ends there, and the rows it holds
\* wait until their claims run out.
CutShort(p) ==
    /\ crashes < MaxCrashes /\ kind \in Mail /\ pass[p].cur # None
    /\ crashes' = crashes + 1
    /\ pass' = [pass EXCEPT ![p] = NoPass]
    /\ excused' = excused \cup Unrecorded(p)
    /\ UNCHANGED <<kind, holder, proc, row, hand, drops, requeues>>

-----------------------------------------------------------------------------
(* What else touches the rows. *)

\* Time passes: the claim on the row runs out, or its next attempt has come.
Tick(r) ==
    /\ ~row[r].due
    /\ row' = [row EXCEPT ![r].due = TRUE]
    /\ excused' = IF \E p \in Processes : HeldBy(p, r) THEN excused \cup {r} ELSE excused
    /\ UNCHANGED <<kind, holder, proc, pass, hand, crashes, drops, requeues>>

\* The candidate opts out, or the hiring manager gives the feedback.
NoLongerWanted(r) ==
    /\ kind \in {"linkedin", "feedback"} /\ row[r].wanted
    /\ row' = [row EXCEPT ![r].wanted = FALSE]
    /\ UNCHANGED <<kind, holder, proc, pass, hand, crashes, drops, requeues, excused>>

\* The period of a reminder is over.
NextPeriod(r) ==
    /\ kind \in {"linkedin", "feedback"} /\ row[r].status = "done"
    /\ \A p \in Processes : ~HeldBy(p, r)
    /\ row' = [row EXCEPT ![r].status = "todo", ![r].due = TRUE, ![r].mails = 0]
    /\ excused' = excused \ {r}
    /\ UNCHANGED <<kind, holder, proc, pass, hand, crashes, drops, requeues>>

\* A recruiter invites a campus candidate once more (bulk_invite), sent or claimed as the row
\* may be, or queues the failed ones again (resend_queued_invites).
Requeue(r) ==
    /\ kind = "campus" /\ requeues < MaxRequeues
    /\ requeues' = requeues + 1
    /\ row' = [row EXCEPT ![r].status = "todo", ![r].due = TRUE, ![r].attempts = 0]
    /\ excused' = IF row[r].mails > 0 \/ \E p \in Processes : HeldBy(p, r)
                  THEN excused \cup {r} ELSE excused
    /\ UNCHANGED <<kind, holder, proc, pass, hand, crashes, drops>>

\* A recruiter opens a CV before its turn (enrich_cv_now); the invite handler renders a new
\* interview (prerender_interview_videos).  Neither claims the row.
ByHand(p, r) ==
    /\ proc[p] # "down" /\ hand[p] = None
    /\ row[r].status = "todo"
    /\ \/ kind = "cv" /\ UNCHANGED row
       \/ /\ kind = "render" /\ row[r].attempts = 0
          /\ row' = [row EXCEPT ![r].status = "busy"]
    /\ hand' = [hand EXCEPT ![p] = r]
    /\ UNCHANGED <<kind, holder, proc, pass, crashes, drops, requeues, excused>>

ByHandEnds(p, ok) ==
    /\ hand[p] # None
    /\ row' = [row EXCEPT ![hand[p]].status = IF ok THEN "done" ELSE "failed"]
    /\ hand' = [hand EXCEPT ![p] = None]
    /\ UNCHANGED <<kind, holder, proc, pass, crashes, drops, requeues, excused>>

\* The admin queues the CVs that failed once more.
RetryFailed ==
    /\ kind = "cv" /\ \E r \in Rows : row[r].status = "failed"
    /\ row' = [r \in Rows |-> IF row[r].status = "failed"
                              THEN [row[r] EXCEPT !.status = "todo"] ELSE row[r]]
    /\ UNCHANGED <<kind, holder, proc, pass, hand, crashes, drops, requeues, excused>>

-----------------------------------------------------------------------------
Next ==
    \/ \E p \in Processes :
          \/ Watchdog(p) \/ Die(p) \/ Start(p)
          \/ Claim(p) \/ Send(p) \/ Succeed(p) \/ Fail(p) \/ FailLate(p) \/ CutShort(p)
          \/ \E r \in Rows : Take(p, r) \/ ByHand(p, r)
          \/ \E ok \in BOOLEAN : ByHandEnds(p, ok)
    \/ \E r \in Rows : Tick(r) \/ NoLongerWanted(r) \/ NextPeriod(r) \/ Requeue(r)
    \/ DropConnection \/ RetryFailed

\* The watchdog and the loops of a live process go round, a send or a call returns or fails,
\* and time passes.  Nothing is assumed of what starts a dead process again.
Fairness ==
    /\ \A p \in Processes :
          /\ WF_vars(Watchdog(p)) /\ WF_vars(Claim(p))
          /\ WF_vars(\E r \in Rows : Take(p, r))
          /\ WF_vars(Send(p) \/ Succeed(p) \/ Fail(p) \/ FailLate(p))
    /\ \A r \in Rows : WF_vars(Tick(r))

Spec == Init /\ [][Next]_vars
FairSpec == Spec /\ Fairness

-----------------------------------------------------------------------------
TypeOK ==
    /\ kind \in Kinds
    /\ holder \in Processes \cup {None}
    /\ proc \in [Processes -> {"down", "waiting", "running"}]
    /\ row \in [Rows -> [status : {"todo", "busy", "done", "failed"}, due : BOOLEAN,
                         attempts : Nat, wanted : BOOLEAN, mails : Nat]]
    /\ pass \in [Processes -> [rows : SUBSET Rows, cur : Rows \cup {None}, mailed : BOOLEAN,
                               seen : [Rows -> Nat]]]
    /\ hand \in [Processes -> Rows \cup {None}]
    /\ crashes \in 0..MaxCrashes /\ drops \in 0..MaxDrops /\ requeues \in 0..MaxRequeues
    /\ excused \in SUBSET Rows

\* The lock lets one process run the loops: a second one runs them only after the first one's
\* connection was dropped under it.
OneRunner == Cardinality(Running) <= 1 + drops

\* A person gets one mail for a row, however passes overlap and attempts fail, unless the claim
\* on the row ran out while a pass was still at it, a recruiter queued the invite again, or, with
\* the mail just out, the process died or could not record it (_claim_batch).
MailedOnce == \A r \in Rows : row[r].mails > 1 => r \in excused

SomebodyIsUp == \E p \in Processes : proc[p] # "down"

\* When the holder of the lock dies, a process that is still up takes over ("a dead holder's
\* lock gets picked up by another worker").
SomebodyRuns == []<>(SomebodyIsUp => Running # {})

\* An invite is sent or given up, and a CV enriched or failed, in the end, whoever dies with a
\* claim on it, unless nobody is left ("Rows never get stuck forever").
RowsSettle ==
    kind \in {"campus", "cv"} /\ []<>SomebodyIsUp =>
        \A r \in Rows : <>(row[r].status \in {"done", "failed"})

=============================================================================

---------------------------- MODULE EnteriAttempt ----------------------------
(***************************************************************************)
(* The AI interview of one application (routers/enteri_ai_api.py): the     *)
(* invite links mailed to the candidate, the one session row behind them,  *)
(* its endings (completed by the conversation or a submit, terminated by   *)
(* proctoring), the appeal, and the recruiter's reissue.                   *)
(*                                                                         *)
(* Every handler is a row of query() calls that commit one by one, with    *)
(* LLM and mail calls between them.  Each statement that changes state is  *)
(* an action, what a handler has read is in job[w], and Crash ends one     *)
(* anywhere.  What is said and scored is abstracted to how many answers    *)
(* are stored and whether the session has a score; the application's       *)
(* bot_score and combined_score are left out.                              *)
(***************************************************************************)
EXTENDS Naturals

CONSTANTS
    Workers,     \* concurrent HTTP handlers and background tasks
    MaxInvites,  \* bound: invite rows of the application
    MaxAnswers,  \* bound: answers the candidate gives in one attempt
    Modes        \* the values ENTERI_AI_MODE may have

InviteAssumption == MaxInvites \in Nat \ {0}
AnswerAssumption == MaxAnswers \in Nat
ModeAssumption == Modes \subseteq {"scripted", "conversational"}

\* Invites in the order of invited_at.
Invites == 1 .. MaxInvites

VARIABLES
    mode,      \* ENTERI_AI_MODE of this deployment
    session,   \* the enteri_ai_session row
    invite,    \* enteri_ai_invite rows
    appeal,    \* proctoring_appeal of each invite; only relink_sent matters of its status
    app,       \* stage and last stage event of the application
    ledger,    \* whether the proctoring ledger, if there is one, is against a termination
    told,      \* answers the candidate was told are stored, since the last reset
    job,       \* the handler a worker is in the middle of
    missed,    \* auxiliary: workers that go by a session another has moved on since
    raced      \* auxiliary: workers that wrote the conversation on such stale ground

vars == <<mode, session, invite, appeal, app, ledger, told, job, missed, raced>>

-----------------------------------------------------------------------------
Ended == {"completed", "terminated_proctoring"}
SessionRows == [status : {"none", "pending", "in_progress"} \cup Ended,
                opened : BOOLEAN, answers : 0 .. MaxAnswers, scored : BOOLEAN,
                emailSent : BOOLEAN]
InviteRows == [attempt : {"none", "unused", "in_progress", "completed", "revoked"},
               used : BOOLEAN, expired : BOOLEAN]
Apps == [stage : {"early", "enteri_ai_bot", "later"}, sendFailed : BOOLEAN]

\* Why an invite is made: by itself, as a reissue, or for the appeal of an invite.
Reasons == {0} \cup {MaxInvites + 1} \cup Invites
Alone == 0
Reissue == MaxInvites + 1
\* Whether the recruiter is mailed when the scores are in.
Silent == 0
Mails == 1

Idle == [op |-> "idle"]
Do(o, x) == [op |-> o, x |-> x]
Jobs == {Idle}
    \cup [op : {"reset", "revoke", "insert", "mail", "fail", "event", "move", "relinked"}, x : Reasons]
    \cup [op : {"stamp", "enter"}, x : Invites]
    \cup [op : {"answer", "open", "ask", "score"}, x : 0 .. MaxAnswers]
    \cup [op : {"judged", "submitted", "notify", "notified"}, x : {Alone}]
    \cup [op : {"close"}, x : {Silent, Mails}]

Init ==
    /\ mode \in Modes
    /\ session = [status |-> "none", opened |-> FALSE, answers |-> 0, scored |-> FALSE,
                  emailSent |-> FALSE]
    /\ invite = [i \in Invites |-> [attempt |-> "none", used |-> FALSE, expired |-> FALSE]]
    /\ appeal = [i \in Invites |-> "none"]
    /\ app = [stage |-> "early", sendFailed |-> FALSE]
    /\ ledger = FALSE
    /\ told = 0
    /\ job = [w \in Workers |-> Idle]
    /\ missed = {}
    /\ raced = {}

-----------------------------------------------------------------------------
At(w, o) == job[w].op = o
Start(w, j) == job[w] = Idle /\ job' = [job EXCEPT ![w] = j]
GoOn(w, j) == job' = [job EXCEPT ![w] = j]
Finish(w) == GoOn(w, Idle)

Made == {i \in Invites : invite[i].attempt # "none"}
Latest(i) == i \in Made /\ \A k \in Made : k <= i
\* _do_single_invite skips while an unused link is open.
Active(i) == i \in Made /\ ~invite[i].used /\ ~invite[i].expired

\* Mutant for TrackerPendingIsOpen: revoking leaves expires_at as it is.
RevokedUnexpired == [i \in Invites |-> IF i \in Made THEN [invite[i] EXCEPT !.attempt = "revoked"]
                                      ELSE invite[i]]

Revoked == [i \in Invites |-> IF i \in Made /\ invite[i].attempt # "revoked"
                              THEN [invite[i] EXCEPT !.attempt = "revoked", !.expired = TRUE]
                              ELSE invite[i]]
\* The reset of a reissue; a relink leaves email_sent as it is.
Fresh(sent) == [status |-> "pending", opened |-> FALSE, answers |-> 0, scored |-> FALSE,
                emailSent |-> sent]

(* POST /invite/send (and each application of /bulk-invite) goes straight  *)
(* to _do_single_invite.  POST /resend-invite revokes every link first,    *)
(* POST /appeals/{id}/relink resets the session first.                     *)
SendInvite(w) ==
    /\ Made # Invites
    /\ Start(w, Do("insert", Alone))
    /\ UNCHANGED <<mode, session, invite, appeal, app, ledger, told>>

Resend(w) ==
    /\ Made # Invites
    /\ Start(w, Do("reset", Reissue))
    /\ invite' = Revoked
    /\ UNCHANGED <<mode, session, appeal, app, ledger, told>>

ResetSession(w) ==
    /\ At(w, "reset")
    /\ GoOn(w, Do("insert", Reissue))
    /\ IF session.status = "none" THEN UNCHANGED <<session, told>>
       ELSE session' = Fresh(FALSE) /\ told' = 0
    /\ UNCHANGED <<mode, invite, appeal, app, ledger>>

Relink(w, i) ==
    /\ appeal[i] \notin {"none", "relink_sent"}
    /\ Made # Invites
    /\ Start(w, Do("revoke", i))
    /\ session' = Fresh(session.emailSent)
    /\ told' = 0
    /\ UNCHANGED <<mode, invite, appeal, app, ledger>>

RevokeInvites(w) ==
    /\ At(w, "revoke")
    /\ GoOn(w, Do("insert", job[w].x))
    /\ invite' = Revoked
    /\ UNCHANGED <<mode, session, appeal, app, ledger, told>>

(* _do_single_invite: the invite unless a link is open, the session if     *)
(* there is none, the mail, and the stage move that only a sent mail earns *)
InsertInvite(w) ==
    /\ At(w, "insert")
    /\ \/ /\ \E i \in Invites : Active(i)
          /\ Finish(w)
          /\ UNCHANGED invite
       \/ /\ \A i \in Invites : ~Active(i)
          /\ \E i \in Invites \ Made :
                /\ \A k \in Invites \ Made : i <= k
                /\ invite' = [invite EXCEPT ![i].attempt = "unused"]
          /\ GoOn(w, Do("mail", job[w].x))
    /\ UNCHANGED <<mode, session, appeal, app, ledger, told>>

CreateSessionAndMail(w) ==
    /\ At(w, "mail")
    /\ session' = IF session.status = "none" THEN [session EXCEPT !.status = "pending"] ELSE session
    /\ \/ GoOn(w, Do("fail", job[w].x))
       \/ GoOn(w, Do(IF app.stage = "early" THEN "event" ELSE "relinked", job[w].x))
    /\ UNCHANGED <<mode, invite, appeal, app, ledger, told>>

WriteInviteFailureEvent(w) ==
    /\ At(w, "fail")
    /\ app' = IF app.stage = "early" THEN [app EXCEPT !.sendFailed = TRUE] ELSE app
    /\ Finish(w)
    /\ UNCHANGED <<mode, session, invite, appeal, ledger, told>>

StageEvent(w) ==
    /\ At(w, "event")
    /\ app' = [app EXCEPT !.sendFailed = FALSE]
    /\ GoOn(w, Do("move", job[w].x))
    /\ UNCHANGED <<mode, session, invite, appeal, ledger, told>>

MoveToBot(w) ==
    /\ At(w, "move")
    /\ app' = [app EXCEPT !.stage = "enteri_ai_bot"]
    /\ GoOn(w, Do("relinked", job[w].x))
    /\ UNCHANGED <<mode, session, invite, appeal, ledger, told>>

\* What is left to do after a sent mail: an appeal's relink is marked as sent.
MarkRelinkSent(w) ==
    /\ At(w, "relinked")
    /\ appeal' = IF job[w].x \in Invites THEN [appeal EXCEPT ![job[w].x] = "relink_sent"] ELSE appeal
    /\ Finish(w)
    /\ UNCHANGED <<mode, session, invite, app, ledger, told>>

-----------------------------------------------------------------------------
\* GET /invite/validate: what the candidate's page asks before it begins.
Valid(i) == /\ i \in Made
            /\ invite[i].attempt \notin {"completed", "revoked"}
            /\ session.status \notin Ended
            /\ ~invite[i].expired

\* Mutant for CompletedStands: begin trusts the link's own state alone.
BeginnableByLink(i) == /\ i \in Made
                       /\ invite[i].attempt \notin {"completed", "revoked"}
                       /\ ~invite[i].expired

(* POST /invite/begin reads the link and the session, stamps the link on   *)
(* its first entry, and sets the session in progress (or makes it).        *)
Beginnable(i) == /\ i \in Made
                 /\ invite[i].attempt \notin {"completed", "revoked"}
                 /\ ~invite[i].expired
                 /\ session.status # "completed"

BeginRead(w, i) ==
    /\ Beginnable(i)
    /\ Start(w, Do(IF invite[i].attempt = "unused" THEN "stamp" ELSE "enter", i))
    /\ UNCHANGED <<mode, session, invite, appeal, app, ledger, told>>

BeginStamp(w) ==
    /\ At(w, "stamp")
    /\ invite' = [invite EXCEPT ![job[w].x] = [attempt |-> "in_progress", used |-> TRUE,
                                               expired |-> FALSE]]
    /\ GoOn(w, Do("enter", job[w].x))
    /\ UNCHANGED <<mode, session, appeal, app, ledger, told>>

BeginEnter(w) ==
    /\ At(w, "enter")
    /\ session' = [session EXCEPT !.status = "in_progress"]
    /\ Finish(w)
    /\ UNCHANGED <<mode, invite, appeal, app, ledger, told>>

(* POST /invite/converse: the opening, or an answer that is stored before  *)
(* the LLM is asked; a failed LLM call leaves it stored.  The last reply   *)
(* scores the session and closes the link.                                 *)
Converse(w, i) ==
    /\ mode = "conversational"
    /\ i \in Made /\ ~invite[i].expired
    /\ session.status \notin Ended \cup {"none"}
    /\ \/ ~session.opened /\ Start(w, Do("open", session.answers))
       \/ session.answers < MaxAnswers /\ Start(w, Do("answer", session.answers + 1))
       \/ session.opened /\ Start(w, Do("ask", session.answers))
    /\ UNCHANGED <<mode, session, invite, appeal, app, ledger, told>>

StoreOpening(w) ==
    /\ At(w, "open")
    /\ session' = [session EXCEPT !.opened = TRUE, !.answers = job[w].x]
    /\ Finish(w)
    /\ UNCHANGED <<mode, invite, appeal, app, ledger, told>>

\* Mutant for AnswersSurvive: the answer reaches the database with the reply only.
StoreAnswerWithReply(w) ==
    /\ At(w, "answer")
    /\ told' = IF told < MaxAnswers THEN told + 1 ELSE told
    /\ GoOn(w, Do("ask", job[w].x))
    /\ UNCHANGED <<mode, session, invite, appeal, app, ledger>>

StoreAnswer(w) ==
    /\ At(w, "answer")
    /\ session' = [session EXCEPT !.opened = TRUE, !.answers = job[w].x]
    /\ told' = IF told < MaxAnswers THEN told + 1 ELSE told
    /\ GoOn(w, Do("ask", job[w].x))
    /\ UNCHANGED <<mode, invite, appeal, app, ledger>>

\* next_turn returns a reply that is stored, or the last one, or fails.
NextTurn(w) ==
    /\ At(w, "ask")
    /\ \/ session' = [session EXCEPT !.opened = TRUE, !.answers = job[w].x] /\ Finish(w)
       \/ GoOn(w, Do("score", job[w].x)) /\ UNCHANGED session
       \/ Finish(w) /\ UNCHANGED session
    /\ UNCHANGED <<mode, invite, appeal, app, ledger, told>>

ScoreTranscript(w) ==
    /\ At(w, "score")
    /\ session' = [session EXCEPT !.status = "completed", !.scored = TRUE, !.opened = TRUE,
                                  !.answers = job[w].x]
    /\ GoOn(w, Do("close", Mails))
    /\ UNCHANGED <<mode, invite, appeal, app, ledger, told>>

(* POST /invite/submit and the staff's POST /sessions/{id}/submit know no  *)
(* token.  In conversational mode a scored session is returned as it is.   *)
Submit(w) ==
    /\ session.status # "none"
    /\ mode = "conversational" => ~(session.status = "completed" /\ session.scored)
    /\ Start(w, Do("submitted", Alone))
    /\ UNCHANGED <<mode, session, invite, appeal, app, ledger, told>>

SubmitScore(w) ==
    /\ At(w, "submitted")
    /\ session' = [session EXCEPT !.status = "completed", !.scored = TRUE]
    /\ GoOn(w, Do("close", Mails))
    /\ UNCHANGED <<mode, invite, appeal, app, ledger, told>>

\* A staff submit closes no link and mails nobody.
StaffSubmit(w) ==
    /\ job[w] = Idle
    /\ session.status # "none"
    /\ session' = [session EXCEPT !.status = "completed", !.scored = TRUE]
    /\ UNCHANGED <<mode, invite, appeal, app, ledger, told, job>>

\* POST /sessions: the staff starts the session over, its conversation stays.
StaffStart(w) ==
    /\ job[w] = Idle
    /\ session' = [session EXCEPT !.status = "in_progress", !.scored = FALSE]
    /\ UNCHANGED <<mode, invite, appeal, app, ledger, told, job>>

(* POST /invite/terminate: the server's ledger has to support what the     *)
(* browser claims, unless there is no proctoring session to ask.           *)
Terminate(w, i) ==
    /\ mode = "conversational"
    /\ i \in Made
    /\ session.status \notin Ended \cup {"none"}
    /\ ~ledger
    /\ Start(w, Do("judged", Alone))
    /\ UNCHANGED <<mode, session, invite, appeal, app, ledger, told>>

TerminateWrite(w) ==
    /\ At(w, "judged")
    /\ session' = [session EXCEPT !.status = "terminated_proctoring", !.scored = TRUE]
    /\ GoOn(w, Do("close", Silent))
    /\ UNCHANGED <<mode, invite, appeal, app, ledger, told>>

MarkInviteAttemptCompleted(w) ==
    /\ At(w, "close")
    /\ invite' = [i \in Invites |-> IF invite[i].attempt = "in_progress"
                                    THEN [invite[i] EXCEPT !.attempt = "completed"]
                                    ELSE invite[i]]
    /\ GoOn(w, IF job[w].x = Mails THEN Do("notify", Alone) ELSE Idle)
    /\ UNCHANGED <<mode, session, appeal, app, ledger, told>>

\* _fire_completion_email: skipped when already sent; a failed mail is not retried.
FireCompletionEmail(w) ==
    /\ At(w, "notify")
    /\ \/ ~session.emailSent /\ GoOn(w, Do("notified", Alone))
       \/ Finish(w)
    /\ UNCHANGED <<mode, session, invite, appeal, app, ledger, told>>

SetEmailSent(w) ==
    /\ At(w, "notified")
    /\ session' = [session EXCEPT !.emailSent = TRUE]
    /\ Finish(w)
    /\ UNCHANGED <<mode, invite, appeal, app, ledger, told>>

-----------------------------------------------------------------------------
\* POST /invite/appeal: one per invite (UNIQUE), against a terminated session.
CreateAppeal(w, i) ==
    /\ job[w] = Idle
    /\ i \in Made
    /\ session.status = "terminated_proctoring"
    /\ appeal[i] = "none"
    /\ appeal' = [appeal EXCEPT ![i] = "open"]
    /\ UNCHANGED <<mode, session, invite, app, ledger, told, job>>

UpdateAppeal(w, i) ==
    /\ job[w] = Idle
    /\ appeal[i] # "none"
    /\ \E s \in {"open", "relink_sent"} :
          appeal' = [appeal EXCEPT ![i] = s]
    /\ UNCHANGED <<mode, session, invite, app, ledger, told, job>>

\* expires_at of a link passes; the proctoring ledger fills; the pipeline moves on.
Expire(i) ==
    /\ i \in Made /\ ~invite[i].expired
    /\ invite' = [invite EXCEPT ![i].expired = TRUE]
    /\ UNCHANGED <<mode, session, appeal, app, ledger, told, job>>

Proctor ==
    /\ ledger' = ~ledger
    /\ UNCHANGED <<mode, session, invite, appeal, app, told, job>>

Advance ==
    /\ app.stage # "later"
    /\ app' = [app EXCEPT !.stage = "later", !.sendFailed = FALSE]
    /\ UNCHANGED <<mode, session, invite, appeal, ledger, told, job>>

Crash(w) ==
    /\ job[w] # Idle
    /\ Finish(w)
    /\ UNCHANGED <<mode, session, invite, appeal, app, ledger, told>>

WorkerStep(w) ==
    \/ SendInvite(w) \/ Resend(w) \/ ResetSession(w) \/ RevokeInvites(w)
    \/ InsertInvite(w) \/ CreateSessionAndMail(w) \/ WriteInviteFailureEvent(w)
    \/ StageEvent(w) \/ MoveToBot(w) \/ MarkRelinkSent(w)
    \/ BeginStamp(w) \/ BeginEnter(w)
    \/ StoreOpening(w) \/ StoreAnswer(w) \/ NextTurn(w) \/ ScoreTranscript(w)
    \/ Submit(w) \/ SubmitScore(w) \/ StaffSubmit(w) \/ StaffStart(w)
    \/ TerminateWrite(w) \/ MarkInviteAttemptCompleted(w)
    \/ FireCompletionEmail(w) \/ SetEmailSent(w) \/ Crash(w)
    \/ \E i \in Invites :
        \/ Relink(w, i) \/ BeginRead(w, i) \/ Converse(w, i) \/ Terminate(w, i)
        \/ CreateAppeal(w, i) \/ UpdateAppeal(w, i)

(* begin, converse and terminate check the session and write it, by its id *)
(* and unconditionally, an await or an LLM call later; so the model keeps  *)
(* account of who goes by a session that another has moved on meanwhile.   *)
GoesBySession(v) == job[v].op \in {"stamp", "enter", "open", "answer", "ask", "score", "judged"}
Talked == session'.answers # session.answers \/ told' # told
Moved == session'.status # session.status \/ session'.answers # session.answers

Account(w) ==
    /\ missed' = {v \in Workers : /\ job'[v] # Idle
                                  /\ v \in missed \/ (v # w /\ Moved /\ GoesBySession(v))}
    /\ raced' = IF session'.answers = 0 /\ told' = 0 THEN {}
                ELSE IF w \in missed /\ Talked THEN raced \cup {w} ELSE raced

Next ==
    \/ \E w \in Workers : WorkerStep(w) /\ Account(w)
    \/ (\E i \in Invites : Expire(i)) /\ UNCHANGED <<missed, raced>>
    \/ (Proctor \/ Advance) /\ UNCHANGED <<missed, raced>>

Spec == Init /\ [][Next]_vars

-----------------------------------------------------------------------------
\* Types of the rows and of what handlers remember.
TypeOK ==
    /\ mode \in Modes
    /\ session \in SessionRows
    /\ invite \in [Invites -> InviteRows]
    /\ appeal \in [Invites -> {"none", "open", "relink_sent"}]
    /\ app \in Apps
    /\ ledger \in BOOLEAN
    /\ told \in 0 .. MaxAnswers
    /\ job \in [Workers -> Jobs]
    /\ missed \subseteq Workers
    /\ raced \subseteq Workers

\* A completed interview stands: neither a link, nor a late answer, nor the page of a
\* terminated attempt moves its session on.  Only a recruiter's new link (reset to pending),
\* the staff's own restart (score withdrawn), or a handler that checked the session before
\* another one completed it may (validate_invite, start_invited_session).
CompletedStands ==
    [][session.status = "completed" /\ session'.status \notin {"completed", "pending"}
        => \/ session'.status = "in_progress" /\ ~session'.scored
           \/ \E w \in missed : job'[w] # job[w]]_vars

\* Whatever of the LLM, the mail or the process fails, every answer of the attempt that was
\* stored is still stored: a failed reply never rewrites the conversation (converse_invite).
\* Only two turns that read the same conversation can take an answer back.
AnswersSurvive == raced = {} => session.answers = told

\* invite_tracker: the newest link's state as the recruiter sees it.
InviteStatus(i) ==
    CASE session.status = "terminated_proctoring" -> "terminated"
      [] session.status = "completed" -> "completed"
      [] session.status \notin Ended /\ invite[i].used -> "in_progress"
      [] session.status \notin Ended /\ ~invite[i].used /\ invite[i].expired -> "expired"
      [] OTHER -> IF app.sendFailed THEN "send_failed" ELSE "pending"

\* A link the tracker lists as pending is one the candidate's page accepts, so the recruiter
\* waits for somebody who can come (invite_tracker against validate_invite).
TrackerPendingIsOpen ==
    \A i \in Invites : Latest(i) /\ InviteStatus(i) = "pending" => Valid(i)
=============================================================================

------------------------------ MODULE CampusDrive ------------------------------
(***************************************************************************)
(* A campus drive: the rows of uploaded sheets (campus_candidate), the     *)
(* bulk invite that makes each of them an application with an interview    *)
(* link and queues its mail, the worker that sends the mails, and deleting *)
(* rows, batches and applications meanwhile.  Who may be invited at all is *)
(* CandidateIntake's matter, and how workers share the queue JobClaims'.   *)
(*                                                                         *)
(* The invite goes row by row and statement by statement, with nothing in  *)
(* a transaction; it may end anywhere.  Applications are numbered, since   *)
(* one that is deleted and made again is another.                          *)
(***************************************************************************)
EXTENDS Naturals, FiniteSets

CONSTANTS
    None,
    Emails,
    Rows, EmailOf,    \* rows of the sheets, and whom each of them names
    Requests,         \* bulk invites
    Workers,          \* campus_email_worker
    MaxApps           \* bound: applications made

CampusAssumption ==
    /\ EmailOf \in [Rows -> Emails] /\ MaxApps \in Nat
    /\ None \notin Nat /\ None \notin {"live", "spent"}

VARIABLES
    row,      \* per row: None before its upload and after its deletion, or its record
    app,      \* per email: the number of the application there is, or None
    made,     \* applications made so far
    session,  \* applications with an Enteri AI session
    token,    \* per application: its links, None, "live" or "spent"
    invite,   \* what each bulk invite is doing
    sending   \* what each worker is doing

vars == <<row, app, made, session, token, invite, sending>>

-----------------------------------------------------------------------------
Apps == 1..MaxApps
Fresh == [status |-> "pending", mail |-> "none", app |-> None]
Idle == [pc |-> "idle", left |-> {}, row |-> None, app |-> None]
Resting == [pc |-> "idle", row |-> None, app |-> None]

Init ==
    /\ row = [r \in Rows |-> None]
    /\ app = [e \in Emails |-> None] /\ made = 0
    /\ session = {} /\ token = [a \in Apps |-> None]
    /\ invite = [h \in Requests |-> Idle]
    /\ sending = [w \in Workers |-> Resting]

There(r) == row[r] # None
Alive(a) == \E e \in Emails : app[e] = a

\* A sheet's row with an email that can be one; the others are reported and dropped.
Upload(r) ==
    /\ ~There(r) /\ row' = [row EXCEPT ![r] = Fresh]
    /\ UNCHANGED <<app, made, session, token, invite, sending>>

\* delete_candidate and delete_batch take the row and leave what was made from it.
DeleteRow(r) ==
    /\ There(r) /\ row' = [row EXCEPT ![r] = None]
    /\ UNCHANGED <<app, made, session, token, invite, sending>>

\* _delete_application_row first detaches the rows, and may die or be refused after that.
Detach(e) ==
    /\ app[e] # None
    /\ row' = [r \in Rows |-> IF There(r) /\ row[r].app = app[e] THEN [row[r] EXCEPT !.app = None]
                              ELSE row[r]]
    /\ UNCHANGED <<app, made, session, token, invite, sending>>

\* Then it deletes; links and session go along.  A row attached again in between refuses it.
DeleteApplication(e) ==
    /\ app[e] # None
    /\ \A r \in Rows : There(r) => row[r].app # app[e]
    /\ app' = [app EXCEPT ![e] = None]
    /\ session' = session \ {app[e]}
    /\ token' = [token EXCEPT ![app[e]] = None]
    /\ UNCHANGED <<row, made, invite, sending>>

-----------------------------------------------------------------------------
(* bulk_invite, for each of the rows it was given. *)

Begin(h, chosen) ==
    /\ invite[h].pc = "idle"
    /\ invite' = [invite EXCEPT ![h] = [Idle EXCEPT !.pc = "row", !.left = chosen]]
    /\ UNCHANGED <<row, app, made, session, token, sending>>

\* A row that is gone has failed, one of a listed company is blocked; the loop goes on.
TakeRow(h) ==
    /\ invite[h].pc = "row"
    /\ \E r \in invite[h].left :
        \/ /\ There(r)
           /\ invite' = [invite EXCEPT ![h].pc = "app", ![h].left = @ \ {r},
                                       ![h].row = r]
           /\ UNCHANGED row
        \/ /\ invite' = [invite EXCEPT ![h].left = @ \ {r}]
           /\ row' = IF There(r) THEN [row EXCEPT ![r].status = "blocked"] ELSE row
    /\ UNCHANGED <<app, made, session, token, sending>>

\* The application there is, or a new one.
Apply(h) ==
    /\ invite[h].pc = "app"
    /\ LET e == EmailOf[invite[h].row]
       IN  IF app[e] # None
           THEN invite' = [invite EXCEPT ![h] = [@ EXCEPT !.pc = "token", !.app = app[e]]] /\
                UNCHANGED <<app, made>>
           ELSE /\ made < MaxApps /\ made' = made + 1
                /\ app' = [app EXCEPT ![e] = made + 1]
                /\ invite' = [invite EXCEPT ![h] = [@ EXCEPT !.pc = "token", !.app = made + 1]]
    /\ UNCHANGED <<row, session, token, sending>>

\* Mutant for WaitsForALink: the mail is queued as soon as there is an application.
LinkQueued(h) ==
    /\ invite[h].pc = "token" /\ Alive(invite[h].app)
    /\ row' = IF There(invite[h].row)
              THEN [row EXCEPT ![invite[h].row] = [status |-> "invite_queued", mail |-> "queued",
                                                   app |-> invite[h].app]]
              ELSE row
    /\ token' = [token EXCEPT ![invite[h].app] = "live"]
    /\ invite' = [invite EXCEPT ![h].pc = "session"]
    /\ UNCHANGED <<app, made, session, sending>>

\* A live link is used again.
Link(h) ==
    /\ invite[h].pc = "token" /\ Alive(invite[h].app)
    /\ token' = [token EXCEPT ![invite[h].app] = "live"]
    /\ invite' = [invite EXCEPT ![h].pc = "session"]
    /\ UNCHANGED <<row, app, made, session, sending>>

\* No link for an application that is gone: the row has failed.
LinkFails(h) ==
    /\ invite[h].pc = "token"
    /\ invite' = [invite EXCEPT ![h] = [@ EXCEPT !.pc = "row", !.row = None, !.app = None]]
    /\ UNCHANGED <<row, app, made, session, token, sending>>

Session(h) ==
    /\ invite[h].pc = "session" /\ Alive(invite[h].app)
    /\ session' = session \cup {invite[h].app}
    /\ invite' = [invite EXCEPT ![h].pc = "attach"]
    /\ UNCHANGED <<row, app, made, token, sending>>

\* The foreign key refuses an application that is gone; a row that is gone is not missed.
Attach(h) ==
    /\ invite[h].pc = "attach"
    /\ There(invite[h].row) => Alive(invite[h].app)
    /\ row' = IF There(invite[h].row) THEN [row EXCEPT ![invite[h].row].app = invite[h].app] ELSE row
    /\ invite' = [invite EXCEPT ![h] = [@ EXCEPT !.pc = "queue", !.app = None]]
    /\ UNCHANGED <<app, made, session, token, sending>>

\* The mail is queued, anew if it was sent; on a local host nobody is mailed.
Queue(h) ==
    /\ invite[h].pc = "queue"
    /\ row' = IF ~There(invite[h].row) THEN row
              ELSE [row EXCEPT ![invite[h].row].status = "invite_queued",
                                ![invite[h].row].mail = "queued"]
    /\ invite' = [invite EXCEPT ![h] = [@ EXCEPT !.pc = "row", !.row = None]]
    /\ UNCHANGED <<app, made, session, token, sending>>

\* The batch is done, or an error or the process's death ends it: the rest is not invited.
Ends(h) ==
    /\ invite[h].pc # "idle"
    /\ invite' = [invite EXCEPT ![h] = Idle]
    /\ UNCHANGED <<row, app, made, session, token, sending>>

-----------------------------------------------------------------------------
(* The mails. *)

\* A claimed row is read, and its application's link.
ReadLink(w, r) ==
    /\ sending[w].pc = "idle" /\ There(r) /\ row[r].mail = "queued"
    /\ \A v \in Workers : sending[v].row # r
    /\ row[r].app # None /\ token[row[r].app] = "live"
    /\ sending' = [sending EXCEPT ![w] = [pc |-> "send", row |-> r, app |-> row[r].app]]
    /\ UNCHANGED <<row, app, made, session, token, invite>>

\* Sent, and recorded in whatever has become of the row.
Sent(w) ==
    /\ sending[w].pc = "send"
    /\ row' = IF There(sending[w].row)
              THEN [row EXCEPT ![sending[w].row] = [@ EXCEPT !.status = "invited", !.mail = "sent"]]
              ELSE row
    /\ sending' = [sending EXCEPT ![w] = Resting]
    /\ UNCHANGED <<app, made, session, token, invite>>

\* The mail server refuses, or the worker dies and its claim expires: queued still.
Unsent(w) ==
    /\ sending[w].pc = "send"
    /\ sending' = [sending EXCEPT ![w] = Resting]
    /\ UNCHANGED <<row, app, made, session, token, invite>>

\* After the last attempt, for want of an application, of a link or of a mail server.
GivesUp(r) ==
    /\ There(r) /\ row[r].mail = "queued"
    /\ row' = [row EXCEPT ![r].mail = "failed"]
    /\ UNCHANGED <<app, made, session, token, invite, sending>>

\* resend_queued_invites
Requeue(r) ==
    /\ There(r) /\ row[r].status = "invite_queued" /\ row[r].mail = "failed"
    /\ row' = [row EXCEPT ![r].mail = "queued"]
    /\ UNCHANGED <<app, made, session, token, invite, sending>>

\* The candidate begins the interview, or the link expires.
Spend(a) ==
    /\ token[a] = "live"
    /\ token' = [token EXCEPT ![a] = "spent"]
    /\ UNCHANGED <<row, app, made, session, invite, sending>>

Next ==
    \/ \E r \in Rows : Upload(r) \/ DeleteRow(r) \/ GivesUp(r) \/ Requeue(r)
    \/ \E e \in Emails : Detach(e) \/ DeleteApplication(e)
    \/ \E a \in Apps : Spend(a)
    \/ \E h \in Requests :
        \/ TakeRow(h) \/ Apply(h) \/ Link(h) \/ LinkFails(h) \/ Session(h) \/ Attach(h)
        \/ Queue(h) \/ Ends(h)
        \/ \E chosen \in (SUBSET Rows) \ {{}} : Begin(h, chosen)
    \/ \E w \in Workers : Sent(w) \/ Unsent(w) \/ (\E r \in Rows : ReadLink(w, r))

Spec == Init /\ [][Next]_vars

-----------------------------------------------------------------------------
\* An application a row of the drive names is there, and has had a link and a session made for
\* it: whoever is mailed, now or after a failure, has an interview to open, whichever of two
\* invites, a crash between the statements or a deletion came in between.
WaitsForALink ==
    \A r \in Rows : There(r) /\ row[r].app # None =>
        Alive(row[r].app) /\ row[r].app \in session /\ token[row[r].app] # None
=============================================================================

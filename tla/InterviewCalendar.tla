-------------------------- MODULE InterviewCalendar --------------------------
(***************************************************************************)
(* A booked interview and the calendars it is on: booking, rescheduling    *)
(* and cancelling (second half of routers/scheduling_api.py, POST          *)
(* /api/schedule in main.py, services/connectors.py and                    *)
(* services/google_calendar.py).                                           *)
(*                                                                         *)
(* The database row commits first; the calendars are told afterwards, by   *)
(* the same handler but outside its transaction.  Two of them exist side   *)
(* by side: an event on the connected Google account (optional), and the   *)
(* entry every recipient's mail client makes of the .ics attachment, keyed *)
(* by UID and replaced by an invite of the same or a higher SEQUENCE.      *)
(* Handlers interleave as in InterviewScheduling.                          *)
(***************************************************************************)
EXTENDS Naturals, FiniteSets

CONSTANTS
    Workers,        \* concurrent HTTP handlers
    Interviews,     \* ids of interview rows
    Events,         \* ids Google gives the events it creates
    MaxRound,       \* rounds of the requisition: 1 .. MaxRound
    MaxTime,        \* bound: start times 1 .. MaxTime
    MaxSequence,    \* bound on ics_sequence
    MaxFailed,      \* bound: interviews a mail or a handler of which fails
    MailConfigured, \* whether the tenant has an SMTP user and password
    None            \* SQL NULL

ASSUME RoundAssumption == MaxRound \in Nat \ {0}
ASSUME BoundAssumption == MaxTime \in Nat \ {0} /\ MaxSequence \in Nat \ {0}
ASSUME MailAssumption == MailConfigured \in BOOLEAN
ASSUME NullAssumption ==
    /\ None \notin Interviews /\ None \notin Events
    /\ None \notin [of : Interviews, live : BOOLEAN]

Rounds == 1 .. MaxRound
Times == 1 .. MaxTime
Sequences == 0 .. MaxSequence

VARIABLES
    interview,  \* interview rows; uid: whether calendar_uid is set
    job,        \* the handler a worker is in the middle of
    google,     \* for every Google event made: its interview and whether it is there
    entry,      \* what the .ics mails of an interview left on a recipient's calendar
    told,       \* interviews whose caller was told panel_notified = False
    lost        \* auxiliary: interviews a handler of which broke off, or a cancellation got lost

vars == <<interview, job, google, entry, told, lost>>
reports == <<told, lost>>

-----------------------------------------------------------------------------
InterviewRows == [status : {"none", "scheduled", "cancelled"},
                  round  : Rounds,
                  start  : Times,
                  seq    : Sequences,
                  uid    : BOOLEAN,
                  event  : Events \cup {None}]

GoogleEvents == [of : Interviews, live : BOOLEAN]
Entries == [seq : Sequences, start : Times, live : BOOLEAN]

Idle               == [op |-> "idle"]
Announcing(i, t, n) == [op |-> "announce", iv |-> i, start |-> t, seq |-> n]
Recording(i, t, n, e) == [op |-> "record", iv |-> i, start |-> t, seq |-> n, event |-> e]
Mailing(i, t, n)   == [op |-> "mail", iv |-> i, start |-> t, seq |-> n]
Moving(i, t, n)    == [op |-> "move", iv |-> i, start |-> t, seq |-> n]
Cancelling(i, e, f) == [op |-> "cancel", iv |-> i, event |-> e, force |-> f]
Withdrawing(i, e, n) == [op |-> "withdraw", iv |-> i, event |-> e, seq |-> n]

Jobs == {Idle}
    \cup [op : {"announce", "mail", "move"}, iv : Interviews, start : Times, seq : Sequences]
    \cup [op : {"record"}, iv : Interviews, start : Times, seq : Sequences, event : Events]
    \cup [op : {"cancel"}, iv : Interviews, event : Events \cup {None}, force : BOOLEAN]
    \cup [op : {"withdraw"}, iv : Interviews, event : Events \cup {None}, seq : Sequences]

Init ==
    /\ interview = [i \in Interviews |->
                      [status |-> "none", round |-> 1, start |-> 1, seq |-> 0,
                       uid |-> FALSE, event |-> None]]
    /\ job = [w \in Workers |-> Idle]
    /\ google = [e \in Events |-> None]
    /\ entry = [i \in Interviews |-> None]
    /\ told = {}
    /\ lost = {}

-----------------------------------------------------------------------------
Start(w, j) == job[w] = Idle /\ job' = [job EXCEPT ![w] = j]
GoOn(w, j) == job' = [job EXCEPT ![w] = j]
Live(i) == interview[i].status = "scheduled"
Duplicated(i) == \E j \in Interviews \ {i} : Live(j) /\ interview[j].round = interview[i].round
Row(n, t, hasUid) == [status |-> "scheduled", round |-> n, start |-> t, seq |-> 0,
                      uid |-> hasUid, event |-> None]

(* A booking by confirm_pick or book_direct: _finalize_booking_tx inserts  *)
(* the row with its calendar_uid, the notifications follow the commit.     *)
Book(w, i, n, t) ==
    /\ interview[i].status = "none"
    /\ interview' = [interview EXCEPT ![i] = Row(n, t, TRUE)]
    /\ Start(w, Announcing(i, t, 0))
    /\ UNCHANGED <<google, entry, reports>>

\* Bound: how many interviews something fails for.
MayFail == Cardinality(told \cup lost) < MaxFailed

(* POST /api/schedule: the invite goes out under a UID nobody keeps, then  *)
(* the row of the first round is inserted without calendar_uid, and the    *)
(* answer says whether every mail went out.                                *)
Schedule(i, t) ==
    /\ interview[i].status = "none"
    /\ interview' = [interview EXCEPT ![i] = Row(1, t, FALSE)]
    /\ \/ /\ MailConfigured
          /\ entry' = [entry EXCEPT ![i] = [seq |-> 0, start |-> t, live |-> TRUE]]
          /\ UNCHANGED told
       \/ /\ MayFail \/ ~MailConfigured
          /\ told' = told \cup {i}
          /\ UNCHANGED entry
    /\ UNCHANGED <<job, google, lost>>

(* _send_booking_notifications: create_event_with_meet makes a new event,  *)
(* its id is written to the row, and the .ics mails go out.  Any failure   *)
(* to create the event (or no Google account) goes on to the mails.        *)
Unused(e) == google[e] = None

MakeEvent(w, i, t, n, e) ==
    /\ job[w] = Announcing(i, t, n)
    /\ Unused(e)
    /\ google' = [google EXCEPT ![e] = [of |-> i, live |-> TRUE]]
    /\ GoOn(w, Recording(i, t, n, e))
    /\ UNCHANGED <<interview, entry, reports>>

NoEvent(w, i, t, n) ==
    /\ job[w] = Announcing(i, t, n)
    /\ GoOn(w, Mailing(i, t, n))
    /\ UNCHANGED <<interview, google, entry, reports>>

RecordEvent(w, i, t, n, e) ==
    /\ job[w] = Recording(i, t, n, e)
    /\ interview' = [interview EXCEPT ![i].event = e]
    /\ GoOn(w, Mailing(i, t, n))
    /\ UNCHANGED <<google, entry, reports>>

\* A mail client takes an invite or cancellation that is not older than its entry;
\* without a UID of its own an invite adds an entry that nothing replaces.
Newer(i, n) == entry[i] = None \/ entry[i].seq <= n
Receive(i, t, n, alive) ==
    entry' = [entry EXCEPT ![i] =
                 IF interview[i].uid /\ Newer(i, n)
                 THEN [seq |-> n, start |-> t, live |-> alive]
                 ELSE @]

\* With SMTP not configured send_calendar_invite logs the mail and lists it as sent.
MailInvite(w, i, t, n) ==
    /\ job[w] = Mailing(i, t, n)
    /\ IF MailConfigured THEN Receive(i, t, n, TRUE) ELSE UNCHANGED entry
    /\ GoOn(w, Idle)
    /\ UNCHANGED <<interview, google, reports>>

\* Mutation: a mail that fails is not among the missing ones.
MailFailsUntold(w, i, t, n) ==
    /\ job[w] = Mailing(i, t, n)
    /\ MailConfigured /\ MayFail
    /\ GoOn(w, Idle)
    /\ UNCHANGED <<interview, google, entry, reports>>

\* A mail that fails is caught; the answer and panel_invite_incomplete say that it is missing.
MailFails(w, i, t, n) ==
    /\ job[w] = Mailing(i, t, n)
    /\ MailConfigured /\ MayFail
    /\ told' = told \cup {i}
    /\ GoOn(w, Idle)
    /\ UNCHANGED <<interview, google, entry, lost>>

(* Reschedule, by link or by staff: the row, its ics_sequence included, is *)
(* read before the transaction that locks it and re-checks only its status.*)
RescheduleRead(w, i, t) ==
    /\ Live(i)
    /\ interview[i].seq + 1 < MaxSequence
    /\ Start(w, Moving(i, t, interview[i].seq + 1))
    /\ UNCHANGED <<interview, google, entry, reports>>

\* Mutation: no second look at the status under the row lock.
ReschedulableUnchecked(i) == i \in Interviews

Reschedulable(i) == Live(i)

RescheduleCommit(w, i, t, n) ==
    /\ job[w] = Moving(i, t, n)
    /\ Reschedulable(i)
    /\ interview' = [interview EXCEPT ![i].start = t, ![i].seq = n]
    /\ GoOn(w, Announcing(i, t, n))
    /\ UNCHANGED <<google, entry, reports>>

(* Cancel: without force it goes on only if another interview of the same  *)
(* round is scheduled, a check made before the row is locked; the Google   *)
(* event to delete is the one the row held at that time.                   *)
DeleteEvent(e) ==
    google' = [x \in Events |-> IF x = e THEN [google[x] EXCEPT !.live = FALSE]
                                ELSE google[x]]

\* Mutation: the event is deleted before the row is locked and cancelled.
CancelReadDeletes(w, i, force) ==
    /\ Live(i)
    /\ Duplicated(i) \/ force
    /\ DeleteEvent(interview[i].event)
    /\ Start(w, Cancelling(i, interview[i].event, force))
    /\ UNCHANGED <<interview, entry, reports>>

CancelRead(w, i, force) ==
    /\ Live(i)
    /\ Duplicated(i) \/ force
    /\ Start(w, Cancelling(i, interview[i].event, force))
    /\ UNCHANGED <<interview, google, entry, reports>>

CancelCommit(w, i, e, force) ==
    /\ job[w] = Cancelling(i, e, force)
    /\ Live(i)
    /\ interview[i].seq < MaxSequence
    /\ interview' = [interview EXCEPT ![i].status = "cancelled", ![i].seq = @ + 1]
    /\ GoOn(w, Withdrawing(i, e, interview[i].seq + 1))
    /\ UNCHANGED <<google, entry, reports>>

Withdraw(w, i, e, n) ==
    /\ job[w] = Withdrawing(i, e, n)
    /\ DeleteEvent(e)
    /\ IF MailConfigured THEN Receive(i, interview[i].start, n, FALSE) ELSE UNCHANGED entry
    /\ GoOn(w, Idle)
    /\ UNCHANGED <<interview, reports>>

\* Neither the deletion nor the mail stops the other when it fails, and nobody is told.
WithdrawInPart(w, i, e, n) ==
    /\ job[w] = Withdrawing(i, e, n)
    /\ MayFail
    /\ \/ DeleteEvent(e) /\ UNCHANGED entry
       \/ UNCHANGED google /\ (UNCHANGED entry \/ Receive(i, interview[i].start, n, FALSE))
    /\ lost' = lost \cup {i}
    /\ GoOn(w, Idle)
    /\ UNCHANGED <<interview, told>>

(* The re-check under the row lock fails: 409.                             *)
Refused(w) ==
    /\ \E i \in Interviews :
          /\ ~Live(i)
          /\ \/ \E t \in Times, n \in Sequences : job[w] = Moving(i, t, n)
             \/ \E e \in Events \cup {None}, f \in BOOLEAN : job[w] = Cancelling(i, e, f)
    /\ GoOn(w, Idle)
    /\ UNCHANGED <<interview, google, entry, reports>>

(* After its commit a handler breaks off: its process dies, or it raises.  *)
(* (One that breaks off before has changed nothing.)                       *)
Break(w) ==
    /\ job[w].op \in {"announce", "record", "mail", "withdraw"}
    /\ MayFail
    /\ lost' = lost \cup {job[w].iv}
    /\ GoOn(w, Idle)
    /\ UNCHANGED <<interview, google, entry, told>>

-----------------------------------------------------------------------------
\* Requests that come in.
Call(w) ==
    \E i \in Interviews :
       \/ \E n \in Rounds, t \in Times : Book(w, i, n, t)
       \/ \E t \in Times : RescheduleRead(w, i, t)
       \/ \E f \in BOOLEAN : CancelRead(w, i, f)

\* A handler that has begun goes on.
Continue(w) ==
    \/ \E i \in Interviews, t \in Times, n \in Sequences :
          \/ \E e \in Events : MakeEvent(w, i, t, n, e) \/ RecordEvent(w, i, t, n, e)
          \/ NoEvent(w, i, t, n)
          \/ MailInvite(w, i, t, n) \/ MailFails(w, i, t, n)
          \/ RescheduleCommit(w, i, t, n)
    \/ \E i \in Interviews, e \in Events \cup {None} :
          \/ \E f \in BOOLEAN : CancelCommit(w, i, e, f)
          \/ \E n \in Sequences : Withdraw(w, i, e, n) \/ WithdrawInPart(w, i, e, n)
    \/ Refused(w)

Next ==
    \/ \E w \in Workers : Call(w) \/ Continue(w) \/ Break(w)
    \/ \E i \in Interviews, t \in Times : Schedule(i, t)

Spec == Init /\ [][Next]_vars

\* A handler goes on until it ends or breaks: it is a plain function on a server thread,
\* and every mail or Google call in it returns, fails or times out.
FairSpec == Spec /\ \A w \in Workers : WF_vars(Continue(w))

-----------------------------------------------------------------------------
(* Properties.                                                             *)

TypeOK ==
    /\ interview \in [Interviews -> InterviewRows]
    /\ job \in [Workers -> Jobs]
    /\ google \in [Events -> GoogleEvents \cup {None}]
    /\ entry \in [Interviews -> Entries \cup {None}]
    /\ told \subseteq Interviews
    /\ lost \subseteq Interviews

\* A cancelled interview is never moved, revived or cancelled a second time by a
\* handler that read it while it was still scheduled ("This interview can no longer
\* be rescheduled", _reschedule_interview); only its Google event id may still come in.
CancelledStaysCancelled ==
    [][\A i \in Interviews : interview[i].status = "cancelled" =>
           interview'[i] = [interview[i] EXCEPT !.event = interview'[i].event]]_vars

\* The event id a scheduled interview holds is that of an event of its own that is
\* still there, whatever bookings, moves and cancellations run beside it; a later
\* cancellation depends on it ("so a later cancellation can delete this exact event").
EventIdIsGood ==
    \A i \in Interviews :
        Live(i) /\ interview[i].event # None =>
            google[interview[i].event] = [of |-> i, live |-> TRUE]

\* With SMTP configured, every booked interview comes onto its recipients' calendars or
\* the one who booked it is told that it did not, unless it is cancelled first or its
\* handler broke off, even if Google or the mail fails ("Never blocks booking: any failure
\* here just falls back", "this must not fail silently", _send_booking_notifications).
EveryBookingIsMailed ==
    \A i \in Interviews :
        Live(i) ~> entry[i] # None \/ i \in told \/ i \in lost \/ ~Live(i)

-----------------------------------------------------------------------------
(* What comments of the code promise and the code does not keep.           *)

\* Once every handler has ended, none of them broke off and no mail failed, the entries the
\* .ics mails made show the row's time, and a cancellation "using the SAME uid + a bumped
\* sequence" takes them off "so calendar clients that added the original invite ... remove
\* it automatically" (send_calendar_cancellation).
InboxesShowTheRow ==
    (\A w \in Workers : job[w] = Idle) /\ told = {} /\ lost = {} =>
        \A i \in Interviews : entry[i] # None /\ entry[i].live =>
            Live(i) /\ entry[i].start = interview[i].start

=============================================================================

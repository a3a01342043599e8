------------------------- MODULE InterviewScheduling -------------------------
(***************************************************************************)
(* Hiring-manager self-scheduling of panel interviews for one application  *)
(* (routers/scheduling_api.py, with the round advance of                   *)
(* routers/pipeline_api.py that opens the requests).                       *)
(*                                                                         *)
(* Every HTTP handler runs in a worker and shares nothing with the others  *)
(* but the PostgreSQL rows.  db.query() commits one statement; a           *)
(* transaction() block runs at READ COMMITTED, so two workers interleave   *)
(* between any two statements unless a row lock keeps them apart.  A       *)
(* handler is therefore split where another worker can get in: a "Read"    *)
(* or "Look" action that checks unlocked rows and remembers what it saw in *)
(* job[w], then the action that commits.  A transaction that starts with   *)
(* SELECT ... FOR UPDATE is one action, because all writers of those rows  *)
(* take the same lock.                                                     *)
(*                                                                         *)
(* Who may call a handler (roles, ownership) decides only whether the call *)
(* is refused, and every handler has a caller it accepts: the callers here *)
(* are authorised.  Emails, notifications and activity logs are left out.  *)
(***************************************************************************)
EXTENDS Naturals, FiniteSets

CONSTANTS
    Workers,         \* concurrent HTTP handlers
    Requests,        \* ids of interview_schedule_request rows
    Interviews,      \* ids of interview rows
    Managers,        \* app_user ids that can propose availability
    MaxRound,        \* panel rounds of the requisition: 1 .. MaxRound
    MinSlots,        \* _MIN_SLOTS
    MaxSlots,        \* _MAX_SLOTS
    Horizon,         \* _MAX_SLOT_DAYS_OUT
    MaxTime,         \* bound: instants 0 .. MaxTime
    MaxBatch,        \* bound: how often slots are proposed for one request
    None             \* SQL NULL

ASSUME RoundAssumption == MaxRound \in Nat \ {0}
ASSUME SlotCountAssumption == MinSlots \in Nat \ {0} /\ MaxSlots \in Nat
ASSUME BoundAssumption == Horizon \in Nat /\ MaxTime \in Nat /\ MaxBatch \in Nat \ {0}

Rounds == 1 .. MaxRound
Times == 0 .. MaxTime
Batches == 1 .. MaxBatch

\* An interview_slot row: the entry at place pos of the n-th list proposed for a request.  Two
\* rows may have the same start: no key and no check forbids it.
SlotIds == [req : Requests, batch : Batches, pos : 1 .. MaxSlots, start : Times]

VARIABLES
    app,        \* the application row: status and current_round
    request,    \* interview_schedule_request rows
    slot,       \* status of each interview_slot row, "none" where there is no row
    interview,  \* interview rows, None where there is no row
    job,        \* the handler a worker is in the middle of, with its local variables
    clock

vars == <<app, request, slot, interview, job, clock>>

-----------------------------------------------------------------------------
RequestRows == [status : {"none", "awaiting_hm", "awaiting_candidate",
                          "confirmed", "expired"},
                round  : Rounds,
                hm     : Managers \cup {None},
                pick   : SlotIds \cup {None},
                batch  : Batches \cup {0}]

\* The interview row of a booking: its round and, auxiliary, the request it is of.
InterviewRows == [round : Rounds, req : Requests]

ASSUME NullAssumption ==
    None \notin Requests /\ None \notin Managers /\ None \notin SlotIds /\ None \notin InterviewRows

\* The lists of start times a body can have, one time twice if it likes; nothing depends on
\* their order, so they are taken sorted.
Proposals ==
    {S \in UNION {[1 .. n -> Times] : n \in MinSlots .. MaxSlots} :
        \A k \in DOMAIN S : k > 1 => S[k - 1] <= S[k]}

Idle           == [op |-> "idle"]
Creating(n)    == [op |-> "create", round |-> n]
Advancing(n)   == [op |-> "advance", round |-> n]
Entering(n)    == [op |-> "enter", round |-> n]
Leaving        == [op |-> "leave"]
Booking(n)     == [op |-> "book", round |-> n]
Assigning(r, h) == [op |-> "assign", req |-> r, hm |-> h]
Submitting(r, S) == [op |-> "submit", req |-> r, starts |-> S]
Editing(r, S)  == [op |-> "edit", req |-> r, starts |-> S]
Expiring(r)    == [op |-> "expire", req |-> r]
Picking(s)     == [op |-> "pick", slot |-> s]

Jobs == {Idle, Leaving}
    \cup [op : {"create", "advance", "enter", "book"}, round : Rounds]
    \cup [op : {"assign"}, req : Requests, hm : Managers]
    \cup [op : {"submit", "edit"}, req : Requests, starts : Proposals]
    \cup [op : {"expire"}, req : Requests]
    \cup [op : {"pick"}, slot : SlotIds]

Init ==
    /\ app = [status |-> "shortlisted", round |-> 1]
    /\ request = [r \in Requests |-> [status |-> "none", round |-> 1, hm |-> None,
                                      pick |-> None, batch |-> 0]]
    /\ slot = [s \in SlotIds |-> "none"]
    /\ interview = [i \in Interviews |-> None]
    /\ job = [w \in Workers |-> Idle]
    /\ clock = 0

-----------------------------------------------------------------------------
(* Rows.                                                                   *)

Active(r) == request[r].status \in {"awaiting_hm", "awaiting_candidate"}
SlotsOf(r) == {s \in SlotIds : s.req = r}
OpenSlots(r) == {s \in SlotsOf(r) : slot[s] = "open"}
NewRequest(n, h) == [status |-> "awaiting_hm", round |-> n, hm |-> h,
                     pick |-> None, batch |-> 0]

Start(w, j) == job[w] = Idle /\ job' = [job EXCEPT ![w] = j]
Finish(w) == job' = [job EXCEPT ![w] = Idle]

\* The rows a list of proposed times turns into.
Batch(r, n, S) ==
    {s \in SlotIds : s.req = r /\ s.batch = n /\ s.pos \in DOMAIN S /\ s.start = S[s.pos]}

\* _validate_slot_list: between MinSlots and MaxSlots times, all in the future
\* and none beyond the horizon.
ValidSlotList(S) ==
    S \in Proposals /\ \A k \in DOMAIN S : S[k] > clock /\ S[k] <= clock + Horizon

\* _finalize_booking_tx: the interview row of a booking of request r.
FinalizeBooking(i, n, r) ==
    /\ interview[i] = None
    /\ interview' = [interview EXCEPT ![i] = [round |-> n, req |-> r]]

-----------------------------------------------------------------------------
(* POST /request: look for an active request of the application, insert    *)
(* one if there is none.  The two statements share a transaction but no    *)
(* lock.  A request that exists is returned as it is.                      *)

CreateLook(w, n) ==
    /\ \A r \in Requests : ~Active(r)
    /\ Start(w, Creating(n))
    /\ UNCHANGED <<app, request, slot, interview, clock>>

CreateInsert(w, n, r, h) ==
    /\ job[w] = Creating(n)
    /\ request[r].status = "none"
    /\ request' = [request EXCEPT ![r] = NewRequest(n, h)]
    /\ Finish(w)
    /\ UNCHANGED <<app, slot, interview, clock>>

(* POST /applications/{id}/advance, where it opens a round: the status and *)
(* the round are read before the transaction; its first statement updates  *)
(* the application row and so holds that row's lock until the commit.      *)

\* The first round, the next one, or out of the interview stage after the last.
NextMove ==
    CASE app.status = "shortlisted" -> Entering(1)
      [] app.status = "interview" /\ app.round < MaxRound -> Entering(app.round + 1)
      [] OTHER -> Leaving

AdvanceRead(w) ==
    /\ app.status # "documentation"
    /\ Start(w, NextMove)
    /\ UNCHANGED <<app, request, slot, interview, clock>>

AppRowFree == \A w \in Workers : job[w].op # "advance"

\* Mutation: the round is counted on once more than the one entered.
MoveBeyondRound(n) == app' = [app EXCEPT !.round = n + 1, !.status = "interview"]

\* Entering the interview stage writes status and round, a later level only the
\* round; neither looks again at what the row holds by then.
MoveToRound(n) ==
    app' = [app EXCEPT !.round = n,
                       !.status = IF n = 1 THEN "interview" ELSE @]

AdvanceReuse(w, n) ==
    /\ job[w] = Entering(n)
    /\ AppRowFree
    /\ \E r \in Requests : Active(r)
    /\ MoveToRound(n)
    /\ Finish(w)
    /\ UNCHANGED <<request, slot, interview, clock>>

AdvanceLook(w, n) ==
    /\ job[w] = Entering(n)
    /\ AppRowFree
    /\ \A r \in Requests : ~Active(r)
    /\ job' = [job EXCEPT ![w] = Advancing(n)]
    /\ UNCHANGED <<app, request, slot, interview, clock>>

AdvanceInsert(w, n, r, h) ==
    /\ job[w] = Advancing(n)
    /\ request[r].status = "none"
    /\ request' = [request EXCEPT ![r] = NewRequest(n, h)]
    /\ MoveToRound(n)
    /\ Finish(w)
    /\ UNCHANGED <<slot, interview, clock>>

AdvanceOut(w) ==
    /\ job[w] = Leaving
    /\ AppRowFree
    /\ app' = [app EXCEPT !.status = "documentation"]
    /\ Finish(w)
    /\ UNCHANGED <<request, slot, interview, clock>>

(* POST /book-direct.  SELECT ... FOR UPDATE of an active request; with one *)
(* found (created_at, the start of the inserting transaction, says nothing *)
(* about which of two overlapping ones) the rest runs under its lock.      *)
(* With none found a request of the asked round is inserted.               *)

BookActive(r, i) ==
    /\ Active(r)
    /\ request' = [request EXCEPT ![r].status = "confirmed"]
    /\ slot' = [s \in SlotIds |-> IF s \in OpenSlots(r) THEN "released" ELSE slot[s]]
    /\ FinalizeBooking(i, request[r].round, r)
    /\ UNCHANGED <<app, job, clock>>

BookLook(w, n) ==
    /\ \A r \in Requests : ~Active(r)
    /\ Start(w, Booking(n))
    /\ UNCHANGED <<app, request, slot, interview, clock>>

BookInsert(w, n, r, i) ==
    /\ job[w] = Booking(n)
    /\ request[r].status = "none"
    /\ request' = [request EXCEPT ![r] =
                      [NewRequest(n, None) EXCEPT !.status = "confirmed"]]
    /\ FinalizeBooking(i, n, r)
    /\ Finish(w)
    /\ UNCHANGED <<app, slot, clock>>

(* PATCH /request/{id}/assign-hm: the status is checked in one statement   *)
(* and the proposer written, unconditionally, in another.                  *)

AssignRead(w, r, h) ==
    /\ request[r].status = "awaiting_hm"
    /\ Start(w, Assigning(r, h))
    /\ UNCHANGED <<app, request, slot, interview, clock>>

AssignWrite(w, r, h) ==
    /\ job[w] = Assigning(r, h)
    /\ request' = [request EXCEPT ![r].hm = h]
    /\ Finish(w)
    /\ UNCHANGED <<app, slot, interview, clock>>

(* POST /request/{id}/slots: checks, then re-checks the status under the   *)
(* row lock, inserts the slots and hands the request to the candidate.     *)

SubmitRead(w, r, S) ==
    /\ request[r].status = "awaiting_hm"
    /\ ValidSlotList(S)
    /\ Start(w, Submitting(r, S))
    /\ UNCHANGED <<app, request, slot, interview, clock>>

\* Mutation: no second look at the status under the row lock.
SubmittableUnchecked(r) == r \in Requests

Submittable(r) == request[r].status = "awaiting_hm"

SubmitCommit(w, r, S) ==
    /\ job[w] = Submitting(r, S)
    /\ Submittable(r)
    /\ request[r].batch < MaxBatch
    /\ LET n == request[r].batch + 1 IN
         /\ request' = [request EXCEPT ![r].status = "awaiting_candidate",
                                       ![r].batch = n]
         /\ slot' = [s \in SlotIds |-> IF s \in Batch(r, n, S) THEN "open" ELSE slot[s]]
    /\ Finish(w)
    /\ UNCHANGED <<app, interview, clock>>

(* PATCH /request/{id}/slots: replaces the open slots while none has been  *)
(* booked, with the same checks before and under the row lock.             *)

Editable(r) ==
    /\ request[r].status = "awaiting_candidate"
    /\ request[r].pick = None
    /\ \A s \in SlotsOf(r) : slot[s] \in {"none", "open"}

EditRead(w, r, S) ==
    /\ Editable(r)
    /\ ValidSlotList(S)
    /\ Start(w, Editing(r, S))
    /\ UNCHANGED <<app, request, slot, interview, clock>>

EditCommit(w, r, S) ==
    /\ job[w] = Editing(r, S)
    /\ Editable(r)
    /\ request[r].batch < MaxBatch
    /\ LET n == request[r].batch + 1 IN
         /\ request' = [request EXCEPT ![r].batch = n]
         /\ slot' = [s \in SlotIds |-> IF s \in Batch(r, n, S) THEN "open"
                                       ELSE IF s \in OpenSlots(r) THEN "none"
                                       ELSE slot[s]]
    /\ Finish(w)
    /\ UNCHANGED <<app, interview, clock>>

(* _lazy_expire, run by every read of a request: MAX(start_utc) of the     *)
(* open slots in one statement, the conditional UPDATE in another.         *)

ExpireRead(w, r) ==
    /\ request[r].status = "awaiting_candidate"
    /\ OpenSlots(r) # {}
    /\ \A s \in OpenSlots(r) : s.start < clock
    /\ Start(w, Expiring(r))
    /\ UNCHANGED <<app, request, slot, interview, clock>>

\* Mutation: the UPDATE without its AND status = 'awaiting_candidate'.
ExpireAnyway(w, r) ==
    /\ job[w] = Expiring(r)
    /\ request' = [request EXCEPT ![r].status = "expired"]
    /\ Finish(w)
    /\ UNCHANGED <<app, slot, interview, clock>>

ExpireWrite(w, r) ==
    /\ job[w] = Expiring(r)
    /\ request' = [request EXCEPT ![r].status =
                      IF @ = "awaiting_candidate" THEN "expired" ELSE @]
    /\ Finish(w)
    /\ UNCHANGED <<app, slot, interview, clock>>

(* POST /pick/confirm: _lazy_expire finds a slot that is not past and the  *)
(* slot is checked, then the request and the slot again under the row lock.*)

PickRead(w, s) ==
    /\ slot[s] = "open"
    /\ \E x \in OpenSlots(s.req) : x.start >= clock
    /\ Start(w, Picking(s))
    /\ UNCHANGED <<app, request, slot, interview, clock>>

\* Mutation: no second look at request and slot under the row lock.
PickableUnchecked(s) == s \in SlotIds

Pickable(s) == request[s.req].status = "awaiting_candidate" /\ slot[s] = "open"

\* Mutation: the slots not picked stay open.
TakeSlotOnly(s) == slot' = [slot EXCEPT ![s] = "taken"]

TakeSlot(s) ==
    slot' = [x \in SlotIds |-> IF x = s THEN "taken"
                               ELSE IF x \in OpenSlots(s.req) THEN "released"
                               ELSE slot[x]]

ConfirmPick(w, s, i) ==
    /\ job[w] = Picking(s)
    /\ Pickable(s)
    /\ request' = [request EXCEPT ![s.req].status = "confirmed", ![s.req].pick = s]
    /\ TakeSlot(s)
    /\ FinalizeBooking(i, request[s.req].round, s.req)
    /\ Finish(w)
    /\ UNCHANGED <<app, clock>>

(* A handler whose re-check under the lock fails answers 409.              *)

Refused(w) ==
    /\ \/ \E r \in Requests, S \in Proposals :
            \/ job[w] = Submitting(r, S) /\ ~Submittable(r)
            \/ job[w] = Editing(r, S) /\ ~Editable(r)
       \/ \E s \in SlotIds : job[w] = Picking(s) /\ ~Pickable(s)
    /\ Finish(w)
    /\ UNCHANGED <<app, request, slot, interview, clock>>

Tick ==
    /\ clock < MaxTime
    /\ clock' = clock + 1
    /\ UNCHANGED <<app, request, slot, interview, job>>

-----------------------------------------------------------------------------
RequestStep(w) ==
    \/ \E n \in Rounds : CreateLook(w, n)
    \/ \E n \in Rounds, r \in Requests, h \in Managers : CreateInsert(w, n, r, h)
    \/ AdvanceRead(w)
    \/ \E n \in Rounds : AdvanceReuse(w, n) \/ AdvanceLook(w, n)
    \/ \E n \in Rounds, r \in Requests, h \in Managers : AdvanceInsert(w, n, r, h)
    \/ AdvanceOut(w)
    \/ \E r \in Requests, h \in Managers : AssignRead(w, r, h) \/ AssignWrite(w, r, h)

SlotStep(w) ==
    \/ \E r \in Requests, S \in Proposals :
          \/ SubmitRead(w, r, S) \/ SubmitCommit(w, r, S)
          \/ EditRead(w, r, S) \/ EditCommit(w, r, S)
    \/ \E r \in Requests : ExpireRead(w, r) \/ ExpireWrite(w, r)
    \/ \E s \in SlotIds : PickRead(w, s)
    \/ \E s \in SlotIds, i \in Interviews : ConfirmPick(w, s, i)

BookStep(w) ==
    \/ \E n \in Rounds : BookLook(w, n)
    \/ \E n \in Rounds, r \in Requests, i \in Interviews : BookInsert(w, n, r, i)

Next ==
    \/ \E w \in Workers : RequestStep(w) \/ SlotStep(w) \/ BookStep(w) \/ Refused(w)
    \/ \E r \in Requests, i \in Interviews : BookActive(r, i)
    \/ Tick

Spec == Init /\ [][Next]_vars

-----------------------------------------------------------------------------
(* Properties.                                                             *)

TypeOK ==
    /\ app \in [status : {"shortlisted", "interview", "documentation"}, round : Rounds]
    /\ request \in [Requests -> RequestRows]
    /\ slot \in [SlotIds -> {"none", "open", "taken", "released"}]
    /\ interview \in [Interviews -> InterviewRows \cup {None}]
    /\ job \in [Workers -> Jobs]
    /\ clock \in Times

\* However the candidate's confirm, a recruiter's direct booking and the expiry
\* of the request overlap, a confirmed request has been booked exactly once and
\* any other request never ("this is what actually prevents double-booking",
\* confirm_pick).
OneBookingPerRequest ==
    /\ \A r \in Requests : request[r].status = "confirmed" =>
          \E i \in Interviews : interview[i] # None /\ interview[i].req = r
    /\ \A i, j \in Interviews : interview[i] # None =>
          /\ request[interview[i].req].status = "confirmed"
          /\ interview[j] # None /\ interview[j].req = interview[i].req => i = j

\* The slots agree with the request they belong to, whatever submit, edit, direct
\* booking and confirm do concurrently: only a request that waits for its
\* candidate shows open slots, a taken slot is the one its confirmed request
\* points at, the slot a request points at is still there and taken, and only a
\* booking releases slots.
SlotsFollowRequest ==
    \A s \in SlotIds :
        /\ slot[s] = "open" => request[s.req].status \in {"awaiting_candidate", "expired"}
        /\ slot[s] = "taken" => request[s.req].pick = s
        /\ slot[s] = "released" => request[s.req].status = "confirmed"
        /\ \A r \in Requests :
              request[r].pick = s => /\ s.req = r
                                     /\ slot[s] = "taken"
                                     /\ request[r].status = "confirmed"

\* A candidate whose turn it is sees the list that was proposed last, whole, and no slot of
\* an earlier one: never a mixture of two concurrent submissions or a half-made edit.
CandidateSeesOneProposal ==
    \A r \in Requests : request[r].status = "awaiting_candidate" =>
        \E S \in Proposals : OpenSlots(r) = Batch(r, request[r].batch, S)

\* A booked or expired request is final, and a slot once taken or released is
\* never offered again, even by an edit or an expiry that checked it earlier.
SettledStaysSettled ==
    [][/\ \A r \in Requests : request[r].status \in {"confirmed", "expired"} =>
             /\ request'[r].status = request[r].status
             /\ request'[r].pick = request[r].pick
             /\ request'[r].batch = request[r].batch
       /\ \A s \in SlotIds : slot[s] \in {"taken", "released"} => slot'[s] = slot[s]]_vars

=============================================================================

---------------------------- MODULE OfferApproval ----------------------------
(***************************************************************************)
(* The offers of one application, their approval chain and the stage the   *)
(* application is in (routers/offers_api.py, and the moves of              *)
(* routers/pipeline_api.py that touch the same rows).                      *)
(*                                                                         *)
(* Most handlers here are a row of query() calls, each of which commits on *)
(* its own: approve marks the step, counts the steps, and only then sends  *)
(* the offer or moves it to the next step.  Every such statement is an     *)
(* action; what a handler read before it is in job[w].  The reads with     *)
(* which a handler begins are taken together.  A process that dies between *)
(* two statements leaves what it has written (Crash).                      *)
(*                                                                         *)
(* An approver's identity decides only who may act on a step, and an admin *)
(* may act on each: the callers are authorised.  Mails are left out.       *)
(***************************************************************************)
EXTENDS Naturals, FiniteSets

CONSTANTS
    Workers,     \* concurrent HTTP handlers
    Offers,      \* ids of offer rows
    MaxSteps,    \* bound: approvers of a chain
    Terms,       \* what an offer can say (ctc, designation, joining date)
    MaxBatch,    \* bound: submissions of one offer
    None         \* SQL NULL

ASSUME StepsAssumption == MaxSteps \in Nat \ {0}
ASSUME BoundAssumption == MaxBatch \in Nat \ {0}
ASSUME NullAssumption == None \notin Terms

Steps == 1 .. MaxSteps

VARIABLES
    chain,    \* sequence numbers of the req_offer_approver rows
    app,      \* the application row, and the stage its last rejection was logged from
    offer,    \* offer rows; agreed: terms the steps approved in this submission were shown
    step,     \* offer_approval_step: status of each step, "none" where there is no row
    handed,   \* how often an offer went to Darwinbox: 0, 1, 2 for more
    job,      \* the handler a worker is in the middle of
    missed,   \* auxiliary: workers that go by what another has written since
    raced     \* auxiliary: offers that a worker wrote to on such stale ground

vars == <<chain, app, offer, step, handed, job, missed, raced>>

-----------------------------------------------------------------------------
\* The stages an offer meets; "earlier" stands for applied to shortlisted.
Stages == {"earlier", "interview", "documentation", "offered"}
Terminal == {"hired", "rejected", "on_hold"}
Order(s) == CASE s = "earlier" -> 0 [] s = "interview" -> 1
              [] s = "documentation" -> 2 [] s = "offered" -> 3
\* Where advance leads from s; a requisition without panel rounds has no interview stage.
NextStages(s) == CASE s = "earlier" -> {"interview", "documentation"}
                   [] s = "interview" -> {"documentation"}
                   [] s = "documentation" -> {"offered"}
                   [] s = "offered" -> {}

Statuses == {"none", "pending_approval", "revising", "on_hold", "cancelled",
             "sent_to_darwinbox"}
OfferRows == [status : Statuses, current : Steps, batch : 0 .. MaxBatch,
              terms : Terms \cup {None}, agreed : SUBSET Terms]

Idle             == [op |-> "idle"]
Chaining(n, m)   == [op |-> "chain", at |-> n, last |-> m]
Creating(s)      == [op |-> "create", from |-> s]
Editing(o, t)    == [op |-> "edit", offer |-> o, terms |-> t]
Resubmitting(o)  == [op |-> "resubmit", offer |-> o]
Approving(o, b, k) == [op |-> "approve", offer |-> o, batch |-> b, at |-> k]
Counting(o, k)   == [op |-> "count", offer |-> o, at |-> k]
Sending(o)       == [op |-> "send", offer |-> o]
Offering         == [op |-> "offer"]
Passing(o, k)    == [op |-> "pass", offer |-> o, at |-> k]
Rejecting(o, b, k) == [op |-> "reject", offer |-> o, batch |-> b, at |-> k]
Revising(o)      == [op |-> "revise", offer |-> o]
Setting(o, s, t) == [op |-> "set", offer |-> o, was |-> s, to |-> t]
Settling(s, t)   == [op |-> "settle", was |-> s, to |-> t]
Logging(s)       == [op |-> "log", was |-> s]
Reverting(t)     == [op |-> "revert", to |-> t]
Moving(s, t)     == [op |-> "move", from |-> s, to |-> t]

Jobs == {Idle, Offering}
    \cup [op : {"chain"}, at : Steps, last : Steps]
    \cup [op : {"create"}, from : Stages]
    \cup [op : {"edit"}, offer : Offers, terms : Terms]
    \cup [op : {"resubmit", "send", "revise"}, offer : Offers]
    \cup [op : {"approve", "reject"}, offer : Offers, batch : 0 .. MaxBatch, at : Steps]
    \cup [op : {"count", "pass"}, offer : Offers, at : Steps]
    \cup [op : {"set"}, offer : Offers, was : Statuses, to : Statuses]
    \cup [op : {"settle"}, was : Statuses, to : Statuses]
    \cup [op : {"log"}, was : Statuses]
    \cup [op : {"revert"}, to : Stages]
    \cup [op : {"move"}, from : Stages, to : Stages \cup Terminal]

NoSteps == [k \in Steps |-> "none"]

Init ==
    /\ chain = {}
    /\ app = [status |-> "earlier", rejectedFrom |-> None]
    /\ offer = [o \in Offers |-> [status |-> "none", current |-> 1, batch |-> 0,
                                  terms |-> None, agreed |-> {}]]
    /\ step = [o \in Offers |-> NoSteps]
    /\ handed = [o \in Offers |-> 0]
    /\ job = [w \in Workers |-> Idle]
    /\ missed = {}
    /\ raced = {}

-----------------------------------------------------------------------------
Start(w, j) == job[w] = Idle /\ job' = [job EXCEPT ![w] = j]
GoOn(w, j) == job' = [job EXCEPT ![w] = j]
Finish(w) == GoOn(w, Idle)

Made == {o \in Offers : offer[o].status # "none"}
Rows(o) == {k \in Steps : step[o][k] # "none"}
Approved(o) == {k \in Steps : step[o][k] = "approved"}

\* _create_pending_steps: the offer's steps are those of the chain, all pending.
CreatePendingSteps(o) ==
    step' = [step EXCEPT ![o] = [k \in Steps |-> IF k \in chain THEN "pending" ELSE "none"]]

(* PUT /requisitions/{id}/offer-approvers: one DELETE, then one INSERT per *)
(* approver, each committed on its own.  Two rows cannot share a sequence: *)
(* an INSERT that finds its number taken fails, and the request with it.   *)
ClearChain(w, m) ==
    /\ IF m = 0 THEN job[w] = Idle /\ UNCHANGED job ELSE Start(w, Chaining(1, m))
    /\ chain' = {}
    /\ UNCHANGED <<app, offer, step, handed>>

AddApprover(w, n, m) ==
    /\ job[w] = Chaining(n, m)
    /\ chain' = chain \cup {n}
    /\ GoOn(w, IF n = m \/ n \in chain THEN Idle ELSE Chaining(n + 1, m))
    /\ UNCHANGED <<app, offer, step, handed>>

(* POST /offers: a chain, the right stage, and no offer but cancelled ones *)
(* (of several rows the query looks at whichever comes first); then offer, *)
(* steps and stage in one transaction.                                     *)
CreateRead(w) ==
    /\ app.status \in {"documentation", "interview"}
    /\ chain # {}
    /\ (Made = {} \/ \E o \in Made : offer[o].status = "cancelled")
    /\ Start(w, Creating(app.status))
    /\ UNCHANGED <<chain, app, offer, step, handed>>

CreateCommit(w, o, t) ==
    /\ job[w].op = "create"
    /\ offer[o].status = "none"
    /\ offer' = [offer EXCEPT ![o] = [status |-> "pending_approval", current |-> 1,
                                      batch |-> 1, terms |-> t, agreed |-> {}]]
    /\ CreatePendingSteps(o)
    /\ app' = IF job[w].from = "documentation" THEN app
              ELSE [app EXCEPT !.status = "documentation"]
    /\ Finish(w)
    /\ UNCHANGED <<chain, handed>>

\* Mutation: any offer may be edited.
EditReadUnchecked(w, o, t) ==
    /\ offer[o].status # "none"
    /\ Start(w, Editing(o, t))
    /\ UNCHANGED <<chain, app, offer, step, handed>>

(* PUT /offers/{id}: the status is checked, then the terms are written.    *)
EditRead(w, o, t) ==
    /\ offer[o].status = "revising"
    /\ Start(w, Editing(o, t))
    /\ UNCHANGED <<chain, app, offer, step, handed>>

EditWrite(w, o, t) ==
    /\ job[w] = Editing(o, t)
    /\ offer' = [offer EXCEPT ![o].terms = t]
    /\ Finish(w)
    /\ UNCHANGED <<chain, app, step, handed>>

(* POST /offers/{id}/resubmit: status and chain are checked before the     *)
(* transaction that recreates the steps and resets offer and application.  *)
ResubmitRead(w, o) ==
    /\ offer[o].status = "revising"
    /\ chain # {}
    /\ Start(w, Resubmitting(o))
    /\ UNCHANGED <<chain, app, offer, step, handed>>

\* Mutation: the offer goes on from the step that was rejected.
ResubmitInPlace(w, o) ==
    /\ job[w] = Resubmitting(o)
    /\ offer[o].batch < MaxBatch
    /\ offer' = [offer EXCEPT ![o].status = "pending_approval",
                              ![o].batch = @ + 1, ![o].agreed = {}]
    /\ CreatePendingSteps(o)
    /\ app' = [app EXCEPT !.status = "documentation"]
    /\ Finish(w)
    /\ UNCHANGED <<chain, handed>>

ResubmitCommit(w, o) ==
    /\ job[w] = Resubmitting(o)
    /\ offer[o].batch < MaxBatch
    /\ offer' = [offer EXCEPT ![o].status = "pending_approval", ![o].current = 1,
                              ![o].batch = @ + 1, ![o].agreed = {}]
    /\ CreatePendingSteps(o)
    /\ app' = [app EXCEPT !.status = "documentation"]
    /\ Finish(w)
    /\ UNCHANGED <<chain, handed>>

\* Mutations: a check is missing, of the offer's status or of the step's.
ActionableWhatever(o) == step[o][offer[o].current] = "pending"
ActionableAgain(o) ==
    /\ offer[o].status = "pending_approval"
    /\ step[o][offer[o].current] # "none"

(* POST /offers/{id}/approve.  A step row is updated by its id: if the     *)
(* steps have been recreated since, the update finds no row.               *)
Actionable(o) ==
    /\ offer[o].status = "pending_approval"
    /\ step[o][offer[o].current] = "pending"

MarkStep(o, b, k, s) ==
    step' = [step EXCEPT ![o][k] = IF offer[o].batch = b THEN s ELSE @]

ApproveRead(w, o) ==
    /\ Actionable(o)
    /\ Start(w, Approving(o, offer[o].batch, offer[o].current))
    /\ UNCHANGED <<chain, app, offer, step, handed>>

ApproveMark(w, o, b, k) ==
    /\ job[w] = Approving(o, b, k)
    /\ MarkStep(o, b, k, "approved")
    /\ offer' = [offer EXCEPT ![o].agreed =
                    IF offer[o].batch = b THEN @ \cup {offer[o].terms} ELSE @]
    /\ GoOn(w, Counting(o, k))
    /\ UNCHANGED <<chain, app, handed>>

\* "current_step >= total_steps": the steps are counted, not looked at.
LastStep(o, k) == k >= Cardinality(Rows(o))

\* The last step: hand the offer to Darwinbox, write its status, move the application.
ApproveFinal(w, o, k) ==
    /\ job[w] = Counting(o, k)
    /\ LastStep(o, k)
    /\ handed' = [handed EXCEPT ![o] = IF @ = 0 THEN 1 ELSE 2]
    /\ GoOn(w, Sending(o))
    /\ UNCHANGED <<chain, app, offer, step>>

ApproveSent(w, o) ==
    /\ job[w] = Sending(o)
    /\ offer' = [offer EXCEPT ![o].status = "sent_to_darwinbox"]
    /\ GoOn(w, Offering)
    /\ UNCHANGED <<chain, app, step, handed>>

ApproveOffered(w) ==
    /\ job[w] = Offering
    /\ app' = [app EXCEPT !.status = "offered"]
    /\ Finish(w)
    /\ UNCHANGED <<chain, offer, step, handed>>

\* More steps remain: the offer moves to the one after the step that was read.
ApproveMore(w, o, k) ==
    /\ job[w] = Counting(o, k)
    /\ ~LastStep(o, k)
    /\ GoOn(w, Passing(o, k))
    /\ UNCHANGED <<chain, app, offer, step, handed>>

ApprovePass(w, o, k) ==
    /\ job[w] = Passing(o, k)
    /\ offer' = [offer EXCEPT ![o].current = k + 1]
    /\ Finish(w)
    /\ UNCHANGED <<chain, app, step, handed>>

(* POST /offers/{id}/reject: the step, then the offer.                     *)
RejectRead(w, o) ==
    /\ Actionable(o)
    /\ Start(w, Rejecting(o, offer[o].batch, offer[o].current))
    /\ UNCHANGED <<chain, app, offer, step, handed>>

RejectMark(w, o, b, k) ==
    /\ job[w] = Rejecting(o, b, k)
    /\ MarkStep(o, b, k, "rejected")
    /\ GoOn(w, Revising(o))
    /\ UNCHANGED <<chain, app, offer, handed>>

RejectRevise(w, o) ==
    /\ job[w] = Revising(o)
    /\ offer' = [offer EXCEPT ![o].status = "revising"]
    /\ Finish(w)
    /\ UNCHANGED <<chain, app, step, handed>>

(* PATCH /offers/{id}/status: hold or cancel anything not sent yet; the    *)
(* application follows, and the event of its move names the offer's status *)
(* as the stage it comes from.                                             *)
StatusRead(w, o, to) ==
    /\ offer[o].status \notin {"none", "sent_to_darwinbox"}
    /\ Start(w, Setting(o, offer[o].status, to))
    /\ UNCHANGED <<chain, app, offer, step, handed>>

StatusOffer(w, o, was, to) ==
    /\ job[w] = Setting(o, was, to)
    /\ offer' = [offer EXCEPT ![o].status = to]
    /\ GoOn(w, Settling(was, to))
    /\ UNCHANGED <<chain, app, step, handed>>

StatusApp(w, was, to) ==
    /\ job[w] = Settling(was, to)
    /\ app' = [app EXCEPT !.status = IF to = "on_hold" THEN "on_hold" ELSE "rejected"]
    /\ GoOn(w, IF to = "on_hold" THEN Idle ELSE Logging(was))
    /\ UNCHANGED <<chain, offer, step, handed>>

StatusEvent(w, was) ==
    /\ job[w] = Logging(was)
    /\ app' = [app EXCEPT !.rejectedFrom = was]
    /\ Finish(w)
    /\ UNCHANGED <<chain, offer, step, handed>>

(* POST /applications/{id}/revert-stage: to an earlier stage, for a        *)
(* rejected application to the one it was rejected from or an earlier one; *)
(* an offer the application has (the first row found) is cancelled.        *)
Revertible(to) ==
    \/ app.status \in Stages /\ Order(to) < Order(app.status)
    \/ /\ app.status = "rejected"
       /\ app.rejectedFrom \in Stages
       /\ Order(to) <= Order(app.rejectedFrom)

RevertRead(w, to) ==
    /\ Revertible(to)
    /\ Start(w, Reverting(to))
    /\ UNCHANGED <<chain, app, offer, step, handed>>

CancelAnOffer ==
    IF Made = {} THEN UNCHANGED offer
    ELSE \E o \in Made : offer' = [offer EXCEPT ![o].status = "cancelled"]

RevertCommit(w, to) ==
    /\ job[w] = Reverting(to)
    /\ app' = [app EXCEPT !.status = to]
    /\ CancelAnOffer
    /\ Finish(w)
    /\ UNCHANGED <<chain, step, handed>>

(* POST /applications/{id}/advance: the next stage or a terminal status.   *)
MoveRead(w, to) ==
    /\ app.status \in Stages
    /\ to \in Terminal \cup NextStages(app.status)
    /\ Start(w, Moving(app.status, to))
    /\ UNCHANGED <<chain, app, offer, step, handed>>

MoveWrite(w, from, to) ==
    /\ job[w] = Moving(from, to)
    /\ app' = [status |-> to,
               rejectedFrom |-> IF to = "rejected" THEN from ELSE app.rejectedFrom]
    /\ Finish(w)
    /\ UNCHANGED <<chain, offer, step, handed>>

\* The process of a worker dies; what it has committed stays.
Crash(w) ==
    /\ job[w] # Idle
    /\ Finish(w)
    /\ UNCHANGED <<chain, app, offer, step, handed>>

-----------------------------------------------------------------------------
ChainStep(w) ==
    \/ \E m \in 0 .. MaxSteps : ClearChain(w, m)
    \/ \E n, m \in Steps : AddApprover(w, n, m)

DraftStep(w) ==
    \/ CreateRead(w)
    \/ \E o \in Offers, t \in Terms :
          CreateCommit(w, o, t) \/ EditRead(w, o, t) \/ EditWrite(w, o, t)
    \/ \E o \in Offers : ResubmitRead(w, o) \/ ResubmitCommit(w, o)

ReviewStep(w) ==
    \/ \E o \in Offers : ApproveRead(w, o) \/ ApproveSent(w, o)
                         \/ RejectRead(w, o) \/ RejectRevise(w, o)
    \/ \E o \in Offers, b \in 1 .. MaxBatch, k \in Steps :
          ApproveMark(w, o, b, k) \/ RejectMark(w, o, b, k)
    \/ \E o \in Offers, k \in Steps :
          ApproveFinal(w, o, k) \/ ApproveMore(w, o, k) \/ ApprovePass(w, o, k)
    \/ ApproveOffered(w)

MoveStep(w) ==
    \/ \E to \in {"on_hold", "cancelled"} :
          \/ \E o \in Offers : StatusRead(w, o, to)
          \/ \E o \in Offers, was \in Statuses : StatusOffer(w, o, was, to)
          \/ \E was \in Statuses : StatusApp(w, was, to)
    \/ \E was \in Statuses : StatusEvent(w, was)
    \/ \E to \in Stages : RevertRead(w, to) \/ RevertCommit(w, to)
    \/ \E to \in Stages \cup Terminal : MoveRead(w, to)
    \/ \E from \in Stages, to \in Stages \cup Terminal : MoveWrite(w, from, to)

(* Nothing keeps two handlers off one offer: no row is locked, and but for *)
(* the step rows, which go by id, no UPDATE repeats a condition.  So the   *)
(* specification keeps account of who goes by what another has overwritten.*)

\* The offers whose rows this step writes to.
Written == {o \in Offers : \/ offer'[o] # offer[o] \/ step'[o] # step[o]
                           \/ handed'[o] # handed[o]}

\* A worker's handler goes by the row of offer o, or by the chain.
OnOffer == {"edit", "resubmit", "approve", "count", "send", "pass", "reject", "revise", "set"}
GoesBy(v, o) == job[v].op \in OnOffer /\ job[v].offer = o
GoesByChain(v) == job[v].op \in {"create", "resubmit"}

Account(w) ==
    /\ raced' = IF w \in missed THEN raced \cup Written ELSE raced
    /\ missed' = {v \in Workers :
                     /\ job'[v] # Idle
                     /\ \/ v \in missed
                        \/ v # w /\ \E o \in Written : GoesBy(v, o)
                        \/ v # w /\ chain' # chain /\ GoesByChain(v)
                        \/ \E o \in raced' : GoesBy(v, o)'}

Next == \E w \in Workers :
            /\ ChainStep(w) \/ DraftStep(w) \/ ReviewStep(w) \/ MoveStep(w) \/ Crash(w)
            /\ Account(w)

Spec == Init /\ [][Next]_vars

-----------------------------------------------------------------------------
(* Properties.                                                             *)

TypeOK ==
    /\ chain \subseteq Steps
    /\ app \in [status : Stages \cup Terminal, rejectedFrom : Stages \cup Statuses \cup {None}]
    /\ offer \in [Offers -> OfferRows]
    /\ step \in [Offers -> [Steps -> {"none", "pending", "approved", "rejected"}]]
    /\ handed \in [Offers -> 0 .. 2]
    /\ job \in [Workers -> Jobs]
    /\ missed \subseteq Workers
    /\ raced \subseteq Offers

\* An offer's state as SequentialApproval sees it.
Phase(s) ==
    CASE s = "none" -> "none"
      [] s = "pending_approval" -> "review"
      [] s = "revising" -> "revision"
      [] s \in {"on_hold", "cancelled"} -> "closed"
      [] s = "sent_to_darwinbox" -> "sent"

LostView == [phase |-> "lost", needed |-> 0, given |-> 0]
View(o) == [phase  |-> Phase(offer[o].status),
            needed |-> Cardinality(Rows(o)),
            given  |-> Cardinality(Approved(o))]
Seen == [o \in Offers |-> IF o \in raced THEN LostView ELSE View(o)]

Chain == INSTANCE SequentialApproval WITH offers <- Seen

\* The approval flow the head of offers_api.py describes, of any number of handlers, as
\* long as none of them writes to the offer on stale ground.
FollowsTheChain == Chain!Spec

\* An approval is given in its turn: every step before an approved one is approved,
\* unless a handler wrote to the offer on stale ground (approve_offer).
ApprovedInOrder ==
    \A o \in Offers \ raced :
        \A k \in Approved(o) : \A n \in Rows(o) : n < k => n \in Approved(o)

\* The approvals of a submission are all for the terms the offer has, sent or not
\* ("Only allowed when status='revising'", edit_offer), unless a handler wrote to the
\* offer on stale ground.
ApprovedTermsStand ==
    \A o \in Offers \ raced : offer[o].status \in {"pending_approval", "sent_to_darwinbox"} =>
                                  offer[o].agreed \subseteq {offer[o].terms}

\* Darwinbox gets an offer once, and before the offer says so, even if the process
\* dies between the two, unless a handler wrote to the offer on stale ground.
HandedOverOnce ==
    \A o \in Offers \ raced :
        handed[o] <= 1 /\ (offer[o].status = "sent_to_darwinbox" => handed[o] = 1)

=============================================================================

------------------------------ MODULE HiringPlan ------------------------------
(***************************************************************************)
(* Requisitions and the hiring plan (hiring_plan_api.py, hm_api.py's       *)
(* approval, pipeline_api.py's creation and status of requisitions).  A    *)
(* plan row that is linked to a requisition follows its applications: an   *)
(* offer writes the candidate into the row, and a rejection or a hold      *)
(* after the offer reopens it.  Planners edit the rows by hand meanwhile.  *)
(*                                                                         *)
(* Two requisitions may be created, from a form or from a plan row.  The   *)
(* number in a requisition's code is in RequisitionCode.                   *)
(***************************************************************************)
EXTENDS Naturals, FiniteSets

CONSTANTS
    Reqs,     \* requisitions
    PlanRows, \* ids of hiring_plan_rows
    Apps,     \* applications, each to its requisition
    ReqOf,    \* [Apps -> Reqs]
    Syncs,    \* handlers in sync_plan_on_advance
    None

PlanAssumption == ReqOf \in [Apps -> Reqs] /\ None \notin Reqs \cup Apps

VARIABLES
    req,     \* per requisition: approval_status and status
    plan,    \* per row: its link, hiring_status and candidate
    app,     \* per application: how far it is, for the plan
    sync,    \* per handler: the sync it is in the middle of
    deciding, \* per requisition: the decisions TA managers are about to write
    making,  \* rows whose requisition is created but not linked yet
    byHand   \* ghost: rows whose status a planner was the last to set

vars == <<req, plan, app, sync, deciding, making, byHand>>

-----------------------------------------------------------------------------
Statuses == {"Open Position", "Offered", "Hold"}   \* "Hold" for every status only planners set
Links == {"unlinked", "suggested", "confirmed"}

NoRow == [is |-> FALSE, req |-> None, link |-> "unlinked", status |-> "Open Position", who |-> None]
NoReq == [approval |-> "none", status |-> "none"]
NoSync == [pc |-> "idle", app |-> None, to |-> "none", row |-> None]

Existing == {q \in Reqs : req[q].approval # "none"}
Open == {q \in Existing : req[q].status = "open"}

Init ==
    /\ req = [q \in Reqs |-> NoReq]
    /\ plan = [r \in PlanRows |-> NoRow]
    /\ app = [a \in Apps |-> "none"]
    /\ sync = [h \in Syncs |-> NoSync]
    /\ deciding = [q \in Reqs |-> {}]
    /\ making = [r \in PlanRows |-> None]
    /\ byHand = {}

-----------------------------------------------------------------------------
(* Requisitions. *)

\* create_requisition: a hiring manager's waits for approval.
CreateRequisition(q) ==
    /\ req[q] = NoReq
    /\ \E approval \in {"pending_ta_approval", "approved"} :
          req' = [req EXCEPT ![q] = [approval |-> approval, status |-> "open"]]
    /\ UNCHANGED <<plan, app, sync, making, byHand, deciding>>

\* ta_approve_requisition and ta_reject_requisition: the status is read, and the decision is
\* written later, whatever somebody else has decided.
TaRead(q, d) ==
    /\ req[q].approval = "pending_ta_approval" /\ d \notin deciding[q]
    /\ deciding' = [deciding EXCEPT ![q] = @ \cup {d}]
    /\ UNCHANGED <<req, plan, app, sync, making, byHand>>

TaDecision(d) == [approval |-> d, status |-> IF d = "approved" THEN "open" ELSE "closed"]

TaWrite(q, d) ==
    /\ d \in deciding[q]
    /\ deciding' = [deciding EXCEPT ![q] = @ \ {d}]
    /\ req' = [req EXCEPT ![q] = TaDecision(d)]
    /\ UNCHANGED <<plan, app, sync, making, byHand>>

\* change_req_status: any status, whatever the approval.
ChangeReqStatus(q) ==
    /\ q \in Existing
    /\ \E s \in {"open", "on_hold", "closed", "cancelled"} \ {req[q].status} :
          req' = [req EXCEPT ![q].status = s]
    /\ UNCHANGED <<plan, app, sync, making, byHand, deciding>>

\* create_req_from_plan: the requisition is inserted, without asking whether the row has one.
CreateReqFromPlan(r, q) ==
    /\ plan[r].is /\ making[r] = None /\ req[q] = NoReq
    /\ req' = [req EXCEPT ![q] = [approval |-> "approved", status |-> "open"]]
    /\ making' = [making EXCEPT ![r] = q]
    /\ UNCHANGED <<plan, app, sync, byHand, deciding>>

\* The row is linked in a statement of its own, unless the handler has died.
LinkPlanRow(r) ==
    /\ making[r] # None
    /\ \/ plan' = IF plan[r].is
                  THEN [plan EXCEPT ![r].req = making[r], ![r].link = "confirmed"] ELSE plan
       \/ UNCHANGED plan
    /\ making' = [making EXCEPT ![r] = None]
    /\ UNCHANGED <<req, app, sync, byHand, deciding>>

-----------------------------------------------------------------------------
(* The plan, by hand. *)

\* A row is created or overwritten as a whole; a link to no requisition is dropped.
ByHand(r) ==
    /\ \E q \in Existing \cup {None}, link \in Links, s \in Statuses :
          /\ q = None => link = "unlinked"
          /\ plan' = [plan EXCEPT ![r] = [is |-> TRUE, req |-> q, link |-> link, status |-> s,
                                          who |-> None]]
    /\ byHand' = byHand \cup {r}
    /\ UNCHANGED <<req, app, sync, making, deciding>>

\* A new row has an id no handler holds.
Free(r) == ~plan[r].is /\ making[r] = None /\ \A h \in Syncs : sync[h].row # r

CreateRow(r) == Free(r) /\ ByHand(r)
UpdateRow(r) == plan[r].is /\ ByHand(r)

DeleteRow(r) ==
    /\ plan[r].is
    /\ plan' = [plan EXCEPT ![r] = NoRow]
    /\ byHand' = byHand \ {r}
    /\ UNCHANGED <<req, app, sync, making, deciding>>

\* A line of the sheet becomes a row: confirmed if it names an open requisition, suggested if
\* only the title fits one.
ImportRow(r) ==
    /\ Free(r)
    /\ \E s \in Statuses :
          \/ \E q \in Open, link \in {"suggested", "confirmed"} :
                plan' = [plan EXCEPT ![r] = [is |-> TRUE, req |-> q, link |-> link, status |-> s,
                                             who |-> None]]
          \/ plan' = [plan EXCEPT ![r] = [NoRow EXCEPT !.is = TRUE, !.status = s]]
    /\ byHand' = byHand \cup {r}
    /\ UNCHANGED <<req, app, sync, making, deciding>>

-----------------------------------------------------------------------------
(* The plan follows the pipeline (ApplicationPipeline has the moves). *)

Moves(h, a, to, synced) ==
    /\ sync[h] = NoSync
    /\ app' = [app EXCEPT ![a] = to]
    /\ sync' = IF synced THEN [sync EXCEPT ![h] = [pc |-> "find", app |-> a, to |-> to, row |-> None]]
               ELSE sync
    /\ UNCHANGED <<req, plan, making, byHand, deciding>>

\* People apply to an approved requisition.
Apply(h, a) ==
    /\ app[a] = "none" /\ req[ReqOf[a]].approval = "approved"
    /\ Moves(h, a, "earlier", FALSE)

Offered(h, a) == app[a] = "earlier" /\ Moves(h, a, "offered", TRUE)
LeavesOffer(h, a) == app[a] = "offered" /\ \E to \in {"rejected", "on_hold"} : Moves(h, a, to, TRUE)

\* revert_application_stage and record_screen_decision do not call the sync.
Reverts(h, a) == app[a] \in {"offered", "rejected"} /\ Moves(h, a, "earlier", FALSE)

\* The first row that is confirmed for the requisition.
FindRow(h) ==
    /\ sync[h].pc = "find"
    /\ LET linked == {r \in PlanRows : /\ plan[r].is /\ plan[r].link = "confirmed"
                                       /\ plan[r].req = ReqOf[sync[h].app]}
       IN  IF linked = {} THEN sync' = [sync EXCEPT ![h] = NoSync]
           ELSE \E r \in linked : sync' = [sync EXCEPT ![h].pc = "write", ![h].row = r]
    /\ UNCHANGED <<req, plan, app, making, byHand, deciding>>

WriteOffered(h) ==
    /\ sync[h].pc = "write" /\ sync[h].to = "offered"
    /\ plan' = IF plan[sync[h].row].is
               THEN [plan EXCEPT ![sync[h].row].status = "Offered", ![sync[h].row].who = sync[h].app]
               ELSE plan
    /\ byHand' = byHand \ {sync[h].row}
    /\ sync' = [sync EXCEPT ![h] = NoSync]
    /\ UNCHANGED <<req, app, making, deciding>>

\* Mutant for HandWrittenStands: whether the row shows the offer is not asked in the UPDATE.
ReopenAnyway(h) ==
    /\ sync[h].pc = "write" /\ sync[h].to # "offered"
    /\ plan' = IF plan[sync[h].row].is
               THEN [plan EXCEPT ![sync[h].row].status = "Open Position", ![sync[h].row].who = None]
               ELSE plan
    /\ byHand' = byHand \ {sync[h].row}
    /\ sync' = [sync EXCEPT ![h] = NoSync]
    /\ UNCHANGED <<req, app, making, deciding>>

\* Reopened only if the row still shows an offer, which the UPDATE itself asks.
Reopen(h) ==
    /\ sync[h].pc = "write" /\ sync[h].to # "offered"
    /\ LET r == sync[h].row
       IN  IF plan[r].is /\ plan[r].status = "Offered"
           THEN /\ plan' = [plan EXCEPT ![r].status = "Open Position", ![r].who = None]
                /\ byHand' = byHand \ {r}
           ELSE UNCHANGED <<plan, byHand>>
    /\ sync' = [sync EXCEPT ![h] = NoSync]
    /\ UNCHANGED <<req, app, making, deciding>>

\* The sync fails or its process dies; its errors are swallowed.
SyncFails(h) ==
    /\ sync[h] # NoSync
    /\ sync' = [sync EXCEPT ![h] = NoSync]
    /\ UNCHANGED <<req, plan, app, making, byHand, deciding>>

-----------------------------------------------------------------------------
Next ==
    \/ \E q \in Reqs : CreateRequisition(q) \/ ChangeReqStatus(q)
    \/ \E q \in Reqs, d \in {"approved", "rejected"} : TaRead(q, d) \/ TaWrite(q, d)
    \/ \E r \in PlanRows :
          \/ CreateRow(r) \/ UpdateRow(r) \/ DeleteRow(r) \/ ImportRow(r) \/ LinkPlanRow(r)
          \/ \E q \in Reqs : CreateReqFromPlan(r, q)
    \/ \E h \in Syncs :
          \/ FindRow(h) \/ WriteOffered(h) \/ Reopen(h) \/ SyncFails(h)
          \/ \E a \in Apps : Apply(h, a) \/ Offered(h, a) \/ LeavesOffer(h, a) \/ Reverts(h, a)

Spec == Init /\ [][Next]_vars

-----------------------------------------------------------------------------
\* What a planner has written by hand other than "Offered" stands until a planner or a new
\* offer changes it: a rejection that found the row before the planner wrote it does not
\* reopen it ("Revert to Open Position only if still showing Offered").
HandWrittenStands ==
    [][\A r \in PlanRows :
          r \in byHand /\ plan[r].is /\ plan[r].status = "Hold" /\ plan'[r].status # "Hold" =>
              r \in byHand' \/ ~plan'[r].is \/ plan'[r].status = "Offered"]_vars
=============================================================================

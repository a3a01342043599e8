--------------------------- MODULE VendorResults ---------------------------
(***************************************************************************)
(* What outside vendors report on one joiner: the background check         *)
(* (routers/bgv_api.py, services/bgv_connectors.py) and the push of the    *)
(* employee to the HRMS (routers/hrms_api.py, services/hrms_connectors.py).*)
(* Both call the vendor, store the reference it answers with, and from     *)
(* then on match its webhooks by that reference.  The vendors are external:*)
(* they may fail, answer late, send a message twice or out of order.       *)
(*                                                                         *)
(* Every statement commits by itself; a worker may die at any step.        *)
(***************************************************************************)
EXTENDS Naturals, Sequences, FiniteSets

CONSTANTS
    Workers,    \* concurrent handlers
    Checks,     \* the check types asked for
    MaxSyncs,   \* bound: hrms_sync rows of the joiner
    MaxReports  \* bound: messages of the vendors

SyncAssumption == MaxSyncs \in Nat
ReportAssumption == MaxReports \in Nat

None == "none"
CheckStatuses == {"pending", "in_progress", "flagged", "approved", "rejected"}
SyncReports == {"pending", "in_progress", "success", "failed"}
Verdicts == {"success", "failed"}

VARIABLES
    bgv,      \* the bgv_case: overall_status, whether external_ref is stored
    check,    \* status of its bgv_check rows, None where there is none
    sync,     \* hrms_sync rows: status, external_ref, whether the last verdict is the vendor's
    reports,  \* messages the vendors have sent
    job       \* the handler a worker is in the middle of

vars == <<bgv, check, sync, reports, job>>

Idle == [op |-> "idle"]
Is(w, o) == job[w].op = o
Go(w, j) == job' = [job EXCEPT ![w] = j]

Init ==
    /\ bgv = [made |-> FALSE, overall |-> "pending", ref |-> FALSE]
    /\ check = [c \in Checks |-> None]
    /\ sync = <<>>
    /\ reports = 0
    /\ job = [w \in Workers |-> Idle]

-----------------------------------------------------------------------------
\* initiate_bgv_case: the case, its checks one after the other, the vendor, and what it answers.
InsertCase(w) ==
    /\ Is(w, "idle") /\ ~bgv.made
    /\ bgv' = [bgv EXCEPT !.made = TRUE]
    /\ Go(w, [op |-> "checks", left |-> Checks])
    /\ UNCHANGED <<check, sync, reports>>

InsertCheck(w) ==
    /\ Is(w, "checks")
    /\ \E c \in job[w].left : LET left == job[w].left \ {c} IN
        /\ check' = [check EXCEPT ![c] = "pending"]
        /\ Go(w, IF left = {} THEN [op |-> "vendor"] ELSE [op |-> "checks", left |-> left])
    /\ UNCHANGED <<bgv, sync, reports>>

\* The vendor refuses or is out of reach (502) ...
VendorRefuses(w) == Is(w, "vendor") /\ Go(w, Idle) /\ UNCHANGED <<bgv, check, sync, reports>>

\* ... or answers; 'in_progress' is written over whatever the checks made of the status.
StoreCaseRef(w) ==
    /\ Is(w, "vendor")
    /\ bgv' = [bgv EXCEPT !.ref = TRUE, !.overall = "in_progress"]
    /\ Go(w, Idle)
    /\ UNCHANGED <<check, sync, reports>>

\* patch_check, and set_candidate_bgv_status for all checks of the case at once: the rows,
\* then _recompute_case_status.
SetChecks(w) ==
    /\ Is(w, "idle") /\ bgv.made
    /\ LET rows == {c \in Checks : check[c] # None} IN
        \E s \in CheckStatuses :
            \/ \E set \in SUBSET rows :
                /\ Cardinality(set) = 1 \/ (set = rows /\ set # {})
                /\ check' = [c \in Checks |-> IF c \in set THEN s ELSE check[c]]
                /\ Go(w, [op |-> "derive"])
                /\ UNCHANGED bgv
            \/ \* a case without checks takes the status itself
                /\ rows = {} /\ bgv' = [bgv EXCEPT !.overall = s]
                /\ UNCHANGED <<check, job>>
    /\ UNCHANGED <<sync, reports>>

\* bgv_webhook: the case is found by the stored reference (404 before), the reported checks are
\* updated, the status is derived.  parse_bgv_webhook maps what it does not know to in_progress.
BgvWebhook(w) ==
    /\ Is(w, "idle") /\ bgv.ref /\ reports < MaxReports
    /\ \E c \in Checks, s \in CheckStatuses :
        check' = [check EXCEPT ![c] = IF @ = None THEN None ELSE s]
    /\ reports' = reports + 1
    /\ Go(w, [op |-> "derive"])
    /\ UNCHANGED <<bgv, sync>>

Derived ==
    LET found == {check[c] : c \in Checks} \ {None} IN
    IF found = {} THEN "pending"
    ELSE IF "rejected" \in found THEN "rejected"
    ELSE IF "flagged" \in found THEN "flagged"
    ELSE IF Cardinality(found) = 1 /\ found \subseteq {"approved", "pending"}
        THEN CHOOSE s \in found : TRUE
    ELSE "in_progress"

\* _recompute_case_status: read, then written.
ReadChecks(w) ==
    /\ Is(w, "derive")
    /\ Go(w, [op |-> "overall", status |-> Derived])
    /\ UNCHANGED <<bgv, check, sync, reports>>

WriteOverall(w) ==
    /\ Is(w, "overall")
    /\ bgv' = [bgv EXCEPT !.overall = job[w].status]
    /\ Go(w, Idle)
    /\ UNCHANGED <<check, sync, reports>>

-----------------------------------------------------------------------------
\* sync_candidate_to_hrms: the row, without a reference ...
\* Mutant for VerdictStands: the row is matched by the employee's code, known before the call.
NewSyncWithRef == [status |-> "in_progress", ref |-> TRUE, byVendor |-> FALSE]
NewSync == [status |-> "in_progress", ref |-> FALSE, byVendor |-> FALSE]

InsertSync(w) ==
    /\ Is(w, "idle") /\ Len(sync) < MaxSyncs
    /\ sync' = Append(sync, NewSync)
    /\ Go(w, [op |-> "push", row |-> Len(sync) + 1])
    /\ UNCHANGED <<bgv, check, reports>>

\* ... the vendor, tried again while it is out of reach (_post_with_retry): a RuntimeError marks
\* the row as failed, any other error leaves it as it is (Die) ...
PushFails(w) ==
    /\ Is(w, "push")
    /\ sync' = [sync EXCEPT ![job[w].row].status = "failed"]
    /\ Go(w, Idle)
    /\ UNCHANGED <<bgv, check, reports>>

\* ... and the status and the reference it answers with, in one statement.
PushAnswered(w) ==
    /\ Is(w, "push")
    /\ sync' = [sync EXCEPT ![job[w].row].status = "in_progress", ![job[w].row].ref = TRUE]
    /\ Go(w, Idle)
    /\ UNCHANGED <<bgv, check, reports>>

\* hrms_webhook: one update of a row with the reference.  A vendor that knows the employee
\* answers every sync with the same reference, so the row may be that of another sync.
HrmsWebhook ==
    /\ reports < MaxReports
    /\ \E i \in DOMAIN sync, s \in SyncReports :
        /\ sync[i].ref
        /\ sync' = [sync EXCEPT ![i].status = s, ![i].byVendor = TRUE]
    /\ reports' = reports + 1
    /\ UNCHANGED <<bgv, check, job>>

Die(w) == ~Is(w, "idle") /\ Go(w, Idle) /\ UNCHANGED <<bgv, check, sync, reports>>

-----------------------------------------------------------------------------
Next ==
    \/ \E w \in Workers :
        \/ InsertCase(w) \/ InsertCheck(w) \/ VendorRefuses(w) \/ StoreCaseRef(w)
        \/ SetChecks(w) \/ BgvWebhook(w) \/ ReadChecks(w) \/ WriteOverall(w)
        \/ InsertSync(w) \/ PushFails(w) \/ PushAnswered(w)
        \/ Die(w)
    \/ HrmsWebhook

Spec == Init /\ [][Next]_vars

-----------------------------------------------------------------------------
\* What the HRMS said of a push stands until the HRMS says something else: however quickly its
\* webhook overtakes the handler that is still waiting for the answer to its call, the handler
\* does not write 'in_progress' or 'failed' over it (sync_candidate_to_hrms, hrms_webhook).
VerdictStands ==
    [][\A i \in DOMAIN sync :
        sync[i].byVendor /\ sync[i].status \in Verdicts /\ sync'[i].status # sync[i].status
            => reports' = reports + 1]_vars
=============================================================================

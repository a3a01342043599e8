---------------------------- MODULE Preboarding ----------------------------
(***************************************************************************)
(* The pre-boarding case of one candidate with an accepted offer: proposed *)
(* by the daily worker (services/preboarding_proposer_worker.py) or opened *)
(* by staff, then policies and assets until it is ready                    *)
(* (routers/preboarding_api.py).                                           *)
(*                                                                         *)
(* The table has no key on the candidate, so "is there one already" is a   *)
(* read of its own.  Every statement commits by itself; a worker may die   *)
(* between two.  The offer's terms, teams and notes are left out.  Nothing *)
(* in the code writes the statuses 'not_started' and 'joined'.             *)
(***************************************************************************)
EXTENDS Naturals, Sequences

CONSTANTS
    Workers,    \* concurrent handlers, and passes of the proposer
    Policies,   \* policies to acknowledge (_DEFAULT_POLICIES)
    MaxAssets   \* bound: asset_task rows

AssetAssumption == MaxAssets \in Nat

AssetStatuses == {"requested", "in_progress", "assigned", "completed", "cancelled"}
Blocking == {"requested", "in_progress"}

VARIABLES
    due,    \* the joining date is inside the window of the proposer
    cases,  \* preboarding_case rows: status, whether a human opened it, acknowledgement rows
    asset,  \* asset_task rows: their case and status
    job     \* the handler a worker is in the middle of

vars == <<due, cases, asset, job>>

Idle == [op |-> "idle"]
Is(w, o) == job[w].op = o
Go(w, j) == job' = [job EXCEPT ![w] = j]

Init ==
    /\ due = FALSE
    /\ cases = <<>>
    /\ asset = <<>>
    /\ job = [w \in Workers |-> Idle]

DateComesNear == ~due /\ due' = TRUE /\ UNCHANGED <<cases, asset, job>>

-----------------------------------------------------------------------------
\* A case, and rows of preboarding_policy_ack of each policy: waiting and acknowledged.
Case(status, human) ==
    [status |-> status, human |-> human,
     acks |-> [p \in Policies |-> [waiting |-> 0, given |-> 0]]]

Acks(c) == {p \in Policies : cases[c].acks[p].waiting + cases[c].acks[p].given > 0}

\* _propose_due_cases: the candidates without a case are read, then inserted one by one.
FindDue(w) ==
    /\ Is(w, "idle") /\ due /\ cases = <<>>
    /\ Go(w, [op |-> "propose"])
    /\ UNCHANGED <<due, cases, asset>>

Propose(w) ==
    /\ Is(w, "propose")
    /\ cases' = Append(cases, Case("proposed", FALSE))
    /\ Go(w, Idle)
    /\ UNCHANGED <<due, asset>>

\* initiate_preboarding: 409 when there is a case, whatever its status.
Initiate(w) ==
    /\ Is(w, "idle") /\ cases = <<>>
    /\ Go(w, [op |-> "initiate"])
    /\ UNCHANGED <<due, cases, asset>>

OpenCase(w) ==
    /\ Is(w, "initiate")
    /\ cases' = Append(cases, Case("in_progress", TRUE))
    /\ Go(w, [op |-> "seed", of |-> Len(cases) + 1])
    /\ UNCHANGED <<due, asset>>

\* confirm_preboarding: the newest case, when it is still only proposed.
Confirm(w) ==
    /\ Is(w, "idle") /\ cases # <<>> /\ cases[Len(cases)].status = "proposed"
    /\ Go(w, [op |-> "confirm", of |-> Len(cases)])
    /\ UNCHANGED <<due, cases, asset>>

ConfirmCase(w) ==
    /\ Is(w, "confirm")
    /\ LET c == job[w].of IN
        /\ cases' = [cases EXCEPT ![c].status = "in_progress", ![c].human = TRUE]
        /\ Go(w, [op |-> "seed", of |-> c])
    /\ UNCHANGED <<due, asset>>

\* _seed_policy_acks: not when the case has some already; else one after the other.
Seed(w) ==
    /\ Is(w, "seed")
    /\ Go(w, IF Acks(job[w].of) # {} THEN Idle
             ELSE [op |-> "ack", of |-> job[w].of, left |-> Policies])
    /\ UNCHANGED <<due, cases, asset>>

SeedAck(w) ==
    /\ Is(w, "ack")
    /\ \E p \in job[w].left : LET left == job[w].left \ {p} IN
        /\ cases' = [cases EXCEPT ![job[w].of].acks[p].waiting = @ + 1]
        /\ Go(w, IF left = {} THEN Idle ELSE [op |-> "ack", of |-> job[w].of, left |-> left])
    /\ UNCHANGED <<due, asset>>

-----------------------------------------------------------------------------
\* request_assets: for the newest case, whatever its status.
RequestAsset ==
    /\ cases # <<>> /\ Len(asset) < MaxAssets
    /\ asset' = Append(asset, [of |-> Len(cases), status |-> "requested"])
    /\ UNCHANGED <<due, cases, job>>

\* patch_asset_task, then _maybe_mark_ready.
PatchAsset(w) ==
    /\ Is(w, "idle")
    /\ \E a \in DOMAIN asset, s \in AssetStatuses :
        /\ asset' = [asset EXCEPT ![a].status = s]
        /\ Go(w, [op |-> "ready?", of |-> asset[a].of])
    /\ UNCHANGED <<due, cases>>

\* portal_acknowledge_policy: some row of the policy of the newest case, then _maybe_mark_ready.
Acknowledge(w) ==
    /\ Is(w, "idle") /\ cases # <<>>
    /\ LET c == Len(cases) IN
        /\ \E p \in Acks(c) : LET rows == cases[c].acks[p] IN
            \/ /\ rows.waiting > 0
               /\ cases' = [cases EXCEPT ![c].acks[p] =
                                [waiting |-> rows.waiting - 1, given |-> rows.given + 1]]
            \/ rows.given > 0 /\ UNCHANGED cases
        /\ Go(w, [op |-> "ready?", of |-> c])
    /\ UNCHANGED <<due, asset>>

\* What the children of a case make of it.  A case without acknowledgements counts as
\* acknowledged.
Computed(c) ==
    IF /\ \A p \in Policies : cases[c].acks[p].waiting = 0
       /\ \A a \in DOMAIN asset : asset[a].of = c => asset[a].status \notin Blocking
    THEN "ready" ELSE "in_progress"

\* _maybe_mark_ready: read, and written when it differs from the status read.
ReadChildren(w) ==
    /\ Is(w, "ready?")
    /\ LET c == job[w].of IN
        Go(w, IF Computed(c) = cases[c].status THEN Idle
              ELSE [op |-> "mark", of |-> c, status |-> Computed(c)])
    /\ UNCHANGED <<due, cases, asset>>

MarkCase(w) ==
    /\ Is(w, "mark")
    /\ cases' = [cases EXCEPT ![job[w].of].status = job[w].status]
    /\ Go(w, Idle)
    /\ UNCHANGED <<due, asset>>

Die(w) == ~Is(w, "idle") /\ Go(w, Idle) /\ UNCHANGED <<due, cases, asset>>

-----------------------------------------------------------------------------
Next ==
    \/ DateComesNear \/ RequestAsset
    \/ \E w \in Workers :
        \/ FindDue(w) \/ Propose(w) \/ Initiate(w) \/ OpenCase(w)
        \/ Confirm(w) \/ ConfirmCase(w) \/ Seed(w) \/ SeedAck(w)
        \/ PatchAsset(w) \/ Acknowledge(w) \/ ReadChildren(w) \/ MarkCase(w)
        \/ Die(w)

Spec == Init /\ [][Next]_vars

-----------------------------------------------------------------------------
\* "Proposing only ... a human confirms" (preboarding_proposer_worker.py): a case the worker
\* proposed becomes ready only after somebody confirmed it.
ReadyMeansConfirmed ==
    \A c \in DOMAIN cases : cases[c].status = "ready" => cases[c].human
=============================================================================

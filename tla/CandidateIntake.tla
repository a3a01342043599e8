---------------------------- MODULE CandidateIntake ----------------------------
(***************************************************************************)
(* The doors through which people come to be applicants of a requisition:  *)
(* the career site (apply, apply_upload), a vendor's submission, one-click *)
(* apply in the candidate portal, a campus drive's bulk invite, and        *)
(* mapping a CV of the repository, linked to a candidate already or not.   *)
(* Each finds or creates the candidate, if it has none yet, and then the   *)
(* application; all but the last know the current employer and ask the     *)
(* no-poach list about it, which HRBPs keep meanwhile.  The list is one    *)
(* tenant's and one company's, and everybody here works there.             *)
(*                                                                         *)
(* A step is a query with what is decided on it; nothing is in a           *)
(* transaction.  Two unique keys: the candidate's email, and requisition   *)
(* and candidate of an application.                                        *)
(***************************************************************************)
EXTENDS Naturals, FiniteSets

CONSTANTS
    None,
    Requests,        \* requests that bring somebody in
    Emails, Phones   \* what forms are filled in with; a candidate is known by the email

IntakeAssumption == None \notin Phones

VARIABLES
    listed,     \* no_poach_company: None (not on the list, or inactive), "past" or "current"
    cand,       \* per email: the candidate's phone, or None
    app,        \* per email: the candidate's application to the requisition, or None
    req,        \* what each request is doing
    throughout  \* ghost: requests during which the company has been 'current' all the time

vars == <<listed, cand, app, req, throughout>>

-----------------------------------------------------------------------------
(* Each door's queries, in the order its handler makes them. *)
Career == <<"ask", "find", "intake", "upsert", "flag">>
Upload == <<"ask", "find", "intake", "upsert", "flag">>
Vendor == <<"ask", "find", "intake", "upsert", "flag">>
Portal == <<"applied", "ask", "intake", "upsert", "flag">>
Campus == <<"ask", "find", "insert">>
Repository == <<"find", "intake", "upsert", "flag">>

Path == [career |-> Career, upload |-> Upload, vendor |-> Vendor, portal |-> Portal,
         campus |-> Campus, repository |-> Repository]
Doors == DOMAIN Path
\* The repository's CV comes without an employer.
Collects(door) == door # "repository"
Idle == [pc |-> "idle", door |-> None, email |-> None, phone |-> None]

Init ==
    /\ listed \in {None, "past", "current"}
    /\ cand = [e \in Emails |-> None]
    /\ app = [e \in Emails |-> None]
    /\ req = [r \in Requests |-> Idle]
    /\ throughout = {}

At(r, pc) == req[r].pc = pc
Go(r, pc) == req' = [req EXCEPT ![r].pc = pc]
Ends(r) == req' = [req EXCEPT ![r] = Idle]
\* The query after this one; creating a candidate is part of finding one.
Following(r) ==
    LET path == Path[req[r].door]
        k == CHOOSE j \in DOMAIN path : path[j] = IF At(r, "create") THEN "find" ELSE req[r].pc
    IN  path[k + 1]

\* The first query; a CV of the repository that is linked to its candidate goes straight on.
First(door, e) ==
    {Path[door][1]} \cup IF door = "repository" /\ cand[e] # None THEN {"intake"} ELSE {}

Begin(r, door, e, p) ==
    /\ At(r, "idle") /\ (door = "portal" => cand[e] # None)
    /\ \E pc \in First(door, e) :
          req' = [req EXCEPT ![r] =
                     [pc |-> pc, door |-> door, email |-> e,
                      phone |-> IF door = "portal" THEN None ELSE p]]
    /\ throughout' = IF listed = "current" THEN throughout \cup {r} ELSE throughout \ {r}
    /\ UNCHANGED <<listed, cand, app>>

-----------------------------------------------------------------------------
(* The list (no_poach_api): added, edited, uploaded, acted on in bulk, deleted. *)
List(status) ==
    /\ listed # status /\ listed' = status
    /\ throughout' = IF status = "current" THEN throughout ELSE {}
    /\ UNCHANGED <<cand, app, req>>

-----------------------------------------------------------------------------
(* The gate. *)

\* portal_apply answers who has applied before with that application.
AppliedBefore(r) ==
    /\ At(r, "applied")
    /\ IF app[req[r].email] # None THEN Ends(r) ELSE Go(r, Following(r))
    /\ UNCHANGED <<listed, cand, app, throughout>>

\* Mutant for BlockHolds: the portal does not ask.
AskSomeDoors(r) ==
    /\ At(r, "ask")
    /\ IF listed = "current" /\ req[r].door # "portal" THEN Ends(r)
       ELSE Go(r, IF req[r].door = "portal" THEN "upsert" ELSE "find")
    /\ UNCHANGED <<listed, cand, app, throughout>>

\* _check_no_poach_block: 'current' turns a request away, except that the portal keeps the
\* application, rejected.
Ask(r) ==
    /\ At(r, "ask")
    /\ IF listed = "current" THEN IF req[r].door = "portal" THEN Go(r, "reject") ELSE Ends(r)
       ELSE Go(r, Following(r))
    /\ UNCHANGED <<listed, cand, app, throughout>>

\* An INSERT with nothing to fall back on: it fails when there is an application by now.
Reject(r) ==
    /\ At(r, "reject") /\ app[req[r].email] = None
    /\ app' = [app EXCEPT ![req[r].email] =
                  [status |-> "rejected", flag |-> None, under |-> None]]
    /\ Ends(r)
    /\ UNCHANGED <<listed, cand, throughout>>

-----------------------------------------------------------------------------
(* The candidate (candidate_dedup; bulk_invite looks at the email only). *)

Existing(r) ==
    LET byPhone == {e \in Emails : cand[e] = req[r].phone}
    IN  IF cand[req[r].email] # None THEN {req[r].email}
        ELSE IF req[r].door = "campus" THEN {} ELSE byPhone

\* A candidate who has applied is refused as a duplicate; to a campus drive the application is
\* there already, and the invite goes on from it.
Find(r) ==
    /\ At(r, "find")
    /\ IF Existing(r) = {} THEN Go(r, "create")
       ELSE \E e \in Existing(r) :
              IF app[e] # None THEN Ends(r)
              ELSE req' = [req EXCEPT ![r].email = e,
                                      ![r].pc = Following(r)]
    /\ UNCHANGED <<listed, cand, app, throughout>>

Create(r) ==
    /\ At(r, "create")
    /\ IF cand[req[r].email] = None
       THEN cand' = [cand EXCEPT ![req[r].email] = req[r].phone] /\
            Go(r, Following(r))
       ELSE \* taken by now: campus reads it again, to the others it is an error
            IF req[r].door = "campus" THEN UNCHANGED cand /\ Go(r, "find")
            ELSE UNCHANGED cand /\ Ends(r)
    /\ UNCHANGED <<listed, app, throughout>>

-----------------------------------------------------------------------------
(* intake_and_screen. *)

\* The list is asked again, before the CV is scored.
AskAgain(r) ==
    /\ At(r, "intake")
    /\ IF Collects(req[r].door) /\ listed = "current" THEN Ends(r) ELSE Go(r, "upsert")
    /\ UNCHANGED <<listed, cand, app, throughout>>

\* under is a ghost: the door of a request during which the company was 'current' throughout.
New(r, status) ==
    [status |-> status, flag |-> None,
     under |-> IF r \in throughout THEN req[r].door ELSE None]

\* Mutant for StatusStands: the upsert sets the status of an application that is there.
UpsertStatus(r) ==
    /\ At(r, "upsert")
    /\ LET e == req[r].email
       IN  app' = [app EXCEPT ![e] = IF @ = None THEN New(r, "screen")
                                         ELSE [@ EXCEPT !.status = "screen"]]
    /\ Go(r, "flag")
    /\ UNCHANGED <<listed, cand, throughout>>

\* ON CONFLICT DO UPDATE: of an application that is there only the scores are set.
Upsert(r) ==
    /\ At(r, "upsert")
    /\ LET e == req[r].email
       IN  app' = [app EXCEPT ![e] = IF @ = None THEN New(r, "screen") ELSE @]
    /\ Go(r, "flag")
    /\ UNCHANGED <<listed, cand, throughout>>

\* _flag_no_poach_and_rehire, for the signals that do not block.
Flag(r) ==
    /\ At(r, "flag")
    /\ app' = IF Collects(req[r].door) /\ listed # None
              THEN [app EXCEPT ![req[r].email].flag = listed] ELSE app
    /\ Ends(r)
    /\ UNCHANGED <<listed, cand, throughout>>

-----------------------------------------------------------------------------
\* bulk_invite's INSERT, which fails when there is an application by now.
InsertCampus(r) ==
    /\ At(r, "insert") /\ app[req[r].email] = None
    /\ app' = [app EXCEPT ![req[r].email] = New(r, "enteri_ai_bot")]
    /\ Ends(r)
    /\ UNCHANGED <<listed, cand, throughout>>

\* A query fails, a unique key refuses an INSERT, the process dies: what is done is done.
Fails(r) ==
    /\ req[r].pc # "idle" /\ Ends(r)
    /\ UNCHANGED <<listed, cand, app, throughout>>

\* Recruiters decide on an application.
Decide(e) ==
    /\ app[e] # None /\ app[e].status # "rejected"
    /\ app' = [app EXCEPT ![e].status = "rejected"]
    /\ UNCHANGED <<listed, cand, req, throughout>>

Next ==
    \/ \E r \in Requests :
        \/ AppliedBefore(r) \/ Ask(r) \/ Reject(r) \/ Find(r) \/ Create(r) \/ AskAgain(r)
        \/ Upsert(r) \/ Flag(r) \/ InsertCampus(r) \/ Fails(r)
        \/ \E door \in Doors, e \in Emails, p \in Phones : Begin(r, door, e, p)
    \/ \E status \in {None, "past", "current"} : List(status)
    \/ \E e \in Emails : Decide(e)

Spec == Init /\ [][Next]_vars

-----------------------------------------------------------------------------
\* The hard gate of no-poach: while the company is on the list as 'current', no request that
\* began and ended under it has put anybody who works there into the pipeline, except through
\* the repository's door, which names no employer.
BlockHolds ==
    \A e \in Emails : app[e] # None => app[e].under \in {None, "repository"}

\* No intake moves an application that is there: whatever came between its look for duplicates
\* and its upsert, the status, a rejection above all, is what the recruiters made it.
StatusStands ==
    [][\A e \in Emails : app[e] # None /\ req' # req => app'[e].status = app[e].status]_vars
=============================================================================

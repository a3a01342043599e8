------------------------------ MODULE MCOffice ------------------------------
(***************************************************************************)
(* One run for the office around the hiring: the documents of a joiner     *)
(* (CandidateDocuments), the way to the employee record (Preboarding,      *)
(* Onboarding), what the vendors report (VendorResults) and, by Identity's *)
(* own names, the staff's accounts.  A behaviour moves one of them, fixed  *)
(* at the start.                                                           *)
(***************************************************************************)
EXTENDS Identity, Sequences, FiniteSets, TLC

CONSTANTS
    Parts,  \* the parts this run moves
    Workers,
    DocTypes, MaxRequests, MaxReviews,
    Policies, MaxAssets,
    Tasks, MaxCode,
    Checks, MaxSyncs, MaxReports

VARIABLES
    part,  \* the part that moves
    wanted, docs, reviews, clerk,
    due, cases, asset, job,
    ready, board, staff, codes, host,
    bgv, check, sync, reports, agent

D == INSTANCE CandidateDocuments WITH Types <- DocTypes, request <- wanted, job <- clerk
P == INSTANCE Preboarding
O == INSTANCE Onboarding WITH job <- host
V == INSTANCE VendorResults WITH job <- agent

\* What the modules assume of their constants.
ASSUME
    /\ D!RequestAssumption
    /\ D!ReviewAssumption
    /\ P!AssetAssumption
    /\ O!CodeAssumption
    /\ V!SyncAssumption
    /\ V!ReportAssumption

dVars == <<wanted, docs, reviews, clerk>>
pVars == <<due, cases, asset, job>>
oVars == <<ready, board, staff, codes, host>>
vVars == <<bgv, check, sync, reports, agent>>
allVars == <<part, dVars, pVars, oVars, vVars, vars>>

OfficeInit == part \in Parts /\ D!Init /\ P!Init /\ O!Init /\ V!Init /\ Init

OfficeNext ==
    \/ part = "documents" /\ D!Next /\ UNCHANGED <<part, pVars, oVars, vVars, vars>>
    \/ part = "preboarding" /\ P!Next /\ UNCHANGED <<part, dVars, oVars, vVars, vars>>
    \/ part = "onboarding" /\ O!Next /\ UNCHANGED <<part, dVars, pVars, vVars, vars>>
    \/ part = "vendors" /\ V!Next /\ UNCHANGED <<part, dVars, pVars, oVars, vars>>
    \/ part = "identity" /\ Next /\ UNCHANGED <<part, dVars, pVars, oVars, vVars>>

OfficeSpec == OfficeInit /\ [][OfficeNext]_allVars

\* Handlers, tokens and document types are interchangeable.
Symmetry == Permutations(Workers) \cup Permutations(Sessions) \cup Permutations(DocTypes)

-----------------------------------------------------------------------------
\* For every type a complete request asks for a file came in, or HR settled it by hand
\* (CandidateDocuments).
CompleteIsEarned == D!CompleteIsEarned
\* What the HRMS said of a push stands until it says something else (VendorResults).
VerdictStands == V!VerdictStands
\* A proposed case becomes ready only after somebody confirmed it (Preboarding).
ReadyMeansConfirmed == P!ReadyMeansConfirmed
=============================================================================

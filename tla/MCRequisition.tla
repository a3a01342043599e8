---------------------------- MODULE MCRequisition ----------------------------
(***************************************************************************)
(* One run for the hiring team's side: the rounds of a requisition under   *)
(* edit (RoundEdit), the plan that follows the requisitions (HiringPlan)   *)
(* and their codes (RequisitionCode).  A behaviour moves one of them,      *)
(* fixed at Init.                                                          *)
(***************************************************************************)
EXTENDS Integers, TLC

CONSTANTS
    None, New,
    Editors, Rounds, Numbers, MaxRounds, MaxEdits,
    Reqs, PlanRows, Apps, ReqOf, Syncs,
    Creators, Old, MaxCode

VARIABLES
    part,  \* the module that moves
    seq, booked, made, edits, job,
    req, plan, app, sync, deciding, making, byHand,
    codes, creator, others

\* A value of ReqOf: the applications compete for one requisition.
Competing == [a \in Apps |-> CHOOSE q \in Reqs : TRUE]

\* A value of Numbers: two that fit, and one that a negated number may have.
SomeNumbers == {-2, 1, 2}

R == INSTANCE RoundEdit
P == INSTANCE HiringPlan
C == INSTANCE RequisitionCode

\* What the modules assume of their constants.
ASSUME RequisitionConstants ==
    /\ R!RoundAssumption
    /\ P!PlanAssumption
    /\ C!CodeAssumption

rVars == <<seq, booked, made, edits, job>>
pVars == <<req, plan, app, sync, deciding, making, byHand>>
cVars == <<codes, creator, others>>
vars == <<part, rVars, pVars, cVars>>

Init ==
    /\ part \in {"rounds", "plan", "codes"}
    /\ R!Init /\ P!Init /\ C!Init

Next ==
    \/ part = "rounds" /\ R!Next /\ UNCHANGED <<part, pVars, cVars>>
    \/ part = "plan" /\ P!Next /\ UNCHANGED <<part, rVars, cVars>>
    \/ part = "codes" /\ C!Next /\ UNCHANGED <<part, rVars, pVars>>

Spec == Init /\ [][Next]_vars

\* Bound: of the lists in hand at one time, the numbers of one at most cannot stand together.
OneClash == \A e, f \in Editors : R!Clash(job[e]) /\ R!Clash(job[f]) => e = f

\* Editors are interchangeable, and so are the ids of rounds.
Symmetry == Permutations(Editors) \cup Permutations(Rounds)

-----------------------------------------------------------------------------
\* An undisturbed edit ends with the rounds submitted (RoundEdit).
EditIsExact == R!EditIsExact
\* What a planner wrote is not reopened by a late rejection (HiringPlan).
HandWrittenStands == P!HandWrittenStands
\* A creator gives up only after five creations of others (RequisitionCode).
GivesUpLate == C!GivesUpLate
=============================================================================

------------------------------- MODULE MCHiring -------------------------------
(***************************************************************************)
(* A candidate on the way to a job: the offers and their approval, by      *)
(* OfferApproval's own names, a panel's scorecards (PanelFeedback) and the *)
(* stages of the application (ApplicationPipeline).  A behaviour moves one *)
(* of them, fixed at the start; what one does to the other is in each      *)
(* module an action of its own.                                            *)
(***************************************************************************)
EXTENDS OfferApproval, TLC

CONSTANTS
    Parts,  \* the modules a run is about
    Handlers, Configs,
    Panelists, Tabs, Verdicts, MaxDeaths

VARIABLES
    part,  \* the module that moves
    applicant, history, rounds, offered, op, asked, edited,
    card, open, consensus, decided, told, req, deaths, died

\* Three levels; a bot round and one level; and no rounds at all.
Rounds == {[bots |-> {}, panels |-> {1, 2, 3}], [bots |-> {1}, panels |-> {2}],
           [bots |-> {}, panels |-> {}]}

A == INSTANCE ApplicationPipeline WITH app <- applicant, offer <- offered
F == INSTANCE PanelFeedback

\* What the modules assume of their constants.
ASSUME HiringConstants ==
    /\ Parts \subseteq {"offers", "pipeline", "feedback"}
    /\ A!PipelineAssumption
    /\ F!PanelAssumption

aVars == <<applicant, history, rounds, offered, op, asked, edited>>
fVars == <<card, open, consensus, decided, told, req, deaths, died>>
allVars == <<part, vars, aVars, fVars>>

\* The rounds are no matter but to A.
HiringInit ==
    /\ part \in Parts
    /\ Init /\ A!Init /\ F!Init
    /\ part # "pipeline" => rounds.panels = {}

HiringNext ==
    \/ part = "offers" /\ Next /\ UNCHANGED <<part, aVars, fVars>>
    \/ part = "pipeline" /\ A!Next /\ UNCHANGED <<part, vars, fVars>>
    \/ part = "feedback" /\ F!Next /\ UNCHANGED <<part, vars, aVars>>

HiringSpec == HiringInit /\ [][HiringNext]_allVars

\* Requests are interchangeable, and so are the terms of an offer.
Symmetry == Permutations(Handlers) \cup Permutations(Workers) \cup Permutations(Terms)

\* Bound of the run about offers: it goes no further from an offer written on stale ground,
\* of which nothing is claimed, nor from an application that is hired or on hold or was
\* rejected from anywhere but documentation.
InBounds ==
    /\ raced = {}
    /\ app.status \in Stages \cup {"rejected"}
    /\ app.rejectedFrom \in {None, "documentation"}

-----------------------------------------------------------------------------
\* Two clicks advance a candidate by one interview level (ApplicationPipeline).
NoLevelSkipped == A!NoLevelSkipped
\* Somebody tells the hiring manager that the panel is complete (PanelFeedback).
ManagerIsTold == F!ManagerIsTold
=============================================================================

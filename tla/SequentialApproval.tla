-------------------------- MODULE SequentialApproval --------------------------
(***************************************************************************)
(* What the head of routers/offers_api.py promises of an offer: "Approval  *)
(* flow (sequential per requisition chain)".  One approval after the other *)
(* until as many are given as the chain asks for, and only then is the     *)
(* offer sent; a rejection sends it back, a resubmission starts over.      *)
(***************************************************************************)
EXTENDS Naturals

CONSTANTS Offers, MaxSteps

VARIABLE offers    \* for every offer its phase, approvals needed and approvals given

Phases == {"none", "review", "revision", "closed", "sent", "lost"}
OfferStates == [phase : Phases, needed : 0 .. MaxSteps, given : 0 .. MaxSteps]

Init == offers = [o \in Offers |-> [phase |-> "none", needed |-> 0, given |-> 0]]

Become(o, phase, needed, given) ==
    offers' = [offers EXCEPT ![o] = [phase |-> phase, needed |-> needed, given |-> given]]

\* A first submission or a resubmission: the chain starts from its first step.
Submit(o, n) ==
    /\ offers[o].phase \in {"none", "revision"}
    /\ Become(o, "review", n, 0)

Approve(o) ==
    /\ offers[o].phase = "review"
    /\ offers[o].given < offers[o].needed
    /\ Become(o, "review", offers[o].needed, offers[o].given + 1)

Send(o) ==
    /\ offers[o].phase = "review"
    /\ offers[o].given = offers[o].needed
    /\ Become(o, "sent", offers[o].needed, offers[o].given)

Reject(o) ==
    /\ offers[o].phase = "review"
    /\ offers[o].given < offers[o].needed
    /\ Become(o, "revision", offers[o].needed, offers[o].given)

\* Put on hold or cancelled, for good.
Close(o) ==
    /\ offers[o].phase # "none"
    /\ Become(o, "closed", offers[o].needed, offers[o].given)

\* Two handlers got in each other's way: nothing more is promised of the offer.
Lose(o) == Become(o, "lost", 0, 0)

Next ==
    \E o \in Offers :
       \/ \E n \in 1 .. MaxSteps : Submit(o, n)
       \/ Approve(o) \/ Send(o) \/ Reject(o) \/ Close(o) \/ Lose(o)

Spec == Init /\ [][Next]_offers
=============================================================================

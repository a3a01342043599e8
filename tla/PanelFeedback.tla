----------------------------- MODULE PanelFeedback -----------------------------
(***************************************************************************)
(* The scorecards of one interview (scorecard_api.py, the feedback handler *)
(* in pipeline_api.py, and send_feedback_ready_email).  Panelists save     *)
(* drafts and submit, from several tabs; every submission recomputes the   *)
(* panel's consensus on the application, and the one that finds the panel  *)
(* complete tells the hiring manager.                                      *)
(*                                                                         *)
(* save_scorecard reads the card and later writes it, recomputes from one  *)
(* read and one write, and counts the cards in a last statement; each is a *)
(* step here, and a request may die after any of them.                     *)
(***************************************************************************)
EXTENDS Naturals, FiniteSets

CONSTANTS
    Panelists,
    Tabs,       \* requests being served
    Verdicts,   \* of them "yes", "no" and "neutral"
    None,
    MaxDeaths   \* bound: requests that die half-way

PanelAssumption ==
    /\ Panelists # {}
    /\ Verdicts \subseteq {"yes", "no", "neutral"} /\ MaxDeaths \in Nat

VARIABLES
    card,       \* per panelist: the scorecard row
    open,       \* is the interview's round the candidate's current one
    consensus,  \* panel_consensus of the application, with the count it was taken over
    decided,    \* has the hiring manager given feedback
    told,       \* has a mail said that the panel's feedback is ready
    req,        \* per tab: the request it sent
    deaths,
    died        \* ghost: a submission was cut short after its write, or failed to tell

vars == <<card, open, consensus, decided, told, req, deaths, died>>

-----------------------------------------------------------------------------
NoCard == [status |-> "none", verdict |-> None]
NoReq == [pc |-> "idle", by |-> None, action |-> None, verdict |-> None,
          insert |-> FALSE, seen |-> None]

Submitted == {p \in Panelists : card[p].status = "submitted"}

\* Sixty in a hundred of the cards, neutral ones included in the hundred.
Consensus(verdict) ==
    LET n(v) == Cardinality({p \in DOMAIN verdict : verdict[p] = v})
        total == Cardinality(DOMAIN verdict)
    IN  CASE 10 * n("yes") >= 6 * total -> "advance"
          [] 10 * n("no") >= 6 * total -> "reject"
          [] OTHER -> "split"

Init ==
    /\ card = [p \in Panelists |-> NoCard]
    /\ open = TRUE
    /\ consensus = [is |-> None, of |-> 0]
    /\ decided = FALSE /\ told = FALSE
    /\ req = [t \in Tabs |-> NoReq]
    /\ deaths = 0 /\ died = FALSE

Goes(t, pc) == req' = [req EXCEPT ![t].pc = pc]
Answered(t) == req' = [req EXCEPT ![t] = NoReq]

-----------------------------------------------------------------------------
\* The round must be the candidate's current one, and a submitted card is locked.
Save(t) ==
    /\ req[t].pc = "idle" /\ open
    /\ \E p \in Panelists, action \in {"draft", "submit"}, v \in Verdicts :
          /\ card[p].status # "submitted"
          /\ action = "draft" => v = CHOOSE w \in Verdicts : TRUE
          /\ req' = [req EXCEPT ![t] =
                       [pc |-> "write", by |-> p, action |-> action, verdict |-> v,
                        insert |-> card[p].status = "none", seen |-> None]]
    /\ UNCHANGED <<card, open, consensus, decided, told, deaths, died>>

Row(t) ==
    [status |-> IF req[t].action = "submit" THEN "submitted" ELSE "draft",
     verdict |-> req[t].verdict]

\* Mutant for ManagerIsTold: the panel is counted before the card is written.
CountFirst(t) ==
    /\ req[t].pc = "write"
    /\ card' = [card EXCEPT ![req[t].by] = Row(t)]
    /\ told' = (told \/ (req[t].action = "submit" /\ Submitted = Panelists /\ ~decided))
    /\ Answered(t)
    /\ UNCHANGED <<open, consensus, decided, deaths, died>>

\* The card is written, whatever it has become: an UPDATE, or an INSERT, which fails if another
\* tab has inserted the row (UNIQUE(interview_id, interviewer_id)).
Write(t) ==
    /\ req[t].pc = "write"
    /\ LET p == req[t].by
       IN  IF req[t].insert /\ card[p].status # "none"
           THEN Answered(t) /\ UNCHANGED card
           ELSE /\ card' = [card EXCEPT ![p] = Row(t)]
                /\ IF req[t].action = "submit" THEN Goes(t, "read") ELSE Answered(t)
    /\ UNCHANGED <<open, consensus, decided, told, deaths, died>>

\* _recompute_panel_combined: the submitted cards are read, and the outcome is written.
ReadCards(t) ==
    /\ req[t].pc = "read"
    /\ req' = [req EXCEPT ![t].pc = "combine",
                          ![t].seen = [p \in Submitted |-> card[p].verdict]]
    /\ UNCHANGED <<card, open, consensus, decided, told, deaths, died>>

Combine(t) ==
    /\ req[t].pc = "combine"
    /\ consensus' = IF DOMAIN req[t].seen = {} THEN consensus
                    ELSE [is |-> Consensus(req[t].seen), of |-> Cardinality(DOMAIN req[t].seen)]
    /\ req' = [req EXCEPT ![t].pc = "count", ![t].seen = None]
    /\ UNCHANGED <<card, open, decided, told, deaths, died>>

\* send_feedback_ready_email: nobody is told who has decided already.
Count(t) ==
    /\ req[t].pc = "count"
    /\ told' = (told \/ (Submitted = Panelists /\ ~decided))
    /\ Answered(t)
    /\ UNCHANGED <<card, open, consensus, decided, deaths, died>>

Dies(t) ==
    /\ req[t].pc # "idle" /\ deaths < MaxDeaths
    /\ Answered(t)
    /\ deaths' = deaths + 1
    /\ died' = (died \/ req[t].pc # "write")
    /\ UNCHANGED <<card, open, consensus, decided, told>>

-----------------------------------------------------------------------------
\* hm_feedback: at any time, and it may be given again.
Decides ==
    /\ ~decided
    /\ decided' = TRUE
    /\ UNCHANGED <<card, open, consensus, told, req, deaths, died>>

\* The candidate is moved on, which closes the round; or back to it.
MovesOn ==
    /\ open' = ~open
    /\ UNCHANGED <<card, consensus, decided, told, req, deaths, died>>

-----------------------------------------------------------------------------
Next ==
    \/ \E t \in Tabs : Save(t) \/ Write(t) \/ ReadCards(t) \/ Combine(t) \/ Count(t) \/ Dies(t)
    \/ Decides \/ MovesOn

Spec == Init /\ [][Next]_vars

-----------------------------------------------------------------------------
\* When the whole panel has submitted and every request is done, the hiring manager has been
\* told or has decided already, unless a submission was cut short: of two that finish together
\* at least one finds the panel complete ("ping the hiring manager immediately").
ManagerIsTold ==
    Submitted = Panelists /\ (\A t \in Tabs : req[t].pc = "idle") => told \/ decided \/ died

=============================================================================

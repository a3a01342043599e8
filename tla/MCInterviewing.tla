---------------------------- MODULE MCInterviewing ----------------------------
(***************************************************************************)
(* One run for the AI interview: the attempt (EnteriAttempt), the rows and *)
(* inbox of its proctoring (ProctoringSession) and the judgement of the    *)
(* ledger (ProctoringJudge).  A behaviour moves one of them, fixed at      *)
(* Init.                                                                   *)
(***************************************************************************)
EXTENDS Naturals, TLC

CONSTANTS
    Handlers, MaxInvites, MaxAnswers, Modes,
    Workers, Tabs, MaxSessions, MaxFlags, Kinds, Types, Devices, MaxTicks

VARIABLES
    part,  \* the part that moves
    mode, talk, invite, appeal, app, against, told, step, missed, raced,
    session, key, tab, gaps, inbox, lost, job,
    device, reported, tick, page, ledger, at, frozen, upset

A == INSTANCE EnteriAttempt
        WITH Workers <- Handlers, session <- talk, ledger <- against, job <- step
S == INSTANCE ProctoringSession
J == INSTANCE ProctoringJudge

\* What the modules assume of their constants.
ASSUME InterviewConstants ==
    /\ A!InviteAssumption
    /\ A!AnswerAssumption
    /\ A!ModeAssumption
    /\ S!SessionAssumption
    /\ S!FlagAssumption
    /\ S!KindAssumption
    /\ J!TypeAssumption
    /\ J!DeviceAssumption
    /\ J!TickAssumption

aVars == <<mode, talk, invite, appeal, app, against, told, step, missed, raced>>
sVars == <<session, key, tab, gaps, inbox, lost, job>>
jVars == <<device, reported, tick, page, ledger, at, frozen, upset>>
vars == <<part, aVars, sVars, jVars>>

\* Mode and device are no matter to the other parts.
Init ==
    /\ part \in {"attempt", "session", "judge"} /\ A!Init /\ S!Init /\ J!Init
    /\ part # "attempt" => mode = CHOOSE m \in Modes : TRUE
    /\ part # "judge" => device = CHOOSE d \in Devices : TRUE

Next ==
    \/ part = "attempt" /\ A!Next /\ UNCHANGED <<part, sVars, jVars>>
    \/ part = "session" /\ S!Next /\ UNCHANGED <<part, aVars, jVars>>
    \/ part = "judge" /\ J!Next /\ UNCHANGED <<part, aVars, sVars>>

Spec == Init /\ [][Next]_vars

\* The handlers of the attempt, and the workers and the tabs of ProctoringSession, are
\* interchangeable.
Symmetry == Permutations(Workers) \cup Permutations(Tabs) \cup Permutations(Handlers)

\* Bound of the run about the attempt: it goes no further from a conversation written on stale
\* ground, of which nothing is claimed, and handlers overlap at what moves the session, before
\* there is a last link and while the ledger does not contradict a termination.  A judgement
\* that something has disturbed goes on with ticks on the beat only.
InBounds ==
    /\ upset = {} \/ \A k \in J!Ticks : at[k] = J!OnTheBeat(k)
    /\ raced = {}
    /\ \/ \E w \in Handlers : \A v \in Handlers \ {w} : step[v] = A!Idle
       \/ /\ invite[MaxInvites].attempt = "none" /\ ~against /\ app.stage # "later"
          /\ \A w \in Handlers :
                A!GoesBySession(w) \/ step[w].op \in {"submitted", "reset", "revoke"}

-----------------------------------------------------------------------------
\* Every answer of the attempt that was stored is still stored (EnteriAttempt).
AnswersSurvive == A!AnswersSurvive
\* A link the tracker lists as pending is one the candidate's page accepts (EnteriAttempt).
TrackerPendingIsOpen == A!TrackerPendingIsOpen
\* A completed interview stands until the staff reopen it (EnteriAttempt).
CompletedStands == A!CompletedStands
\* Tabs that race through /candidate/init hold the same, live secret (ProctoringSession).
TabsHoldTheSecret == S!TabsHoldTheSecret
\* An integrity flag is in some digest unless a handler died (ProctoringSession).
AlertsHaveASender == S!AlertsHaveASender
\* The replay of a complete ledger counts what the page counted (ProctoringJudge).
ReplayAgrees == J!ReplayAgrees
=============================================================================

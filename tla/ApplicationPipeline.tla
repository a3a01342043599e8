-------------------------- MODULE ApplicationPipeline --------------------------
(***************************************************************************)
(* The stages of an application (pipeline_api.py's advance, revert,        *)
(* screen-decision and delete, services/pipeline.py, and the other         *)
(* handlers that write application.status).  Every handler reads the       *)
(* application, decides, and writes in a transaction of its own that asks  *)
(* nothing again, so two requests about one candidate overlap.             *)
(*                                                                         *)
(* One application to one requisition.  The requisition's rounds are       *)
(* numbered in one sequence, the bot's included; they may be changed under *)
(* the handlers (RoundEdit has the edit itself).  A handler may fail or    *)
(* die between its steps.                                                  *)
(***************************************************************************)
EXTENDS Naturals, Integers, FiniteSets, FiniteSetsExt

CONSTANTS
    Handlers,    \* requests being served
    Configs,     \* what the rounds may be: [bots : sequences, panels : sequences]
    None

PipelineAssumption ==
    \A c \in Configs : c.bots \subseteq Nat \ {0} /\ c.panels \subseteq Nat \ {0}

VARIABLES
    app,      \* the application's row
    history,  \* from_status of its latest 'rejected' stage_event
    rounds,   \* round_config of the requisition
    offer,    \* is there a live offer for it, or only a cancelled one
    op,       \* per handler: the request it serves, with what it has read
    asked,    \* ghost: levels at which an advance was asked for, or that an admin let off
    edited    \* ghost: the rounds have changed

vars == <<app, history, rounds, offer, op, asked, edited>>

-----------------------------------------------------------------------------
Pipeline == <<"applied", "screen", "enteri_ai_bot", "shortlisted", "interview",
              "documentation", "offered">>
Stages == {Pipeline[i] : i \in DOMAIN Pipeline}
Terminal == {"hired", "rejected", "on_hold"}
Index(s) == CHOOSE i \in DOMAIN Pipeline : Pipeline[i] = s

\* "interview" is not here: how it goes on depends on the rounds.
HasNext == {"applied", "screen", "enteri_ai_bot", "shortlisted", "documentation"}
NextStage(s) == Pipeline[Index(s) + 1]

NoApp == [status |-> "none", round |-> 0]
Exists == app.status # "none"
Sequences == rounds.bots \cup rounds.panels
LastRound == IF Sequences = {} THEN 0 ELSE Max(Sequences)
FirstPanel == IF rounds.panels = {} THEN None ELSE Min(rounds.panels)

Idle == [pc |-> "idle", from |-> "none", to |-> "none", round |-> 0]

Init ==
    /\ app = NoApp /\ history = "none"
    /\ rounds \in Configs
    /\ offer = "none"
    /\ op = [h \in Handlers |-> Idle]
    /\ asked = {} /\ edited = FALSE

\* What a request has read is kept only if its later steps use it.
Reads(h, pc, from, to, round) ==
    /\ op[h] = Idle /\ Exists
    /\ op' = [op EXCEPT ![h] = [pc |-> pc, from |-> from, to |-> to, round |-> round]]
    /\ UNCHANGED <<app, history, rounds, offer, edited>>

Asks(levels) == asked' = IF edited THEN asked ELSE asked \cup levels

Begins(h, pc, to, round) == Reads(h, pc, "none", to, round) /\ UNCHANGED asked

GoesTo(h, pc) == op' = [op EXCEPT ![h].pc = pc]
Ends(h) == op' = [op EXCEPT ![h] = Idle]

\* An exception, or the death of the process: an open transaction is rolled back.
Fails(h) ==
    /\ op[h] # Idle
    /\ Ends(h)
    /\ UNCHANGED <<app, history, rounds, offer, asked, edited>>

-----------------------------------------------------------------------------
(* How an application comes to be, and goes. *)

\* intake_and_screen: the first application is inserted at 'screen'; another one by the same
\* person only scores the row again.
Intake ==
    /\ ~Exists
    /\ app' = [status |-> "screen", round |-> 0]
    /\ UNCHANGED <<history, rounds, offer, op, asked, edited>>

\* _delete_application_row: refused if an offer exists; the row goes with its events.  An offer
\* made in between makes the DELETE fail.  Every other request about the row finds it gone.
ReadDelete(h) == offer = "none" /\ Begins(h, "delete", "none", 0)

CommitDelete(h) ==
    /\ op[h].pc = "delete" /\ offer = "none"
    /\ app' = NoApp /\ history' = "none" /\ asked' = {}
    /\ op' = [g \in Handlers |-> Idle]
    /\ UNCHANGED <<rounds, offer, edited>>

-----------------------------------------------------------------------------
(* advance_application. *)

\* A terminal target, from any stage that is not terminal.
ReadTerminal(h) ==
    /\ app.status \notin Terminal
    /\ \E to \in Terminal :
          Reads(h, "terminal", IF to = "rejected" THEN app.status ELSE "none", to, 0)
    /\ UNCHANGED asked

CommitTerminal(h) ==
    /\ op[h].pc = "terminal" /\ Exists
    /\ app' = [app EXCEPT !.status = op[h].to]
    /\ history' = IF op[h].to = "rejected" THEN op[h].from ELSE history
    /\ Ends(h)
    /\ UNCHANGED <<rounds, offer, asked, edited>>

\* The next stage: status and round are read here.
ReadAdvance(h) ==
    /\ app.status \in HasNext \cup {"interview"}
    /\ LET round == IF app.status = "interview" THEN app.round ELSE 0
       IN  /\ Reads(h, "decide", app.status, "none", round)
           /\ Asks({round} \ {0})

\* A level follows a level, and documentation the last; round 0 counts as the first.
AfterLevel(round) ==
    IF round < LastRound
    THEN [to |-> "interview", round |-> round + 1]
    ELSE [to |-> "documentation", round |-> 0]

\* The bot stage needs a bot round, and interview a panel; the first panel need not be round 1.
AfterStage(s) ==
    CASE NextStage(s) = "enteri_ai_bot" /\ rounds.bots = {} -> [to |-> "shortlisted", round |-> 0]
      [] NextStage(s) = "interview" /\ FirstPanel = None -> [to |-> "documentation", round |-> 0]
      [] NextStage(s) = "interview" /\ FirstPanel # None -> [to |-> "interview", round |-> FirstPanel]
      [] OTHER -> [to |-> NextStage(s), round |-> 0]

\* The rounds are read in statements of their own.
Decide(h) ==
    /\ op[h].pc = "decide"
    /\ LET next == IF op[h].from = "interview"
                   THEN AfterLevel(IF op[h].round = 0 THEN 1 ELSE op[h].round)
                   ELSE AfterStage(op[h].from)
       IN  op' = [op EXCEPT ![h] = [pc |-> "move", from |-> op[h].from,
                                    to |-> next.to, round |-> next.round]]
    /\ UNCHANGED <<app, history, rounds, offer, asked, edited>>

\* Mutant for NoLevelSkipped: the UPDATE counts on from the row.
LevelCounted(h) ==
    /\ op[h].pc = "move" /\ op[h].from = "interview" /\ op[h].to = "interview"
    /\ Exists /\ app.round + 1 \in Sequences
    /\ app' = [app EXCEPT !.round = @ + 1]
    /\ Ends(h)
    /\ UNCHANGED <<history, rounds, offer, asked, edited>>

\* The next level: the UPDATE sets the round and leaves the status, and _schedule_request_for
\* _round_tx rolls it back if the level is gone.
CommitLevel(h) ==
    /\ op[h].pc = "move" /\ op[h].from = "interview" /\ op[h].to = "interview"
    /\ Exists /\ op[h].round \in Sequences
    /\ app' = [app EXCEPT !.round = op[h].round]
    /\ Ends(h)
    /\ UNCHANGED <<history, rounds, offer, asked, edited>>

\* Another stage; the first level with it when that stage is interview.
CommitStage(h) ==
    /\ op[h].pc = "move" /\ Exists
    /\ op[h].from = "interview" => op[h].to = "documentation"
    /\ IF op[h].to = "interview"
       THEN /\ op[h].round \in Sequences
            /\ app' = [status |-> "interview", round |-> op[h].round]
       ELSE app' = [app EXCEPT !.status = op[h].to]
    /\ Ends(h)
    /\ UNCHANGED <<history, rounds, offer, asked, edited>>

-----------------------------------------------------------------------------
(* revert_application_stage. *)

\* _revert_cur_idx: stages before the current one; a rejected candidate goes back as far as the
\* stage that the latest rejection came from.
Revertible ==
    CASE app.status = "rejected" /\ history \in Stages ->
            {s \in Stages : Index(s) <= Index(history)}
      [] app.status \in Stages -> {s \in Stages : Index(s) < Index(app.status)}
      [] OTHER -> {}

ReadRevert(h) ==
    \E to \in Revertible :
        IF to = "interview"
        THEN \E seq \in Sequences : Begins(h, "revert", to, seq)
        ELSE Begins(h, "revert", to, 0)

\* An admin who puts a candidate at a level lets them off those before it.  A live offer is
\* cancelled with the move.
CommitRevert(h) ==
    /\ op[h].pc = "revert" /\ Exists
    /\ app' = [status |-> op[h].to,
               round |-> IF op[h].to = "interview" THEN op[h].round ELSE app.round]
    /\ Asks(IF op[h].to = "interview" THEN 0..(op[h].round - 1) ELSE {})
    /\ offer' = IF offer = "live" THEN "cancelled" ELSE offer
    /\ Ends(h)
    /\ UNCHANGED <<history, rounds, edited>>

-----------------------------------------------------------------------------
(* The other writers of application.status. *)

\* record_screen_decision with 'reject', from whatever status; the event, which always says
\* 'screen', is a statement of its own.
RejectScreen(h) ==
    /\ op[h] = Idle /\ Exists
    /\ op' = [op EXCEPT ![h].pc = "event"]
    /\ app' = [app EXCEPT !.status = "rejected"]
    /\ UNCHANGED <<history, rounds, offer, asked, edited>>

RejectEvent(h) ==
    /\ op[h].pc = "event" /\ Exists
    /\ history' = "screen"
    /\ Ends(h)
    /\ UNCHANGED <<app, rounds, offer, asked, edited>>

\* run_bot_round: the bot interview runs between the read and the write.
ReadBot(h) == Begins(h, "bot", "enteri_ai_bot", 0)

\* _do_single_invite: the mail is out, and the candidate has not got that far.
ReadInvite(h) == app.status \in {"applied", "screen"} /\ Begins(h, "bot", "enteri_ai_bot", 0)

WriteBot(h) ==
    /\ op[h].pc = "bot" /\ Exists
    /\ app' = [app EXCEPT !.status = "enteri_ai_bot"]
    /\ Ends(h)
    /\ UNCHANGED <<history, rounds, offer, asked, edited>>

\* An offer is made in documentation or interview, and moves the candidate from there only if
\* it was interview (OfferApproval has the offers).
ReadOffer(h) ==
    /\ app.status \in {"documentation", "interview"} /\ offer # "live"
    /\ Begins(h, "offer", IF app.status = "interview" THEN "documentation" ELSE "none", 0)

CommitOffer(h) ==
    /\ op[h].pc = "offer" /\ Exists
    /\ app' = IF op[h].to = "documentation" THEN [app EXCEPT !.status = op[h].to] ELSE app
    /\ offer' = "live"
    /\ Ends(h)
    /\ UNCHANGED <<history, rounds, asked, edited>>

\* The offer is approved to the end, put on hold or cancelled; the event of a cancellation says
\* what the offer's status was, which is no stage.
OfferEnds ==
    /\ offer = "live"
    /\ \/ /\ app' = [app EXCEPT !.status = "offered"]
          /\ UNCHANGED <<history, offer>>
       \/ /\ app' = [app EXCEPT !.status = "on_hold"]
          /\ UNCHANGED <<history, offer>>
       \/ /\ app' = [app EXCEPT !.status = "rejected"]
          /\ history' = "none" /\ offer' = "cancelled"
    /\ UNCHANGED <<rounds, op, asked, edited>>

\* edit_requisition changes the rounds.
Reconfigure ==
    /\ ~edited
    /\ rounds' \in Configs \ {rounds}
    /\ edited' = TRUE /\ asked' = {}
    /\ UNCHANGED <<app, history, offer, op>>

-----------------------------------------------------------------------------
Next ==
    \/ Intake \/ OfferEnds \/ Reconfigure
    \/ \E h \in Handlers :
          \/ ReadDelete(h) \/ CommitDelete(h)
          \/ ReadTerminal(h) \/ CommitTerminal(h)
          \/ ReadAdvance(h) \/ Decide(h) \/ CommitLevel(h) \/ CommitStage(h)
          \/ ReadRevert(h) \/ CommitRevert(h)
          \/ RejectScreen(h) \/ RejectEvent(h)
          \/ ReadBot(h) \/ ReadInvite(h) \/ WriteBot(h)
          \/ ReadOffer(h) \/ CommitOffer(h)
          \/ Fails(h)

Spec == Init /\ [][Next]_vars

-----------------------------------------------------------------------------
\* However requests about one candidate overlap, a candidate is at an interview level only if it
\* is the first panel or an advance was asked for while they were at the level before, unless an
\* admin put them there or the rounds were changed: two clicks move them on once (current_round
\* is written as the number the handler has read and added one to, not counted on in the row).
NoLevelSkipped ==
    app.status = "interview" /\ ~edited => app.round = FirstPanel \/ app.round - 1 \in asked

=============================================================================

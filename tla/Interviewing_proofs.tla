-------------------------- MODULE Interviewing_proofs --------------------------
(***************************************************************************)
(* Proofs about the AI interview: the attempt (A!), the rows and inbox of  *)
(* its proctoring (S!) and the two counts of its strikes (J!), for any     *)
(* number of links, answers, tabs, flags, ticks and handlers.              *)
(*                                                                         *)
(* The handlers of the proctoring run as many at a time as there are: a    *)
(* secret is minted once and read again by everybody, and whoever notes a  *)
(* flag goes on to the digest.  Those of the attempt write back what they  *)
(* have read, and nothing keeps two of them apart: the invariant holds of  *)
(* those whose reading no other has overtaken (missed).                    *)
(***************************************************************************)
EXTENDS MCInterviewing, WellFoundedInduction, TLAPS

-----------------------------------------------------------------------------
(* The attempt (EnteriAttempt). *)

\* A link that is revoked has expired, and one that was entered is used.
LinksOK ==
    /\ invite \in [A!Invites -> A!InviteRows]
    /\ \A i \in A!Invites :
          /\ invite[i].attempt = "revoked" => invite[i].expired
          /\ invite[i].attempt \in {"in_progress", "completed"} => invite[i].used

LEMMA LinksInit == A!Init => LinksOK
BY DEF A!Init, LinksOK, A!InviteRows

\* What a handler's write does to a link.
LinkOK(r) ==
    /\ r \in A!InviteRows
    /\ r.attempt = "revoked" => r.expired
    /\ r.attempt \in {"in_progress", "completed"} => r.used

LEMMA LinksStep == ASSUME LinksOK, [A!Next]_(A!vars) PROVE LinksOK'
<1>1. \A i \in A!Invites : LinkOK(invite[i])
  BY DEF LinksOK, LinkOK
<1>2. DOMAIN invite = A!Invites
  BY DEF LinksOK
<1>3. ASSUME invite' = A!Revoked PROVE LinksOK'
  <2>1. ASSUME NEW i \in A!Invites PROVE LinkOK([invite[i] EXCEPT !.attempt = "revoked",
                                                                  !.expired = TRUE])
    BY <1>1 DEF LinkOK, A!InviteRows
  <2>2. ASSUME NEW i \in A!Invites PROVE LinkOK(invite'[i])
    BY <1>1, <1>3, <2>1 DEF A!Revoked
  <2>3. invite' = [i \in A!Invites |-> invite'[i]]
    BY <1>3 DEF A!Revoked
  <2> QED BY <2>2, <2>3 DEF LinksOK, LinkOK
<1>4. ASSUME NEW w \in Handlers, A!InsertInvite(w) PROVE LinksOK'
  <2>1. CASE UNCHANGED invite
    BY <2>1 DEF LinksOK
  <2>2. CASE \E i \in A!Invites : invite' = [invite EXCEPT ![i].attempt = "unused"]
    BY <2>2 DEF LinksOK, A!InviteRows
  <2> QED BY <1>4, <2>1, <2>2 DEF A!InsertInvite
<1>5. ASSUME NEW w \in Handlers, A!BeginStamp(w) PROVE LinksOK'
  <2>1. invite' = [invite EXCEPT ![step[w].x] = [attempt |-> "in_progress", used |-> TRUE,
                                                 expired |-> FALSE]]
    BY <1>5 DEF A!BeginStamp
  <2>2. LinkOK([attempt |-> "in_progress", used |-> TRUE, expired |-> FALSE])
    BY DEF LinkOK, A!InviteRows
  <2> QED BY <2>1, <2>2 DEF LinksOK, LinkOK
<1>6. ASSUME NEW w \in Handlers, A!MarkInviteAttemptCompleted(w) PROVE LinksOK'
  <2>1. invite' = [i \in A!Invites |-> IF invite[i].attempt = "in_progress"
                                      THEN [invite[i] EXCEPT !.attempt = "completed"]
                                      ELSE invite[i]]
    BY <1>6 DEF A!MarkInviteAttemptCompleted
  <2>2. ASSUME NEW i \in A!Invites PROVE LinkOK(invite'[i])
    BY <1>1, <2>1 DEF LinkOK, A!InviteRows
  <2>3. invite' = [i \in A!Invites |-> invite'[i]]
    BY <2>1
  <2> QED BY <2>2, <2>3 DEF LinksOK, LinkOK
<1>7. ASSUME NEW i \in A!Invites, A!Expire(i) PROVE LinksOK'
  BY <1>7 DEF A!Expire, LinksOK, A!InviteRows
<1>8. CASE UNCHANGED invite
  BY <1>8 DEF LinksOK
<1>9. ASSUME NEW w \in Handlers, A!Resend(w) \/ A!RevokeInvites(w) PROVE LinksOK'
  BY <1>3, <1>9 DEF A!Resend, A!RevokeInvites
<1>10. ASSUME NEW w \in Handlers,
              \/ A!SendInvite(w) \/ A!ResetSession(w) \/ A!CreateSessionAndMail(w)
              \/ A!WriteInviteFailureEvent(w) \/ A!StageEvent(w) \/ A!MoveToBot(w)
              \/ A!MarkRelinkSent(w) \/ A!BeginEnter(w) \/ A!StoreOpening(w) \/ A!StoreAnswer(w)
              \/ A!NextTurn(w) \/ A!ScoreTranscript(w) \/ A!Submit(w) \/ A!SubmitScore(w)
              \/ A!StaffSubmit(w) \/ A!StaffStart(w) \/ A!TerminateWrite(w)
              \/ A!FireCompletionEmail(w) \/ A!SetEmailSent(w) \/ A!Crash(w)
              \/ \E i \in A!Invites :
                    \/ A!Relink(w, i) \/ A!BeginRead(w, i) \/ A!Converse(w, i)
                    \/ A!Terminate(w, i) \/ A!CreateAppeal(w, i) \/ A!UpdateAppeal(w, i)
       PROVE  UNCHANGED invite
  BY <1>10 DEF A!SendInvite, A!ResetSession, A!CreateSessionAndMail, A!WriteInviteFailureEvent,
     A!StageEvent, A!MoveToBot, A!MarkRelinkSent, A!BeginEnter, A!StoreOpening, A!StoreAnswer,
     A!NextTurn, A!ScoreTranscript, A!Submit, A!SubmitScore, A!StaffSubmit, A!StaffStart,
     A!TerminateWrite, A!FireCompletionEmail, A!SetEmailSent, A!Crash, A!Relink, A!BeginRead,
     A!Converse, A!Terminate, A!CreateAppeal, A!UpdateAppeal
<1> QED BY <1>4, <1>5, <1>6, <1>7, <1>8, <1>9, <1>10
        DEF A!Next, A!WorkerStep, A!vars, A!Proctor, A!Advance

(* A link the tracker lists as pending is one the candidate's page         *)
(* accepts, for any number of handlers, links and answers (invite_tracker  *)
(* against validate_invite).                                               *)
THEOREM PendingIsOpen == A!Spec => []TrackerPendingIsOpen
<1>1. LinksOK => TrackerPendingIsOpen
  <2>1. ASSUME LinksOK, NEW i \in A!Invites, A!Latest(i), A!InviteStatus(i) = "pending"
        PROVE  A!Valid(i)
    <3>1. talk.status \notin A!Ended
      BY <2>1 DEF A!InviteStatus, A!Ended
    <3>2. invite[i].used \in BOOLEAN /\ invite[i].expired \in BOOLEAN
      BY <2>1 DEF LinksOK, A!InviteRows
    <3>3. ~invite[i].used /\ ~invite[i].expired
      BY <2>1, <3>1, <3>2, Zenon DEF A!InviteStatus, A!Ended
    <3> QED BY <2>1, <3>1, <3>3 DEF LinksOK, A!Valid, A!Latest
  <2> QED BY <2>1 DEF TrackerPendingIsOpen, A!TrackerPendingIsOpen
<1> QED BY <1>1, LinksInit, LinksStep, PTL DEF A!Spec

-----------------------------------------------------------------------------
(* The conversation.  A handler writes back what it has read; the          *)
(* invariant is about those whose reading nobody has overtaken.            *)

TalkTypes ==
    /\ talk \in [status : {"none", "pending", "in_progress"} \cup A!Ended, opened : BOOLEAN,
                 answers : Nat, scored : BOOLEAN, emailSent : BOOLEAN]
    /\ told \in Nat
    /\ DOMAIN step = Handlers
    /\ \A w \in Handlers : step[w].op \in {"open", "answer", "ask", "score"} => step[w].x \in Nat

\* What a handler has read of the conversation is still so when it writes.
StepFits(w) ==
    /\ step[w].op \in {"stamp", "enter", "judged"} => talk.status # "completed"
    /\ step[w].op \in {"open", "ask", "score"} => step[w].x = talk.answers
    /\ step[w].op = "answer" => step[w].x = talk.answers + 1 /\ talk.answers < MaxAnswers

AttemptInv ==
    /\ TalkTypes
    /\ missed \subseteq Handlers
    /\ raced = {} => talk.answers = told
    /\ \A w \in missed : step[w] # A!Idle
    /\ \A w \in Handlers \ missed : StepFits(w)

\* A completed interview goes back to pending, or to the staff's restart ...
Keeps ==
    talk.status = "completed" /\ talk'.status \notin {"completed", "pending"}
        => talk'.status = "in_progress" /\ ~talk'.scored

\* ... or a handler whose reading is overtaken moves it on.
Stands == Keeps \/ \E w \in missed : step'[w] # step[w]

LEMMA AttemptInit == A!Init => AttemptInv
<1> SUFFICES ASSUME A!Init PROVE AttemptInv
  OBVIOUS
<1>1. A!Idle.op = "idle"
  BY DEF A!Idle
<1> QED BY <1>1 DEF A!Init, AttemptInv, TalkTypes, StepFits

\* A handler's step, whether it goes by what is still so or not.
StepsBy(w) ==
    /\ TalkTypes'
    /\ \A v \in Handlers \ {w} : step'[v] = step[v]
    /\ w \in missed => step'[w] # step[w]
    /\ w \notin missed => /\ StepFits(w)' /\ Keeps
                          /\ talk.answers = told => talk'.answers = told'

LEMMA AttemptSteps ==
    ASSUME AttemptInv, NEW w \in Handlers, A!Account(w), StepsBy(w)
    PROVE  AttemptInv' /\ Stands
<1>1. missed' = {v \in Handlers : /\ step'[v] # A!Idle
                                  /\ v \in missed \/ (v # w /\ A!Moved /\ A!GoesBySession(v))}
  BY DEF A!Account
<1>2. ASSUME NEW v \in Handlers \ missed' PROVE StepFits(v)'
  <2>1. CASE step'[v] = A!Idle
    BY <2>1 DEF A!Idle, StepFits
  <2>2. CASE v = w /\ step'[v] # A!Idle
    BY <1>1, <1>2, <2>2 DEF StepsBy
  <2>3. CASE v # w /\ step'[v] # A!Idle
    <3>1. step'[v] = step[v] /\ v \notin missed /\ (A!Moved => ~A!GoesBySession(v))
      BY <1>1, <1>2, <2>3 DEF StepsBy
    <3>2. CASE A!GoesBySession(v)
      <4>1. talk'.status = talk.status /\ talk'.answers = talk.answers
        BY <3>1, <3>2 DEF A!Moved
      <4> QED BY <3>1, <4>1 DEF AttemptInv, StepFits
    <3>3. CASE ~A!GoesBySession(v)
      BY <3>1, <3>3 DEF A!GoesBySession, StepFits
    <3> QED BY <3>2, <3>3
  <2> QED BY <2>1, <2>2, <2>3
<1>3. ASSUME raced' = {} PROVE talk'.answers = told'
  <2>1. CASE talk'.answers = 0 /\ told' = 0
    BY <2>1
  <2>2. CASE ~(talk'.answers = 0 /\ told' = 0)
    <3>1. raced = {} /\ ~(w \in missed /\ A!Talked)
      BY <1>3, <2>2 DEF A!Account
    <3>2. CASE w \in missed
      BY <3>1, <3>2 DEF A!Talked, AttemptInv
    <3>3. CASE w \notin missed
      BY <3>1, <3>3 DEF AttemptInv, StepsBy
    <3> QED BY <3>2, <3>3
  <2> QED BY <2>1, <2>2
<1>4. missed' \subseteq Handlers /\ \A v \in missed' : step'[v] # A!Idle
  BY <1>1
<1>5. AttemptInv'
  BY <1>2, <1>3, <1>4 DEF AttemptInv, StepsBy
<1>6. Stands
  BY DEF Stands, StepsBy
<1> QED BY <1>5, <1>6

\* What is read, and what is written elsewhere, leaves the conversation alone.
LEMMA TalkStays ==
    ASSUME AttemptInv, NEW w \in Handlers, UNCHANGED <<talk, told>>,
           step' = [step EXCEPT ![w] = step'[w]], step'[w] # step[w],
           step'[w].op \in {"open", "answer", "ask", "score"} => step'[w].x \in Nat,
           w \notin missed => StepFits(w)'
    PROVE  StepsBy(w)
BY DEF AttemptInv, TalkTypes, StepsBy, Keeps

\* What is written to the conversation.
LEMMA TalkMoves ==
    ASSUME AttemptInv, NEW w \in Handlers, step' = [step EXCEPT ![w] = step'[w]], step'[w] # step[w],
           step'[w].op \in {"open", "answer", "ask", "score"} => step'[w].x \in Nat,
           told' \in Nat,
           talk' \in [status : {"none", "pending", "in_progress"} \cup A!Ended, opened : BOOLEAN,
                      answers : Nat, scored : BOOLEAN, emailSent : BOOLEAN],
           w \notin missed => /\ StepFits(w)' /\ Keeps
                              /\ talk.answers = told => talk'.answers = told'
    PROVE  StepsBy(w)
BY DEF AttemptInv, TalkTypes, StepsBy

-----------------------------------------------------------------------------
\* What a handler goes on to, or that it is through.
Goes(w, o) == step' = [step EXCEPT ![w] = step'[w]] /\ step'[w].op = o

LEMMA GoingOn ==
    ASSUME AttemptInv, NEW w \in Handlers, NEW o, NEW x, step' = [step EXCEPT ![w] = A!Do(o, x)]
    PROVE  Goes(w, o) /\ step'[w].x = x
<1>1. step'[w] = A!Do(o, x)
  BY DEF AttemptInv, TalkTypes
<1>2. A!Do(o, x).op = o /\ A!Do(o, x).x = x
  BY DEF A!Do
<1> QED BY <1>1, <1>2 DEF Goes

LEMMA Finishing ==
    ASSUME AttemptInv, NEW w \in Handlers, step' = [step EXCEPT ![w] = A!Idle]
    PROVE  Goes(w, "idle")
<1>1. step'[w] = A!Idle
  BY DEF AttemptInv, TalkTypes
<1>2. A!Idle.op = "idle"
  BY DEF A!Idle
<1> QED BY <1>1, <1>2 DEF Goes

LEMMA IdleOp == A!Idle.op = "idle"
BY DEF A!Idle

\* The handlers that make a link and mail it.
LEMMA InviteStep ==
    ASSUME AttemptInv, NEW w \in Handlers,
           \/ A!SendInvite(w) \/ A!Resend(w) \/ A!ResetSession(w) \/ A!RevokeInvites(w)
           \/ A!InsertInvite(w) \/ A!CreateSessionAndMail(w) \/ A!WriteInviteFailureEvent(w)
           \/ A!StageEvent(w) \/ A!MoveToBot(w) \/ A!MarkRelinkSent(w)
           \/ \E i \in A!Invites : A!Relink(w, i)
    PROVE  StepsBy(w)
<1> USE DEF A!Start, A!GoOn, A!Finish, A!At, Goes
<1>1. /\ step' = [step EXCEPT ![w] = step'[w]] /\ step'[w].op # step[w].op
      /\ step'[w].op \in {"idle", "reset", "insert", "revoke", "mail", "fail", "event", "move",
                          "relinked"}
  <2>1. CASE A!SendInvite(w)
    <3>1. step' = [step EXCEPT ![w] = A!Do("insert", A!Alone)] /\ step[w] = A!Idle
      BY <2>1 DEF A!SendInvite
    <3>2. step'[w].op = "insert" /\ step' = [step EXCEPT ![w] = step'[w]]
      BY <3>1, GoingOn
    <3> QED BY <3>1, <3>2, IdleOp
  <2>2. CASE A!Resend(w)
    <3>1. step' = [step EXCEPT ![w] = A!Do("reset", A!Reissue)] /\ step[w] = A!Idle
      BY <2>2 DEF A!Resend
    <3>2. step'[w].op = "reset" /\ step' = [step EXCEPT ![w] = step'[w]]
      BY <3>1, GoingOn
    <3> QED BY <3>1, <3>2, IdleOp
  <2>3. CASE \E i \in A!Invites : A!Relink(w, i)
    <3>1. PICK i \in A!Invites : /\ step' = [step EXCEPT ![w] = A!Do("revoke", i)]
                                 /\ step[w] = A!Idle
      BY <2>3 DEF A!Relink
    <3>2. step'[w].op = "revoke" /\ step' = [step EXCEPT ![w] = step'[w]]
      BY <3>1, GoingOn
    <3> QED BY <3>1, <3>2, IdleOp
  <2>4. CASE A!ResetSession(w)
    <3>1. step' = [step EXCEPT ![w] = A!Do("insert", A!Reissue)] /\ step[w].op = "reset"
      BY <2>4 DEF A!ResetSession
    <3>2. step'[w].op = "insert" /\ step' = [step EXCEPT ![w] = step'[w]]
      BY <3>1, GoingOn
    <3> QED BY <3>1, <3>2, IdleOp
  <2>5. CASE A!RevokeInvites(w)
    <3>1. step' = [step EXCEPT ![w] = A!Do("insert", step[w].x)] /\ step[w].op = "revoke"
      BY <2>5 DEF A!RevokeInvites
    <3>2. step'[w].op = "insert" /\ step' = [step EXCEPT ![w] = step'[w]]
      BY <3>1, GoingOn
    <3> QED BY <3>1, <3>2, IdleOp
  <2>6. CASE A!InsertInvite(w)
    BY GoingOn, Finishing, IdleOp, <2>6 DEF A!InsertInvite
  <2>7. CASE A!CreateSessionAndMail(w)
    BY GoingOn, Finishing, IdleOp, <2>7 DEF A!CreateSessionAndMail
  <2>8. CASE A!WriteInviteFailureEvent(w)
    BY GoingOn, Finishing, IdleOp, <2>8 DEF A!WriteInviteFailureEvent
  <2>9. CASE A!StageEvent(w)
    <3>1. step' = [step EXCEPT ![w] = A!Do("move", step[w].x)] /\ step[w].op = "event"
      BY <2>9 DEF A!StageEvent
    <3>2. step'[w].op = "move" /\ step' = [step EXCEPT ![w] = step'[w]]
      BY <3>1, GoingOn
    <3> QED BY <3>1, <3>2, IdleOp
  <2>10. CASE A!MoveToBot(w)
    <3>1. step' = [step EXCEPT ![w] = A!Do("relinked", step[w].x)] /\ step[w].op = "move"
      BY <2>10 DEF A!MoveToBot
    <3>2. step'[w].op = "relinked" /\ step' = [step EXCEPT ![w] = step'[w]]
      BY <3>1, GoingOn
    <3> QED BY <3>1, <3>2, IdleOp
  <2>11. CASE A!MarkRelinkSent(w)
    BY GoingOn, Finishing, IdleOp, <2>11 DEF A!MarkRelinkSent
  <2> QED BY <2>1, <2>2, <2>3, <2>4, <2>5, <2>6, <2>7, <2>8, <2>9, <2>10, <2>11
<1>2. StepFits(w)' /\ step'[w] # step[w]
  BY <1>1 DEF StepFits, AttemptInv, TalkTypes
<1>3. CASE UNCHANGED <<talk, told>>
  BY <1>1, <1>2, <1>3, TalkStays
<1>4. ASSUME NEW sent \in BOOLEAN, talk' = A!Fresh(sent), told' = 0 PROVE StepsBy(w)
  <2>1. talk' \in [status : {"pending"}, opened : BOOLEAN, answers : {0}, scored : BOOLEAN,
                   emailSent : BOOLEAN]
    BY <1>4 DEF A!Fresh
  <2> QED BY <1>1, <1>2, <1>4, <2>1, TalkMoves DEF Keeps
<1>5. CASE A!ResetSession(w)
  BY <1>3, <1>4, <1>5 DEF A!ResetSession
<1>6. ASSUME NEW i \in A!Invites, A!Relink(w, i) PROVE StepsBy(w)
  BY <1>4, <1>6 DEF A!Relink, AttemptInv, TalkTypes
<1>7. CASE A!CreateSessionAndMail(w)
  <2>1. CASE talk.status = "none"
    <3>1. talk' = [talk EXCEPT !.status = "pending"] /\ UNCHANGED told
      BY <1>7, <2>1 DEF A!CreateSessionAndMail
    <3>2. talk' \in [status : {"pending"}, opened : BOOLEAN, answers : {talk.answers},
                     scored : BOOLEAN, emailSent : BOOLEAN]
      BY <3>1 DEF AttemptInv, TalkTypes
    <3> QED BY <1>1, <1>2, <3>1, <3>2, TalkMoves DEF Keeps, AttemptInv, TalkTypes
  <2>2. CASE talk.status # "none"
    BY <1>3, <1>7, <2>2 DEF A!CreateSessionAndMail
  <2> QED BY <2>1, <2>2
<1> QED BY <1>3, <1>5, <1>6, <1>7 DEF A!SendInvite, A!Resend, A!RevokeInvites, A!InsertInvite,
        A!WriteInviteFailureEvent, A!StageEvent, A!MoveToBot, A!MarkRelinkSent

\* The candidate enters by a link.
LEMMA BeginStep ==
    ASSUME AttemptInv, NEW w \in Handlers,
           \/ A!BeginStamp(w) \/ A!BeginEnter(w)
           \/ \E i \in A!Invites : A!BeginRead(w, i)
    PROVE  StepsBy(w)
<1> USE DEF A!Start, A!GoOn, A!Finish, A!At, Goes
<1>1. ASSUME NEW i \in A!Invites, A!BeginRead(w, i) PROVE StepsBy(w)
  <2>1. /\ step' = [step EXCEPT ![w] = step'[w]] /\ step'[w].op \in {"stamp", "enter"}
        /\ step[w].op = "idle"
    BY GoingOn, Finishing, IdleOp, <1>1 DEF A!BeginRead
  <2>2. talk.status # "completed" /\ UNCHANGED <<talk, told>>
    BY <1>1 DEF A!BeginRead, A!Beginnable
  <2>3. StepFits(w)' /\ step'[w] # step[w]
    BY <2>1, <2>2 DEF StepFits, AttemptInv, TalkTypes
  <2> QED BY <2>1, <2>2, <2>3, TalkStays
<1>2. CASE A!BeginStamp(w)
  <2>1. step' = [step EXCEPT ![w] = step'[w]] /\ step'[w].op = "enter" /\ step[w].op = "stamp"
    BY GoingOn, Finishing, IdleOp, <1>2 DEF A!BeginStamp
  <2>2. UNCHANGED <<talk, told>> /\ step'[w] # step[w]
    BY <1>2, <2>1 DEF A!BeginStamp, AttemptInv, TalkTypes
  <2>3. w \notin missed => StepFits(w)'
    BY <2>1, <2>2 DEF StepFits, AttemptInv
  <2> QED BY <2>1, <2>2, <2>3, TalkStays
<1>3. CASE A!BeginEnter(w)
  <2>1. step' = [step EXCEPT ![w] = step'[w]] /\ step'[w].op = "idle" /\ step[w].op = "enter"
    BY GoingOn, Finishing, IdleOp, <1>3 DEF A!BeginEnter
  <2>2. talk' = [talk EXCEPT !.status = "in_progress"] /\ UNCHANGED told
    BY <1>3 DEF A!BeginEnter
  <2>3. talk' \in [status : {"in_progress"}, opened : BOOLEAN, answers : {talk.answers},
                   scored : BOOLEAN, emailSent : BOOLEAN]
    BY <2>2 DEF AttemptInv, TalkTypes
  <2>4. StepFits(w)' /\ step'[w] # step[w] /\ (w \notin missed => talk.status # "completed")
    BY <2>1 DEF StepFits, AttemptInv, TalkTypes
  <2> QED BY <2>1, <2>2, <2>3, <2>4, TalkMoves DEF Keeps, AttemptInv, TalkTypes
<1> QED BY <1>1, <1>2, <1>3

\* An answer is stored before the model is asked, and no reply takes it back.
LEMMA TalkStep ==
    ASSUME AttemptInv, NEW w \in Handlers,
           \/ A!StoreOpening(w) \/ A!StoreAnswer(w) \/ A!NextTurn(w) \/ A!ScoreTranscript(w)
           \/ \E i \in A!Invites : A!Converse(w, i)
    PROVE  StepsBy(w)
<1> USE DEF A!Start, A!GoOn, A!Finish, A!At, Goes
<1>1. ASSUME NEW i \in A!Invites, A!Converse(w, i) PROVE StepsBy(w)
  <2>1. /\ step' = [step EXCEPT ![w] = step'[w]] /\ step[w].op = "idle"
        /\ \/ step'[w].op \in {"open", "ask"} /\ step'[w].x = talk.answers
           \/ step'[w].op = "answer" /\ step'[w].x = talk.answers + 1 /\ talk.answers < MaxAnswers
    BY GoingOn, Finishing, IdleOp, <1>1 DEF A!Converse
  <2>2. UNCHANGED <<talk, told>> /\ step'[w] # step[w] /\ step'[w].x \in Nat
    BY <1>1, <2>1 DEF A!Converse, AttemptInv, TalkTypes
  <2>3. StepFits(w)'
    BY <2>1, <2>2 DEF StepFits
  <2> QED BY <2>1, <2>2, <2>3, TalkStays
<1>2. CASE A!StoreOpening(w)
  <2>1. step' = [step EXCEPT ![w] = step'[w]] /\ step'[w].op = "idle" /\ step[w].op = "open"
    BY GoingOn, Finishing, IdleOp, <1>2 DEF A!StoreOpening
  <2>2. /\ talk' = [talk EXCEPT !.opened = TRUE, !.answers = step[w].x] /\ UNCHANGED told
        /\ step[w].x \in Nat
    BY <1>2, <2>1 DEF A!StoreOpening, AttemptInv, TalkTypes
  <2>3. talk' \in [status : {talk.status}, opened : BOOLEAN, answers : {step[w].x},
                   scored : {talk.scored}, emailSent : BOOLEAN]
    BY <2>2 DEF AttemptInv, TalkTypes
  <2>4. StepFits(w)' /\ step'[w] # step[w] /\ (w \notin missed => step[w].x = talk.answers)
    BY <2>1 DEF StepFits, AttemptInv, TalkTypes
  <2> QED BY <2>1, <2>2, <2>3, <2>4, TalkMoves DEF Keeps, AttemptInv, TalkTypes
<1>3. CASE A!StoreAnswer(w)
  <2>1. /\ step' = [step EXCEPT ![w] = step'[w]] /\ step'[w].op = "ask" /\ step[w].op = "answer"
        /\ step'[w].x = step[w].x
    <3>1. step' = [step EXCEPT ![w] = A!Do("ask", step[w].x)] /\ step[w].op = "answer"
      BY <1>3 DEF A!StoreAnswer
    <3>2. step'[w].op = "ask" /\ step' = [step EXCEPT ![w] = step'[w]]
      BY <3>1, GoingOn
    <3>3. step'[w].x = step[w].x
      BY <3>1, GoingOn
    <3> QED BY <3>1, <3>2, <3>3
  <2>2. /\ talk' = [talk EXCEPT !.opened = TRUE, !.answers = step[w].x]
        /\ told' = (IF told < MaxAnswers THEN told + 1 ELSE told)
        /\ step[w].x \in Nat /\ told' \in Nat
    BY <1>3, <2>1 DEF A!StoreAnswer, AttemptInv, TalkTypes
  <2>3. talk' \in [status : {talk.status}, opened : BOOLEAN, answers : {step[w].x},
                   scored : {talk.scored}, emailSent : BOOLEAN]
    BY <2>2 DEF AttemptInv, TalkTypes
  <2>4. step'[w] # step[w]
    BY <2>1 DEF AttemptInv, TalkTypes
  <2>5. StepFits(w)'
    BY <2>1, <2>3, <2>4 DEF StepFits
  <2>6. w \notin missed => step[w].x = talk.answers + 1 /\ talk.answers < MaxAnswers
    BY <2>1 DEF StepFits, AttemptInv
  <2>7. w \notin missed /\ talk.answers = told => talk'.answers = told'
    BY <2>2, <2>3, <2>6
  <2> QED BY <2>1, <2>2, <2>3, <2>4, <2>5, <2>7, TalkMoves DEF Keeps, AttemptInv, TalkTypes
<1>4. CASE A!NextTurn(w)
  <2>1. /\ step' = [step EXCEPT ![w] = step'[w]] /\ step[w].op = "ask"
        /\ step'[w].op = "idle" \/ (step'[w].op = "score" /\ step'[w].x = step[w].x)
    BY GoingOn, Finishing, IdleOp, <1>4 DEF A!NextTurn
  <2>2. step[w].x \in Nat /\ UNCHANGED told /\ step'[w] # step[w]
    BY <1>4, <2>1 DEF A!NextTurn, AttemptInv, TalkTypes
  <2>3. w \notin missed => step[w].x = talk.answers
    BY <2>1 DEF AttemptInv, StepFits
  <2>4. CASE UNCHANGED talk
    <3>1. w \notin missed => StepFits(w)'
      BY <2>1, <2>2, <2>3, <2>4 DEF StepFits
    <3> QED BY <2>1, <2>2, <2>4, <3>1, TalkStays
  <2>5. CASE talk' = [talk EXCEPT !.opened = TRUE, !.answers = step[w].x]
    <3>1. talk' \in [status : {talk.status}, opened : BOOLEAN, answers : {step[w].x},
                     scored : {talk.scored}, emailSent : BOOLEAN]
      BY <2>2, <2>5 DEF AttemptInv, TalkTypes
    <3>2. StepFits(w)'
      BY <2>1, <2>2, <3>1 DEF StepFits
    <3> QED BY <2>1, <2>2, <2>3, <3>1, <3>2, TalkMoves DEF Keeps, AttemptInv, TalkTypes
  <2> QED BY <1>4, <2>4, <2>5 DEF A!NextTurn
<1>5. CASE A!ScoreTranscript(w)
  <2>1. step' = [step EXCEPT ![w] = step'[w]] /\ step'[w].op = "close" /\ step[w].op = "score"
    BY GoingOn, Finishing, IdleOp, <1>5 DEF A!ScoreTranscript
  <2>2. /\ talk' = [talk EXCEPT !.status = "completed", !.scored = TRUE, !.opened = TRUE,
                                !.answers = step[w].x]
        /\ UNCHANGED told /\ step[w].x \in Nat
    BY <1>5, <2>1 DEF A!ScoreTranscript, AttemptInv, TalkTypes
  <2>3. talk' \in [status : {"completed"}, opened : BOOLEAN, answers : {step[w].x},
                   scored : BOOLEAN, emailSent : BOOLEAN]
    BY <2>2 DEF AttemptInv, TalkTypes
  <2>4. StepFits(w)' /\ step'[w] # step[w] /\ (w \notin missed => step[w].x = talk.answers)
    BY <2>1 DEF StepFits, AttemptInv, TalkTypes
  <2> QED BY <2>1, <2>2, <2>3, <2>4, TalkMoves DEF Keeps, AttemptInv, TalkTypes, A!Ended
<1> QED BY <1>1, <1>2, <1>3, <1>4, <1>5

\* The attempt ends, by a submit or a termination, and the recruiter is mailed.
LEMMA EndStep ==
    ASSUME AttemptInv, NEW w \in Handlers,
           \/ A!Submit(w) \/ A!SubmitScore(w) \/ A!TerminateWrite(w)
           \/ A!MarkInviteAttemptCompleted(w) \/ A!FireCompletionEmail(w) \/ A!SetEmailSent(w)
           \/ A!Crash(w) \/ \E i \in A!Invites : A!Terminate(w, i)
    PROVE  StepsBy(w)
<1> USE DEF A!Start, A!GoOn, A!Finish, A!At, Goes
<1>1. ASSUME NEW i \in A!Invites, A!Terminate(w, i) PROVE StepsBy(w)
  <2>1. step' = [step EXCEPT ![w] = step'[w]] /\ step'[w].op = "judged" /\ step[w].op = "idle"
    BY GoingOn, Finishing, IdleOp, <1>1 DEF A!Terminate
  <2>2. talk.status # "completed" /\ UNCHANGED <<talk, told>>
    BY <1>1 DEF A!Terminate, A!Ended
  <2>3. StepFits(w)' /\ step'[w] # step[w]
    BY <2>1, <2>2 DEF StepFits, AttemptInv, TalkTypes
  <2> QED BY <2>1, <2>2, <2>3, TalkStays
<1>2. CASE ~\E i \in A!Invites : A!Terminate(w, i)
  <2>1. /\ step' = [step EXCEPT ![w] = step'[w]] /\ step'[w] # step[w]
        /\ step'[w].op \in {"idle", "submitted", "close", "notify", "notified"}
    <3>1. CASE A!Submit(w) \/ A!SubmitScore(w) \/ A!TerminateWrite(w)
      BY GoingOn, Finishing, IdleOp, <3>1 DEF A!Submit, A!SubmitScore, A!TerminateWrite
    <3>2. CASE A!MarkInviteAttemptCompleted(w) \/ A!FireCompletionEmail(w)
      BY GoingOn, Finishing, IdleOp, <3>2 DEF A!MarkInviteAttemptCompleted, A!FireCompletionEmail
    <3>3. CASE A!SetEmailSent(w) \/ A!Crash(w)
      BY GoingOn, Finishing, IdleOp, <3>3 DEF A!SetEmailSent, A!Crash
    <3> QED BY <1>2, <3>1, <3>2, <3>3
  <2>2. StepFits(w)' /\ UNCHANGED told
    BY <1>2, <2>1 DEF A!Submit, A!SubmitScore, A!TerminateWrite, A!MarkInviteAttemptCompleted,
       A!FireCompletionEmail, A!SetEmailSent, A!Crash, StepFits, AttemptInv, TalkTypes
  <2>3. ASSUME NEW s \in {"none", "pending", "in_progress"} \cup A!Ended, NEW scored \in BOOLEAN,
               talk' \in [status : {s}, opened : BOOLEAN, answers : {talk.answers},
                          scored : {scored}, emailSent : BOOLEAN],
               \/ s = "completed"
               \/ w \notin missed => talk.status # "completed"
               \/ s = talk.status
        PROVE  StepsBy(w)
    BY <2>1, <2>2, <2>3, TalkMoves DEF Keeps, AttemptInv, TalkTypes
  <2>4. CASE A!SubmitScore(w)
    <3>1. talk' \in [status : {"completed"}, opened : BOOLEAN, answers : {talk.answers},
                     scored : {TRUE}, emailSent : BOOLEAN]
      BY <2>4 DEF A!SubmitScore, AttemptInv, TalkTypes
    <3> QED BY <2>3, <3>1 DEF A!Ended
  <2>5. CASE A!TerminateWrite(w)
    <3>1. talk' \in [status : {"terminated_proctoring"}, opened : BOOLEAN,
                     answers : {talk.answers}, scored : {TRUE}, emailSent : BOOLEAN]
      BY <2>5 DEF A!TerminateWrite, AttemptInv, TalkTypes
    <3>2. w \notin missed => talk.status # "completed"
      BY <2>5 DEF A!TerminateWrite, AttemptInv, StepFits
    <3> QED BY <2>3, <3>1, <3>2 DEF A!Ended
  <2>6. CASE A!SetEmailSent(w)
    <3>1. talk' \in [status : {talk.status}, opened : BOOLEAN, answers : {talk.answers},
                     scored : {talk.scored}, emailSent : BOOLEAN]
      BY <2>6 DEF A!SetEmailSent, AttemptInv, TalkTypes
    <3> QED BY <2>3, <3>1 DEF AttemptInv, TalkTypes
  <2>7. CASE \/ A!Submit(w) \/ A!MarkInviteAttemptCompleted(w) \/ A!FireCompletionEmail(w)
             \/ A!Crash(w)
    <3>1. UNCHANGED <<talk, told>>
      BY <2>7 DEF A!Submit, A!MarkInviteAttemptCompleted, A!FireCompletionEmail, A!Crash
    <3> QED BY <2>1, <2>2, <3>1, TalkStays
  <2> QED BY <1>2, <2>4, <2>5, <2>6, <2>7
<1> QED BY <1>1, <1>2

\* The staff submit or restart, each in one statement.
LEMMA StaffStep ==
    ASSUME AttemptInv, NEW w \in Handlers, A!StaffSubmit(w) \/ A!StaffStart(w)
    PROVE  StepsBy(w)
<1>1. /\ step[w] = A!Idle /\ UNCHANGED <<step, told>>
      /\ \/ talk' = [talk EXCEPT !.status = "completed", !.scored = TRUE]
         \/ talk' = [talk EXCEPT !.status = "in_progress", !.scored = FALSE]
  BY DEF A!StaffSubmit, A!StaffStart
<1>2. w \notin missed /\ step'[w].op = "idle"
  BY <1>1 DEF AttemptInv, A!Idle
<1>3. \/ talk' \in [status : {"completed"}, opened : BOOLEAN, answers : {talk.answers},
                    scored : {TRUE}, emailSent : BOOLEAN]
      \/ talk' \in [status : {"in_progress"}, opened : BOOLEAN, answers : {talk.answers},
                    scored : {FALSE}, emailSent : BOOLEAN]
  BY <1>1 DEF AttemptInv, TalkTypes
<1>4. StepFits(w)' /\ Keeps
  BY <1>2, <1>3 DEF StepFits, Keeps
<1>5. TalkTypes'
  BY <1>1, <1>3 DEF AttemptInv, TalkTypes, A!Ended
<1> QED BY <1>1, <1>2, <1>3, <1>4, <1>5 DEF StepsBy

\* An appeal is none of the conversation's.
LEMMA AppealStep ==
    ASSUME AttemptInv, NEW w \in Handlers, NEW i \in A!Invites,
           A!CreateAppeal(w, i) \/ A!UpdateAppeal(w, i)
    PROVE  StepsBy(w)
<1>1. step[w] = A!Idle /\ UNCHANGED <<talk, step, told>>
  BY DEF A!CreateAppeal, A!UpdateAppeal
<1>2. w \notin missed
  BY <1>1 DEF AttemptInv
<1> QED BY <1>1, <1>2 DEF StepsBy, AttemptInv, TalkTypes, StepFits, Keeps

LEMMA AttemptStep == ASSUME AttemptInv, [A!Next]_(A!vars) PROVE AttemptInv' /\ Stands
<1>1. CASE UNCHANGED <<talk, told, step, missed, raced>>
  BY <1>1 DEF AttemptInv, TalkTypes, StepFits, Stands, Keeps
<1>2. ASSUME NEW w \in Handlers, A!WorkerStep(w), A!Account(w) PROVE AttemptInv' /\ Stands
  <2>1. StepsBy(w)
    BY <1>2, InviteStep, BeginStep, TalkStep, EndStep, StaffStep, AppealStep DEF A!WorkerStep
  <2> QED BY <1>2, <2>1, AttemptSteps
<1> QED BY <1>1, <1>2 DEF A!Next, A!vars, A!Proctor, A!Advance, A!Expire

(* However many turns overlap, and whatever of the model, the mail or the  *)
(* process fails, no stored answer of the attempt is lost, unless a turn   *)
(* writes back a conversation it read before another wrote it              *)
(* (converse_invite).                                                      *)
THEOREM StoredAnswersSurvive == A!Spec => []AnswersSurvive
<1>1. AttemptInv => AnswersSurvive
  BY DEF AttemptInv, AnswersSurvive, A!AnswersSurvive
<1>2. AttemptInv /\ [A!Next]_(A!vars) => AttemptInv'
  BY AttemptStep
<1> QED BY <1>1, <1>2, AttemptInit, PTL DEF A!Spec

(* A completed interview stands, until a recruiter's new link, the staff's *)
(* restart, or a handler that checked the session before it was completed  *)
(* (start_invited_session).                                                *)
THEOREM CompletedInterviewStands == A!Spec => CompletedStands
<1>1. AttemptInv /\ [A!Next]_(A!vars) => AttemptInv'
  BY AttemptStep
<1>2. AttemptInv /\ [A!Next]_(A!vars) =>
        [talk.status = "completed" /\ talk'.status \notin {"completed", "pending"}
           => \/ talk'.status = "in_progress" /\ ~talk'.scored
              \/ \E w \in missed : step'[w] # step[w]]_(A!vars)
  BY AttemptStep DEF Stands, Keeps
<1> QED BY <1>1, <1>2, AttemptInit, PTL DEF A!Spec, CompletedStands, A!CompletedStands

-----------------------------------------------------------------------------
(* The rows of a proctored interview (ProctoringSession). *)

\* A tab that works on a session has the session's secret; a handler that is to
\* give a tab its secret knows both.
SessionRowsOK ==
    /\ DOMAIN session = S!Sessions
    /\ DOMAIN key = S!Sessions
    /\ DOMAIN tab = Tabs
    /\ DOMAIN job = Workers
    /\ inbox \in [S!Sessions -> [Kinds -> [made : BOOLEAN, reviewed : {"no", "yes", "again"},
                                           emailed : Nat]]]
    /\ lost \in BOOLEAN
    /\ \A t \in Tabs : tab[t].session # 0 =>
          /\ tab[t].session \in S!Sessions
          /\ key[tab[t].session] # S!NoSecret
          /\ tab[t].secret = key[tab[t].session]
    /\ \A w \in Workers :
          /\ job[w].op \in {"secret", "mint", "gaps", "digest", "marker"} =>
                job[w].s \in S!Sessions
          /\ job[w].op \in {"secret", "mint", "insert"} => job[w].x \in Tabs

\* Somebody is on the way to the digest of a session.
Sender(s) == \E w \in Workers : job[w].op \in {"gaps", "digest"} /\ job[w].s = s

\* A flag that waits for a digest.
Waits(s, k) ==
    inbox[s][k].made /\ inbox[s][k].emailed = 0 /\ inbox[s][k].reviewed = "no"

AlertsInv == \A s \in S!Sessions, k \in Kinds : Waits(s, k) => lost \/ Sender(s)

LEMMA SessionInit == S!Init => SessionRowsOK /\ AlertsInv
<1> SUFFICES ASSUME S!Init PROVE SessionRowsOK /\ AlertsInv
  OBVIOUS
<1>1. S!NoRow \in [made : BOOLEAN, reviewed : {"no", "yes", "again"}, emailed : Nat]
      /\ ~S!NoRow.made
  BY DEF S!NoRow
<1>2. S!Idle.op = "idle"
  BY DEF S!Idle
<1>3. SessionRowsOK
  BY <1>1, <1>2 DEF S!Init, SessionRowsOK
<1>4. AlertsInv
  BY <1>1 DEF S!Init, AlertsInv, Waits
<1> QED BY <1>3, <1>4

\* One handler goes on.
Moves(w) == DOMAIN job' = Workers /\ \A v \in Workers \ {w} : job'[v] = job[v]

\* What it goes on to.
LEMMA GoesOnTo ==
    ASSUME SessionRowsOK, NEW w \in Workers, NEW o, NEW s, NEW x,
           job' = [job EXCEPT ![w] = S!Do(o, s, x)]
    PROVE  Moves(w) /\ job'[w].op = o /\ job'[w].s = s /\ job'[w].x = x
<1>1. S!Do(o, s, x).op = o /\ S!Do(o, s, x).s = s /\ S!Do(o, s, x).x = x
  BY DEF S!Do
<1> QED BY <1>1 DEF SessionRowsOK, Moves

LEMMA GoesIdle ==
    ASSUME SessionRowsOK, NEW w \in Workers, job' = [job EXCEPT ![w] = S!Idle]
    PROVE  Moves(w) /\ job'[w].op = "idle"
BY DEF SessionRowsOK, Moves, S!Idle

\* Whoever does not stand before a digest may go anywhere: the senders stay.
LEMMA SendersStay ==
    ASSUME SessionRowsOK, NEW w \in Workers, Moves(w),
           job[w].op \notin {"gaps", "digest"}, NEW s, Sender(s)
    PROVE  Sender(s)'
<1>1. PICK v \in Workers : job[v].op \in {"gaps", "digest"} /\ job[v].s = s
  BY DEF Sender
<1>2. v # w /\ job'[v] = job[v]
  BY <1>1 DEF Moves
<1> QED BY <1>1, <1>2 DEF Sender

\* A handler that neither writes to the inbox nor stands before a digest.
LEMMA InboxStays ==
    ASSUME SessionRowsOK, AlertsInv, NEW w \in Workers, Moves(w),
           job[w].op \notin {"gaps", "digest"}, UNCHANGED <<inbox, lost>>
    PROVE  AlertsInv'
<1>1. ASSUME NEW s \in S!Sessions, NEW k \in Kinds, Waits(s, k)'
      PROVE  lost' \/ Sender(s)'
  <2>1. Waits(s, k)
    BY <1>1 DEF Waits
  <2>2. CASE lost
    BY <2>2
  <2>3. CASE Sender(s)
    BY <2>3, SendersStay
  <2> QED BY <2>1, <2>2, <2>3 DEF AlertsInv
<1> QED BY <1>1 DEF AlertsInv

LEMMA SecretNamed == ASSUME NEW s \in S!Sessions, NEW t PROVE <<s, t>> # S!NoSecret
<1>1. s # 0
  BY InterviewConstants DEF S!Sessions, S!SessionAssumption
<1> QED BY <1>1 DEF S!NoSecret

\* A handler goes on, and no row that a tab depends on is written.
LEMMA RowsStay ==
    ASSUME SessionRowsOK, NEW w \in Workers, Moves(w),
           DOMAIN session' = S!Sessions, UNCHANGED <<key, tab>>, lost' \in BOOLEAN,
           inbox' \in [S!Sessions -> [Kinds -> [made : BOOLEAN, reviewed : {"no", "yes", "again"},
                                                emailed : Nat]]],
           job'[w].op \in {"secret", "mint", "gaps", "digest", "marker"} =>
              job'[w].s \in S!Sessions,
           job'[w].op \in {"secret", "mint", "insert"} => job'[w].x \in Tabs
    PROVE  SessionRowsOK'
BY DEF SessionRowsOK, Moves

\* A session is made, or found.
LEMMA MakingStep ==
    ASSUME SessionRowsOK, AlertsInv, NEW w \in Workers,
           \/ S!InsertSession(w) \/ S!CreateSession(w) \/ S!CreateInsert(w)
           \/ \E t \in Tabs : S!InitRead(w, t)
    PROVE  SessionRowsOK' /\ AlertsInv'
<1>1. ASSUME Moves(w), job[w].op \notin {"gaps", "digest"},
             DOMAIN session' = S!Sessions, UNCHANGED <<key, tab, inbox, lost>>,
             \/ job'[w].op \in {"idle", "create"}
             \/ job'[w].op = "secret" /\ job'[w].s \in S!Sessions /\ job'[w].x \in Tabs
             \/ job'[w].op = "insert" /\ job'[w].x \in Tabs
      PROVE  SessionRowsOK' /\ AlertsInv'
  BY <1>1, RowsStay, InboxStays DEF SessionRowsOK
<1>2. CASE S!InsertSession(w)
  <2>1. PICK s \in S!Sessions : /\ session' = [session EXCEPT ![s] = S!Blank]
                                /\ job' = [job EXCEPT ![w] = S!Do("secret", s, job[w].x)]
    BY <1>2 DEF S!InsertSession, S!GoOn
  <2>2. job[w].op = "insert" /\ job[w].x \in Tabs /\ UNCHANGED <<key, tab, inbox, lost>>
    BY <1>2 DEF S!InsertSession, S!At, SessionRowsOK
  <2>3. DOMAIN session' = S!Sessions
    BY <2>1 DEF SessionRowsOK
  <2> QED BY <1>1, <2>1, <2>2, <2>3 DEF S!Do, SessionRowsOK, Moves
<1>3. CASE S!CreateSession(w)
  <2>1. /\ job[w].op = "idle" /\ job' = [job EXCEPT ![w] = S!Do("create", 1, 0)]
        /\ UNCHANGED <<session, key, tab, inbox, lost>>
    BY <1>3 DEF S!CreateSession, S!Start, S!Idle
  <2>2. DOMAIN session' = S!Sessions
    BY <2>1 DEF SessionRowsOK
  <2> QED BY <1>1, <2>1, <2>2, GoesOnTo
<1>4. CASE S!CreateInsert(w)
  <2>1. DOMAIN session' = S!Sessions
    BY <1>4 DEF S!CreateInsert, SessionRowsOK
  <2>2. /\ job[w].op = "create" /\ job' = [job EXCEPT ![w] = S!Idle]
        /\ UNCHANGED <<key, tab, inbox, lost>>
    BY <1>4 DEF S!CreateInsert, S!At, S!Finish, S!GoOn
  <2> QED BY <1>1, <2>1, <2>2, GoesIdle
<1>5. ASSUME NEW t \in Tabs, S!InitRead(w, t) PROVE SessionRowsOK' /\ AlertsInv'
  <2>1. job[w].op = "idle" /\ UNCHANGED <<session, key, tab, inbox, lost>>
    BY <1>5 DEF S!InitRead, S!Start, S!Idle
  <2>2. \/ job' = [job EXCEPT ![w] = S!Do("insert", 0, t)]
        \/ \E s \in S!Sessions : job' = [job EXCEPT ![w] = S!Do("secret", s, t)]
    BY <1>5 DEF S!InitRead, S!Start, S!Made
  <2> QED BY <1>1, <2>1, <2>2, GoesOnTo DEF SessionRowsOK
<1> QED BY <1>2, <1>3, <1>4, <1>5

\* The secret is minted by whoever is first, and read again by everybody.
LEMMA SecretStep ==
    ASSUME SessionRowsOK, AlertsInv, NEW w \in Workers, S!ReadSecret(w) \/ S!MintSecret(w)
    PROVE  SessionRowsOK' /\ AlertsInv'
<1> DEFINE s == job[w].s
           t == job[w].x
<1>1. s \in S!Sessions /\ t \in Tabs /\ job[w].op \notin {"gaps", "digest"}
      /\ UNCHANGED <<session, inbox, lost>>
  BY DEF S!ReadSecret, S!MintSecret, S!At, SessionRowsOK
<1>2. CASE S!ReadSecret(w) /\ key[s] # S!NoSecret
  <2>1. /\ tab' = [tab EXCEPT ![t] = [session |-> s, secret |-> key[s]]]
        /\ job' = [job EXCEPT ![w] = S!Idle] /\ UNCHANGED key
    BY <1>2 DEF S!ReadSecret, S!Finish, S!GoOn
  <2>2. tab'[t].session = s /\ tab'[t].secret = key[s] /\ \A u \in Tabs \ {t} : tab'[u] = tab[u]
    BY <1>1, <2>1 DEF SessionRowsOK
  <2>3. job'[w].op = "idle" /\ Moves(w)
    BY <2>1, GoesIdle
  <2>4. SessionRowsOK'
    BY <1>1, <1>2, <2>1, <2>2, <2>3 DEF SessionRowsOK, Moves
  <2> QED BY <1>1, <2>1, <2>3, <2>4, InboxStays
<1>3. CASE S!ReadSecret(w) /\ key[s] = S!NoSecret
  <2>1. job' = [job EXCEPT ![w] = S!Do("mint", s, t)] /\ UNCHANGED <<tab, key>>
    BY <1>3 DEF S!ReadSecret, S!GoOn
  <2>2. Moves(w) /\ job'[w].op = "mint" /\ job'[w].s = s /\ job'[w].x = t
    BY <2>1 DEF S!Do, SessionRowsOK, Moves
  <2> QED BY <1>1, <2>1, <2>2, RowsStay, InboxStays DEF SessionRowsOK
<1>4. CASE S!MintSecret(w)
  <2>1. /\ job' = [job EXCEPT ![w] = S!Do("secret", s, t)] /\ UNCHANGED tab
        /\ key' = IF key[s] = S!NoSecret THEN [key EXCEPT ![s] = <<s, t>>] ELSE key
    BY <1>4 DEF S!MintSecret, S!GoOn
  <2>2. Moves(w) /\ job'[w].op = "secret" /\ job'[w].s = s /\ job'[w].x = t
    BY <2>1 DEF S!Do, SessionRowsOK, Moves
  <2>3. DOMAIN key' = S!Sessions /\ \A r \in S!Sessions : key[r] # S!NoSecret => key'[r] = key[r]
    BY <1>1, <2>1 DEF SessionRowsOK
  <2>4. SessionRowsOK'
    BY <1>1, <2>1, <2>2, <2>3 DEF SessionRowsOK, Moves
  <2> QED BY <1>1, <2>1, <2>2, <2>4, InboxStays
<1> QED BY <1>2, <1>3, <1>4

-----------------------------------------------------------------------------
(* Who notes a flag in the inbox goes on to a digest, and a digest takes   *)
(* every flag that waits for it.                                           *)
LEMMA InboxMoves ==
    ASSUME SessionRowsOK, AlertsInv, NEW w \in Workers, NEW s \in S!Sessions,
           Moves(w), UNCHANGED lost,
           job[w].op \in {"gaps", "digest"} => job[w].s = s,
           \A r \in S!Sessions \ {s}, k \in Kinds : Waits(r, k)' => Waits(r, k),
           \/ job'[w].op \in {"gaps", "digest"} /\ job'[w].s = s
           \/ \A k \in Kinds : ~Waits(s, k)'
           \/ /\ job[w].op \notin {"gaps", "digest"}
              /\ \A k \in Kinds : Waits(s, k)' => Waits(s, k)
    PROVE  AlertsInv'
<1>1. ASSUME NEW r \in S!Sessions \ {s}, NEW k \in Kinds, Waits(r, k)' PROVE lost' \/ Sender(r)'
  <2>1. lost \/ Sender(r)
    BY <1>1 DEF AlertsInv
  <2>2. CASE Sender(r)
    <3>1. PICK v \in Workers : job[v].op \in {"gaps", "digest"} /\ job[v].s = r
      BY <2>2 DEF Sender
    <3>2. v # w
      BY <3>1
    <3> QED BY <3>1, <3>2 DEF Sender, Moves
  <2> QED BY <2>1, <2>2
<1>2. ASSUME NEW k \in Kinds, Waits(s, k)' PROVE lost' \/ Sender(s)'
  <2>1. CASE job'[w].op \in {"gaps", "digest"} /\ job'[w].s = s
    BY <2>1 DEF Sender
  <2>2. CASE /\ job[w].op \notin {"gaps", "digest"}
             /\ \A n \in Kinds : Waits(s, n)' => Waits(s, n)
    <3>1. lost \/ Sender(s)
      BY <1>2, <2>2 DEF AlertsInv
    <3> QED BY <2>2, <3>1, SendersStay
  <2> QED BY <1>2, <2>1, <2>2
<1> QED BY <1>1, <1>2 DEF AlertsInv

\* A flag is noted: one row of one session, if it is not there yet.
LEMMA NotedRow ==
    ASSUME SessionRowsOK, NEW s \in S!Sessions, NEW k \in Kinds, inbox' = S!Noted(s, k)
    PROVE  /\ inbox' \in [S!Sessions -> [Kinds -> [made : BOOLEAN, emailed : Nat,
                                                   reviewed : {"no", "yes", "again"}]]]
           /\ \A r \in S!Sessions \ {s} : inbox'[r] = inbox[r]
           /\ inbox[s][k].made => inbox' = inbox
<1>1. S!Row \in [made : BOOLEAN, reviewed : {"no", "yes", "again"}, emailed : Nat]
  BY DEF S!Row, S!NoRow
<1> QED BY <1>1 DEF S!Noted, SessionRowsOK

\* The statements that note a flag.
LEMMA NotingStep ==
    ASSUME SessionRowsOK, AlertsInv, NEW w \in Workers, NEW s \in S!Sessions,
           \/ S!SecretMisuse(w, s) \/ S!TerminationDiscrepancy(w, s)
           \/ S!RecordMonitoringGaps(w) /\ job[w].s = s
    PROVE  SessionRowsOK' /\ AlertsInv'
<1>1. /\ UNCHANGED <<session, key, tab, lost>>
      /\ job[w].op \in {"gaps", "digest"} => job[w].s = s
      /\ inbox' = inbox \/ \E k \in Kinds : inbox' = S!Noted(s, k)
  <2>1. CASE S!SecretMisuse(w, s)
    BY <2>1 DEF S!SecretMisuse, S!Start, S!Idle
  <2>2. CASE S!TerminationDiscrepancy(w, s)
    BY <2>2 DEF S!TerminationDiscrepancy, S!Start, S!Idle
  <2>3. CASE S!RecordMonitoringGaps(w) /\ job[w].s = s
    <3>1. CASE "monitoring_gap" \in Kinds /\ s \in gaps
      BY <2>3, <3>1 DEF S!RecordMonitoringGaps
    <3>2. CASE ~("monitoring_gap" \in Kinds /\ s \in gaps)
      BY <2>3, <3>2 DEF S!RecordMonitoringGaps
    <3> QED BY <2>3, <3>1, <3>2 DEF S!RecordMonitoringGaps
  <2> QED BY <2>1, <2>2, <2>3
<1>2. /\ inbox' \in [S!Sessions -> [Kinds -> [made : BOOLEAN, emailed : Nat,
                                              reviewed : {"no", "yes", "again"}]]]
      /\ \A r \in S!Sessions \ {s} : inbox'[r] = inbox[r]
  BY <1>1, NotedRow DEF SessionRowsOK
<1>3. \A r \in S!Sessions \ {s}, k \in Kinds : Waits(r, k)' => Waits(r, k)
  BY <1>2 DEF Waits
<1>4. /\ Moves(w) /\ job'[w].s = s
      /\ \/ job'[w].op \in {"gaps", "digest"}
         \/ job'[w].op = "done" /\ inbox' = inbox /\ job[w].op = "idle"
  <2>1. CASE S!SecretMisuse(w, s)
    <3>1. "secret_misuse" \in Kinds /\ inbox' = S!Noted(s, "secret_misuse") /\ job[w].op = "idle"
      BY <2>1 DEF S!SecretMisuse, S!Start, S!Idle
    <3>2. CASE inbox[s]["secret_misuse"].made
      <4>1. job' = [job EXCEPT ![w] = S!Do("done", s, 0)] /\ inbox' = inbox
        BY <2>1, <3>1, <3>2, NotedRow DEF S!SecretMisuse, S!Start
      <4> QED BY <3>1, <4>1 DEF S!Do, SessionRowsOK, Moves
    <3>3. CASE ~inbox[s]["secret_misuse"].made
      <4>1. job' = [job EXCEPT ![w] = S!Do("digest", s, 0)]
        BY <2>1, <3>3 DEF S!SecretMisuse, S!Start
      <4> QED BY <4>1 DEF S!Do, SessionRowsOK, Moves
    <3> QED BY <3>2, <3>3
  <2>2. CASE S!TerminationDiscrepancy(w, s)
    <3>1. job' = [job EXCEPT ![w] = S!Do("gaps", s, 0)]
      BY <2>2 DEF S!TerminationDiscrepancy, S!Start
    <3> QED BY <3>1 DEF S!Do, SessionRowsOK, Moves
  <2>3. CASE S!RecordMonitoringGaps(w) /\ job[w].s = s
    <3>1. job' = [job EXCEPT ![w] = S!Do("digest", s, 0)]
      BY <2>3 DEF S!RecordMonitoringGaps, S!GoOn
    <3> QED BY <3>1 DEF S!Do, SessionRowsOK, Moves
  <2> QED BY <2>1, <2>2, <2>3
<1>5. SessionRowsOK'
  BY <1>1, <1>2, <1>4, RowsStay DEF SessionRowsOK
<1>6. AlertsInv'
  <2>1. CASE job'[w].op \in {"gaps", "digest"}
    BY <1>1, <1>3, <1>4, <2>1, InboxMoves
  <2>2. CASE job'[w].op = "done" /\ inbox' = inbox /\ job[w].op = "idle"
    BY <1>1, <1>4, <2>2, InboxStays
  <2> QED BY <1>4, <2>1, <2>2
<1> QED BY <1>5, <1>6

\* The digest of a session claims every flag that waits for it.
LEMMA DigestStep ==
    ASSUME SessionRowsOK, AlertsInv, NEW w \in Workers, S!ClaimDigest(w)
    PROVE  SessionRowsOK' /\ AlertsInv'
<1>1. PICK s : s = job[w].s
  OBVIOUS
<1>2. s \in S!Sessions /\ UNCHANGED <<session, key, tab, lost>>
  BY <1>1 DEF S!ClaimDigest, S!At, SessionRowsOK
<1>3. inbox' = [inbox EXCEPT ![s] = [k \in Kinds |-> IF k \in S!Claimable(s)
                    THEN [inbox[s][k] EXCEPT !.emailed = inbox[s][k].emailed + 1]
                    ELSE inbox[s][k]]]
  BY <1>1 DEF S!ClaimDigest
<1>4. \A r \in S!Sessions \ {s} : inbox'[r] = inbox[r]
  BY <1>3 DEF SessionRowsOK
<1>5. ASSUME NEW k \in Kinds
      PROVE  /\ inbox'[s][k] \in [made : BOOLEAN, emailed : Nat, reviewed : {"no", "yes", "again"}]
             /\ ~Waits(s, k)'
  <2>1. inbox[s][k] \in [made : BOOLEAN, emailed : Nat, reviewed : {"no", "yes", "again"}]
    BY <1>2 DEF SessionRowsOK
  <2>2. CASE k \in S!Claimable(s)
    <3>1. inbox'[s][k] = [inbox[s][k] EXCEPT !.emailed = inbox[s][k].emailed + 1]
      BY <1>2, <1>3, <2>2 DEF SessionRowsOK
    <3> QED BY <2>1, <3>1 DEF Waits
  <2>3. CASE k \notin S!Claimable(s)
    <3>1. inbox'[s][k] = inbox[s][k]
      BY <1>2, <1>3, <2>3 DEF SessionRowsOK
    <3> QED BY <2>1, <2>3, <3>1 DEF Waits, S!Claimable
  <2> QED BY <2>2, <2>3
<1>6. inbox' \in [S!Sessions -> [Kinds -> [made : BOOLEAN, reviewed : {"no", "yes", "again"},
                                           emailed : Nat]]]
  <2>1. DOMAIN inbox'[s] = Kinds
    BY <1>2, <1>3 DEF SessionRowsOK
  <2>2. inbox'[s] \in [Kinds -> [made : BOOLEAN, reviewed : {"no", "yes", "again"}, emailed : Nat]]
    BY <1>2, <1>3, <1>5 DEF SessionRowsOK
  <2> QED BY <1>2, <1>3, <2>2 DEF SessionRowsOK
<1>7. Moves(w) /\ job'[w].op = "done"
  BY GoesOnTo DEF S!ClaimDigest, S!GoOn
<1>8. SessionRowsOK'
  BY <1>2, <1>6, <1>7, RowsStay DEF SessionRowsOK
<1>9. AlertsInv'
  <2>1. \A r \in S!Sessions \ {s}, k \in Kinds : Waits(r, k)' => Waits(r, k)
    BY <1>4 DEF Waits
  <2> QED BY <1>1, <1>2, <1>5, <1>7, <2>1, InboxMoves
<1> QED BY <1>8, <1>9

\* A flag is marked reviewed, or unmarked: neither waits for a digest.
LEMMA ReviewStep ==
    ASSUME SessionRowsOK, AlertsInv, NEW s \in S!Sessions, NEW k \in Kinds,
           S!ReviewIntegrityFlag(s, k)
    PROVE  SessionRowsOK' /\ AlertsInv'
<1>1. /\ inbox' = [inbox EXCEPT ![s][k].reviewed = IF inbox[s][k].reviewed = "yes"
                                                   THEN "again" ELSE "yes"]
      /\ UNCHANGED <<session, key, tab, lost, job>>
  BY DEF S!ReviewIntegrityFlag
<1>2. inbox' \in [S!Sessions -> [Kinds -> [made : BOOLEAN, reviewed : {"no", "yes", "again"},
                                           emailed : Nat]]]
  BY <1>1 DEF SessionRowsOK
<1>3. \A r \in S!Sessions, n \in Kinds : Waits(r, n)' => Waits(r, n)
  BY <1>1 DEF Waits, SessionRowsOK
<1>4. \A r : Sender(r) => Sender(r)'
  BY <1>1 DEF Sender
<1> QED BY <1>1, <1>2, <1>3, <1>4 DEF SessionRowsOK, AlertsInv

\* The rest of the steps: nobody stands before a digest, unless he dies there.
LEMMA OtherStep ==
    ASSUME SessionRowsOK, AlertsInv, NEW w \in Workers,
           \/ \E t \in Tabs : S!Complete(w, t)
           \/ S!FlushMarker(w) \/ S!Answer(w) \/ S!Crash(w)
    PROVE  SessionRowsOK' /\ AlertsInv'
<1>1. ASSUME NEW t \in Tabs, S!Complete(w, t) PROVE SessionRowsOK' /\ AlertsInv'
  <2>1. job[w].op = "idle" /\ UNCHANGED <<session, key, tab, inbox, lost>>
    BY <1>1 DEF S!Complete, S!Start, S!Idle
  <2>2. PICK s \in S!Sessions : s = tab[t].session
    BY <1>1 DEF S!Complete, SessionRowsOK
  <2>3. Moves(w) /\ job'[w].op \in {"marker", "gaps"} /\ job'[w].s = s
    BY <1>1, <2>2, GoesOnTo DEF S!Complete, S!Start
  <2>4. SessionRowsOK'
    BY <2>1, <2>3, RowsStay DEF SessionRowsOK
  <2> QED BY <2>1, <2>3, <2>4, InboxStays
<1>2. CASE S!FlushMarker(w)
  <2>1. job[w].op = "marker" /\ job[w].s \in S!Sessions /\ UNCHANGED <<key, tab, inbox, lost>>
    BY <1>2 DEF S!FlushMarker, S!At, SessionRowsOK
  <2>2. Moves(w) /\ job'[w].op = "gaps" /\ job'[w].s \in S!Sessions
    BY <1>2, <2>1 DEF S!FlushMarker, S!GoOn, S!Do, SessionRowsOK, Moves
  <2>3. DOMAIN session' = S!Sessions
    BY <1>2 DEF S!FlushMarker, S!Appended, SessionRowsOK
  <2>4. SessionRowsOK'
    BY <2>1, <2>2, <2>3, RowsStay DEF SessionRowsOK
  <2> QED BY <2>1, <2>2, <2>4, InboxStays
<1>3. CASE S!Answer(w)
  <2>1. /\ job[w].op = "done" /\ UNCHANGED <<session, key, tab, inbox, lost>>
        /\ Moves(w) /\ job'[w].op = "idle"
    BY <1>3, GoesIdle DEF S!Answer, S!At, S!Finish, S!GoOn
  <2>2. SessionRowsOK'
    BY <2>1, RowsStay DEF SessionRowsOK
  <2> QED BY <2>1, <2>2, InboxStays
<1>4. CASE S!Crash(w)
  <2>1. /\ lost' = TRUE /\ UNCHANGED <<session, key, tab, inbox>>
        /\ Moves(w) /\ job'[w].op = "idle"
    BY <1>4, GoesIdle DEF S!Crash, S!Finish, S!GoOn
  <2>2. SessionRowsOK'
    BY <2>1, RowsStay DEF SessionRowsOK
  <2> QED BY <2>1, <2>2 DEF AlertsInv
<1> QED BY <1>1, <1>2, <1>3, <1>4

LEMMA SessionStep ==
    ASSUME SessionRowsOK, AlertsInv, [S!Next]_(S!vars) PROVE SessionRowsOK' /\ AlertsInv'
<1>1. ASSUME DOMAIN session' = S!Sessions, UNCHANGED <<key, tab, inbox, lost, job>>
      PROVE  SessionRowsOK' /\ AlertsInv'
  BY <1>1 DEF SessionRowsOK, AlertsInv, Waits, Sender
<1>2. CASE UNCHANGED S!vars
  BY <1>1, <1>2 DEF S!vars, SessionRowsOK
<1>3. ASSUME NEW s \in S!Sessions, S!SubmitFlags(s) PROVE SessionRowsOK' /\ AlertsInv'
  BY <1>1, <1>3 DEF S!SubmitFlags, S!Appended, SessionRowsOK
<1>4. ASSUME NEW t \in Tabs, S!LateHeartbeat(t) PROVE SessionRowsOK' /\ AlertsInv'
  BY <1>1, <1>4 DEF S!LateHeartbeat, SessionRowsOK
<1>5. ASSUME NEW w \in Workers, S!RecordMonitoringGaps(w) PROVE SessionRowsOK' /\ AlertsInv'
  <2>1. job[w].s \in S!Sessions
    BY <1>5 DEF S!RecordMonitoringGaps, S!At, SessionRowsOK
  <2> QED BY <1>5, <2>1, NotingStep
<1> QED BY <1>2, <1>3, <1>4, <1>5, MakingStep, SecretStep, NotingStep, DigestStep, ReviewStep,
           OtherStep DEF S!Next

(* Tabs that race through /candidate/init hold the session's one secret,   *)
(* for any number of tabs and handlers (_get_or_create_session_secret).    *)
THEOREM OneSecretForAllTabs == S!Spec => []TabsHoldTheSecret
<1>1. SessionRowsOK => TabsHoldTheSecret
  BY DEF SessionRowsOK, TabsHoldTheSecret, S!TabsHoldTheSecret
<1> QED BY <1>1, SessionInit, SessionStep, PTL DEF S!Spec

(* Whichever handlers note flags at a time, somebody is on the way to the  *)
(* digest of a flag nobody has seen, unless a handler died                 *)
(* (send_integrity_digest_for_session).                                    *)
THEOREM NoAlertForgotten == S!Spec => []AlertsHaveASender
<1>1. AlertsInv => AlertsHaveASender
  BY DEF AlertsInv, Waits, Sender, AlertsHaveASender, S!AlertsHaveASender, S!Claimable
<1> QED BY <1>1, SessionInit, SessionStep, PTL DEF S!Spec

-----------------------------------------------------------------------------
(* The strikes (ProctoringJudge).  What the page has counted at each tick  *)
(* is a function of the ledger, as long as nothing has disturbed it; a     *)
(* tick without a flag adds no strike, so that what the replay leaves out  *)
(* after the last flag makes no difference.                                *)

Counts == [run : [Types -> Nat], last : [Types -> J!Times], strikes : Nat]
Pages == [count : Counts, warned : BOOLEAN, paused : BOOLEAN, ended : BOOLEAN, known : BOOLEAN]

\* A post with a flag that counts on this device.
Flagged(F) == F \cap J!Tracked(device) # {}

\* g is what the page has counted at each tick so far, and z the last tick with a flag.
History(g, z) ==
    /\ g \in [0 .. tick -> Counts] /\ g[0] = J!Fresh /\ g[tick] = page.count
    /\ \A k \in 1 .. tick : g[k] = J!Evaluated(device, g[k - 1], ledger[k], at[k], "began")
    /\ z \in 0 .. tick /\ (z > 0 => Flagged(ledger[z]))
    /\ \A k \in 1 .. tick : k > z => ~Flagged(ledger[k])
    /\ g[tick].strikes = g[z].strikes

JudgeInv ==
    /\ tick \in 0 .. MaxTicks
    /\ ledger \in [J!Ticks -> SUBSET Types]
    /\ \A k \in J!Ticks : k > tick => ledger[k] = {}
    /\ at \in [J!Ticks -> J!Times]
    /\ page \in Pages
    /\ page.paused => upset # {}
    /\ upset = {} => /\ frozen = {}
                     /\ tick > 0 => reported = device
                     /\ \E g, z : History(g, z)

LEMMA JudgeConstants == MaxTicks \in Nat
BY InterviewConstants DEF J!TickAssumption

LEMMA FreshCounts == J!Fresh \in Counts
BY DEF J!Fresh, J!Never, J!Times, Counts

LEMMA MomentTimes ==
    ASSUME NEW k \in Nat PROVE J!OnTheBeat(k) \in J!Times /\ J!Moments(k) \subseteq J!Times
BY DEF J!OnTheBeat, J!Moments, J!Times, J!Beat

LEMMA EvaluatedCounts ==
    ASSUME NEW d, NEW c \in Counts, NEW F, NEW now \in J!Times, NEW clock
    PROVE  J!Evaluated(d, c, F, now, clock) \in Counts
<1> DEFINE run == J!Counted(d, c, F)
           due == J!Due(d, c, run, now, clock)
<1>1. run \in [Types -> Nat]
  BY DEF J!Counted, Counts
<1>2. CASE due = {}
  <2>1. J!Evaluated(d, c, F, now, clock) = [c EXCEPT !.run = run]
    BY <1>2 DEF J!Evaluated
  <2> QED BY <1>1, <2>1 DEF Counts
<1>3. CASE due # {}
  <2>1. PICK first : J!Evaluated(d, c, F, now, clock) =
              [run |-> [run EXCEPT ![first] = 0], last |-> [c.last EXCEPT ![first] = now],
               strikes |-> c.strikes + 1]
    BY <1>3 DEF J!Evaluated
  <2>2. [run EXCEPT ![first] = 0] \in [Types -> Nat] /\ [c.last EXCEPT ![first] = now] \in [Types -> J!Times]
    BY <1>1 DEF Counts
  <2>3. c.strikes + 1 \in Nat
    BY DEF Counts
  <2> QED BY <2>1, <2>2, <2>3 DEF Counts
<1> QED BY <1>2, <1>3

(* A tick without a flag that counts adds no strike.                       *)
LEMMA NoFlagNoStrike ==
    ASSUME NEW d, NEW c \in Counts, NEW F, F \cap J!Tracked(d) = {}, NEW now, NEW clock
    PROVE  J!Evaluated(d, c, F, now, clock).strikes = c.strikes
<1> DEFINE run == J!Counted(d, c, F)
<1>1. run = [t \in Types |-> 0]
  BY DEF J!Counted
<1>2. \A i \in DOMAIN J!Order : J!Order[i] \in Types => run[J!Order[i]] = 0
  BY <1>1
<1>3. \A i \in DOMAIN J!Order : J!Persist(d)[J!Order[i]] \in Nat /\ J!Persist(d)[J!Order[i]] > 0
  BY DEF J!Order, J!Persist
<1>4. J!Tracked(d) \subseteq Types
  BY DEF J!Tracked
<1>5. J!Due(d, c, run, now, clock) = {}
  BY <1>2, <1>3, <1>4 DEF J!Due
<1>6. J!Evaluated(d, c, F, now, clock) = [c EXCEPT !.run = run]
  BY <1>5 DEF J!Evaluated
<1> QED BY <1>6 DEF Counts

LEMMA JudgeStarts == J!Init => JudgeInv
<1> SUFFICES ASSUME J!Init PROVE JudgeInv
  OBVIOUS
<1>1. /\ tick = 0 /\ page = [count |-> J!Fresh, warned |-> FALSE, paused |-> FALSE,
                             ended |-> FALSE, known |-> FALSE]
      /\ ledger = [k \in J!Ticks |-> {}] /\ frozen = {}
      /\ at = [k \in J!Ticks |-> J!OnTheBeat(k)]
  BY DEF J!Init
<1>2. page \in Pages /\ page.count = J!Fresh /\ ~page.paused
  BY <1>1, FreshCounts DEF Pages
<1>3. History([k \in 0 .. 0 |-> J!Fresh], 0)
  BY <1>1, <1>2, FreshCounts DEF History
<1>4. /\ tick \in 0 .. MaxTicks /\ ledger \in [J!Ticks -> SUBSET Types]
      /\ at \in [J!Ticks -> J!Times]
  BY <1>1, JudgeConstants, MomentTimes DEF J!Ticks
<1>5. \A k \in J!Ticks : k > tick => ledger[k] = {}
  BY <1>1
<1>6. ~ (tick > 0)
  BY <1>1
<1> QED BY <1>1, <1>2, <1>3, <1>4, <1>5, <1>6 DEF JudgeInv

(* A tick that disturbs nothing prolongs the history.                      *)
LEMMA TickProlongs ==
    ASSUME JudgeInv, NEW F \in SUBSET Types, NEW posted \in BOOLEAN, NEW now \in J!Times,
           J!Tick(F, posted, now), upset' = {}
    PROVE  /\ frozen' = {} /\ reported' = device'
           /\ \E g, z : History(g, z)'
<1>1. /\ upset = {} /\ (posted \/ F = {}) /\ ~page.warned /\ reported = device
      /\ UNCHANGED <<device, reported, frozen>> /\ tick' = tick + 1 /\ tick < MaxTicks
      /\ J!Evaluated(device, page.count, F, now, "judged")
             = J!Evaluated(device, page.count, F, now, "began")
      /\ at' = [at EXCEPT ![tick + 1] = now]
  BY DEF J!Tick
<1>2. PICK g, z : History(g, z)
  BY <1>1 DEF JudgeInv
<1>3. PICK c : c = J!Evaluated(device, page.count, F, now, "began")
  OBVIOUS
<1>4. page'.count = c
  BY <1>1, <1>3 DEF J!Tick, JudgeInv, Pages
<1>5. tick \in Nat /\ tick + 1 \in J!Ticks
  BY <1>1, JudgeConstants DEF JudgeInv, J!Ticks
<1>16. at'[tick + 1] = now /\ \A k \in 1 .. tick : at'[k] = at[k]
  BY <1>1, <1>5 DEF JudgeInv
<1>6. ledger'[tick + 1] = F /\ \A k \in 1 .. tick : ledger'[k] = ledger[k]
  <2>1. CASE posted
    BY <1>5, <2>1 DEF J!Tick, JudgeInv
  <2>2. CASE ~posted
    <3>1. ledger' = ledger /\ F = {}
      BY <1>1, <2>2 DEF J!Tick
    <3>2. ledger[tick + 1] = {}
      BY <1>5 DEF JudgeInv
    <3> QED BY <3>1, <3>2
  <2> QED BY <2>1, <2>2
<1>7. c \in Counts
  BY <1>2, <1>3, EvaluatedCounts DEF JudgeInv, Pages
<1>8. PICK h : h = [k \in 0 .. tick + 1 |-> IF k = tick + 1 THEN c ELSE g[k]]
  OBVIOUS
<1>9. /\ h \in [0 .. tick + 1 -> Counts] /\ h[tick + 1] = c
      /\ \A k \in 0 .. tick : h[k] = g[k]
  BY <1>2, <1>5, <1>7, <1>8 DEF History
<1>10. \A k \in 1 .. tick + 1 : h[k] = J!Evaluated(device, h[k - 1], ledger'[k], at'[k], "began")
  <2>1. ASSUME NEW k \in 1 .. tick + 1, k # tick + 1
        PROVE  h[k] = J!Evaluated(device, h[k - 1], ledger'[k], at'[k], "began")
    <3>1. k \in 1 .. tick /\ k - 1 \in 0 .. tick /\ k \in 0 .. tick
      BY <1>5, <2>1
    <3>2. h[k] = g[k] /\ h[k - 1] = g[k - 1] /\ ledger'[k] = ledger[k] /\ at'[k] = at[k]
      BY <3>1, <1>6, <1>9, <1>16
    <3> QED BY <3>1, <3>2, <1>2 DEF History
  <2>2. ASSUME NEW k \in 1 .. tick + 1, k = tick + 1
        PROVE  h[k] = J!Evaluated(device, h[k - 1], ledger'[k], at'[k], "began")
    <3>1. k - 1 = tick /\ h[tick] = page.count
      BY <1>2, <1>5, <1>9, <2>2 DEF History
    <3> QED BY <1>3, <1>6, <1>9, <1>16, <2>2, <3>1
  <2> QED BY <2>1, <2>2
<1>11. h[0] = J!Fresh
  BY <1>2, <1>5, <1>9 DEF History
<1>12. ASSUME NEW x, x \in 0 .. tick + 1, x > 0 => Flagged(ledger'[x]),
              \A k \in 1 .. tick + 1 : k > x => ~Flagged(ledger'[k]),
              h[tick + 1].strikes = h[x].strikes
       PROVE  \E hh, zz : History(hh, zz)'
  <2>2. h \in [0 .. tick' -> Counts] /\ h[0] = J!Fresh /\ h[tick'] = page'.count
    BY <1>1, <1>4, <1>9, <1>11
  <2>3. \A k \in 1 .. tick' : h[k] = J!Evaluated(device', h[k - 1], ledger'[k], at'[k], "began")
    BY <1>1, <1>10
  <2>4. x \in 0 .. tick' /\ h[tick'].strikes = h[x].strikes
    BY <1>1, <1>12
  <2>5. x > 0 => ledger'[x] \cap J!Tracked(device') # {}
    BY <1>1, <1>12 DEF Flagged
  <2>6. \A k \in 1 .. tick' : k > x => ~ (ledger'[k] \cap J!Tracked(device') # {})
    BY <1>1, <1>12 DEF Flagged
  <2>7. History(h, x)'
    BY <2>2, <2>3, <2>4, <2>5, <2>6 DEF History, Flagged
  <2> QED BY <2>7
<1>13. ASSUME Flagged(F) PROVE \E hh, zz : History(hh, zz)'
  <2>1. tick + 1 \in 0 .. tick + 1 /\ \A k \in 1 .. tick + 1 : ~ (k > tick + 1)
    BY <1>5
  <2>2. (tick + 1 > 0 => ledger'[tick + 1] \cap J!Tracked(device) # {})
    BY <1>6, <1>13 DEF Flagged
  <2> QED BY <1>12, <2>1, <2>2, <1>6 DEF Flagged
<1>14. ASSUME ~Flagged(F) PROVE \E hh, zz : History(hh, zz)'
  <2>1. c.strikes = page.count.strikes
    BY <1>3, <1>5, <1>14, NoFlagNoStrike DEF JudgeInv, Pages, Flagged
  <2>2. z \in 0 .. tick + 1 /\ h[tick + 1].strikes = h[z].strikes
    BY <1>2, <1>5, <1>9, <2>1 DEF History
  <2>3. z > 0 => Flagged(ledger'[z])
    BY <1>2, <1>5, <1>6 DEF History
  <2>4. ASSUME NEW k \in 1 .. tick + 1, k > z PROVE ~Flagged(ledger'[k])
    <3>1. CASE k = tick + 1
      BY <1>6, <1>14, <3>1
    <3>2. CASE k # tick + 1
      BY <1>2, <1>5, <1>6, <2>4, <3>2 DEF History
    <3> QED BY <3>1, <3>2
  <2>5. \A k \in 1 .. tick + 1 : k > z => ~Flagged(ledger'[k])
    BY <2>4
  <2> QED BY <1>12, <2>2, <2>3, <2>5, Zenon
<1>15. frozen' = {}
  BY <1>1 DEF JudgeInv
<1> QED BY <1>1, <1>13, <1>14, <1>15

LEMMA TickKeeps ==
    ASSUME JudgeInv, NEW F \in SUBSET Types, NEW posted \in BOOLEAN, NEW now \in J!Times,
           J!Tick(F, posted, now)
    PROVE  JudgeInv'
<1>1. tick \in Nat /\ tick < MaxTicks /\ tick' = tick + 1 /\ tick + 1 \in J!Ticks /\ ~page.paused
  BY JudgeConstants DEF J!Tick, J!Ticks, JudgeInv
<1>2. ledger' = ledger \/ ledger' = [ledger EXCEPT ![tick + 1] = F]
  BY DEF J!Tick
<1>3. ledger' \in [J!Ticks -> SUBSET Types] /\ \A k \in J!Ticks : k > tick + 1 => ledger'[k] = {}
  <2>1. \A k \in J!Ticks : k > tick + 1 => k > tick /\ k # tick + 1
    BY <1>1 DEF J!Ticks
  <2>2. CASE ledger' = ledger
    BY <2>1, <2>2 DEF JudgeInv
  <2>3. CASE ledger' = [ledger EXCEPT ![tick + 1] = F]
    BY <1>1, <2>1, <2>3 DEF JudgeInv
  <2> QED BY <1>2, <2>2, <2>3
<1>4. page' \in Pages /\ page'.paused = FALSE
  <2> DEFINE c == IF page.warned THEN page.count
                  ELSE J!Evaluated(device, page.count, F, now, "judged")
             w == (page.warned \/ c.strikes > page.count.strikes) /\ c.strikes < J!MaxStrikes
  <2>1. page' = [page EXCEPT !.count = c, !.warned = w, !.ended = c.strikes >= J!MaxStrikes]
    BY DEF J!Tick
  <2>2. c \in Counts
    BY <1>1, EvaluatedCounts DEF JudgeInv, Pages
  <2>3. w \in BOOLEAN /\ (c.strikes >= J!MaxStrikes) \in BOOLEAN
    <3>1. (c.strikes >= J!MaxStrikes) \in BOOLEAN /\ (c.strikes < J!MaxStrikes) \in BOOLEAN
      BY <2>2 DEF Counts, J!MaxStrikes
    <3> HIDE DEF c
    <3> QED BY <3>1, Zenon DEF JudgeInv, Pages
  <2>4. PICK cc, ww, oo : cc = c /\ ww = w /\ oo = (c.strikes >= J!MaxStrikes)
    OBVIOUS
  <2>5. /\ page' = [page EXCEPT !.count = cc, !.warned = ww, !.ended = oo]
        /\ cc \in Counts /\ ww \in BOOLEAN /\ oo \in BOOLEAN
    <3> HIDE DEF c, w
    <3> QED BY <2>1, <2>2, <2>3, <2>4, Zenon
  <2> HIDE DEF c, w
  <2> QED BY <1>1, <2>5 DEF JudgeInv, Pages
<1>5. tick' \in 0 .. MaxTicks /\ at' \in [J!Ticks -> J!Times]
  BY <1>1, JudgeConstants DEF J!Tick, JudgeInv
<1> QED BY <1>1, <1>3, <1>4, <1>5, TickProlongs DEF JudgeInv

LEMMA JudgeStep == ASSUME JudgeInv, [J!Next]_J!vars PROVE JudgeInv'
<1>1. CASE J!SubmitDevice
  BY <1>1 DEF J!SubmitDevice, JudgeInv, History, Flagged
<1>2. CASE J!Dismiss
  <2>1. /\ page' \in Pages /\ page'.paused = page.paused
        /\ page'.count = [page.count EXCEPT !.run = J!Fresh.run]
    BY <1>2, FreshCounts DEF J!Dismiss, JudgeInv, Pages, Counts
  <2>2. upset \subseteq upset' /\ UNCHANGED <<device, reported, tick, ledger, at, frozen>>
    BY <1>2 DEF J!Dismiss
  <2>3. upset' = {} => page'.count = page.count
    <3>1. upset' = {} => page.count.run = J!Fresh.run
      BY <1>2 DEF J!Dismiss
    <3> QED BY <2>1, <3>1 DEF JudgeInv, Pages, Counts
  <2>4. upset' = {} => \E g, z : History(g, z)'
    <3>1. SUFFICES ASSUME upset' = {} PROVE \E g, z : History(g, z)'
      OBVIOUS
    <3>2. PICK g, z : History(g, z)
      BY <2>2, <3>1 DEF JudgeInv
    <3>3. History(g, z)'
      BY <2>2, <2>3, <3>1, <3>2 DEF History, Flagged
    <3> QED BY <3>3
  <2> QED BY <2>1, <2>2, <2>4 DEF JudgeInv
<1>3. CASE J!Pause
  <2>1. page' \in Pages /\ upset' # {} /\ tick' = tick + 1 /\ tick < MaxTicks
        /\ UNCHANGED <<ledger, at>>
    BY <1>3 DEF J!Pause, JudgeInv, Pages
  <2> QED BY <2>1, JudgeConstants DEF JudgeInv, J!Ticks
<1>4. CASE J!FrozenTick
  <2>1. upset # {} /\ UNCHANGED <<upset, page, ledger, at>> /\ tick' = tick + 1 /\ tick < MaxTicks
    BY <1>4 DEF J!FrozenTick, JudgeInv
  <2> QED BY <2>1, JudgeConstants DEF JudgeInv, J!Ticks
<1>5. CASE J!Resume
  <2>1. upset # {} /\ UNCHANGED <<upset, tick, ledger, at>> /\ page' \in Pages
    BY <1>5 DEF J!Resume, JudgeInv, Pages
  <2> QED BY <2>1 DEF JudgeInv
<1>6. CASE UNCHANGED J!vars
  BY <1>6 DEF J!vars, JudgeInv, History, Flagged
<1>7. ASSUME NEW F \in SUBSET Types, NEW posted \in BOOLEAN,
             NEW now \in IF F = {} THEN {J!OnTheBeat(tick + 1)} ELSE J!Moments(tick + 1),
             J!Tick(F, posted, now)
      PROVE  JudgeInv'
  <2>1. tick + 1 \in Nat
    BY JudgeConstants DEF JudgeInv
  <2>2. now \in J!Times
    BY <2>1, MomentTimes
  <2> QED BY <1>7, <2>2, TickKeeps
<1> QED BY <1>1, <1>2, <1>3, <1>4, <1>5, <1>6, <1>7 DEF J!Next

(* The replay is the page's count up to the last flag, and stays there.    *)
LEMMA ReplayIsHistory ==
    ASSUME JudgeInv, upset = {}, NEW g, NEW z, History(g, z)
    PROVE  J!Replayed = page.count.strikes
<1> DEFINE seen == {k \in 1 .. tick : ledger[k] \cap J!Tracked(reported) # {} /\ k \notin frozen}
           Turn(f, k) == IF k = 0 THEN J!Fresh
                         ELSE IF k \in frozen \/ \A j \in seen : j < k THEN f[k - 1]
                         ELSE J!Evaluated(reported, f[k - 1], ledger[k], at[k], "began")
           replay == CHOOSE f : f = [k \in 0 .. tick |-> Turn(f, k)]
           h == [k \in 0 .. tick |-> IF k <= z THEN g[k] ELSE g[z]]
<1>1. J!Replayed = replay[tick].strikes
  BY DEF J!Replayed
<1>2. tick \in Nat /\ z \in 0 .. tick /\ frozen = {} /\ (tick > 0 => reported = device)
  BY JudgeConstants DEF JudgeInv, History
<1>3. ASSUME NEW k \in 1 .. tick PROVE (k \in frozen \/ \A j \in seen : j < k) <=> k > z
  <2>1. reported = device /\ \A j \in 1 .. tick : j \in seen <=> Flagged(ledger[j])
    BY <1>2, <1>3 DEF Flagged
  <2>2. \A j \in seen : j <= z
    BY <1>2, <2>1 DEF History
  <2>3. z > 0 => z \in seen
    BY <1>2, <2>1 DEF History
  <2>4. seen \subseteq 1 .. tick
    OBVIOUS
  <2> HIDE DEF seen
  <2>5. CASE k > z
    BY <1>2, <2>2, <2>4, <2>5
  <2>6. CASE ~ (k > z)
    <3>1. z \in seen /\ ~ (z < k)
      BY <1>2, <2>3, <2>6
    <3> QED BY <1>2, <2>6, <3>1
  <2> QED BY <2>5, <2>6
<1> HIDE DEF seen
<1>4. ASSUME NEW k \in 0 .. tick PROVE h[k] = Turn(h, k)
  <2>1. CASE k = 0
    BY <1>2, <2>1 DEF History
  <2>2. CASE k # 0 /\ k > z
    <3>1. k \in 1 .. tick /\ k - 1 \in 0 .. tick /\ ~ (k <= z)
      BY <1>2, <2>2
    <3>2. Turn(h, k) = h[k - 1]
      BY <1>3, <2>2, <3>1
    <3>3. h[k] = g[z]
      BY <3>1
    <3>4. h[k - 1] = g[z]
      <4>1. CASE k - 1 <= z
        <5>1. k - 1 = z
          BY <1>2, <2>2, <3>1, <4>1
        <5> QED BY <3>1, <5>1
      <4>2. CASE ~ (k - 1 <= z)
        BY <3>1, <4>2
      <4> QED BY <4>1, <4>2
    <3> QED BY <3>2, <3>3, <3>4
  <2>3. CASE k # 0 /\ ~ (k > z)
    <3>1. k \in 1 .. tick /\ k - 1 \in 0 .. tick /\ k <= z /\ k - 1 <= z
      BY <1>2, <2>3
    <3>2. Turn(h, k) = J!Evaluated(reported, h[k - 1], ledger[k], at[k], "began")
      BY <1>3, <2>3, <3>1
    <3>3. h[k] = g[k] /\ h[k - 1] = g[k - 1]
      BY <3>1
    <3>4. reported = device
      BY <1>2, <3>1
    <3>5. g[k] = J!Evaluated(device, g[k - 1], ledger[k], at[k], "began")
      BY <3>1 DEF History
    <3> QED BY <3>2, <3>3, <3>4, <3>5
  <2> QED BY <2>1, <2>2, <2>3
<1>5. h = [k \in 0 .. tick |-> Turn(h, k)]
  <2>1. h = [k \in 0 .. tick |-> h[k]]
    OBVIOUS
  <2> HIDE DEF h, Turn
  <2> QED BY <1>4, <2>1
<1>6. replay = [k \in 0 .. tick |-> Turn(replay, k)]
  <2> HIDE DEF h
  <2>1. \E f : f = [k \in 0 .. tick |-> Turn(f, k)]
    BY <1>5
  <2> QED BY <2>1
<1>7. \A k \in 0 .. tick : replay[k] = Turn(replay, k)
  <2> HIDE DEF Turn, replay
  <2> QED BY <1>6
<1> HIDE DEF replay, h
(* Two functions that follow the turns do not part: there is no first tick at which they would. *)
<1>8. ASSUME replay[tick] # h[tick] PROVE FALSE
  <2> DEFINE P == {k \in 0 .. tick : replay[k] # h[k]}
  <2>1. P \subseteq Nat /\ P # {}
    BY <1>2, <1>8
  <2>2. PICK m \in P : \A u \in P : ~ (<<u, m>> \in OpToRel(<, Nat))
    BY <2>1, NatLessThanWellFounded, WFMin
  <2>3. \A u \in P : ~ (u < m)
    BY <2>1, <2>2 DEF OpToRel
  <2>4. m \in 0 .. tick /\ replay[m] # h[m]
    BY <2>2
  <2>5. m # 0
    BY <1>4, <1>7, <2>4
  <2>6. m - 1 \in 0 .. tick /\ m - 1 < m
    BY <1>2, <2>4, <2>5
  <2>7. replay[m - 1] = h[m - 1]
    BY <2>3, <2>6
  <2>8. Turn(replay, m) = Turn(h, m)
    BY <2>7
  <2> QED BY <1>4, <1>7, <2>4, <2>8
<1>9. h[tick].strikes = g[z].strikes
  <2>1. CASE tick <= z
    <3>1. tick = z
      BY <1>2, <2>1
    <3> QED BY <1>2, <2>1, <3>1 DEF h
  <2>2. CASE ~ (tick <= z)
    BY <1>2, <2>2 DEF h
  <2> QED BY <2>1, <2>2
<1> QED BY <1>1, <1>8, <1>9 DEF History

(* As long as no post was lost, no pause or warning came in between, and   *)
(* the clocks agreed on what cooldowns were over,                          *)
(* the replay of the ledger counts the strikes the page counted, for any   *)
(* number of ticks, on every device and with any flags (score_session,     *)
(* _evalStrikeTick).                                                       *)
THEOREM BothCountTheSame == J!Spec => []ReplayAgrees
<1>1. JudgeInv => ReplayAgrees
  BY ReplayIsHistory DEF JudgeInv, ReplayAgrees, J!ReplayAgrees
<1> QED BY <1>1, JudgeStarts, JudgeStep, PTL DEF J!Spec
=============================================================================

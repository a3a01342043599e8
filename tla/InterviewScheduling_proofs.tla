---------------------- MODULE InterviewScheduling_proofs ----------------------
(* Proofs about InterviewScheduling.                                       *)
EXTENDS InterviewScheduling, TLAPS

(* Every job constructor yields a job.                                     *)
LEMMA JobsTyped ==
    /\ Idle \in Jobs /\ Leaving \in Jobs
    /\ \A n \in Rounds : /\ Creating(n) \in Jobs /\ Advancing(n) \in Jobs
                         /\ Entering(n) \in Jobs /\ Booking(n) \in Jobs
    /\ \A r \in Requests, h \in Managers : Assigning(r, h) \in Jobs
    /\ \A r \in Requests, S \in Proposals : Submitting(r, S) \in Jobs /\ Editing(r, S) \in Jobs
    /\ \A r \in Requests : Expiring(r) \in Jobs
    /\ \A s \in SlotIds : Picking(s) \in Jobs
BY DEF Jobs, Idle, Leaving, Creating, Advancing, Entering, Booking, Assigning, Submitting,
       Editing, Expiring, Picking

LEMMA NewRequestTyped ==
    ASSUME NEW n \in Rounds, NEW h \in Managers \cup {None}
    PROVE  NewRequest(n, h) \in RequestRows
BY DEF NewRequest, RequestRows

LEMMA InitTyped == Init => TypeOK
BY RoundAssumption, BoundAssumption, JobsTyped
   DEF Init, TypeOK, RequestRows, Rounds, Times, Batches

LEMMA StepTyped == TypeOK /\ [Next]_vars => TypeOK'
<1> SUFFICES ASSUME TypeOK, [Next]_vars PROVE TypeOK'
  OBVIOUS
<1> USE JobsTyped DEF TypeOK, Start, Finish
<1>1. ASSUME NEW w \in Workers, RequestStep(w) PROVE TypeOK'
  <2>1. ASSUME NEW n \in Rounds, CreateLook(w, n) PROVE TypeOK'
    BY <2>1 DEF CreateLook
  <2>2. ASSUME NEW n \in Rounds, NEW r \in Requests, NEW h \in Managers,
               CreateInsert(w, n, r, h)
        PROVE  TypeOK'
    BY <2>2, NewRequestTyped DEF CreateInsert
  <2>3. ASSUME AdvanceRead(w) PROVE TypeOK'
    <3>1. NextMove \in Jobs
      BY RoundAssumption DEF NextMove, Rounds
    <3> QED BY <2>3, <3>1 DEF AdvanceRead
  <2>4. ASSUME NEW n \in Rounds, AdvanceReuse(w, n) PROVE TypeOK'
    BY <2>4 DEF AdvanceReuse, MoveToRound
  <2>5. ASSUME NEW n \in Rounds, AdvanceLook(w, n) PROVE TypeOK'
    BY <2>5 DEF AdvanceLook
  <2>6. ASSUME NEW n \in Rounds, NEW r \in Requests, NEW h \in Managers,
               AdvanceInsert(w, n, r, h)
        PROVE  TypeOK'
    BY <2>6, NewRequestTyped DEF AdvanceInsert, MoveToRound
  <2>7. ASSUME AdvanceOut(w) PROVE TypeOK'
    BY <2>7 DEF AdvanceOut
  <2>8. ASSUME NEW r \in Requests, NEW h \in Managers, AssignRead(w, r, h) PROVE TypeOK'
    BY <2>8 DEF AssignRead
  <2>9. ASSUME NEW r \in Requests, NEW h \in Managers, AssignWrite(w, r, h) PROVE TypeOK'
    BY <2>9 DEF AssignWrite, RequestRows
  <2> QED BY <1>1, <2>1, <2>2, <2>3, <2>4, <2>5, <2>6, <2>7, <2>8, <2>9 DEF RequestStep
<1>2. ASSUME NEW w \in Workers, SlotStep(w) PROVE TypeOK'
  <2>1. ASSUME NEW r \in Requests, NEW S \in Proposals, SubmitRead(w, r, S) PROVE TypeOK'
    BY <2>1 DEF SubmitRead
  <2>2. ASSUME NEW r \in Requests, NEW S \in Proposals, SubmitCommit(w, r, S) PROVE TypeOK'
    BY <2>2, BoundAssumption DEF SubmitCommit, RequestRows, Batches
  <2>3. ASSUME NEW r \in Requests, NEW S \in Proposals, EditRead(w, r, S) PROVE TypeOK'
    BY <2>3 DEF EditRead
  <2>4. ASSUME NEW r \in Requests, NEW S \in Proposals, EditCommit(w, r, S) PROVE TypeOK'
    BY <2>4, BoundAssumption DEF EditCommit, RequestRows, Batches
  <2>5. ASSUME NEW r \in Requests, ExpireRead(w, r) PROVE TypeOK'
    BY <2>5 DEF ExpireRead
  <2>6. ASSUME NEW r \in Requests, ExpireWrite(w, r) PROVE TypeOK'
    BY <2>6 DEF ExpireWrite, RequestRows
  <2>7. ASSUME NEW s \in SlotIds, PickRead(w, s) PROVE TypeOK'
    BY <2>7 DEF PickRead
  <2>8. ASSUME NEW s \in SlotIds, NEW i \in Interviews, ConfirmPick(w, s, i) PROVE TypeOK'
    <3>1. s.req \in Requests
      BY DEF SlotIds
    <3>2. request' \in [Requests -> RequestRows]
      BY <2>8, <3>1 DEF ConfirmPick, RequestRows
    <3>3. slot' \in [SlotIds -> {"none", "open", "taken", "released"}]
      BY <2>8 DEF ConfirmPick, TakeSlot
    <3>4. interview' \in [Interviews -> InterviewRows \cup {None}]
      BY <2>8, <3>1 DEF ConfirmPick, FinalizeBooking, RequestRows, InterviewRows
    <3> QED BY <2>8, <3>2, <3>3, <3>4 DEF ConfirmPick
  <2> QED BY <1>2, <2>1, <2>2, <2>3, <2>4, <2>5, <2>6, <2>7, <2>8 DEF SlotStep
<1>3. ASSUME NEW w \in Workers, BookStep(w) PROVE TypeOK'
  <2>1. ASSUME NEW n \in Rounds, BookLook(w, n) PROVE TypeOK'
    BY <2>1 DEF BookLook
  <2>2. ASSUME NEW n \in Rounds, NEW r \in Requests, NEW i \in Interviews,
               BookInsert(w, n, r, i)
        PROVE  TypeOK'
    BY <2>2 DEF BookInsert, NewRequest, FinalizeBooking, RequestRows, InterviewRows
  <2> QED BY <1>3, <2>1, <2>2 DEF BookStep
<1>4. ASSUME NEW w \in Workers, Refused(w) PROVE TypeOK'
  BY <1>4 DEF Refused
<1>5. ASSUME NEW r \in Requests, NEW i \in Interviews, BookActive(r, i) PROVE TypeOK'
  BY <1>5 DEF BookActive, FinalizeBooking, RequestRows, InterviewRows
<1>6. ASSUME Tick PROVE TypeOK'
  BY <1>6, BoundAssumption DEF Tick, Times
<1>7. CASE UNCHANGED vars
  BY <1>7 DEF vars
<1> QED BY <1>1, <1>2, <1>3, <1>4, <1>5, <1>6, <1>7 DEF Next

(* Every variable keeps its type, whatever handlers run.                   *)
THEOREM TypeCorrect == Spec => []TypeOK
BY InitTyped, StepTyped, PTL DEF Spec

-----------------------------------------------------------------------------
(* The inductive invariant: the slots have to be known consistent to see   *)
(* that a commit finds nothing of an earlier batch in its way, and a       *)
(* booking exactly one free request, so the parts are proved together.     *)
Inv == TypeOK /\ OneBookingPerRequest /\ SlotsFollowRequest /\ CandidateSeesOneProposal

\* The steps that write none of the rows the invariant is about.
Quiet == UNCHANGED <<request, slot, interview>>

\* What a candidate sees depends on the request's own slots alone.
LEMMA SameSlotsSameOffer ==
    ASSUME NEW r \in Requests, \A s \in SlotIds : s.req = r => slot'[s] = slot[s]
    PROVE  OpenSlots(r)' = OpenSlots(r)
BY DEF OpenSlots, SlotsOf

LEMMA QuietKeepsInv == Inv /\ TypeOK' /\ Quiet => Inv'
<1> SUFFICES ASSUME Inv, TypeOK', Quiet PROVE Inv'
  OBVIOUS
<1>1. \A r \in Requests : OpenSlots(r)' = OpenSlots(r)
  BY SameSlotsSameOffer DEF Quiet
<1>2. OneBookingPerRequest' /\ SlotsFollowRequest'
  BY DEF Inv, Quiet, OneBookingPerRequest, SlotsFollowRequest
<1>3. CandidateSeesOneProposal'
  BY <1>1 DEF Inv, Quiet, CandidateSeesOneProposal
<1> QED BY <1>2, <1>3 DEF Inv

\* A request row that is written without touching status, pick or batch.
LEMMA AssignKeepsInv ==
    ASSUME Inv, TypeOK', NEW w \in Workers, NEW r \in Requests, NEW h \in Managers,
           AssignWrite(w, r, h)
    PROVE  Inv'
<1> USE DEF Inv, TypeOK, AssignWrite
<1>1. \A q \in Requests : /\ request'[q].status = request[q].status
                          /\ request'[q].pick = request[q].pick
                          /\ request'[q].batch = request[q].batch
  BY DEF RequestRows
<1>2. OneBookingPerRequest'
  BY <1>1 DEF OneBookingPerRequest, InterviewRows
<1>3. SlotsFollowRequest'
  BY <1>1 DEF SlotsFollowRequest, SlotIds
<1>4. \A q \in Requests : OpenSlots(q)' = OpenSlots(q)
  BY SameSlotsSameOffer
<1>5. CandidateSeesOneProposal'
  BY <1>1, <1>4 DEF CandidateSeesOneProposal
<1> QED BY <1>2, <1>3, <1>5

\* A new request waits for its manager and has no slots yet.
LEMMA InsertKeepsInv ==
    ASSUME Inv, TypeOK', NEW n \in Rounds, NEW r \in Requests, NEW h \in Managers,
           request[r].status = "none",
           request' = [request EXCEPT ![r] = NewRequest(n, h)],
           UNCHANGED <<slot, interview>>
    PROVE  Inv'
<1> USE DEF Inv, TypeOK, NewRequest
<1>1. OneBookingPerRequest'
  <2>1. \A i \in Interviews : interview[i] # None =>
             interview[i].req \in Requests /\ interview[i].req # r
    BY DEF OneBookingPerRequest, InterviewRows
  <2>2. \A q \in Requests : IF q = r THEN request'[q].status = "awaiting_hm"
                                     ELSE request'[q] = request[q]
    OBVIOUS
  <2> QED BY <2>1, <2>2 DEF OneBookingPerRequest
<1>2. \A s \in SlotIds : s.req = r => slot[s] = "none"
  BY NullAssumption DEF SlotsFollowRequest, SlotIds
<1>3. SlotsFollowRequest'
  BY <1>2, NullAssumption DEF SlotsFollowRequest, SlotIds
<1>4. CandidateSeesOneProposal'
  <2>1. \A q \in Requests : OpenSlots(q)' = OpenSlots(q)
    BY SameSlotsSameOffer
  <2> QED BY <2>1 DEF CandidateSeesOneProposal
<1> QED BY <1>1, <1>3, <1>4

\* A step that books nothing and confirms or unconfirms no request.
LEMMA NoBookingKept ==
    ASSUME Inv, UNCHANGED interview,
           \A q \in Requests :
              (request'[q].status = "confirmed") <=> (request[q].status = "confirmed")
    PROVE  OneBookingPerRequest'
BY DEF Inv, TypeOK, OneBookingPerRequest, InterviewRows

\* A step that confirms a request and books one interview for it.
LEMMA BookingKept ==
    ASSUME Inv, NEW r \in Requests, NEW i \in Interviews, NEW n \in Rounds,
           request[r].status # "confirmed", request'[r].status = "confirmed",
           \A q \in Requests \ {r} : request'[q] = request[q],
           FinalizeBooking(i, n, r)
    PROVE  OneBookingPerRequest'
<1>1. \A j \in Interviews : interview[j] # None =>
           interview[j].req \in Requests /\ interview[j].req # r
  BY DEF Inv, TypeOK, OneBookingPerRequest, InterviewRows
<1>2. [round |-> n, req |-> r] # None
  BY NullAssumption DEF InterviewRows
<1>3. interview'[i] # None /\ interview'[i].req = r
  BY <1>2 DEF Inv, TypeOK, FinalizeBooking
<1>4. \A j \in Interviews \ {i} : interview'[j] = interview[j]
  BY DEF Inv, TypeOK, FinalizeBooking
<1>5. interview[i] = None
  BY DEF FinalizeBooking
<1>6. ASSUME NEW q \in Requests, request'[q].status = "confirmed"
      PROVE  \E j \in Interviews : interview'[j] # None /\ interview'[j].req = q
  <2>1. CASE q = r
    BY <2>1, <1>3
  <2>2. CASE q # r
    BY <2>2, <1>4, <1>5, <1>6 DEF Inv, OneBookingPerRequest
  <2> QED BY <2>1, <2>2
<1>7. ASSUME NEW j \in Interviews, NEW k \in Interviews, interview'[j] # None
      PROVE  /\ request'[interview'[j].req].status = "confirmed"
             /\ interview'[k] # None /\ interview'[k].req = interview'[j].req => j = k
  <2>1. CASE j = i
    BY <2>1, <1>1, <1>3, <1>4
  <2>2. CASE j # i
    <3>1. interview'[j] = interview[j] /\ interview[j].req \in Requests \ {r}
      BY <2>2, <1>1, <1>4, <1>7
    <3>2. request'[interview[j].req] = request[interview[j].req]
      BY <3>1
    <3>3. CASE k = i
      BY <3>1, <3>2, <3>3, <1>3, <1>7 DEF Inv, OneBookingPerRequest
    <3>4. CASE k # i
      BY <3>1, <3>2, <3>4, <1>4, <1>7 DEF Inv, OneBookingPerRequest
    <3> QED BY <3>3, <3>4
  <2> QED BY <2>1, <2>2
<1> QED BY <1>6, <1>7 DEF OneBookingPerRequest

\* Requests other than r keep their row, slots other than r's theirs.
OnlyRequest(r) ==
    /\ \A q \in Requests \ {r} : request'[q] = request[q]
    /\ \A s \in SlotIds : s.req # r => slot'[s] = slot[s]

\* So of the invariants on slots and offers only r's share is left to show.
LEMMA OtherRequestsKept ==
    ASSUME Inv, TypeOK', NEW r \in Requests, OnlyRequest(r),
           request'[r].status # "awaiting_candidate" \/
               \E S \in Proposals : OpenSlots(r)' = Batch(r, request'[r].batch, S),
           \A s \in SlotIds : s.req = r =>
               /\ slot'[s] = "open" => request'[r].status \in {"awaiting_candidate", "expired"}
               /\ slot'[s] = "taken" => request'[r].pick = s
               /\ slot'[s] = "released" => request'[r].status = "confirmed",
           \A s \in SlotIds : request'[r].pick = s =>
               s.req = r /\ slot'[s] = "taken" /\ request'[r].status = "confirmed"
    PROVE  SlotsFollowRequest' /\ CandidateSeesOneProposal'
<1>1. SlotsFollowRequest'
  BY DEF Inv, SlotsFollowRequest, SlotIds, OnlyRequest
<1>2. \A q \in Requests \ {r} : OpenSlots(q)' = OpenSlots(q)
  BY SameSlotsSameOffer DEF OnlyRequest
<1>3. CandidateSeesOneProposal'
  BY <1>2 DEF Inv, CandidateSeesOneProposal, OnlyRequest
<1> QED BY <1>1, <1>3

LEMMA SubmitKeepsInv ==
    ASSUME Inv, TypeOK', NEW w \in Workers, NEW r \in Requests, NEW S \in Proposals,
           SubmitCommit(w, r, S)
    PROVE  Inv'
<1> DEFINE n == request[r].batch + 1
<1>1. request[r].status = "awaiting_hm" /\ n \in Batches
  BY BoundAssumption DEF Inv, TypeOK, SubmitCommit, Submittable, RequestRows, Batches
<1>2. /\ request'[r].status = "awaiting_candidate"
      /\ request'[r].pick = request[r].pick
      /\ request'[r].batch = n
      /\ \A q \in Requests \ {r} : request'[q] = request[q]
  BY DEF Inv, TypeOK, SubmitCommit, RequestRows
<1>3. \A s \in SlotIds : s.req = r => slot[s] = "none"
  BY <1>1, NullAssumption DEF Inv, TypeOK, SlotsFollowRequest, SlotIds
<1>4. \A s \in SlotIds : slot'[s] = IF s \in Batch(r, n, S) THEN "open" ELSE slot[s]
  BY DEF SubmitCommit
<1>5. OnlyRequest(r)
  BY <1>2, <1>4 DEF OnlyRequest, Batch
<1>6. OpenSlots(r)' = Batch(r, n, S)
  BY <1>3, <1>4 DEF OpenSlots, SlotsOf, Batch
<1>7. \E X \in Proposals : OpenSlots(r)' = Batch(r, request'[r].batch, X)
  BY <1>2, <1>6
<1>8. \A s \in SlotIds : request[r].pick # s
  BY <1>1 DEF Inv, SlotsFollowRequest
<1>9. \A s \in SlotIds : s.req = r => slot'[s] \in {"none", "open"}
  BY <1>3, <1>4
<1>10. SlotsFollowRequest' /\ CandidateSeesOneProposal'
  BY <1>2, <1>5, <1>7, <1>8, <1>9, OtherRequestsKept
<1>11. OneBookingPerRequest'
  BY <1>1, <1>2, NoBookingKept DEF SubmitCommit
<1> QED BY <1>10, <1>11 DEF Inv

LEMMA EditKeepsInv ==
    ASSUME Inv, TypeOK', NEW w \in Workers, NEW r \in Requests, NEW S \in Proposals,
           EditCommit(w, r, S)
    PROVE  Inv'
<1> DEFINE n == request[r].batch + 1
<1>1. /\ request[r].status = "awaiting_candidate"
      /\ n \in Batches
      /\ \A s \in SlotIds : s.req = r => slot[s] \in {"none", "open"}
  BY BoundAssumption
     DEF Inv, TypeOK, EditCommit, Editable, SlotsOf, RequestRows, Batches
<1>2. /\ request'[r].status = "awaiting_candidate"
      /\ request'[r].pick = request[r].pick
      /\ request'[r].batch = n
      /\ \A q \in Requests \ {r} : request'[q] = request[q]
  BY <1>1 DEF Inv, TypeOK, EditCommit, RequestRows
<1>3. \A s \in SlotIds : slot'[s] = IF s \in Batch(r, n, S) THEN "open"
                                    ELSE IF s \in OpenSlots(r) THEN "none"
                                    ELSE slot[s]
  BY DEF EditCommit
<1>4. OnlyRequest(r)
  BY <1>2, <1>3 DEF OnlyRequest, Batch, OpenSlots, SlotsOf
<1>5. OpenSlots(r)' = Batch(r, n, S)
  BY <1>1, <1>3 DEF OpenSlots, SlotsOf, Batch
<1>6. \E X \in Proposals : OpenSlots(r)' = Batch(r, request'[r].batch, X)
  BY <1>2, <1>5
<1>7. \A s \in SlotIds : request[r].pick # s
  BY <1>1 DEF Inv, SlotsFollowRequest
<1>8. \A s \in SlotIds : s.req = r => slot'[s] \in {"none", "open"}
  BY <1>1, <1>3
<1>9. SlotsFollowRequest' /\ CandidateSeesOneProposal'
  BY <1>2, <1>4, <1>6, <1>7, <1>8, OtherRequestsKept
<1>10. OneBookingPerRequest'
  BY <1>1, <1>2, NoBookingKept DEF EditCommit
<1> QED BY <1>9, <1>10 DEF Inv

LEMMA ExpireKeepsInv ==
    ASSUME Inv, TypeOK', NEW w \in Workers, NEW r \in Requests, ExpireWrite(w, r)
    PROVE  Inv'
<1>1. /\ request'[r].status = IF request[r].status = "awaiting_candidate" THEN "expired"
                              ELSE request[r].status
      /\ request'[r].pick = request[r].pick
      /\ \A q \in Requests \ {r} : request'[q] = request[q]
      /\ slot' = slot
  BY DEF Inv, TypeOK, ExpireWrite, RequestRows
<1>2. OnlyRequest(r)
  BY <1>1 DEF OnlyRequest
<1>3. request'[r].status # "awaiting_candidate"
  BY <1>1
<1>4. \A s \in SlotIds : s.req = r =>
               /\ slot'[s] = "open" => request'[r].status \in {"awaiting_candidate", "expired"}
               /\ slot'[s] = "taken" => request'[r].pick = s
               /\ slot'[s] = "released" => request'[r].status = "confirmed"
  BY <1>1 DEF Inv, SlotsFollowRequest
<1>5. ASSUME NEW s \in SlotIds, request'[r].pick = s
      PROVE  s.req = r /\ slot'[s] = "taken" /\ request'[r].status = "confirmed"
  <2>1. s.req = r /\ slot[s] = "taken" /\ request[r].status = "confirmed"
    BY <1>1, <1>5 DEF Inv, SlotsFollowRequest
  <2> QED BY <1>1, <2>1
<1>6. SlotsFollowRequest' /\ CandidateSeesOneProposal'
  BY <1>2, <1>3, <1>4, <1>5, OtherRequestsKept
<1>7. OneBookingPerRequest'
  BY <1>1, NoBookingKept DEF ExpireWrite
<1> QED BY <1>6, <1>7 DEF Inv

LEMMA ConfirmKeepsInv ==
    ASSUME Inv, TypeOK', NEW w \in Workers, NEW s \in SlotIds, NEW i \in Interviews,
           ConfirmPick(w, s, i)
    PROVE  Inv'
<1> DEFINE r == s.req
<1>1. /\ r \in Requests
      /\ request[r].status = "awaiting_candidate"
      /\ request[r].round \in Rounds
  BY DEF Inv, TypeOK, ConfirmPick, Pickable, RequestRows, SlotIds
<1>2. /\ request'[r].status = "confirmed"
      /\ request'[r].pick = s
      /\ \A q \in Requests \ {r} : request'[q] = request[q]
  BY <1>1 DEF Inv, TypeOK, ConfirmPick, RequestRows
<1>3. \A x \in SlotIds : slot'[x] = IF x = s THEN "taken"
                                    ELSE IF x \in OpenSlots(r) THEN "released"
                                    ELSE slot[x]
  BY DEF ConfirmPick, TakeSlot
<1>4. OnlyRequest(r)
  BY <1>2, <1>3 DEF OnlyRequest, OpenSlots, SlotsOf
<1>5. \A x \in SlotIds : x.req = r /\ x # s => slot'[x] \in {"none", "released"}
  BY <1>1, <1>3, NullAssumption DEF Inv, TypeOK, SlotsFollowRequest, OpenSlots, SlotsOf
<1>6. slot'[s] = "taken"
  BY <1>3
<1>7. SlotsFollowRequest' /\ CandidateSeesOneProposal'
  BY <1>1, <1>2, <1>4, <1>5, <1>6, OtherRequestsKept
<1>8. FinalizeBooking(i, request[r].round, r)
  BY DEF ConfirmPick
<1>9. OneBookingPerRequest'
  BY <1>1, <1>2, <1>8, BookingKept
<1> QED BY <1>7, <1>9 DEF Inv

LEMMA BookActiveKeepsInv ==
    ASSUME Inv, TypeOK', NEW r \in Requests, NEW i \in Interviews, BookActive(r, i)
    PROVE  Inv'
<1>1. /\ request[r].status \in {"awaiting_hm", "awaiting_candidate"}
      /\ request[r].round \in Rounds
  BY DEF Inv, TypeOK, BookActive, Active, RequestRows
<1>2. /\ request'[r].status = "confirmed"
      /\ request'[r].pick = request[r].pick
      /\ \A q \in Requests \ {r} : request'[q] = request[q]
  BY DEF Inv, TypeOK, BookActive, RequestRows
<1>3. \A x \in SlotIds : slot'[x] = IF x \in OpenSlots(r) THEN "released" ELSE slot[x]
  BY DEF BookActive
<1>4. OnlyRequest(r)
  BY <1>2, <1>3 DEF OnlyRequest, OpenSlots, SlotsOf
<1>5. \A x \in SlotIds : request[r].pick # x
  BY <1>1 DEF Inv, SlotsFollowRequest
<1>6. \A x \in SlotIds : x.req = r => slot'[x] \in {"none", "released"}
  BY <1>1, <1>3, <1>5 DEF Inv, TypeOK, SlotsFollowRequest, OpenSlots, SlotsOf
<1>7. SlotsFollowRequest' /\ CandidateSeesOneProposal'
  BY <1>2, <1>4, <1>5, <1>6, OtherRequestsKept
<1>8. FinalizeBooking(i, request[r].round, r)
  BY DEF BookActive
<1>9. OneBookingPerRequest'
  BY <1>1, <1>2, <1>8, BookingKept
<1> QED BY <1>7, <1>9 DEF Inv

LEMMA BookInsertKeepsInv ==
    ASSUME Inv, TypeOK', NEW w \in Workers, NEW n \in Rounds, NEW r \in Requests,
           NEW i \in Interviews, BookInsert(w, n, r, i)
    PROVE  Inv'
<1>1. request[r].status = "none" /\ slot' = slot
  BY DEF BookInsert
<1>2. /\ request'[r].status = "confirmed"
      /\ request'[r].pick = None
      /\ \A q \in Requests \ {r} : request'[q] = request[q]
  BY DEF Inv, TypeOK, BookInsert, NewRequest
<1>3. OnlyRequest(r)
  BY <1>1, <1>2 DEF OnlyRequest
<1>4. \A x \in SlotIds : x.req = r => slot'[x] = "none"
  BY <1>1 DEF Inv, TypeOK, SlotsFollowRequest
<1>5. SlotsFollowRequest' /\ CandidateSeesOneProposal'
  BY <1>2, <1>3, <1>4, NullAssumption, OtherRequestsKept
<1>6. OneBookingPerRequest'
  BY <1>1, <1>2, BookingKept DEF BookInsert
<1> QED BY <1>5, <1>6 DEF Inv

LEMMA InitInv == Init => Inv
<1> SUFFICES ASSUME Init PROVE Inv
  OBVIOUS
<1>1. TypeOK
  BY InitTyped
<1>2. SlotsFollowRequest
  BY NullAssumption DEF Init, SlotsFollowRequest, SlotIds
<1>3. OneBookingPerRequest /\ CandidateSeesOneProposal
  BY DEF Init, OneBookingPerRequest, CandidateSeesOneProposal
<1> QED BY <1>1, <1>2, <1>3 DEF Inv

LEMMA StepInv == Inv /\ [Next]_vars => Inv'
<1> SUFFICES ASSUME Inv, [Next]_vars PROVE Inv'
  OBVIOUS
<1>1. TypeOK'
  BY StepTyped DEF Inv
<1>2. ASSUME NEW w \in Workers, RequestStep(w) PROVE Inv'
  <2>1. ASSUME NEW n \in Rounds, NEW r \in Requests, NEW h \in Managers,
               CreateInsert(w, n, r, h) \/ AdvanceInsert(w, n, r, h)
        PROVE  Inv'
    BY <2>1, <1>1, InsertKeepsInv DEF CreateInsert, AdvanceInsert
  <2>2. ASSUME NEW r \in Requests, NEW h \in Managers, AssignWrite(w, r, h) PROVE Inv'
    BY <2>2, <1>1, AssignKeepsInv
  <2>3. CASE Quiet
    BY <2>3, <1>1, QuietKeepsInv
  <2> QED
    BY <1>2, <2>1, <2>2, <2>3
       DEF RequestStep, CreateLook, AdvanceRead, AdvanceReuse, AdvanceLook, AdvanceOut,
           AssignRead, Quiet
<1>3. ASSUME NEW w \in Workers, SlotStep(w) PROVE Inv'
  <2>1. ASSUME NEW r \in Requests, NEW S \in Proposals, SubmitCommit(w, r, S) PROVE Inv'
    BY <2>1, <1>1, SubmitKeepsInv
  <2>2. ASSUME NEW r \in Requests, NEW S \in Proposals, EditCommit(w, r, S) PROVE Inv'
    BY <2>2, <1>1, EditKeepsInv
  <2>3. ASSUME NEW r \in Requests, ExpireWrite(w, r) PROVE Inv'
    BY <2>3, <1>1, ExpireKeepsInv
  <2>4. ASSUME NEW s \in SlotIds, NEW i \in Interviews, ConfirmPick(w, s, i) PROVE Inv'
    BY <2>4, <1>1, ConfirmKeepsInv
  <2>5. CASE Quiet
    BY <2>5, <1>1, QuietKeepsInv
  <2> QED
    BY <1>3, <2>1, <2>2, <2>3, <2>4, <2>5
       DEF SlotStep, SubmitRead, EditRead, ExpireRead, PickRead, Quiet
<1>4. ASSUME NEW w \in Workers, BookStep(w) PROVE Inv'
  <2>1. ASSUME NEW n \in Rounds, NEW r \in Requests, NEW i \in Interviews,
               BookInsert(w, n, r, i)
        PROVE  Inv'
    BY <2>1, <1>1, BookInsertKeepsInv
  <2>2. CASE Quiet
    BY <2>2, <1>1, QuietKeepsInv
  <2> QED BY <1>4, <2>1, <2>2 DEF BookStep, BookLook, Quiet
<1>5. ASSUME NEW r \in Requests, NEW i \in Interviews, BookActive(r, i) PROVE Inv'
  BY <1>5, <1>1, BookActiveKeepsInv
<1>6. ASSUME NEW w \in Workers, Refused(w) PROVE Inv'
  BY <1>6, <1>1, QuietKeepsInv DEF Refused, Quiet
<1>7. CASE Tick \/ UNCHANGED vars
  BY <1>7, <1>1, QuietKeepsInv DEF Tick, vars, Quiet
<1> QED BY <1>2, <1>3, <1>4, <1>5, <1>6, <1>7 DEF Next

LEMMA InvHolds == Spec => []Inv
BY InitInv, StepInv, PTL DEF Spec

(* Any number of concurrent confirms, direct bookings, edits and expiries  *)
(* book a confirmed request exactly once (confirm_pick, book_direct).      *)
THEOREM BookedOnce == Spec => []OneBookingPerRequest
<1>1. Inv => OneBookingPerRequest
  BY DEF Inv
<1> QED BY <1>1, InvHolds, PTL

(* The slot rows agree with the request row they hang on, in every state   *)
(* (submit_slots, edit_slots, confirm_pick, book_direct).                  *)
THEOREM SlotsAgree == Spec => []SlotsFollowRequest
<1>1. Inv => SlotsFollowRequest
  BY DEF Inv
<1> QED BY <1>1, InvHolds, PTL

(* A candidate is offered one list of times, the last that was proposed,   *)
(* whole (_validate_slot_list, submit_slots, edit_slots).                  *)
THEOREM OfferIsOneProposal == Spec => []CandidateSeesOneProposal
<1>1. Inv => CandidateSeesOneProposal
  BY DEF Inv
<1> QED BY <1>1, InvHolds, PTL

\* The step formula of SettledStaysSettled.
Settled ==
    /\ \A r \in Requests : request[r].status \in {"confirmed", "expired"} =>
          /\ request'[r].status = request[r].status
          /\ request'[r].pick = request[r].pick
          /\ request'[r].batch = request[r].batch
    /\ \A s \in SlotIds : slot[s] \in {"taken", "released"} => slot'[s] = slot[s]

LEMMA StepSettles == Inv /\ [Next]_vars => Settled
<1> SUFFICES ASSUME Inv, [Next]_vars PROVE Settled
  OBVIOUS
<1>1. CASE Quiet
  BY <1>1 DEF Quiet, Settled
<1>2. ASSUME NEW n \in Rounds, NEW r \in Requests, NEW h \in Managers \cup {None},
             request[r].status = "none", slot' = slot,
             request' = [request EXCEPT ![r] = NewRequest(n, h)] \/
             request' = [request EXCEPT ![r] =
                            [NewRequest(n, h) EXCEPT !.status = "confirmed"]]
      PROVE  Settled
  BY <1>2 DEF Inv, TypeOK, Settled
<1>3. ASSUME NEW w \in Workers, NEW r \in Requests, NEW h \in Managers, AssignWrite(w, r, h)
      PROVE  Settled
  BY <1>3 DEF AssignWrite, Inv, TypeOK, RequestRows, Settled
<1>4. ASSUME NEW w \in Workers, NEW r \in Requests, NEW S \in Proposals, SubmitCommit(w, r, S)
      PROVE  Settled
  <2>1. request[r].status = "awaiting_hm"
    BY <1>4 DEF SubmitCommit, Submittable
  <2>2. \A q \in Requests \ {r} : request'[q] = request[q]
    BY <1>4 DEF SubmitCommit, Inv, TypeOK
  <2>3. \A s \in SlotIds : s.req = r => slot[s] = "none"
    BY <2>1, NullAssumption DEF Inv, TypeOK, SlotsFollowRequest, SlotIds
  <2>4. \A s \in SlotIds : s.req # r => slot'[s] = slot[s]
    BY <1>4 DEF SubmitCommit, Batch
  <2> QED BY <2>1, <2>2, <2>3, <2>4 DEF Settled
<1>5. ASSUME NEW w \in Workers, NEW r \in Requests, NEW S \in Proposals, EditCommit(w, r, S)
      PROVE  Settled
  <2>1. /\ request[r].status = "awaiting_candidate"
        /\ \A s \in SlotIds : s.req = r => slot[s] \in {"none", "open"}
    BY <1>5 DEF EditCommit, Editable, SlotsOf
  <2>2. \A q \in Requests \ {r} : request'[q] = request[q]
    BY <1>5 DEF EditCommit, Inv, TypeOK
  <2>3. \A s \in SlotIds : s.req # r => slot'[s] = slot[s]
    BY <1>5 DEF EditCommit, Batch, OpenSlots, SlotsOf
  <2> QED BY <2>1, <2>2, <2>3 DEF Settled
<1>6. ASSUME NEW w \in Workers, NEW r \in Requests, ExpireWrite(w, r) PROVE Settled
  BY <1>6 DEF ExpireWrite, Inv, TypeOK, RequestRows, Settled
<1>7. ASSUME NEW w \in Workers, NEW s \in SlotIds, NEW i \in Interviews, ConfirmPick(w, s, i)
      PROVE  Settled
  <2>1. request[s.req].status = "awaiting_candidate" /\ slot[s] = "open" /\ s.req \in Requests
    BY <1>7 DEF ConfirmPick, Pickable, SlotIds
  <2>2. \A q \in Requests \ {s.req} : request'[q] = request[q]
    BY <1>7, <2>1 DEF ConfirmPick, Inv, TypeOK
  <2>3. \A x \in SlotIds : slot[x] # "open" => slot'[x] = slot[x]
    BY <1>7, <2>1 DEF ConfirmPick, TakeSlot, OpenSlots, SlotsOf
  <2> QED BY <2>1, <2>2, <2>3 DEF Settled
<1>8. ASSUME NEW r \in Requests, NEW i \in Interviews, BookActive(r, i) PROVE Settled
  BY <1>8 DEF BookActive, Active, OpenSlots, SlotsOf, Inv, TypeOK, Settled
<1>9. ASSUME NEW w \in Workers, RequestStep(w) PROVE Settled
  BY <1>9, <1>1, <1>2, <1>3
     DEF RequestStep, CreateLook, CreateInsert, AdvanceRead, AdvanceReuse, AdvanceLook,
         AdvanceInsert, AdvanceOut, AssignRead, Quiet
<1>10. ASSUME NEW w \in Workers, SlotStep(w) PROVE Settled
  BY <1>10, <1>1, <1>4, <1>5, <1>6, <1>7
     DEF SlotStep, SubmitRead, EditRead, ExpireRead, PickRead, Quiet
<1>11. ASSUME NEW w \in Workers, BookStep(w) PROVE Settled
  BY <1>11, <1>1, <1>2 DEF BookStep, BookLook, BookInsert, Quiet
<1>12. ASSUME NEW w \in Workers, Refused(w) PROVE Settled
  BY <1>12, <1>1 DEF Refused, Quiet
<1>13. CASE Tick \/ UNCHANGED vars
  BY <1>13, <1>1 DEF Tick, vars, Quiet
<1> QED BY <1>8, <1>9, <1>10, <1>11, <1>12, <1>13 DEF Next

(* Booked and expired requests, and slots once given away, are final: no   *)
(* handler that looked earlier undoes them (edit_slots, _lazy_expire).     *)
THEOREM SettledForGood == Spec => SettledStaysSettled
<1>1. Inv /\ [Next]_vars => [Settled]_vars
  BY StepSettles
<1>2. Spec => [][Settled]_vars
  BY <1>1, InvHolds, PTL DEF Spec
<1> QED BY <1>2 DEF Settled, SettledStaysSettled
=============================================================================

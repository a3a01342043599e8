----------------------------- MODULE Hiring_proofs -----------------------------
(***************************************************************************)
(* Proofs about a candidate on the way to a job: the approval of an offer, *)
(* by OfferApproval's own names, the stages of the application (A!) and    *)
(* the scorecards of a panel (F!), for any number of offers, approvers,    *)
(* rounds, panelists and requests.                                         *)
(*                                                                         *)
(* Requests overlap as they like.  Nothing in the code keeps two handlers  *)
(* off the same offer, and what is promised of an offer is lost once one   *)
(* writes to it by rows that another has changed since: the invariant      *)
(* follows the workers that go by such rows (missed) and the offers they   *)
(* wrote to (raced), and holds of all the others.                          *)
(***************************************************************************)
EXTENDS MCHiring, FiniteSetTheorems, NaturalsInduction, WellFoundedInduction, TLAPS

-----------------------------------------------------------------------------
(* The approval of an offer (OfferApproval). *)

OfferTypes ==
    /\ chain \subseteq Steps
    /\ offer \in [Offers -> [status : Statuses, current : Steps, batch : Nat,
                             terms : Terms \cup {None}, agreed : SUBSET (Terms \cup {None})]]
    /\ step \in [Offers -> [Steps -> {"none", "pending", "approved", "rejected"}]]
    /\ DOMAIN handed = Offers
    /\ job = [w \in Workers |-> job[w]]
    /\ \A w \in Workers : job[w].op = "pass" => job[w].at + 1 \in Steps
    /\ missed \subseteq Workers /\ raced \subseteq Offers

\* Every step before the current one is approved; an offer that has gone to
\* Darwinbox has no step left to approve, whether it says it was sent or not.
OfferFits(o) ==
    /\ \A n \in Steps : n < offer[o].current => step[o][n] = "approved"
    /\ \A k \in Approved(o) : \A n \in Rows(o) : n < k => n \in Approved(o)
    /\ offer[o].status \in {"none", "revising"} => handed[o] = 0
    /\ handed[o] \in {0, 1}
    /\ offer[o].status = "sent_to_darwinbox" => handed[o] = 1
    /\ offer[o].status = "pending_approval" /\ handed[o] = 1 =>
           step[o][offer[o].current] = "approved"
    /\ offer[o].status \in {"pending_approval", "sent_to_darwinbox"} =>
           offer[o].agreed \subseteq {offer[o].terms}

\* What a handler has read is still so when it writes.
JobFits(w) ==
    LET j == job[w]
        o == j.offer
    IN  /\ j.op \in OnOffer => o \in Offers
        /\ j.op \in {"create", "resubmit"} => chain # {}
        /\ j.op \in {"edit", "resubmit"} => offer[o].status = "revising"
        /\ j.op \in {"approve", "reject"} =>
              Actionable(o) /\ j.batch = offer[o].batch /\ j.at = offer[o].current
        /\ j.op \in {"count", "pass"} =>
              /\ offer[o].status = "pending_approval" /\ handed[o] = 0
              /\ j.at = offer[o].current /\ step[o][j.at] = "approved"
        /\ j.op = "send" =>
              /\ offer[o].status = "pending_approval" /\ handed[o] = 1
              /\ Rows(o) = Approved(o)
        /\ j.op = "revise" =>
              /\ offer[o].status = "pending_approval" /\ handed[o] = 0
              /\ step[o][offer[o].current] = "rejected"
        /\ j.op = "set" => offer[o].status # "none"

\* An offer fits unless it was written to on stale ground, and a handler unless it goes by such
\* an offer or by what another has overwritten.
OffersInv ==
    /\ OfferTypes
    /\ \A o \in Offers \ raced : OfferFits(o)
    /\ \A w \in Workers \ missed : JobFits(w)
    /\ \A w \in Workers : \A o \in raced : GoesBy(w, o) => w \in missed

LEMMA OffersInit == Init => OffersInv
<1> SUFFICES ASSUME Init PROVE OffersInv
  OBVIOUS
<1>1. 1 \in Steps
  BY StepsAssumption DEF Steps
<1>2. OfferTypes
  BY <1>1 DEF Init, OfferTypes, NoSteps, Statuses, Idle
<1>3. ASSUME NEW o \in Offers PROVE OfferFits(o)
  <2>1. \A n \in Steps : ~(n < 1)
    BY StepsAssumption DEF Steps
  <2> QED BY <2>1, <1>1 DEF Init, OfferFits, NoSteps, Approved, Rows
<1>4. ASSUME NEW w \in Workers PROVE JobFits(w)
  BY DEF Init, JobFits, Idle, OnOffer
<1> QED BY <1>2, <1>3, <1>4 DEF OffersInv, Init

\* An offer nobody writes to stays as it is.
LEMMA OfferStays ==
    ASSUME NEW o \in Offers, OfferFits(o),
           offer'[o] = offer[o], step'[o] = step[o], handed'[o] = handed[o]
    PROVE  OfferFits(o)'
BY DEF OfferFits, Approved, Rows

\* A handler that goes by what it read goes by an offer nobody wrote to on stale ground.
LEMMA OnFirmGround ==
    ASSUME OffersInv, NEW w \in Workers \ missed, NEW o, GoesBy(w, o)
    PROVE  o \in Offers \ raced /\ OfferFits(o) /\ JobFits(w)
BY DEF OffersInv, JobFits, GoesBy

-----------------------------------------------------------------------------
(* What the others make of a worker's step: who goes by a row that it      *)
(* wrote to is in missed from then on.                                     *)
LEMMA OthersFit ==
    ASSUME OffersInv, NEW w \in Workers, NEW j, job' = [job EXCEPT ![w] = j], Account(w),
           NEW v \in Workers \ {w}, v \notin missed'
    PROVE  JobFits(v)'
<1>1. job'[v] = job[v]
  BY DEF OffersInv, OfferTypes
<1>2. CASE job[v] = Idle
  BY <1>1, <1>2 DEF JobFits, Idle, OnOffer
<1>3. CASE job[v] # Idle
  <2>1. v \notin missed /\ JobFits(v)
    BY <1>1, <1>3 DEF Account, OffersInv
  <2>2. GoesByChain(v) => chain' = chain
    BY <1>1, <1>3 DEF Account
  <2>3. CASE job[v].op \in OnOffer
    <3>1. PICK o \in Offers : o = job[v].offer
      BY <2>1, <2>3 DEF JobFits
    <3>2. o \notin Written
      BY <1>1, <1>3, <2>3, <3>1 DEF Account, GoesBy
    <3>3. offer'[o] = offer[o] /\ step'[o] = step[o] /\ handed'[o] = handed[o]
      BY <3>2 DEF Written
    <3>4. Actionable(o)' = Actionable(o) /\ Rows(o)' = Rows(o) /\ Approved(o)' = Approved(o)
      BY <3>3 DEF Actionable, Rows, Approved
    <3> QED BY <1>1, <2>1, <2>2, <3>1, <3>3, <3>4 DEF JobFits, GoesByChain
  <2>4. CASE job[v].op \notin OnOffer
    BY <1>1, <2>1, <2>2, <2>4 DEF JobFits, GoesByChain, OnOffer
  <2> QED BY <2>3, <2>4
<1> QED BY <1>2, <1>3

(* A worker's step keeps the invariant if it leaves the offers that were   *)
(* not raced fit, and its own handler.                                     *)
LEMMA WorkerSteps ==
    ASSUME OffersInv, OfferTypes', NEW w \in Workers, NEW j, job' = [job EXCEPT ![w] = j],
           Account(w),
           \A o \in Offers \ raced' : OfferFits(o)',
           w \notin missed' => JobFits(w)'
    PROVE  OffersInv'
<1>1. ASSUME NEW v \in Workers, v \notin missed' PROVE JobFits(v)'
  BY <1>1, OthersFit
<1>2. ASSUME NEW v \in Workers, NEW o \in raced', GoesBy(v, o)' PROVE v \in missed'
  <2>1. job'[v] # Idle
    BY <1>2 DEF GoesBy, OnOffer, Idle
  <2> QED BY <1>2, <2>1 DEF Account
<1> QED BY <1>1, <1>2 DEF OffersInv

\* On stale ground: the offers that are written to are given up.
LEMMA StaleSteps ==
    ASSUME OffersInv, OfferTypes', NEW w \in missed, NEW j, job' = [job EXCEPT ![w] = j],
           Account(w)
    PROVE  OffersInv'
<1>1. w \in Workers /\ raced' = raced \cup Written
  BY DEF OffersInv, OfferTypes, Account
<1>2. ASSUME NEW o \in Offers \ raced' PROVE OfferFits(o)'
  <2>1. offer'[o] = offer[o] /\ step'[o] = step[o] /\ handed'[o] = handed[o]
    BY <1>1 DEF Written
  <2> QED BY <1>1, <2>1, OfferStays DEF OffersInv
<1>3. ASSUME w \notin missed' PROVE JobFits(w)'
  <2>1. job'[w] = Idle
    BY <1>1, <1>3 DEF Account
  <2> QED BY <2>1 DEF JobFits, Idle, OnOffer
<1> QED BY <1>1, <1>2, <1>3, WorkerSteps

\* On firm ground: a handler goes on to its next statement, and no offer is written to.
LEMMA HandlerGoesOn ==
    ASSUME OffersInv, OfferTypes', NEW w \in Workers \ missed, NEW j,
           job' = [job EXCEPT ![w] = j], Account(w),
           UNCHANGED <<offer, step, handed>>, JobFits(w)'
    PROVE  OffersInv'
<1>1. raced' = raced
  BY DEF Account
<1>2. ASSUME NEW o \in Offers \ raced' PROVE OfferFits(o)'
  BY <1>1, OfferStays DEF OffersInv
<1> QED BY <1>2, WorkerSteps

\* On firm ground: a handler writes to one offer.
LEMMA OfferWritten ==
    ASSUME OffersInv, OfferTypes', NEW w \in Workers \ missed, NEW j,
           job' = [job EXCEPT ![w] = j], Account(w), NEW o \in Offers,
           \A p \in Offers \ {o} :
              offer'[p] = offer[p] /\ step'[p] = step[p] /\ handed'[p] = handed[p],
           o \notin raced => OfferFits(o)', JobFits(w)'
    PROVE  OffersInv'
<1>1. raced' = raced
  BY DEF Account
<1>2. ASSUME NEW p \in Offers \ raced' PROVE OfferFits(p)'
  <2>1. CASE p = o
    BY <1>1, <2>1
  <2>2. CASE p # o
    BY <1>1, <2>2, OfferStays DEF OffersInv
  <2> QED BY <2>1, <2>2
<1> QED BY <1>2, WorkerSteps

-----------------------------------------------------------------------------
\* The steps of an offer are as many as there are rows, and no more than MaxSteps.
LEMMA StepsCounted ==
    ASSUME NEW o \in Offers
    PROVE  /\ IsFiniteSet(Rows(o)) /\ Cardinality(Rows(o)) \in 0 .. MaxSteps
           /\ IsFiniteSet(Approved(o)) /\ Cardinality(Approved(o)) \in 0 .. MaxSteps
           /\ Approved(o) \subseteq Rows(o)
<1>1. MaxSteps \in Nat /\ IsFiniteSet(Steps) /\ Cardinality(Steps) = MaxSteps
  BY StepsAssumption, FS_Interval DEF Steps
<1>2. Rows(o) \subseteq Steps /\ Approved(o) \subseteq Steps /\ Approved(o) \subseteq Rows(o)
  BY DEF Rows, Approved
<1>3. ASSUME NEW S \in SUBSET Steps PROVE IsFiniteSet(S) /\ Cardinality(S) \in 0 .. MaxSteps
  BY <1>1, FS_Subset, FS_CardinalityType
<1> QED BY <1>2, <1>3

(* A handler that has approved as many steps as there are has approved all *)
(* of them, and so counting them is enough.                                *)
LEMMA CountingIsEnough ==
    ASSUME NEW o \in Offers, NEW k \in Steps, OfferFits(o),
           offer[o].current = k, step[o][k] = "approved"
    PROVE  /\ LastStep(o, k) => Rows(o) = Approved(o)
           /\ ~LastStep(o, k) => k + 1 \in Steps
<1>1. MaxSteps \in Nat /\ k \in Nat /\ 1 <= k /\ k <= MaxSteps
  BY StepsAssumption DEF Steps
<1>2. 1 .. k \subseteq Approved(o)
  <2>1. ASSUME NEW n \in 1 .. k PROVE n \in Approved(o)
    <3>1. n \in Steps /\ (n < k \/ n = k)
      BY <1>1 DEF Steps
    <3> QED BY <3>1 DEF OfferFits, Approved
  <2> QED BY <2>1
<1>3. IsFiniteSet(1 .. k) /\ Cardinality(1 .. k) = k
  BY <1>1, FS_Interval
<1>4. 1 .. k \subseteq Rows(o) /\ Approved(o) \subseteq Rows(o)
  BY <1>2, StepsCounted
<1>5. k <= Cardinality(Rows(o))
  BY <1>3, <1>4, StepsCounted, FS_Subset
<1>6. CASE LastStep(o, k)
  <2>1. Cardinality(Rows(o)) = k
    BY <1>1, <1>5, <1>6, StepsCounted DEF LastStep
  <2>2. 1 .. k = Rows(o)
    BY <1>3, <1>4, <2>1, StepsCounted, FS_Subset
  <2> QED BY <1>2, <1>4, <1>6, <2>2
<1>7. CASE ~LastStep(o, k)
  <2>1. k < Cardinality(Rows(o)) /\ Cardinality(Rows(o)) <= MaxSteps
    BY <1>1, <1>7, StepsCounted DEF LastStep
  <2> QED BY <1>1, <1>7, <2>1, StepsCounted DEF Steps
<1> QED BY <1>6, <1>7

-----------------------------------------------------------------------------
(* What every step of a worker does, whatever it goes by: the rows keep    *)
(* their types, its own handler moves, and one offer at most is written to.*)

OneStep(w) == ChainStep(w) \/ DraftStep(w) \/ ReviewStep(w) \/ MoveStep(w) \/ Crash(w)

StepTypes(w) ==
    /\ chain' \subseteq Steps
    /\ offer' \in [Offers -> [status : Statuses, current : Steps, batch : Nat,
                              terms : Terms \cup {None}, agreed : SUBSET (Terms \cup {None})]]
    /\ step' \in [Offers -> [Steps -> {"none", "pending", "approved", "rejected"}]]
    /\ DOMAIN handed' = Offers
    /\ \E j : job' = [job EXCEPT ![w] = j] /\ (j.op = "pass" => j.at + 1 \in Steps)
    /\ \A p, q \in Written : p = q

LEMMA NobodyWrites ==
    ASSUME OfferTypes, NEW w \in Workers, NEW j, Start(w, j) \/ GoOn(w, j),
           j.op = "pass" => j.at + 1 \in Steps,
           chain' \subseteq Steps, UNCHANGED <<offer, step, handed>>
    PROVE  StepTypes(w)
BY DEF StepTypes, Start, GoOn, OfferTypes, Written

LEMMA OneIsWritten ==
    ASSUME OfferTypes, NEW o \in Offers,
           \A p \in Offers \ {o} :
              offer'[p] = offer[p] /\ step'[p] = step[p] /\ handed'[p] = handed[p]
    PROVE  \A p, q \in Written : p = q
BY DEF Written

\* Statements of one offer's row, its steps left alone.
LEMMA RowTypes ==
    ASSUME OfferTypes, NEW w \in Workers, NEW j, GoOn(w, j), j.op # "pass",
           NEW o \in Offers,
           NEW row \in [status : Statuses, current : Steps, batch : Nat,
                        terms : Terms \cup {None}, agreed : SUBSET (Terms \cup {None})],
           offer' = [offer EXCEPT ![o] = row], UNCHANGED <<chain, handed>>,
           step' \in [Offers -> [Steps -> {"none", "pending", "approved", "rejected"}]],
           \A p \in Offers \ {o} : step'[p] = step[p]
    PROVE  StepTypes(w)
<1>1. \A p \in Offers \ {o} : offer'[p] = offer[p]
  BY DEF OfferTypes
<1>2. offer' \in [Offers -> [status : Statuses, current : Steps, batch : Nat,
                             terms : Terms \cup {None}, agreed : SUBSET (Terms \cup {None})]]
  BY DEF OfferTypes
<1>3. \A p, q \in Written : p = q
  BY <1>1, OneIsWritten
<1> QED BY <1>2, <1>3 DEF StepTypes, OfferTypes, GoOn

\* The steps of a submission are the chain's.
LEMMA PendingTypes ==
    ASSUME OfferTypes, NEW o \in Offers, CreatePendingSteps(o)
    PROVE  /\ step' \in [Offers -> [Steps -> {"none", "pending", "approved", "rejected"}]]
           /\ \A p \in Offers \ {o} : step'[p] = step[p]
BY DEF OfferTypes, CreatePendingSteps

LEMMA MarkTypes ==
    ASSUME OfferTypes, NEW o \in Offers, NEW b, NEW k \in Steps,
           NEW s \in {"approved", "rejected"}, MarkStep(o, b, k, s)
    PROVE  /\ step' \in [Offers -> [Steps -> {"none", "pending", "approved", "rejected"}]]
           /\ \A p \in Offers \ {o} : step'[p] = step[p]
BY DEF OfferTypes, MarkStep

LEMMA DraftTypes == ASSUME OfferTypes, NEW w \in Workers, DraftStep(w) PROVE StepTypes(w)
<1>1. 1 \in Steps
  BY StepsAssumption DEF Steps
<1>2. CASE CreateRead(w)
  BY <1>2, NobodyWrites DEF CreateRead, Creating, OfferTypes
<1>3. ASSUME NEW o \in Offers, NEW t \in Terms, CreateCommit(w, o, t) PROVE StepTypes(w)
  <2> DEFINE row == [status |-> "pending_approval", current |-> 1,
                     batch |-> 1, terms |-> t, agreed |-> {}]
  <2>1. row \in [status : Statuses, current : Steps, batch : Nat,
                 terms : Terms \cup {None}, agreed : SUBSET (Terms \cup {None})]
    BY <1>1 DEF Statuses
  <2>2. offer' = [offer EXCEPT ![o] = row] /\ UNCHANGED <<chain, handed>> /\ GoOn(w, Idle)
    BY <1>3 DEF CreateCommit, Finish
  <2>3. CreatePendingSteps(o)
    BY <1>3 DEF CreateCommit
  <2> HIDE DEF row
  <2> QED BY <2>1, <2>2, <2>3, PendingTypes, RowTypes DEF Idle
<1>4. ASSUME NEW o \in Offers, NEW t \in Terms, EditRead(w, o, t) PROVE StepTypes(w)
  BY <1>4, NobodyWrites DEF EditRead, Editing, OfferTypes
<1>5. ASSUME NEW o \in Offers, NEW t \in Terms, EditWrite(w, o, t) PROVE StepTypes(w)
  <2> DEFINE row == [offer[o] EXCEPT !.terms = t]
  <2>1. row \in [status : Statuses, current : Steps, batch : Nat,
                 terms : Terms \cup {None}, agreed : SUBSET (Terms \cup {None})]
    BY DEF OfferTypes
  <2>2. offer' = [offer EXCEPT ![o] = row] /\ UNCHANGED <<chain, step, handed>> /\ GoOn(w, Idle)
    BY <1>5 DEF EditWrite, Finish
  <2> HIDE DEF row
  <2> QED BY <2>1, <2>2, RowTypes DEF Idle, OfferTypes
<1>6. ASSUME NEW o \in Offers, ResubmitRead(w, o) PROVE StepTypes(w)
  BY <1>6, NobodyWrites DEF ResubmitRead, Resubmitting, OfferTypes
<1>7. ASSUME NEW o \in Offers, ResubmitCommit(w, o) PROVE StepTypes(w)
  <2>1. /\ offer' = [offer EXCEPT ![o].status = "pending_approval", ![o].current = 1,
                                  ![o].batch = @ + 1, ![o].agreed = {}]
        /\ UNCHANGED <<chain, handed>> /\ job' = [job EXCEPT ![w] = Idle]
    BY <1>7 DEF ResubmitCommit, Finish, GoOn
  <2>2. offer' \in [Offers -> [status : Statuses, current : Steps, batch : Nat,
                               terms : Terms \cup {None}, agreed : SUBSET (Terms \cup {None})]]
    BY <1>1, <2>1 DEF OfferTypes, Statuses
  <2>3. /\ step' \in [Offers -> [Steps -> {"none", "pending", "approved", "rejected"}]]
        /\ \A p \in Offers \ {o} : step'[p] = step[p]
    BY <1>7, PendingTypes DEF ResubmitCommit
  <2>4. \A p \in Offers \ {o} : offer'[p] = offer[p]
    BY <2>1 DEF OfferTypes
  <2>5. \A p, q \in Written : p = q
    BY <2>1, <2>3, <2>4, OneIsWritten
  <2>6. Idle.op # "pass"
    BY DEF Idle
  <2>7. UNCHANGED <<chain, handed>> /\ job' = [job EXCEPT ![w] = Idle]
    BY <2>1
  <2> QED BY <2>2, <2>3, <2>5, <2>6, <2>7 DEF StepTypes, OfferTypes
<1> QED BY <1>2, <1>3, <1>4, <1>5, <1>6, <1>7 DEF DraftStep

\* A statement that writes the status of an offer.
LEMMA StatusTypes ==
    ASSUME OfferTypes, NEW w \in Workers, NEW j, GoOn(w, j), j.op # "pass",
           NEW o \in Offers, NEW s \in Statuses,
           offer' = [offer EXCEPT ![o].status = s], UNCHANGED <<chain, step, handed>>
    PROVE  StepTypes(w)
<1> DEFINE row == [offer[o] EXCEPT !.status = s]
<1>1. row \in [status : Statuses, current : Steps, batch : Nat,
               terms : Terms \cup {None}, agreed : SUBSET (Terms \cup {None})]
  BY DEF OfferTypes
<1>2. offer' = [offer EXCEPT ![o] = row]
  OBVIOUS
<1> HIDE DEF row
<1> QED BY <1>1, <1>2, RowTypes DEF OfferTypes

LEMMA ReviewTypes == ASSUME OfferTypes, NEW w \in Workers, ReviewStep(w) PROVE StepTypes(w)
<1>1. ASSUME NEW o \in Offers, ApproveRead(w, o) \/ RejectRead(w, o) PROVE StepTypes(w)
  BY <1>1, NobodyWrites DEF ApproveRead, RejectRead, Approving, Rejecting, OfferTypes
<1>2. ASSUME NEW o \in Offers, ApproveSent(w, o) PROVE StepTypes(w)
  BY <1>2, StatusTypes DEF ApproveSent, Offering, Statuses
<1>3. ASSUME NEW o \in Offers, RejectRevise(w, o) PROVE StepTypes(w)
  BY <1>3, StatusTypes DEF RejectRevise, Finish, Idle, Statuses
<1>4. ASSUME NEW o \in Offers, NEW b \in 1 .. MaxBatch, NEW k \in Steps, ApproveMark(w, o, b, k)
      PROVE  StepTypes(w)
  <2> DEFINE more == IF offer[o].batch = b THEN offer[o].agreed \cup {offer[o].terms}
                     ELSE offer[o].agreed
             row == [offer[o] EXCEPT !.agreed = more]
  <2>1. row \in [status : Statuses, current : Steps, batch : Nat,
                 terms : Terms \cup {None}, agreed : SUBSET (Terms \cup {None})]
    BY DEF OfferTypes
  <2>2. offer' = [offer EXCEPT ![o] = row] /\ UNCHANGED <<chain, handed>>
        /\ GoOn(w, Counting(o, k)) /\ MarkStep(o, b, k, "approved")
    BY <1>4 DEF ApproveMark
  <2> HIDE DEF row
  <2> QED BY <2>1, <2>2, MarkTypes, RowTypes DEF Counting
<1>5. ASSUME NEW o \in Offers, NEW b \in 1 .. MaxBatch, NEW k \in Steps, RejectMark(w, o, b, k)
      PROVE  StepTypes(w)
  <2>1. UNCHANGED <<chain, handed, offer>> /\ GoOn(w, Revising(o)) /\ MarkStep(o, b, k, "rejected")
    BY <1>5 DEF RejectMark
  <2>2. offer' = [offer EXCEPT ![o] = offer[o]] /\ offer[o] \in
            [status : Statuses, current : Steps, batch : Nat,
             terms : Terms \cup {None}, agreed : SUBSET (Terms \cup {None})]
    BY <2>1 DEF OfferTypes
  <2> QED BY <2>1, <2>2, MarkTypes, RowTypes DEF Revising
<1>6. ASSUME NEW o \in Offers, NEW k \in Steps, ApproveFinal(w, o, k) PROVE StepTypes(w)
  <2>1. \A p \in Offers \ {o} :
           offer'[p] = offer[p] /\ step'[p] = step[p] /\ handed'[p] = handed[p]
    BY <1>6 DEF ApproveFinal, OfferTypes
  <2>2. \A p, q \in Written : p = q
    BY <2>1, OneIsWritten
  <2>3. job' = [job EXCEPT ![w] = Sending(o)] /\ Sending(o).op # "pass"
    BY <1>6 DEF ApproveFinal, GoOn, Sending
  <2>4. UNCHANGED <<chain, offer, step>> /\ DOMAIN handed' = Offers
    BY <1>6 DEF ApproveFinal, OfferTypes
  <2> QED BY <2>2, <2>3, <2>4 DEF StepTypes, OfferTypes
<1>7. ASSUME NEW o \in Offers, NEW k \in Steps, ApproveMore(w, o, k) PROVE StepTypes(w)
  <2>1. k + 1 \in Steps
    BY <1>7, StepsCounted, StepsAssumption DEF ApproveMore, LastStep, Steps
  <2> QED BY <1>7, <2>1, NobodyWrites DEF ApproveMore, Passing, OfferTypes
<1>8. ASSUME NEW o \in Offers, NEW k \in Steps, ApprovePass(w, o, k) PROVE StepTypes(w)
  <2> DEFINE row == [offer[o] EXCEPT !.current = k + 1]
  <2>1. job[w] = Passing(o, k)
    BY <1>8 DEF ApprovePass
  <2>2. k + 1 \in Steps
    BY <2>1 DEF Passing, OfferTypes
  <2>3. row \in [status : Statuses, current : Steps, batch : Nat,
                 terms : Terms \cup {None}, agreed : SUBSET (Terms \cup {None})]
    BY <2>2 DEF OfferTypes
  <2>4. offer' = [offer EXCEPT ![o] = row] /\ UNCHANGED <<chain, step, handed>> /\ GoOn(w, Idle)
    BY <1>8 DEF ApprovePass, Finish
  <2> HIDE DEF row
  <2> QED BY <2>3, <2>4, RowTypes DEF Idle, OfferTypes
<1>9. CASE ApproveOffered(w)
  BY <1>9, NobodyWrites DEF ApproveOffered, Finish, Idle, OfferTypes
<1> QED BY <1>1, <1>2, <1>3, <1>4, <1>5, <1>6, <1>7, <1>8, <1>9 DEF ReviewStep

LEMMA MoveTypes ==
    ASSUME OfferTypes, NEW w \in Workers, MoveStep(w) \/ Crash(w) PROVE StepTypes(w)
<1>1. ASSUME NEW to \in {"on_hold", "cancelled"}, NEW o \in Offers, StatusRead(w, o, to)
      PROVE  StepTypes(w)
  BY <1>1, NobodyWrites DEF StatusRead, Setting, OfferTypes
<1>2. ASSUME NEW to \in {"on_hold", "cancelled"}, NEW o \in Offers, NEW was \in Statuses,
             StatusOffer(w, o, was, to)
      PROVE  StepTypes(w)
  BY <1>2, StatusTypes DEF StatusOffer, Settling, Statuses
<1>3. ASSUME NEW to \in {"on_hold", "cancelled"}, NEW was \in Statuses, StatusApp(w, was, to)
      PROVE  StepTypes(w)
  <2>1. PICK j : GoOn(w, j) /\ j.op \in {"idle", "log"}
    BY <1>3 DEF StatusApp, Idle, Logging
  <2> QED BY <1>3, <2>1, NobodyWrites DEF StatusApp, OfferTypes
<1>4. ASSUME NEW was \in Statuses, StatusEvent(w, was) PROVE StepTypes(w)
  BY <1>4, NobodyWrites DEF StatusEvent, Finish, Idle, OfferTypes
<1>5. ASSUME NEW to \in Stages, RevertRead(w, to) PROVE StepTypes(w)
  BY <1>5, NobodyWrites DEF RevertRead, Reverting, OfferTypes
<1>6. ASSUME NEW to \in Stages, RevertCommit(w, to) PROVE StepTypes(w)
  <2>1. CASE Made = {}
    BY <1>6, <2>1, NobodyWrites DEF RevertCommit, CancelAnOffer, Finish, Idle, OfferTypes
  <2>2. CASE Made # {}
    <3>1. PICK o \in Made : offer' = [offer EXCEPT ![o].status = "cancelled"]
      BY <1>6, <2>2 DEF RevertCommit, CancelAnOffer
    <3> QED BY <1>6, <3>1, StatusTypes DEF RevertCommit, Finish, Idle, Made, Statuses
  <2> QED BY <2>1, <2>2
<1>7. ASSUME NEW to \in Stages \cup Terminal, MoveRead(w, to) PROVE StepTypes(w)
  BY <1>7, NobodyWrites DEF MoveRead, Moving, OfferTypes
<1>8. ASSUME NEW from \in Stages, NEW to \in Stages \cup Terminal, MoveWrite(w, from, to)
      PROVE  StepTypes(w)
  BY <1>8, NobodyWrites DEF MoveWrite, Finish, Idle, OfferTypes
<1>9. CASE Crash(w)
  BY <1>9, NobodyWrites DEF Crash, Finish, Idle, OfferTypes
<1> QED BY <1>1, <1>2, <1>3, <1>4, <1>5, <1>6, <1>7, <1>8, <1>9 DEF MoveStep

LEMMA ChainTypes == ASSUME OfferTypes, NEW w \in Workers, ChainStep(w) PROVE StepTypes(w)
<1>1. ASSUME NEW m \in 0 .. MaxSteps, ClearChain(w, m) PROVE StepTypes(w)
  <2>1. CASE m = 0
    BY <1>1, <2>1, NobodyWrites DEF ClearChain, Start, Idle, OfferTypes
  <2>2. CASE m # 0
    BY <1>1, <2>2, NobodyWrites DEF ClearChain, Chaining, OfferTypes
  <2> QED BY <2>1, <2>2
<1>2. ASSUME NEW n \in Steps, NEW m \in Steps, AddApprover(w, n, m) PROVE StepTypes(w)
  <2>1. PICK j : GoOn(w, j) /\ j.op \in {"idle", "chain"}
    BY <1>2 DEF AddApprover, Idle, Chaining
  <2> QED BY <1>2, <2>1, NobodyWrites DEF AddApprover, OfferTypes
<1> QED BY <1>1, <1>2 DEF ChainStep

LEMMA TypesKept ==
    ASSUME OfferTypes, NEW w \in Workers, OneStep(w), Account(w)
    PROVE  OfferTypes' /\ StepTypes(w)
<1>1. StepTypes(w)
  BY ChainTypes, DraftTypes, ReviewTypes, MoveTypes DEF OneStep
<1>2. missed' \subseteq Workers /\ raced' \subseteq Offers
  BY DEF Account, Written, OfferTypes
<1> QED BY <1>1, <1>2 DEF OfferTypes, StepTypes

-----------------------------------------------------------------------------
LEMMA ChainKeepsOffers ==
    ASSUME OffersInv, OfferTypes', NEW w \in Workers \ missed, Account(w), ChainStep(w)
    PROVE  OffersInv'
<1>1. ASSUME NEW m \in 0 .. MaxSteps, ClearChain(w, m) PROVE OffersInv'
  <2>1. JobFits(w)'
    BY <1>1 DEF ClearChain, Start, JobFits, OnOffer, Idle, Chaining, OffersInv, OfferTypes
  <2>2. chain' \subseteq Steps /\ UNCHANGED <<offer, step, handed>>
    BY <1>1 DEF ClearChain
  <2>3. CASE m = 0
    <3>1. job' = [job EXCEPT ![w] = Idle]
      BY <1>1, <2>3 DEF ClearChain, OffersInv, OfferTypes
    <3> QED BY <2>1, <2>2, <3>1, HandlerGoesOn
  <2>4. CASE m # 0
    <3>1. job' = [job EXCEPT ![w] = Chaining(1, m)]
      BY <1>1, <2>4 DEF ClearChain, Start
    <3> QED BY <2>1, <2>2, <3>1, HandlerGoesOn
  <2> QED BY <2>3, <2>4
<1>2. ASSUME NEW n \in Steps, NEW m \in Steps, AddApprover(w, n, m) PROVE OffersInv'
  <2>1. JobFits(w)'
    BY <1>2 DEF AddApprover, GoOn, JobFits, OnOffer, Idle, Chaining, OffersInv, OfferTypes
  <2>2. chain' \subseteq Steps /\ UNCHANGED <<offer, step, handed>>
    BY <1>2 DEF AddApprover, OffersInv, OfferTypes
  <2>3. PICK j : job' = [job EXCEPT ![w] = j]
    BY <1>2 DEF AddApprover, GoOn
  <2> QED BY <2>1, <2>2, <2>3, HandlerGoesOn
<1> QED BY <1>1, <1>2 DEF ChainStep

\* A reading that ends in a job that fits.
LEMMA StartFits ==
    ASSUME OffersInv, OfferTypes', NEW w \in Workers \ missed, Account(w), NEW j, Start(w, j) \/ GoOn(w, j),
           UNCHANGED <<chain, offer, step, handed>>, JobFits(w)'
    PROVE  OffersInv'
BY HandlerGoesOn DEF Start, GoOn, OffersInv, OfferTypes

\* The offer a submission leaves: every step of the chain waits, from the first.
LEMMA SubmissionFits ==
    ASSUME OffersInv, NEW o \in Offers, CreatePendingSteps(o),
           offer'[o].status = "pending_approval", offer'[o].current = 1,
           offer'[o].agreed = {}, handed[o] = 0, UNCHANGED handed
    PROVE  OfferFits(o)' /\ Approved(o)' = {} /\ Rows(o)' = chain
<1>1. step'[o] = [k \in Steps |-> IF k \in chain THEN "pending" ELSE "none"]
  BY DEF CreatePendingSteps, OffersInv, OfferTypes
<1>2. Approved(o)' = {} /\ Rows(o)' = chain
  BY <1>1 DEF Approved, Rows, OffersInv, OfferTypes
<1>3. \A n \in Steps : ~(n < 1)
  BY StepsAssumption DEF Steps
<1> QED BY <1>2, <1>3 DEF OfferFits

LEMMA DraftKeepsOffers ==
    ASSUME OffersInv, OfferTypes', NEW w \in Workers \ missed, Account(w), DraftStep(w)
    PROVE  OffersInv'
<1>1. CASE CreateRead(w)
  <2>1. JobFits(w)'
    BY <1>1 DEF CreateRead, Start, JobFits, OnOffer, Creating, OffersInv, OfferTypes
  <2> QED BY <1>1, <2>1, StartFits DEF CreateRead
<1>2. ASSUME NEW o \in Offers, NEW t \in Terms, CreateCommit(w, o, t) PROVE OffersInv'
  <2>1. offer' = [offer EXCEPT ![o] = [status |-> "pending_approval", current |-> 1,
                                       batch |-> 1, terms |-> t, agreed |-> {}]]
    BY <1>2 DEF CreateCommit
  <2>2. /\ o \notin raced => handed[o] = 0
        /\ UNCHANGED <<chain, handed>> /\ CreatePendingSteps(o)
    BY <1>2 DEF CreateCommit, OffersInv, OfferFits
  <2>3. job' = [job EXCEPT ![w] = Idle]
    BY <1>2 DEF CreateCommit, Finish, GoOn
  <2>4. ASSUME o \notin raced PROVE OfferFits(o)'
    BY <2>1, <2>2, <2>4, SubmissionFits DEF OffersInv, OfferTypes
  <2>5. JobFits(w)'
    BY <1>2 DEF CreateCommit, Finish, GoOn, JobFits, OnOffer, Idle, OffersInv, OfferTypes
  <2>6. \A p \in Offers \ {o} :
           offer'[p] = offer[p] /\ step'[p] = step[p] /\ handed'[p] = handed[p]
    BY <2>1, <2>2 DEF CreatePendingSteps, OffersInv, OfferTypes
  <2> QED BY <2>2, <2>3, <2>4, <2>5, <2>6, OfferWritten
<1>3. ASSUME NEW o \in Offers, NEW t \in Terms, EditRead(w, o, t) PROVE OffersInv'
  <2>1. JobFits(w)'
    BY <1>3 DEF EditRead, Start, JobFits, OnOffer, Editing, OffersInv, OfferTypes
  <2> QED BY <1>3, <2>1, StartFits DEF EditRead
<1>4. ASSUME NEW o \in Offers, NEW t \in Terms, EditWrite(w, o, t) PROVE OffersInv'
  <2>1. offer' = [offer EXCEPT ![o].terms = t] /\ UNCHANGED <<chain, step, handed>>
    BY <1>4 DEF EditWrite
  <2>2. offer[o].status = "revising"
    BY <1>4 DEF EditWrite, Editing, OffersInv, JobFits, OnOffer
  <2>3. OfferFits(o) /\ job' = [job EXCEPT ![w] = Idle]
    BY <1>4, OnFirmGround DEF EditWrite, Editing, GoesBy, OnOffer, Finish, GoOn
  <2>4. OfferFits(o)'
    BY <2>1, <2>2, <2>3 DEF OffersInv, OfferTypes, OfferFits, Approved, Rows
  <2>5. JobFits(w)'
    BY <1>4 DEF EditWrite, Finish, GoOn, JobFits, OnOffer, Idle, OffersInv, OfferTypes
  <2>6. \A p \in Offers \ {o} :
           offer'[p] = offer[p] /\ step'[p] = step[p] /\ handed'[p] = handed[p]
    BY <2>1 DEF OffersInv, OfferTypes
  <2> QED BY <2>1, <2>3, <2>4, <2>5, <2>6, OfferWritten
<1>5. ASSUME NEW o \in Offers, ResubmitRead(w, o) PROVE OffersInv'
  <2>1. JobFits(w)'
    BY <1>5 DEF ResubmitRead, Start, JobFits, OnOffer, Resubmitting, OffersInv, OfferTypes
  <2> QED BY <1>5, <2>1, StartFits DEF ResubmitRead
<1>6. ASSUME NEW o \in Offers, ResubmitCommit(w, o) PROVE OffersInv'
  <2>1. /\ offer' = [offer EXCEPT ![o].status = "pending_approval", ![o].current = 1,
                                  ![o].batch = @ + 1, ![o].agreed = {}]
        /\ UNCHANGED <<chain, handed>> /\ CreatePendingSteps(o)
    BY <1>6 DEF ResubmitCommit
  <2>2. offer[o].status = "revising"
    BY <1>6 DEF ResubmitCommit, Resubmitting, OffersInv, JobFits, OnOffer
  <2>3. handed[o] = 0 /\ job' = [job EXCEPT ![w] = Idle]
    BY <1>6, <2>2, OnFirmGround
       DEF ResubmitCommit, Resubmitting, GoesBy, OnOffer, Finish, GoOn, OfferFits
  <2>4. offer'[o] \in [status : {"pending_approval"}, current : {1}, batch : Nat,
                       terms : Terms \cup {None}, agreed : {{}}]
    BY <2>1 DEF OffersInv, OfferTypes
  <2>6. OfferFits(o)'
    BY <2>1, <2>3, <2>4, SubmissionFits
  <2>7. JobFits(w)'
    BY <1>6 DEF ResubmitCommit, Finish, GoOn, JobFits, OnOffer, Idle, OffersInv, OfferTypes
  <2>8. \A p \in Offers \ {o} :
           offer'[p] = offer[p] /\ step'[p] = step[p] /\ handed'[p] = handed[p]
    BY <2>1 DEF CreatePendingSteps, OffersInv, OfferTypes
  <2> QED BY <2>1, <2>3, <2>6, <2>7, <2>8, OfferWritten
<1> QED BY <1>1, <1>2, <1>3, <1>4, <1>5, <1>6 DEF DraftStep

-----------------------------------------------------------------------------
\* The verdict on a step reaches the row it was given on.
LEMMA StepMarked ==
    ASSUME OffersInv, NEW o \in Offers, NEW b, NEW k \in Steps,
           NEW s \in {"approved", "rejected"}, offer[o].batch = b, MarkStep(o, b, k, s)
    PROVE  /\ step'[o] = [step[o] EXCEPT ![k] = s]
           /\ \A p \in Offers \ {o} : step'[p] = step[p]
           /\ step' \in [Offers -> [Steps -> {"none", "pending", "approved", "rejected"}]]
BY DEF MarkStep, OffersInv, OfferTypes

LEMMA ApproveMarkKeepsOffers ==
    ASSUME OffersInv, OfferTypes', NEW w \in Workers \ missed, Account(w), NEW o \in Offers,
           NEW b \in 1 .. MaxBatch, NEW k \in Steps, ApproveMark(w, o, b, k)
    PROVE  /\ OffersInv'
           /\ Actionable(o) /\ offer[o].current = k /\ step'[o] = [step[o] EXCEPT ![k] = "approved"]
<1>1. Actionable(o) /\ offer[o].batch = b /\ offer[o].current = k /\ OfferFits(o)
  BY OnFirmGround DEF ApproveMark, Approving, GoesBy, OnOffer, JobFits
<1>2. /\ MarkStep(o, b, k, "approved") /\ UNCHANGED <<chain, handed>>
      /\ job' = [job EXCEPT ![w] = Counting(o, k)]
      /\ offer' = [offer EXCEPT ![o].agreed = @ \cup {offer[o].terms}]
  BY <1>1 DEF ApproveMark, GoOn
<1>3. /\ step'[o] = [step[o] EXCEPT ![k] = "approved"]
      /\ \A p \in Offers \ {o} : step'[p] = step[p]
      /\ step' \in [Offers -> [Steps -> {"none", "pending", "approved", "rejected"}]]
  BY <1>1, <1>2, StepMarked
<1>4. /\ offer'[o].status = offer[o].status /\ offer'[o].current = offer[o].current
      /\ offer'[o].terms = offer[o].terms
      /\ offer'[o].agreed = offer[o].agreed \cup {offer[o].terms}
      /\ \A p \in Offers \ {o} : offer'[p] = offer[p]
  BY <1>2 DEF OffersInv, OfferTypes
<1>6. handed[o] = 0
  BY <1>1 DEF OfferFits, Actionable
<1>7. OfferFits(o)'
  <2>1. \A n \in Steps : n < offer'[o].current => step'[o][n] = "approved"
    BY <1>1, <1>3, <1>4 DEF OffersInv, OfferFits, OfferTypes
  <2>2. \A m \in Approved(o)' : \A n \in Rows(o)' : n < m => n \in Approved(o)'
    <3>1. Approved(o)' = Approved(o) \cup {k} /\ Rows(o)' = Rows(o)
      BY <1>1, <1>3 DEF Approved, Rows, Actionable, OffersInv, OfferTypes
    <3>2. \A n \in Rows(o) : n < k => n \in Approved(o)
      BY <1>1 DEF OffersInv, OfferFits, Approved, Rows
    <3> QED BY <1>1, <3>1, <3>2 DEF OfferFits
  <2>3. offer'[o].agreed \subseteq {offer'[o].terms}
    BY <1>1, <1>4 DEF OffersInv, OfferFits, Actionable
  <2> QED BY <1>1, <1>2, <1>4, <1>6, <2>1, <2>2, <2>3 DEF OfferFits, Actionable
<1>8. JobFits(w)'
  BY <1>1, <1>2, <1>3, <1>4, <1>6 DEF JobFits, OnOffer, Counting, Actionable, OffersInv, OfferTypes
<1> QED BY <1>1, <1>2, <1>3, <1>4, <1>7, <1>8, OfferWritten

LEMMA RejectMarkKeepsOffers ==
    ASSUME OffersInv, OfferTypes', NEW w \in Workers \ missed, Account(w), NEW o \in Offers,
           NEW b \in 1 .. MaxBatch, NEW k \in Steps, RejectMark(w, o, b, k)
    PROVE  /\ OffersInv'
           /\ Actionable(o) /\ step'[o] = [step[o] EXCEPT ![k] = "rejected"]
           /\ offer[o].current = k
<1>1. Actionable(o) /\ offer[o].batch = b /\ offer[o].current = k /\ OfferFits(o)
  BY OnFirmGround DEF RejectMark, Rejecting, GoesBy, OnOffer, JobFits
<1>2. /\ MarkStep(o, b, k, "rejected") /\ UNCHANGED <<chain, handed, offer>>
      /\ job' = [job EXCEPT ![w] = Revising(o)]
  BY DEF RejectMark, GoOn
<1>3. /\ step'[o] = [step[o] EXCEPT ![k] = "rejected"]
      /\ \A p \in Offers \ {o} : step'[p] = step[p]
      /\ step' \in [Offers -> [Steps -> {"none", "pending", "approved", "rejected"}]]
  BY <1>1, <1>2, StepMarked
<1>5. handed[o] = 0
  BY <1>1 DEF OffersInv, OfferFits, Actionable
<1>6. OfferFits(o)'
  <2>1. \A n \in Steps : n < offer[o].current => step'[o][n] = "approved"
    BY <1>1, <1>3 DEF OffersInv, OfferFits, OfferTypes, Steps
  <2>2. Approved(o)' = Approved(o) /\ Rows(o)' = Rows(o)
    BY <1>1, <1>3 DEF Approved, Rows, Actionable, OffersInv, OfferTypes
  <2> QED BY <1>1, <1>2, <1>5, <2>1, <2>2 DEF OfferFits, Actionable
<1>7. JobFits(w)'
  BY <1>1, <1>2, <1>3, <1>5 DEF JobFits, OnOffer, Revising, Actionable, OffersInv, OfferTypes
<1> QED BY <1>1, <1>2, <1>3, <1>6, <1>7, OfferWritten

\* Only the status of an offer is written.
LEMMA StatusWritten ==
    ASSUME OffersInv, OfferTypes', NEW w \in Workers \ missed, Account(w), NEW o \in Offers, NEW s \in Statuses, NEW j,
           offer' = [offer EXCEPT ![o].status = s], UNCHANGED <<chain, step, handed>>,
           job' = [job EXCEPT ![w] = j], j.op \in {"idle", "offer", "settle"},
           \/ s = "sent_to_darwinbox" /\ handed[o] = 1 /\ offer[o].status = "pending_approval"
           \/ s = "revising" /\ handed[o] = 0
           \/ s \in {"on_hold", "cancelled"}
    PROVE  OffersInv'
<1>1. /\ offer'[o].status = s /\ offer'[o].current = offer[o].current
      /\ offer'[o].terms = offer[o].terms /\ offer'[o].agreed = offer[o].agreed
      /\ \A p \in Offers \ {o} : offer'[p] = offer[p]
  BY DEF OffersInv, OfferTypes
<1>3. ASSUME o \notin raced PROVE OfferFits(o)'
  BY <1>1, <1>3 DEF OffersInv, OfferFits, Approved, Rows
<1>4. JobFits(w)'
  BY DEF JobFits, OnOffer, OnOffer, OffersInv, OfferTypes
<1> QED BY <1>1, <1>3, <1>4, OfferWritten

LEMMA ReviewKeepsOffers ==
    ASSUME OffersInv, OfferTypes', NEW w \in Workers \ missed, Account(w), ReviewStep(w)
    PROVE  OffersInv'
<1>1. ASSUME NEW o \in Offers, ApproveRead(w, o) PROVE OffersInv'
  <2>1. JobFits(w)'
    BY <1>1 DEF ApproveRead, Start, JobFits, OnOffer, Approving, Actionable, OffersInv, OfferTypes
  <2> QED BY <1>1, <2>1, StartFits DEF ApproveRead
<1>2. ASSUME NEW o \in Offers, ApproveSent(w, o) PROVE OffersInv'
  <2>1. offer[o].status = "pending_approval" /\ handed[o] = 1
    BY <1>2 DEF ApproveSent, Sending, OffersInv, JobFits, OnOffer
  <2> QED BY <1>2, <2>1, StatusWritten DEF ApproveSent, GoOn, Offering, Statuses
<1>3. ASSUME NEW o \in Offers, RejectRead(w, o) PROVE OffersInv'
  <2>1. JobFits(w)'
    BY <1>3 DEF RejectRead, Start, JobFits, OnOffer, Rejecting, Actionable, OffersInv, OfferTypes
  <2> QED BY <1>3, <2>1, StartFits DEF RejectRead
<1>4. ASSUME NEW o \in Offers, RejectRevise(w, o) PROVE OffersInv'
  <2>1. handed[o] = 0
    BY <1>4 DEF RejectRevise, Revising, OffersInv, JobFits, OnOffer
  <2> QED BY <1>4, <2>1, StatusWritten DEF RejectRevise, Finish, GoOn, Idle, Statuses
<1>5. ASSUME NEW o \in Offers, NEW k \in Steps,
             ApproveFinal(w, o, k) \/ ApproveMore(w, o, k) \/ ApprovePass(w, o, k)
      PROVE  OffersInv'
  <2>1. /\ offer[o].status = "pending_approval" /\ handed[o] = 0
        /\ offer[o].current = k /\ step[o][k] = "approved" /\ OfferFits(o)
    BY <1>5, OnFirmGround
       DEF ApproveFinal, ApproveMore, ApprovePass, Counting, Passing, GoesBy, OnOffer, JobFits
  <2>2. CASE ApproveFinal(w, o, k)
    <3>1. /\ handed' = [handed EXCEPT ![o] = 1] /\ UNCHANGED <<chain, offer, step>>
          /\ job' = [job EXCEPT ![w] = Sending(o)]
      BY <2>1, <2>2 DEF ApproveFinal, GoOn, OffersInv, OfferTypes
    <3>2. Rows(o) = Approved(o)
      BY <2>1, <2>2, CountingIsEnough DEF ApproveFinal
    <3>4. OfferFits(o)'
      BY <2>1, <3>1 DEF OffersInv, OfferTypes, OfferFits, Approved, Rows
    <3>5. JobFits(w)'
      BY <2>1, <3>1, <3>2 DEF OffersInv, OfferTypes, JobFits, OnOffer, Sending, Approved, Rows
    <3> QED BY <3>1, <3>4, <3>5, OfferWritten DEF OffersInv, OfferTypes
  <2>3. CASE ApproveMore(w, o, k)
    <3>2. JobFits(w)'
      BY <2>1, <2>3 DEF ApproveMore, GoOn, JobFits, OnOffer, Passing, OffersInv, OfferTypes
    <3> QED BY <2>3, <3>2, StartFits DEF ApproveMore
  <2>4. CASE ApprovePass(w, o, k)
    <3>2. /\ offer' = [offer EXCEPT ![o].current = k + 1] /\ UNCHANGED <<chain, step, handed>>
          /\ job' = [job EXCEPT ![w] = Idle]
      BY <2>4 DEF ApprovePass, Finish, GoOn
    <3>3. /\ offer'[o].status = offer[o].status /\ offer'[o].current = k + 1
          /\ offer'[o].terms = offer[o].terms /\ offer'[o].agreed = offer[o].agreed
          /\ \A p \in Offers \ {o} : offer'[p] = offer[p]
      BY <3>2 DEF OffersInv, OfferTypes
    <3>5. \A n \in Steps : n < k + 1 => n < k \/ n = k
      BY DEF Steps
    <3>6. OfferFits(o)'
      BY <2>1, <3>2, <3>3, <3>5 DEF OffersInv, OfferFits, Approved, Rows
    <3>7. JobFits(w)'
      BY <3>2 DEF OffersInv, OfferTypes, JobFits, OnOffer, Idle
    <3> QED BY <3>2, <3>3, <3>6, <3>7, OfferWritten
  <2> QED BY <1>5, <2>2, <2>3, <2>4
<1>6. CASE ApproveOffered(w)
  <2>1. JobFits(w)'
    BY <1>6 DEF ApproveOffered, Finish, GoOn, JobFits, OnOffer, Idle, OffersInv, OfferTypes
  <2> QED BY <1>6, <2>1, StartFits DEF ApproveOffered, Finish
<1> QED BY <1>1, <1>2, <1>3, <1>4, <1>5, <1>6, ApproveMarkKeepsOffers, RejectMarkKeepsOffers
        DEF ReviewStep

LEMMA MoveKeepsOffers ==
    ASSUME OffersInv, OfferTypes', NEW w \in Workers \ missed, Account(w), MoveStep(w) \/ Crash(w)
    PROVE  OffersInv'
<1>1. ASSUME NEW j, Start(w, j) \/ GoOn(w, j), UNCHANGED <<chain, offer, step, handed>>,
             j.op \in {"idle", "settle", "log", "revert", "move"}
      PROVE  OffersInv'
  <2>1. JobFits(w)'
    BY <1>1 DEF Start, GoOn, JobFits, OnOffer, OffersInv, OfferTypes
  <2> QED BY <1>1, <2>1, StartFits
<1>2. ASSUME NEW to \in {"on_hold", "cancelled"}, NEW o \in Offers, StatusRead(w, o, to)
      PROVE  OffersInv'
  <2>1. JobFits(w)'
    BY <1>2 DEF StatusRead, Start, JobFits, OnOffer, Setting, OffersInv, OfferTypes
  <2> QED BY <1>2, <2>1, StartFits DEF StatusRead
<1>3. ASSUME NEW to \in {"on_hold", "cancelled"}, NEW o \in Offers, NEW was \in Statuses,
             StatusOffer(w, o, was, to)
      PROVE  OffersInv'
  BY <1>3, StatusWritten DEF StatusOffer, GoOn, Settling, Statuses
<1>4. ASSUME NEW to \in {"on_hold", "cancelled"}, NEW was \in Statuses, StatusApp(w, was, to)
      PROVE  OffersInv'
  <2>1. PICK j : GoOn(w, j) /\ j.op \in {"idle", "log"}
    BY <1>4 DEF StatusApp, Idle, Logging
  <2> QED BY <1>1, <1>4, <2>1 DEF StatusApp
<1>5. ASSUME NEW was \in Statuses, StatusEvent(w, was) PROVE OffersInv'
  BY <1>1, <1>5 DEF StatusEvent, Finish, Idle
<1>6. ASSUME NEW to \in Stages, RevertRead(w, to) PROVE OffersInv'
  BY <1>1, <1>6 DEF RevertRead, Reverting
<1>7. ASSUME NEW to \in Stages, RevertCommit(w, to) PROVE OffersInv'
  <2>1. CASE Made = {}
    BY <1>1, <1>7, <2>1 DEF RevertCommit, CancelAnOffer, Finish, Idle
  <2>2. CASE Made # {}
    <3>1. PICK o \in Made : offer' = [offer EXCEPT ![o].status = "cancelled"]
      BY <1>7, <2>2 DEF RevertCommit, CancelAnOffer
    <3> QED BY <1>7, <3>1, StatusWritten DEF RevertCommit, Finish, GoOn, Idle, Made, Statuses
  <2> QED BY <2>1, <2>2
<1>8. ASSUME NEW to \in Stages \cup Terminal, MoveRead(w, to) PROVE OffersInv'
  BY <1>1, <1>8 DEF MoveRead, Moving
<1>9. ASSUME NEW from \in Stages, NEW to \in Stages \cup Terminal, MoveWrite(w, from, to)
      PROVE  OffersInv'
  BY <1>1, <1>9 DEF MoveWrite, Finish, Idle
<1>10. CASE Crash(w)
  BY <1>1, <1>10 DEF Crash, Finish, Idle
<1> QED BY <1>2, <1>3, <1>4, <1>5, <1>6, <1>7, <1>8, <1>9, <1>10 DEF MoveStep

LEMMA OffersStep == ASSUME OffersInv, [Next]_vars PROVE OffersInv'
<1>1. CASE UNCHANGED vars
  <2>1. \A v \in Workers : \A o \in raced : GoesBy(v, o)' <=> GoesBy(v, o)
    BY <1>1 DEF vars, GoesBy
  <2>2. OfferTypes' /\ \A o \in Offers \ raced : OfferFits(o)'
    BY <1>1, OfferStays DEF vars, OffersInv, OfferTypes
  <2>3. \A v \in Workers \ missed : JobFits(v)'
    BY <1>1 DEF vars, OffersInv, OfferTypes, JobFits, OnOffer, Approved, Rows, Actionable
  <2> QED BY <1>1, <2>1, <2>2, <2>3 DEF vars, OffersInv
<1>2. ASSUME NEW w \in Workers, OneStep(w), Account(w) PROVE OffersInv'
  <2>1. OfferTypes' /\ \E j : job' = [job EXCEPT ![w] = j]
    BY <1>2, TypesKept DEF OffersInv, StepTypes
  <2>2. CASE w \in missed
    BY <1>2, <2>1, <2>2, StaleSteps
  <2>3. CASE w \notin missed
    BY <1>2, <2>1, <2>3, ChainKeepsOffers, DraftKeepsOffers, ReviewKeepsOffers, MoveKeepsOffers
       DEF OneStep
  <2> QED BY <2>2, <2>3
<1> QED BY <1>1, <1>2 DEF Next, OneStep

(* Whatever overlaps and dies half-way, an approval is given in its turn   *)
(* (approve_offer), unless a handler wrote to the offer on stale ground.   *)
THEOREM ApprovalsInTurn == Spec => []ApprovedInOrder
<1>1. OffersInv => ApprovedInOrder
  BY DEF OffersInv, OfferFits, ApprovedInOrder
<1> QED BY <1>1, OffersInit, OffersStep, PTL DEF Spec

(* What the approvers agreed to is what the offer says while it is under   *)
(* review and once it is sent (edit_offer), with the same exception.       *)
THEOREM AgreedTermsStand == Spec => []ApprovedTermsStand
<1>1. OffersInv => ApprovedTermsStand
  BY DEF OffersInv, OfferFits, ApprovedTermsStand
<1> QED BY <1>1, OffersInit, OffersStep, PTL DEF Spec

(* Darwinbox gets an offer at most once, and has it when the offer says so *)
(* (_advance_to_darwinbox), with the same exception.                       *)
THEOREM HandedOnce == Spec => []HandedOverOnce
<1>1. OffersInv => HandedOverOnce
  BY DEF OffersInv, OfferFits, HandedOverOnce
<1> QED BY <1>1, OffersInit, OffersStep, PTL DEF Spec

-----------------------------------------------------------------------------
(* The offers follow the chain (SequentialApproval).                       *)

\* A write that changes neither an offer's phase nor its steps is not seen.
LEMMA Unseen ==
    ASSUME raced' = raced,
           \A p \in Offers \ raced : /\ Phase(offer'[p].status) = Phase(offer[p].status)
                                     /\ Rows(p)' = Rows(p) /\ Approved(p)' = Approved(p)
    PROVE  Seen' = Seen
<1>1. ASSUME NEW p \in Offers \ raced PROVE View(p)' = View(p)
  BY <1>1 DEF View
<1> QED BY <1>1 DEF Seen

LEMMA UnseenRows ==
    ASSUME NEW p \in Offers, step'[p] = step[p]
    PROVE  Rows(p)' = Rows(p) /\ Approved(p)' = Approved(p)
BY DEF Rows, Approved

\* A write to one offer is seen as that offer's next state.
LEMMA SeenAtOne ==
    ASSUME NEW o \in Offers \ raced, raced' = raced, NEW phase, NEW needed, NEW given,
           Phase(offer'[o].status) = phase,
           Cardinality(Rows(o)') = needed, Cardinality(Approved(o)') = given,
           \A p \in Offers \ {o} : offer'[p] = offer[p] /\ step'[p] = step[p]
    PROVE  Chain!Become(o, phase, needed, given)
<1>1. \A p \in Offers \ {o} : Rows(p)' = Rows(p) /\ Approved(p)' = Approved(p)
  BY UnseenRows
<1>2. View(o)' = [phase |-> phase, needed |-> needed, given |-> given]
  BY DEF View
<1>3. \A p \in Offers \ {o} : View(p)' = View(p)
  BY <1>1 DEF View
<1>4. Seen' = [Seen EXCEPT ![o] = [phase |-> phase, needed |-> needed, given |-> given]]
  BY <1>2, <1>3 DEF Seen
<1> QED BY <1>4 DEF Chain!Become

LEMMA SeenOn ==
    ASSUME NEW o \in Offers \ raced
    PROVE  /\ Seen[o].phase = Phase(offer[o].status)
           /\ Seen[o].needed = Cardinality(Rows(o))
           /\ Seen[o].given = Cardinality(Approved(o))
BY DEF Seen, View

LEMMA SeenInit == Init => Chain!Init
<1> SUFFICES ASSUME Init PROVE Chain!Init
  OBVIOUS
<1>1. ASSUME NEW o \in Offers PROVE Rows(o) = {} /\ Approved(o) = {} /\ offer[o].status = "none"
  BY <1>1 DEF Init, NoSteps, Rows, Approved
<1>2. Phase("none") = "none" /\ Cardinality({}) = 0 /\ raced = {}
  BY FS_EmptySet DEF Phase, Init
<1> QED BY <1>1, <1>2 DEF Chain!Init, Seen, View

\* The first submission and each one after it.
LEMMA SubmissionSeen ==
    ASSUME OffersInv, NEW o \in Offers \ raced, raced' = raced,
           CreatePendingSteps(o), chain # {},
           offer[o].status \in {"none", "revising"}, offer'[o].status = "pending_approval",
           offer'[o].current = 1, offer'[o].agreed = {}, handed[o] = 0, UNCHANGED handed,
           \A p \in Offers \ {o} : offer'[p] = offer[p]
    PROVE  \E n \in 1 .. MaxSteps : Chain!Submit(o, n)
<1>1. Approved(o)' = {} /\ Rows(o)' = chain
  BY SubmissionFits
<1>2. MaxSteps \in Nat /\ IsFiniteSet(Steps) /\ Cardinality(Steps) = MaxSteps
  BY StepsAssumption, FS_Interval DEF Steps
<1>3. Cardinality(chain) \in 1 .. MaxSteps
  <2>1. IsFiniteSet(chain) /\ Cardinality(chain) <= MaxSteps
    BY <1>2, FS_Subset DEF OffersInv, OfferTypes
  <2> QED BY <1>2, <2>1, FS_CardinalityType, FS_EmptySet
<1>4. Chain!Become(o, "review", Cardinality(chain), 0)
  <2>1. \A p \in Offers \ {o} : offer'[p] = offer[p] /\ step'[p] = step[p]
    BY DEF CreatePendingSteps, OffersInv, OfferTypes
  <2>2. Phase("pending_approval") = "review" /\ Cardinality({}) = 0
    BY FS_EmptySet DEF Phase
  <2> QED BY <1>1, <2>1, <2>2, SeenAtOne
<1>5. Phase(offer[o].status) \in {"none", "revision"}
  BY DEF Phase
<1> QED BY <1>3, <1>4, <1>5, SeenOn DEF Chain!Submit

\* A write of an offer's status, seen as the phase it leads to.
LEMMA StatusSeen ==
    ASSUME OffersInv, NEW o \in Offers \ raced, raced' = raced, NEW s \in Statuses,
           offer' = [offer EXCEPT ![o].status = s], UNCHANGED step
    PROVE  Chain!Become(o, Phase(s), Cardinality(Rows(o)), Cardinality(Approved(o)))
<1>1. offer'[o].status = s /\ \A p \in Offers \ {o} : offer'[p] = offer[p]
  BY DEF OffersInv, OfferTypes
<1>2. Rows(o)' = Rows(o) /\ Approved(o)' = Approved(o)
  BY UnseenRows
<1>3. /\ Phase(offer'[o].status) = Phase(s)
      /\ Cardinality(Rows(o)') = Cardinality(Rows(o))
      /\ Cardinality(Approved(o)') = Cardinality(Approved(o))
  BY <1>1, <1>2
<1>4. \A p \in Offers \ {o} : offer'[p] = offer[p] /\ step'[p] = step[p]
  BY <1>1
<1> QED BY <1>3, <1>4, SeenAtOne

LEMMA ClosingSeen ==
    ASSUME OffersInv, NEW o \in Offers \ raced, raced' = raced, NEW s \in {"on_hold", "cancelled"},
           offer[o].status # "none", offer' = [offer EXCEPT ![o].status = s], UNCHANGED step
    PROVE  Chain!Close(o)
<1>1. s \in Statuses /\ Phase(s) = "closed"
  BY DEF Statuses, Phase
<1>2. Phase(offer[o].status) # "none"
  BY DEF OffersInv, OfferTypes, Statuses, Phase
<1>3. Chain!Become(o, "closed", Cardinality(Rows(o)), Cardinality(Approved(o)))
  BY <1>1, StatusSeen
<1> QED BY <1>2, <1>3, SeenOn DEF Chain!Close

LEMMA DraftSeen ==
    ASSUME OffersInv, OfferTypes', NEW w \in Workers \ missed, Account(w), DraftStep(w)
    PROVE  [Chain!Next]_Seen
<1>0. raced' = raced
  BY DEF Account
<1>1. ASSUME UNCHANGED <<offer, step>> PROVE Seen' = Seen
  BY <1>0, <1>1, Unseen, UnseenRows
<1>2. ASSUME NEW o \in Offers, NEW t \in Terms, CreateCommit(w, o, t)
      PROVE  Seen' = Seen \/ \E n \in 1 .. MaxSteps : Chain!Submit(o, n)
  <2>1. CASE o \in raced
    <3>1. \A p \in Offers \ {o} : offer'[p] = offer[p] /\ step'[p] = step[p]
      BY <1>2 DEF CreateCommit, CreatePendingSteps, OffersInv, OfferTypes
    <3> QED BY <1>0, <2>1, <3>1, Unseen, UnseenRows
  <2>2. CASE o \notin raced
    <3>1. chain # {} /\ handed[o] = 0
      BY <1>2, <2>2 DEF CreateCommit, OffersInv, JobFits, OfferFits
    <3> QED BY <1>0, <1>2, <2>2, <3>1, SubmissionSeen DEF CreateCommit, OffersInv, OfferTypes
  <2> QED BY <2>1, <2>2
<1>3. ASSUME NEW o \in Offers, NEW t \in Terms, EditWrite(w, o, t) PROVE Seen' = Seen
  <2>1. \A p \in Offers : offer'[p].status = offer[p].status /\ step' = step
    BY <1>3 DEF EditWrite, OffersInv, OfferTypes
  <2> QED BY <1>0, <2>1, Unseen, UnseenRows
<1>4. ASSUME NEW o \in Offers, ResubmitCommit(w, o)
      PROVE  \E n \in 1 .. MaxSteps : Chain!Submit(o, n)
  <2>1. chain # {} /\ offer[o].status = "revising" /\ handed[o] = 0 /\ o \notin raced
    BY <1>4, OnFirmGround
       DEF ResubmitCommit, Resubmitting, GoesBy, OnOffer, JobFits, OfferFits
  <2>2. /\ offer' = [offer EXCEPT ![o].status = "pending_approval", ![o].current = 1,
                                  ![o].batch = @ + 1, ![o].agreed = {}]
        /\ UNCHANGED handed /\ CreatePendingSteps(o)
    BY <1>4 DEF ResubmitCommit
  <2>3. offer'[o] \in [status : {"pending_approval"}, current : {1}, batch : Nat,
                       terms : Terms \cup {None}, agreed : {{}}]
    BY <2>2 DEF OffersInv, OfferTypes
  <2>4. \A p \in Offers \ {o} : offer'[p] = offer[p]
    BY <2>2 DEF OffersInv, OfferTypes
  <2> QED BY <1>0, <2>1, <2>2, <2>3, <2>4, SubmissionSeen
<1> QED BY <1>1, <1>2, <1>3, <1>4 DEF DraftStep, CreateRead, EditRead, ResubmitRead, Chain!Next

LEMMA ReviewSeen ==
    ASSUME OffersInv, OfferTypes', NEW w \in Workers \ missed, Account(w), ReviewStep(w)
    PROVE  [Chain!Next]_Seen
<1>0. raced' = raced
  BY DEF Account
<1>1. ASSUME UNCHANGED <<offer, step>> PROVE Seen' = Seen
  BY <1>0, <1>1, Unseen, UnseenRows
<1>2. ASSUME NEW o \in Offers, NEW b \in 1 .. MaxBatch, NEW k \in Steps, ApproveMark(w, o, b, k)
      PROVE  Chain!Approve(o)
  <2>0. o \notin raced
    BY <1>2, OnFirmGround DEF ApproveMark, Approving, GoesBy, OnOffer
  <2>1. /\ offer[o].status = "pending_approval" /\ step[o][k] = "pending"
        /\ step'[o] = [step[o] EXCEPT ![k] = "approved"]
    BY <1>2, ApproveMarkKeepsOffers DEF Actionable
  <2>2. /\ offer'[o].status = "pending_approval"
        /\ \A p \in Offers \ {o} : offer'[p] = offer[p] /\ step'[p] = step[p]
    BY <1>2, <2>1 DEF ApproveMark, MarkStep, OffersInv, OfferTypes
  <2>3. /\ Approved(o)' = Approved(o) \cup {k} /\ Rows(o)' = Rows(o)
        /\ k \in Rows(o) /\ k \notin Approved(o)
    BY <2>1 DEF Approved, Rows, OffersInv, OfferTypes
  <2>4. Cardinality(Approved(o)') = Cardinality(Approved(o)) + 1
    BY <2>3, StepsCounted, FS_AddElement
  <2>5. Cardinality(Approved(o)) < Cardinality(Rows(o))
    BY <2>3, StepsCounted, FS_Subset
  <2>6. Phase("pending_approval") = "review"
    BY DEF Phase
  <2>7. Chain!Become(o, "review", Cardinality(Rows(o)), Cardinality(Approved(o)) + 1)
    <3>1. /\ Phase(offer'[o].status) = "review"
          /\ Cardinality(Rows(o)') = Cardinality(Rows(o))
      BY <2>2, <2>3, <2>6
    <3> QED BY <1>0, <2>0, <2>2, <2>4, <3>1, SeenAtOne
  <2> QED BY <2>0, <2>1, <2>5, <2>6, <2>7, SeenOn DEF Chain!Approve
<1>3. ASSUME NEW o \in Offers, NEW b \in 1 .. MaxBatch, NEW k \in Steps, RejectMark(w, o, b, k)
      PROVE  Seen' = Seen
  <2>1. /\ offer[o].status = "pending_approval" /\ step[o][k] = "pending" /\ offer' = offer
        /\ step'[o] = [step[o] EXCEPT ![k] = "rejected"]
    BY <1>3, RejectMarkKeepsOffers DEF Actionable, RejectMark
  <2>2. \A p \in Offers \ {o} : step'[p] = step[p]
    BY <1>3 DEF RejectMark, MarkStep, OffersInv, OfferTypes
  <2>3. Approved(o)' = Approved(o) /\ Rows(o)' = Rows(o)
    BY <2>1 DEF Approved, Rows, OffersInv, OfferTypes
  <2> QED BY <1>0, <2>1, <2>2, <2>3, Unseen, UnseenRows
<1>4. ASSUME NEW o \in Offers, ApproveSent(w, o) PROVE Chain!Send(o)
  <2>1. offer[o].status = "pending_approval" /\ Rows(o) = Approved(o) /\ o \notin raced
    BY <1>4, OnFirmGround DEF ApproveSent, Sending, GoesBy, OnOffer, JobFits
  <2>2. Phase("pending_approval") = "review" /\ Phase("sent_to_darwinbox") = "sent"
    BY DEF Phase
  <2>3. Chain!Become(o, "sent", Cardinality(Rows(o)), Cardinality(Approved(o)))
    BY <1>0, <1>4, <2>1, <2>2, StatusSeen DEF ApproveSent, Statuses
  <2> QED BY <2>1, <2>2, <2>3, SeenOn DEF Chain!Send
<1>5. ASSUME NEW o \in Offers, RejectRevise(w, o) PROVE Chain!Reject(o)
  <2>1. /\ offer[o].status = "pending_approval" /\ offer[o].current \in Steps
        /\ step[o][offer[o].current] = "rejected" /\ o \notin raced
    BY <1>5, OnFirmGround
       DEF RejectRevise, Revising, GoesBy, OnOffer, OffersInv, OfferTypes, JobFits
  <2>2. Cardinality(Approved(o)) < Cardinality(Rows(o))
    <3>1. offer[o].current \in Rows(o) /\ offer[o].current \notin Approved(o)
      BY <2>1 DEF Rows, Approved
    <3> QED BY <3>1, StepsCounted, FS_Subset
  <2>3. Phase("pending_approval") = "review" /\ Phase("revising") = "revision"
    BY DEF Phase
  <2>4. Chain!Become(o, "revision", Cardinality(Rows(o)), Cardinality(Approved(o)))
    BY <1>0, <1>5, <2>1, <2>3, StatusSeen DEF RejectRevise, Statuses
  <2> QED BY <2>1, <2>2, <2>3, <2>4, SeenOn DEF Chain!Reject
<1>6. ASSUME NEW o \in Offers, NEW k \in Steps, ApprovePass(w, o, k) PROVE Seen' = Seen
  <2>1. \A p \in Offers : offer'[p].status = offer[p].status /\ step' = step
    BY <1>6 DEF ApprovePass, OffersInv, OfferTypes
  <2> QED BY <1>0, <2>1, Unseen, UnseenRows
<1> QED BY <1>1, <1>2, <1>3, <1>4, <1>5, <1>6
        DEF ReviewStep, ApproveRead, RejectRead, ApproveFinal, ApproveMore,
            ApproveOffered, Chain!Next

LEMMA MoveSeen ==
    ASSUME OffersInv, OfferTypes', NEW w \in Workers \ missed, Account(w), MoveStep(w)
    PROVE  [Chain!Next]_Seen
<1>0. raced' = raced
  BY DEF Account
<1>1. ASSUME UNCHANGED <<offer, step>> PROVE Seen' = Seen
  BY <1>0, <1>1, Unseen, UnseenRows
<1>2. ASSUME NEW to \in {"on_hold", "cancelled"}, NEW o \in Offers, NEW was \in Statuses,
             StatusOffer(w, o, was, to)
      PROVE  Chain!Close(o)
  <2>1. offer[o].status # "none" /\ o \notin raced
    BY <1>2, OnFirmGround DEF StatusOffer, Setting, GoesBy, OnOffer, JobFits
  <2> QED BY <1>0, <1>2, <2>1, ClosingSeen DEF StatusOffer
<1>3. ASSUME NEW to \in Stages, RevertCommit(w, to) PROVE [Chain!Next]_Seen
  <2>1. CASE Made = {}
    BY <1>1, <1>3, <2>1 DEF RevertCommit, CancelAnOffer
  <2>2. CASE Made # {}
    <3>1. PICK o \in Made : offer' = [offer EXCEPT ![o].status = "cancelled"]
      BY <1>3, <2>2 DEF RevertCommit, CancelAnOffer
    <3>2. CASE o \in raced
      <4>1. \A p \in Offers \ {o} : offer'[p] = offer[p] /\ step'[p] = step[p]
        BY <1>3, <3>1 DEF RevertCommit, Made, OffersInv, OfferTypes
      <4> QED BY <1>0, <3>2, <4>1, Unseen, UnseenRows
    <3>3. CASE o \notin raced
      <4>1. o \in Offers /\ Chain!Close(o)
        BY <1>0, <1>3, <3>1, <3>3, ClosingSeen DEF RevertCommit, Made
      <4> QED BY <4>1 DEF Chain!Next
    <3> QED BY <3>2, <3>3
  <2> QED BY <2>1, <2>2
<1> QED BY <1>1, <1>2, <1>3
        DEF MoveStep, StatusRead, StatusApp, StatusEvent, RevertRead, MoveRead,
            MoveWrite, Chain!Next

\* On stale ground: the offer that is written to is lost.
LEMMA StaleSeen ==
    ASSUME OffersInv, NEW w \in missed, StepTypes(w), Account(w)
    PROVE  [Chain!Next]_Seen
<1>1. raced' = raced \cup Written
  BY DEF Account
<1>2. \A p \in Offers \ Written : View(p)' = View(p)
  <2>1. ASSUME NEW p \in Offers \ Written PROVE View(p)' = View(p)
    BY UnseenRows DEF Written, View
  <2> QED BY <2>1
<1>3. CASE Written \subseteq raced
  <2>1. raced' = raced
    BY <1>1, <1>3
  <2>2. \A p \in Offers \ raced : View(p)' = View(p)
    BY <1>2, <1>3
  <2> QED BY <2>1, <2>2 DEF Seen
<1>4. ASSUME NEW o \in Written \ raced PROVE Chain!Lose(o)
  <2>1. o \in Offers /\ \A p \in Offers \ {o} : p \notin Written
    BY <1>4 DEF Written, StepTypes
  <2>2. Seen' = [Seen EXCEPT ![o] = LostView]
    BY <1>1, <1>2, <1>4, <2>1 DEF Seen
  <2> QED BY <2>2 DEF Chain!Lose, Chain!Become, LostView
<1>5. Written \subseteq Offers
  BY DEF Written
<1> QED BY <1>3, <1>4, <1>5 DEF Chain!Next

LEMMA StepSeen == ASSUME OffersInv, [Next]_vars PROVE [Chain!Next]_Seen
<1>1. CASE UNCHANGED vars
  BY <1>1, Unseen, UnseenRows DEF vars
<1>2. ASSUME NEW w \in Workers, OneStep(w), Account(w) PROVE [Chain!Next]_Seen
  <2>1. OfferTypes' /\ StepTypes(w)
    BY <1>2, TypesKept DEF OffersInv
  <2>2. CASE w \in missed
    BY <1>2, <2>1, <2>2, StaleSeen
  <2>3. CASE w \notin missed
    <3>1. ASSUME ChainStep(w) \/ Crash(w) PROVE Seen' = Seen
      <4>1. UNCHANGED <<offer, step, raced>>
        BY <1>2, <2>3, <3>1 DEF ChainStep, ClearChain, AddApprover, Crash, Account
      <4> QED BY <4>1, Unseen, UnseenRows
    <3> QED BY <1>2, <2>1, <2>3, <3>1, DraftSeen, ReviewSeen, MoveSeen DEF OneStep
  <2> QED BY <2>2, <2>3
<1> QED BY <1>1, <1>2 DEF Next, OneStep

(* The flow of approve, reject, edit, resubmit and status, statement by    *)
(* statement and of any number of handlers, is the sequential flow that    *)
(* the head of offers_api.py describes, until a handler writes to an offer *)
(* on stale ground: that offer is lost to it.                              *)
THEOREM OffersFollowTheChain == Spec => FollowsTheChain
<1>1. Init => Chain!Init
  BY SeenInit
<1>2. OffersInv /\ [Next]_vars => [Chain!Next]_Seen
  BY StepSeen
<1> QED BY <1>1, <1>2, OffersInit, OffersStep, PTL DEF Spec, FollowsTheChain, Chain!Spec

-----------------------------------------------------------------------------
(* The stages of the application (ApplicationPipeline). *)

Levels == Nat \ {0}

\* What a request has in hand: an advance from a level has asked there, and goes to the next; an
\* advance from another stage goes to the first panel.
PlanOK(r) ==
    /\ r.pc = "terminal" => r.to # "interview"
    /\ ~edited =>
        /\ r.pc = "decide" /\ r.from = "interview" => r.round \in Levels /\ r.round \in asked
        /\ r.pc = "move" /\ r.to = "interview" =>
              /\ r.round \in Levels
              /\ IF r.from = "interview" THEN r.round - 1 \in asked ELSE r.round = A!FirstPanel
        /\ r.pc = "revert" /\ r.to = "interview" => r.round \in Levels

PipelineInv ==
    /\ applicant = [status |-> applicant.status, round |-> applicant.round]
    /\ op = [h \in Handlers |-> op[h]]
    /\ rounds \in Configs
    /\ applicant.status = "interview" /\ ~edited => applicant.round \in Levels
    /\ \A h \in Handlers : PlanOK(op[h])
    /\ A!NoLevelSkipped

\* The first panel of a requisition that has any is one of its rounds.
LEMMA FirstPanelIsALevel ==
    ASSUME NEW S, S \subseteq Levels, S # {}
    PROVE  A!Min(S) \in S
<1>1. PICK n \in S : \A m \in S : ~(m < n)
  <2>1. IsWellFoundedOn(OpToRel(<, Nat), Nat)
    BY NatLessThanWellFounded
  <2>2. PICK n \in S : \A m \in S : ~(<<m, n>> \in OpToRel(<, Nat))
    BY <2>1, WFMin DEF Levels
  <2>3. \A m \in S : <<m, n>> \in OpToRel(<, Nat) <=> m < n
    BY DEF OpToRel, Levels
  <2> QED
    BY <2>2, <2>3
<1>2. \A m \in S : n <= m
  BY <1>1 DEF Levels
<1> QED
  BY <1>2 DEF A!Min

LEMMA RoundsAreLevels ==
    ASSUME PipelineInv
    PROVE  /\ A!Sequences \subseteq Levels
           /\ rounds.panels # {} => A!FirstPanel \in Levels
<1>1. rounds.bots \subseteq Levels /\ rounds.panels \subseteq Levels
  BY HiringConstants DEF PipelineInv, A!PipelineAssumption, Levels
<1>2. rounds.panels # {} => A!Min(rounds.panels) \in Levels
  BY <1>1, FirstPanelIsALevel
<1> QED
  BY <1>1, <1>2 DEF A!Sequences, A!FirstPanel

LEMMA PipelineInit == A!Init => PipelineInv
  BY DEF A!Init, A!NoApp, A!Idle, PipelineInv, PlanOK, A!NoLevelSkipped

\* A request that reads, or ends: nothing changes but what it has in hand and what was asked.
LEMMA PlansMove ==
    ASSUME PipelineInv, NEW h \in Handlers, NEW x, op' = [op EXCEPT ![h] = x],
           UNCHANGED <<applicant, rounds, edited>>,
           ~edited => asked \subseteq asked', PlanOK(x)'
    PROVE  PipelineInv'
<1>1. A!FirstPanel' = A!FirstPanel
  BY DEF A!FirstPanel
<1>2. ASSUME NEW g \in Handlers PROVE PlanOK(op[g])'
  <2>1. op'[g] = (IF g = h THEN x ELSE op[g]) /\ PlanOK(op[g])
    BY DEF PipelineInv
  <2>2. CASE g = h
    BY <2>1, <2>2 DEF PlanOK
  <2>3. CASE g # h
    BY <1>1, <2>1, <2>3 DEF PlanOK
  <2> QED
    BY <2>2, <2>3
<1>3. op' = [g \in Handlers |-> op'[g]]
  BY DEF PipelineInv
<1>4. A!NoLevelSkipped'
  BY <1>1 DEF PipelineInv, A!NoLevelSkipped
<1> QED
  BY <1>2, <1>3, <1>4 DEF PipelineInv

\* The row is written, and the request is done.
LEMMA RowWritten ==
    ASSUME PipelineInv, NEW h \in Handlers, NEW x, op' = [op EXCEPT ![h] = x], PlanOK(x)',
           NEW status, NEW round, applicant' = [status |-> status, round |-> round],
           UNCHANGED <<rounds, edited>>, ~edited => asked \subseteq asked',
           status = "interview" /\ ~edited =>
               round \in Levels /\ (round = A!FirstPanel \/ round - 1 \in asked')
    PROVE  PipelineInv'
<1>1. A!FirstPanel' = A!FirstPanel
  BY DEF A!FirstPanel
<1>2. ASSUME NEW g \in Handlers PROVE PlanOK(op[g])'
  <2>1. op'[g] = (IF g = h THEN x ELSE op[g]) /\ PlanOK(op[g])
    BY DEF PipelineInv
  <2>2. CASE g = h
    BY <2>1, <2>2 DEF PlanOK
  <2>3. CASE g # h
    BY <1>1, <2>1, <2>3 DEF PlanOK
  <2> QED
    BY <2>2, <2>3
<1>3. op' = [g \in Handlers |-> op'[g]]
  BY DEF PipelineInv
<1>4. A!NoLevelSkipped'
  BY <1>1 DEF A!NoLevelSkipped
<1> QED
  BY <1>2, <1>3, <1>4 DEF PipelineInv

LEMMA IdleIsFine == PlanOK(A!Idle) /\ PlanOK(A!Idle)'
  BY DEF PlanOK, A!Idle

\* What is read and decided.
LEMMA PlanStep ==
    ASSUME PipelineInv, NEW h \in Handlers,
           \/ A!ReadDelete(h) \/ A!ReadTerminal(h) \/ A!ReadAdvance(h) \/ A!Decide(h)
           \/ A!ReadRevert(h) \/ A!RejectEvent(h) \/ A!ReadBot(h) \/ A!ReadInvite(h)
           \/ A!ReadOffer(h) \/ A!Fails(h)
    PROVE  PipelineInv'
<1>1. UNCHANGED <<applicant, rounds, edited>>
  BY DEF A!ReadDelete, A!ReadTerminal, A!ReadAdvance, A!Decide, A!ReadRevert, A!RejectEvent,
         A!ReadBot, A!ReadInvite, A!ReadOffer, A!Fails, A!Begins, A!Reads
<1>2. A!FirstPanel' = A!FirstPanel
  BY <1>1 DEF A!FirstPanel
<1>3. CASE A!RejectEvent(h) \/ A!Fails(h)
  BY <1>1, <1>3, IdleIsFine, PlansMove DEF A!RejectEvent, A!Fails, A!Ends
<1>4. ASSUME NEW pc \in {"delete", "bot", "offer", "revert"}, NEW to, NEW round,
             A!Begins(h, pc, to, round),
             pc = "revert" /\ to = "interview" => round \in Levels
      PROVE  PipelineInv'
  <2> DEFINE x == [pc |-> pc, from |-> "none", to |-> to, round |-> round]
  <2>1. op' = [op EXCEPT ![h] = x] /\ asked' = asked
    BY <1>4 DEF A!Begins, A!Reads
  <2>2. PlanOK(x)'
    BY <1>4 DEF PlanOK
  <2> HIDE DEF x
  <2> QED
    BY <1>1, <2>1, <2>2, PlansMove
<1>5. CASE A!ReadTerminal(h)
  <2>1. PICK to, from : /\ to \in A!Terminal
                        /\ A!Reads(h, "terminal", from, to, 0) /\ UNCHANGED asked
    BY <1>5 DEF A!ReadTerminal
  <2> DEFINE x == [pc |-> "terminal", from |-> from, to |-> to, round |-> 0]
  <2>2. op' = [op EXCEPT ![h] = x]
    BY <2>1 DEF A!Reads
  <2>3. to \in {"hired", "rejected", "on_hold"}
    BY <2>1 DEF A!Terminal
  <2>4. PlanOK(x)'
    BY <2>3 DEF PlanOK
  <2> HIDE DEF x
  <2> QED
    BY <1>1, <2>1, <2>2, <2>4, PlansMove
<1>6. CASE A!ReadAdvance(h)
  <2>1. PICK round, from :
            /\ round = (IF applicant.status = "interview" THEN applicant.round ELSE 0)
            /\ from = applicant.status
            /\ A!Reads(h, "decide", from, "none", round) /\ A!Asks({round} \ {0})
    BY <1>6 DEF A!ReadAdvance
  <2> DEFINE x == [pc |-> "decide", from |-> from, to |-> "none", round |-> round]
  <2>2. op' = [op EXCEPT ![h] = x]
    BY <2>1 DEF A!Reads
  <2>3. ~edited => asked' = asked \cup ({round} \ {0})
    BY <2>1 DEF A!Asks
  <2>4. ~edited /\ from = "interview" => round \in Levels
    BY <2>1 DEF PipelineInv
  <2>5. PlanOK(x)'
    BY <1>1, <2>3, <2>4 DEF PlanOK, Levels
  <2> HIDE DEF x
  <2> QED
    BY <1>1, <2>2, <2>3, <2>5, PlansMove
<1>7. CASE A!Decide(h)
  <2>1. PICK r, next :
            /\ r = op[h] /\ r.pc = "decide"
            /\ next = (IF r.from = "interview"
                       THEN A!AfterLevel(IF r.round = 0 THEN 1 ELSE r.round)
                       ELSE A!AfterStage(r.from))
            /\ op' = [op EXCEPT ![h] = [pc |-> "move", from |-> r.from, to |-> next.to,
                                        round |-> next.round]]
            /\ asked' = asked
    BY <1>7 DEF A!Decide
  <2> DEFINE x == [pc |-> "move", from |-> r.from, to |-> next.to, round |-> next.round]
  <2>2. PlanOK(r)
    BY <2>1 DEF PipelineInv
  <2>3. ~edited /\ r.from = "interview" /\ next.to = "interview" =>
            next.round \in Levels /\ next.round - 1 \in asked
    <3> SUFFICES ASSUME ~edited, r.from = "interview", next.to = "interview"
                 PROVE  next.round \in Levels /\ next.round - 1 \in asked
      OBVIOUS
    <3>1. r.round \in Levels /\ r.round \in asked
      BY <2>1, <2>2 DEF PlanOK
    <3>2. next = A!AfterLevel(r.round)
      BY <2>1, <3>1 DEF Levels
    <3>3. next.round = r.round + 1
      BY <3>2 DEF A!AfterLevel
    <3> QED
      BY <3>1, <3>3 DEF Levels
  <2>4. r.from # "interview" /\ next.to = "interview" =>
            next.round \in Levels /\ next.round = A!FirstPanel
    <3> SUFFICES ASSUME r.from # "interview", next.to = "interview"
                 PROVE  next.round \in Levels /\ next.round = A!FirstPanel
      OBVIOUS
    <3>1. next = A!AfterStage(r.from)
      BY <2>1
    <3>2. next.round = A!FirstPanel /\ A!FirstPanel # None
      <4> DEFINE s == A!NextStage(r.from)
      <4>1. CASE s = "interview" /\ A!FirstPanel # None
        BY <3>1, <4>1 DEF A!AfterStage
      <4>2. CASE s = "interview" /\ A!FirstPanel = None
        BY <3>1, <4>2 DEF A!AfterStage
      <4>3. CASE s = "enteri_ai_bot"
        BY <3>1, <4>3 DEF A!AfterStage
      <4>4. CASE s # "interview" /\ s # "enteri_ai_bot"
        BY <3>1, <4>4 DEF A!AfterStage
      <4> QED
        BY <4>1, <4>2, <4>3, <4>4
    <3>3. rounds.panels # {}
      BY <3>2 DEF A!FirstPanel
    <3> QED
      BY <3>2, <3>3, RoundsAreLevels
  <2>5. PlanOK(x)'
    BY <1>1, <1>2, <2>1, <2>3, <2>4 DEF PlanOK
  <2> HIDE DEF x
  <2> QED
    BY <1>1, <2>1, <2>5, PlansMove DEF x
<1>8. CASE A!ReadRevert(h)
  <2>1. PICK to : IF to = "interview" THEN \E seq \in A!Sequences : A!Begins(h, "revert", to, seq)
                  ELSE A!Begins(h, "revert", to, 0)
    BY <1>8 DEF A!ReadRevert
  <2>2. CASE to = "interview"
    BY <1>4, <2>1, <2>2, RoundsAreLevels
  <2>3. CASE to # "interview"
    BY <1>4, <2>1, <2>3
  <2> QED
    BY <2>2, <2>3
<1>9. CASE A!ReadDelete(h) \/ A!ReadBot(h) \/ A!ReadInvite(h) \/ A!ReadOffer(h)
  BY <1>4, <1>9 DEF A!ReadDelete, A!ReadBot, A!ReadInvite, A!ReadOffer
<1> QED
  BY <1>3, <1>5, <1>6, <1>7, <1>8, <1>9

\* What is written.
LEMMA WriteStep ==
    ASSUME PipelineInv, NEW h \in Handlers,
           \/ A!CommitTerminal(h) \/ A!CommitLevel(h) \/ A!CommitStage(h) \/ A!CommitRevert(h)
           \/ A!RejectScreen(h) \/ A!WriteBot(h) \/ A!CommitOffer(h)
    PROVE  PipelineInv'
<1>1. UNCHANGED <<rounds, edited>>
  BY DEF A!CommitTerminal, A!CommitLevel, A!CommitStage, A!CommitRevert, A!RejectScreen,
         A!WriteBot, A!CommitOffer
<1>2. PICK r : r = op[h] /\ PlanOK(r)
  BY DEF PipelineInv
<1>3. PICK old, at : applicant = [status |-> old, round |-> at]
  BY DEF PipelineInv
<1>4. ASSUME NEW status, applicant' = [applicant EXCEPT !.status = status],
             status # "interview", A!Ends(h), asked' = asked
      PROVE  PipelineInv'
  <2>1. applicant' = [status |-> status, round |-> at]
    BY <1>3, <1>4
  <2> QED
    BY <1>1, <1>4, <2>1, IdleIsFine, RowWritten DEF A!Ends
<1>5. CASE A!CommitTerminal(h)
  BY <1>2, <1>4, <1>5 DEF A!CommitTerminal, PlanOK
<1>6. CASE A!CommitLevel(h)
  <2>1. /\ r.pc = "move" /\ r.from = "interview" /\ r.to = "interview"
        /\ applicant' = [applicant EXCEPT !.round = r.round] /\ A!Ends(h) /\ asked' = asked
    BY <1>2, <1>6 DEF A!CommitLevel
  <2>2. applicant' = [status |-> old, round |-> r.round]
    BY <1>3, <2>1
  <2>3. ~edited => r.round \in Levels /\ r.round - 1 \in asked
    BY <1>2, <2>1 DEF PlanOK
  <2> QED
    BY <1>1, <2>1, <2>2, <2>3, IdleIsFine, RowWritten DEF A!Ends
<1>7. CASE A!CommitStage(h)
  <2>1. CASE r.to = "interview"
    <3>1. /\ r.pc = "move" /\ r.from # "interview" /\ A!Ends(h) /\ asked' = asked
          /\ applicant' = [status |-> "interview", round |-> r.round]
      BY <1>2, <1>7, <2>1 DEF A!CommitStage
    <3>2. ~edited => r.round \in Levels /\ r.round = A!FirstPanel
      BY <1>2, <2>1, <3>1 DEF PlanOK
    <3> QED
      BY <1>1, <3>1, <3>2, IdleIsFine, RowWritten DEF A!Ends
  <2>2. CASE r.to # "interview"
    BY <1>2, <1>4, <1>7, <2>2 DEF A!CommitStage
  <2> QED
    BY <2>1, <2>2
<1>8. CASE A!CommitRevert(h)
  <2>1. /\ r.pc = "revert" /\ A!Ends(h)
        /\ applicant' = [status |-> r.to, round |-> IF r.to = "interview" THEN r.round ELSE at]
        /\ A!Asks(IF r.to = "interview" THEN 0 .. (r.round - 1) ELSE {})
    BY <1>2, <1>3, <1>8 DEF A!CommitRevert
  <2>2. ~edited => asked' = asked \cup (IF r.to = "interview" THEN 0 .. (r.round - 1) ELSE {})
    BY <2>1 DEF A!Asks
  <2>3. ~edited /\ r.to = "interview" => r.round \in Levels
    BY <1>2, <2>1 DEF PlanOK
  <2>4. ~edited /\ r.to = "interview" => r.round - 1 \in 0 .. (r.round - 1)
    BY <2>3 DEF Levels
  <2>5. PICK round : round = IF r.to = "interview" THEN r.round ELSE at
    OBVIOUS
  <2>6. applicant' = [status |-> r.to, round |-> round]
    BY <2>1, <2>5
  <2> QED
    BY <1>1, <2>1, <2>2, <2>3, <2>4, <2>5, <2>6, IdleIsFine, RowWritten DEF A!Ends
<1>9. CASE A!RejectScreen(h)
  <2>1. /\ op' = [op EXCEPT ![h] = [A!Idle EXCEPT !.pc = "event"]] /\ asked' = asked
        /\ applicant' = [applicant EXCEPT !.status = "rejected"]
    BY <1>9 DEF A!RejectScreen
  <2>2. applicant' = [status |-> "rejected", round |-> at]
    BY <1>3, <2>1
  <2>3. PlanOK([A!Idle EXCEPT !.pc = "event"])'
    BY DEF PlanOK, A!Idle
  <2> QED
    BY <1>1, <2>1, <2>2, <2>3, RowWritten
<1>10. CASE A!WriteBot(h)
  BY <1>4, <1>10 DEF A!WriteBot
<1>11. CASE A!CommitOffer(h)
  <2>1. CASE r.to = "documentation"
    BY <1>2, <1>4, <1>11, <2>1 DEF A!CommitOffer
  <2>2. CASE r.to # "documentation"
    BY <1>1, <1>2, <1>11, <2>2, IdleIsFine, PlansMove DEF A!CommitOffer, A!Ends
  <2> QED
    BY <2>1, <2>2
<1> QED
  BY <1>5, <1>6, <1>7, <1>8, <1>9, <1>10, <1>11

LEMMA PipelineStep == ASSUME PipelineInv, [A!Next]_(A!vars) PROVE PipelineInv'
<1>1. CASE UNCHANGED A!vars
  BY <1>1 DEF A!vars, PipelineInv, PlanOK, A!NoLevelSkipped, A!FirstPanel
<1>2. CASE A!Intake \/ A!OfferEnds
  <2>1. UNCHANGED <<rounds, op, asked, edited>>
    BY <1>2 DEF A!Intake, A!OfferEnds
  <2>2. PICK old, at : applicant = [status |-> old, round |-> at]
    BY DEF PipelineInv
  <2>3. PICK status, round :
          applicant' = [status |-> status, round |-> round] /\ status # "interview"
    BY <1>2, <2>2 DEF A!Intake, A!OfferEnds
  <2> QED
    BY <2>1, <2>3 DEF PipelineInv, PlanOK, A!NoLevelSkipped, A!FirstPanel
<1>3. CASE A!Reconfigure
  <2>1. UNCHANGED <<applicant, op>> /\ edited' = TRUE /\ rounds' \in Configs
    BY <1>3 DEF A!Reconfigure
  <2>2. \A h \in Handlers : PlanOK(op[h])'
    BY <2>1 DEF PipelineInv, PlanOK
  <2> QED
    BY <2>1, <2>2 DEF PipelineInv, A!NoLevelSkipped
<1>4. ASSUME NEW h \in Handlers, A!CommitDelete(h) PROVE PipelineInv'
  <2>1. /\ op' = [g \in Handlers |-> A!Idle] /\ UNCHANGED <<rounds, edited>>
        /\ applicant' = [status |-> "none", round |-> 0]
    BY <1>4 DEF A!CommitDelete, A!NoApp
  <2>2. \A g \in Handlers : PlanOK(op[g])'
    BY <2>1 DEF PlanOK, A!Idle
  <2> QED
    BY <2>1, <2>2 DEF PipelineInv, A!NoLevelSkipped
<1> QED
  BY <1>1, <1>2, <1>3, <1>4, PlanStep, WriteStep DEF A!Next

\* However requests about one candidate overlap, nobody is at an interview level but the first
\* panel's unless an advance was asked for at the one before, or an admin let them off it.
THEOREM TwoClicksOneLevel == A!Spec => []NoLevelSkipped
<1>1. PipelineInv => NoLevelSkipped
  BY DEF PipelineInv, NoLevelSkipped
<1>2. PipelineInv /\ [A!Next]_(A!vars) => PipelineInv'
  BY PipelineStep
<1> QED
  BY <1>1, <1>2, PipelineInit, PTL DEF A!Spec

-----------------------------------------------------------------------------
(* The scorecards of a panel (PanelFeedback).  No request knows that it is *)
(* the last: as long as the panel is complete and nobody has been told, a  *)
(* submission is on the way to its count.                                  *)

\* A submission that has written its card and not counted yet.
OnTheWay == \E t \in Tabs : req[t].pc \in {"read", "combine", "count"}

\* A request that is about to write has a card of the panel in hand.
WritersKnown ==
    /\ DOMAIN card = Panelists
    /\ DOMAIN req = Tabs
    /\ \A t \in Tabs : req[t].pc = "write" => req[t].by \in Panelists

PanelInv == WritersKnown /\ (F!Submitted = Panelists => told \/ decided \/ died \/ OnTheWay)

-----------------------------------------------------------------------------
LEMMA PanelInit == F!Init => PanelInv
<1> SUFFICES ASSUME F!Init PROVE PanelInv
  OBVIOUS
<1>1. F!Submitted # Panelists
  BY HiringConstants DEF F!PanelAssumption, F!Init, F!Submitted, F!NoCard
<1> QED BY <1>1 DEF F!Init, PanelInv, WritersKnown, F!NoReq

LEMMA SaveKeepsPanel == ASSUME PanelInv, NEW t \in Tabs, F!Save(t) PROVE PanelInv'
<1>1. req[t].pc = "idle" /\ UNCHANGED <<card, decided, told, died>>
  BY DEF F!Save
<1>2. PICK r : req' = [req EXCEPT ![t] = r] /\ r.pc = "write" /\ r.by \in Panelists
  <2>1. PICK p \in Panelists, action \in {"draft", "submit"}, v \in Verdicts :
            /\ card[p].status # "submitted"
            /\ action = "draft" => v = CHOOSE w \in Verdicts : TRUE
            /\ req' = [req EXCEPT ![t] =
                         [pc |-> "write", by |-> p, action |-> action, verdict |-> v,
                          insert |-> card[p].status = "none", seen |-> None]]
    BY DEF F!Save
  <2> DEFINE r == [pc |-> "write", by |-> p, action |-> action, verdict |-> v,
                   insert |-> card[p].status = "none", seen |-> None]
  <2>2. r.pc = "write" /\ r.by \in Panelists
    OBVIOUS
  <2>3. req' = [req EXCEPT ![t] = r]
    BY <2>1
  <2> HIDE DEF r
  <2> QED BY <2>2, <2>3
<1>3. \A u \in Tabs \ {t} : req'[u] = req[u]
  BY <1>2 DEF PanelInv, WritersKnown
<1>4. WritersKnown'
  BY <1>1, <1>2, <1>3 DEF PanelInv, WritersKnown
<1>5. OnTheWay => OnTheWay'
  BY <1>1, <1>3 DEF OnTheWay
<1> QED BY <1>1, <1>4, <1>5 DEF PanelInv, F!Submitted

(* A submission is on the way once its card is written; a draft completes  *)
(* no panel.                                                               *)
LEMMA WriteKeepsPanel == ASSUME PanelInv, NEW t \in Tabs, F!Write(t) PROVE PanelInv'
<1> DEFINE p == req[t].by
<1>1. req[t].pc = "write" /\ p \in Panelists /\ UNCHANGED <<decided, told, died>>
  BY DEF F!Write, PanelInv, WritersKnown
<1>2. PICK r : req' = [req EXCEPT ![t] = r] /\ r.pc # "write"
  <2>1. F!NoReq.pc # "write"
    BY DEF F!NoReq
  <2>2. CASE F!Goes(t, "read")
    <3>1. [req[t] EXCEPT !.pc = "read"].pc # "write"
      BY DEF PanelInv, WritersKnown
    <3> QED BY <2>2, <3>1 DEF F!Goes
  <2>3. CASE F!Answered(t)
    BY <2>1, <2>3 DEF F!Answered
  <2> QED BY <2>2, <2>3 DEF F!Write
<1>3. \A u \in Tabs \ {t} : req'[u] = req[u]
  BY <1>2 DEF PanelInv, WritersKnown
<1>4. DOMAIN card' = Panelists
  BY DEF F!Write, PanelInv, WritersKnown
<1>5. WritersKnown'
  BY <1>2, <1>3, <1>4 DEF PanelInv, WritersKnown
<1>6. OnTheWay => OnTheWay'
  BY <1>1, <1>3 DEF OnTheWay
<1>7. CASE UNCHANGED card
  BY <1>1, <1>5, <1>6, <1>7 DEF PanelInv, F!Submitted
<1>8. CASE card' = [card EXCEPT ![p] = F!Row(t)] /\ req[t].action = "submit" /\ F!Goes(t, "read")
  <2>1. req'[t].pc = "read"
    BY <1>8 DEF F!Goes, PanelInv, WritersKnown
  <2> QED BY <1>5, <2>1 DEF PanelInv, OnTheWay
<1>9. CASE card' = [card EXCEPT ![p] = F!Row(t)] /\ req[t].action # "submit"
  <2>1. card'[p].status = "draft"
    BY <1>1, <1>9 DEF F!Row, PanelInv, WritersKnown
  <2>2. F!Submitted' # Panelists
    BY <1>1, <2>1 DEF F!Submitted
  <2> QED BY <1>5, <2>2 DEF PanelInv
<1> QED BY <1>7, <1>8, <1>9 DEF F!Write

LEMMA OnwardKeepsPanel ==
    ASSUME PanelInv, NEW t \in Tabs, F!ReadCards(t) \/ F!Combine(t) PROVE PanelInv'
<1>1. UNCHANGED <<card, decided, told, died>>
  BY DEF F!ReadCards, F!Combine
<1>2. /\ DOMAIN req' = Tabs /\ req'[t].pc \in {"combine", "count"}
      /\ \A u \in Tabs \ {t} : req'[u] = req[u]
  <2>1. CASE F!ReadCards(t)
    <3>1. PICK seen : req' = [req EXCEPT ![t].pc = "combine", ![t].seen = seen]
      BY <2>1 DEF F!ReadCards
    <3> QED BY <3>1 DEF PanelInv, WritersKnown
  <2>2. CASE F!Combine(t)
    BY <2>2 DEF F!Combine, PanelInv, WritersKnown
  <2> QED BY <2>1, <2>2
<1>3. WritersKnown'
  BY <1>1, <1>2 DEF PanelInv, WritersKnown
<1>4. OnTheWay'
  BY <1>2 DEF OnTheWay
<1> QED BY <1>3, <1>4 DEF PanelInv

(* Who leaves the way has told, or finds the panel incomplete.             *)
LEMMA CountKeepsPanel == ASSUME PanelInv, NEW t \in Tabs, F!Count(t) PROVE PanelInv'
<1>1. UNCHANGED <<card, decided, died>> /\ told' = (told \/ (F!Submitted = Panelists /\ ~decided))
  BY DEF F!Count
<1>2. req'[t] = F!NoReq /\ DOMAIN req' = Tabs /\ \A u \in Tabs \ {t} : req'[u] = req[u]
  BY DEF F!Count, F!Answered, PanelInv, WritersKnown
<1>3. WritersKnown'
  BY <1>1, <1>2 DEF PanelInv, WritersKnown, F!NoReq
<1>4. F!Submitted' = F!Submitted
  BY <1>1 DEF F!Submitted
<1> QED BY <1>1, <1>3, <1>4, Zenon DEF PanelInv

LEMMA DiesKeepsPanel == ASSUME PanelInv, NEW t \in Tabs, F!Dies(t) PROVE PanelInv'
<1>1. UNCHANGED <<card, decided, told>> /\ died' = (died \/ req[t].pc # "write")
  BY DEF F!Dies
<1>2. req'[t] = F!NoReq /\ DOMAIN req' = Tabs /\ \A u \in Tabs \ {t} : req'[u] = req[u]
  BY DEF F!Dies, F!Answered, PanelInv, WritersKnown
<1>3. WritersKnown'
  BY <1>1, <1>2 DEF PanelInv, WritersKnown, F!NoReq
<1>4. OnTheWay => OnTheWay' \/ died'
  <2>1. req[t].pc = "write" \/ died'
    BY <1>1, Zenon
  <2> QED BY <1>2, <2>1 DEF OnTheWay
<1>5. F!Submitted' = F!Submitted /\ (died => died')
  <2>1. F!Submitted' = F!Submitted
    BY <1>1 DEF F!Submitted
  <2> QED BY <1>1, <2>1, Zenon
<1> QED BY <1>1, <1>3, <1>4, <1>5, Zenon DEF PanelInv

LEMMA PanelStep == ASSUME PanelInv, [F!Next]_(F!vars) PROVE PanelInv'
<1>1. CASE \E t \in Tabs : \/ F!Save(t) \/ F!Write(t) \/ F!ReadCards(t)
                           \/ F!Combine(t) \/ F!Count(t) \/ F!Dies(t)
  BY <1>1, SaveKeepsPanel, WriteKeepsPanel, OnwardKeepsPanel, CountKeepsPanel, DiesKeepsPanel
<1>2. CASE F!Decides \/ F!MovesOn \/ UNCHANGED F!vars
  <2>1. UNCHANGED <<card, told, req, died>>
    BY <1>2 DEF F!Decides, F!MovesOn, F!vars
  <2>2. decided => decided'
    BY <1>2, Zenon DEF F!Decides, F!MovesOn, F!vars
  <2>3. WritersKnown' /\ F!Submitted' = F!Submitted /\ (OnTheWay => OnTheWay')
    BY <2>1 DEF PanelInv, WritersKnown, F!Submitted, OnTheWay
  <2> QED BY <2>1, <2>2, <2>3, Zenon DEF PanelInv
<1> QED BY <1>1, <1>2 DEF F!Next

-----------------------------------------------------------------------------
\* save_scorecard tells the hiring manager when the last card is in: however many panelists
\* submit at a time, from however many tabs, one of them finds the panel complete.
THEOREM SomebodyTells == F!Spec => []ManagerIsTold
<1>1. F!Init => PanelInv
  BY PanelInit
<1>2. PanelInv /\ [F!Next]_(F!vars) => PanelInv'
  BY PanelStep
<1>3. PanelInv => ManagerIsTold
  BY DEF PanelInv, ManagerIsTold, F!ManagerIsTold, OnTheWay
<1> QED BY <1>1, <1>2, <1>3, PTL DEF F!Spec
=============================================================================

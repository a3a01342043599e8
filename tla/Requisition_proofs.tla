-------------------------- MODULE Requisition_proofs --------------------------
(***************************************************************************)
(* Proofs about the hiring team's side (MCRequisition), for any number of  *)
(* editors, rounds, plan rows, applications and creators: a creator gives  *)
(* up late (RequisitionCode), a planner's word stands (HiringPlan), and an *)
(* undisturbed edit of the rounds is exact (RoundEdit).                    *)
(*                                                                         *)
(* Each theorem is about the component's own specification, every step of  *)
(* which MCRequisition takes.                                              *)
(***************************************************************************)
EXTENDS MCRequisition, Integers, Sequences, FiniteSets, FiniteSetTheorems,
        WellFoundedInduction, TLAPS

-----------------------------------------------------------------------------
(* The codes (RequisitionCode).  A number is free when a creator looks at  *)
(* it, so a number found taken was inserted by somebody else since: each   *)
(* failed attempt is paid for by one creation.                             *)

CreatorRows ==
    [pc : {"idle", "read", "scan", "insert", "gave_up"}, how : {"form", "plan"},
     attempt : 0 .. C!Attempts, n : Nat]

\* A number is tried only if it was free when the creator looked at it.
Tries(r) ==
    /\ r.pc # "idle" => r.attempt >= 1
    /\ r.pc \in {"scan", "insert"} => r.n >= 1

\* How many numbers n others have added to the set S since a creator with row r began.
Seen(S, r, n) ==
    /\ r.pc \in {"read", "scan"} => n >= r.attempt - 1
    /\ r.pc = "insert" /\ r.n \notin S => n >= r.attempt - 1
    /\ r.pc = "insert" /\ r.n \in S => n >= r.attempt
    /\ r.pc = "gave_up" => n >= C!Attempts

HasLargest(S) == S = {} \/ \E m \in S : \A n \in S : m >= n

CodeInv ==
    /\ codes \in SUBSET (Nat \ {0}) /\ IsFiniteSet(codes) /\ HasLargest(codes)
    /\ creator \in [Creators -> CreatorRows]
    /\ others \in [Creators -> Nat]
    /\ \A c \in Creators : Tries(creator[c]) /\ Seen(codes, creator[c], others[c])

LEMMA BoundedHasLargest ==
    ASSUME NEW S \in SUBSET Nat, NEW b \in Nat, \A n \in S : n <= b
    PROVE  HasLargest(S)
<1> DEFINE T == {u \in Nat : \A n \in S : n <= u}
<1>1. T \subseteq Nat /\ T # {}
  OBVIOUS
<1>2. PICK m \in T : \A u \in T : ~ (<<u, m>> \in OpToRel(<, Nat))
  BY <1>1, NatLessThanWellFounded, WFMin
<1>3. \A u \in T : ~ (u < m)
  BY <1>1, <1>2 DEF OpToRel
<1>4. CASE m = 0
  BY <1>4 DEF HasLargest
<1>5. CASE m # 0
  <2>1. m - 1 \in Nat /\ m - 1 \notin T
    BY <1>1, <1>3, <1>5
  <2>2. PICK n \in S : ~ (n <= m - 1)
    BY <2>1
  <2>3. n = m
    BY <2>1, <2>2
  <2> QED BY <2>3 DEF HasLargest
<1> QED BY <1>4, <1>5

LEMMA CodeInit == C!Init /\ C!CodeAssumption => CodeInv
<1> SUFFICES ASSUME C!Init, C!CodeAssumption PROVE CodeInv
  OBVIOUS
<1>1. codes \in SUBSET (Nat \ {0}) /\ MaxCode \in Nat /\ \A n \in codes : n <= MaxCode
  BY DEF C!Init, C!CodeAssumption
<1>2. HasLargest(codes)
  BY <1>1, BoundedHasLargest
<1>3. IsFiniteSet(codes)
  <2>1. codes \subseteq 0 .. MaxCode /\ IsFiniteSet(0 .. MaxCode)
    BY <1>1, FS_Interval
  <2> QED BY <2>1, FS_Subset
<1> QED BY <1>1, <1>2, <1>3 DEF C!Init, C!Idle, C!Attempts, CodeInv, CreatorRows, Tries, Seen

LEMMA LargestIsLargest ==
    ASSUME CodeInv
    PROVE  /\ C!Largest \in Nat
           /\ \A n \in codes : C!Largest >= n
<1>1. CASE codes = {}
  BY <1>1 DEF C!Largest
<1>2. CASE codes # {}
  <2>1. PICK m \in codes : \A n \in codes : m >= n
    BY <1>2 DEF CodeInv, HasLargest
  <2>2. C!Largest = CHOOSE x \in codes : \A y \in codes : x >= y
    BY <1>2 DEF C!Largest, C!Max
  <2>3. C!Largest \in codes /\ \A y \in codes : C!Largest >= y
    BY <2>1, <2>2
  <2> QED BY <2>3 DEF CodeInv
<1> QED BY <1>1, <1>2

(* Steps of one creator that insert nothing. *)
LEMMA CreatorStands ==
    ASSUME CodeInv, UNCHANGED codes, NEW c \in Creators, NEW r \in CreatorRows, NEW k \in Nat,
           creator' = [creator EXCEPT ![c] = r], others' = [others EXCEPT ![c] = k],
           Tries(r), Seen(codes, r, k)
    PROVE  CodeInv'
<1>1. /\ creator' \in [Creators -> CreatorRows] /\ others' \in [Creators -> Nat]
      /\ \A d \in Creators : creator'[d] = IF d = c THEN r ELSE creator[d]
      /\ \A d \in Creators : others'[d] = IF d = c THEN k ELSE others[d]
  BY DEF CodeInv
<1>2. ASSUME NEW d \in Creators PROVE Tries(creator'[d]) /\ Seen(codes', creator'[d], others'[d])
  <2>1. CASE d = c
    BY <1>1, <2>1 DEF Seen
  <2>2. CASE d # c
    BY <1>1, <2>2 DEF CodeInv, Seen
  <2> QED BY <2>1, <2>2
<1> QED BY <1>1, <1>2 DEF CodeInv, HasLargest

LEMMA CodeStep == ASSUME CodeInv, [C!Next]_(C!vars) PROVE CodeInv'
<1>0. CASE UNCHANGED C!vars
  BY <1>0 DEF C!vars, CodeInv, Seen, HasLargest
<1> SUFFICES ASSUME C!Next PROVE CodeInv'
  BY <1>0
<1>t. /\ creator \in [Creators -> CreatorRows] /\ others \in [Creators -> Nat]
      /\ \A d \in Creators : Tries(creator[d]) /\ Seen(codes, creator[d], others[d])
      /\ C!Attempts = 5
  BY DEF CodeInv, C!Attempts
<1>same. \A c \in Creators : others = [others EXCEPT ![c] = others[c]]
  BY <1>t
<1>1. ASSUME NEW c \in Creators, NEW how \in {"form", "plan"}, C!Begin(c, how) PROVE CodeInv'
  <2>1. PICK r : r = [pc |-> "read", how |-> how, attempt |-> 1, n |-> 0]
    OBVIOUS
  <2>2. creator' = [creator EXCEPT ![c] = r] /\ others' = [others EXCEPT ![c] = 0]
        /\ UNCHANGED codes
    BY <1>1, <2>1 DEF C!Begin
  <2>3. r \in CreatorRows /\ Tries(r) /\ Seen(codes, r, 0)
    BY <1>t, <2>1 DEF CreatorRows, Tries, Seen
  <2> QED BY <2>2, <2>3, CreatorStands
<1>2. ASSUME NEW c \in Creators, C!ReadNumber(c) PROVE CodeInv'
  <2>1. PICK k : k = C!Read(creator[c].how)
    OBVIOUS
  <2>2. k \in Nat \ {0} /\ (creator[c].how = "form" => k \notin codes)
    <3>1. C!Cardinality(codes) \in Nat
      <4>1. C!Cardinality(codes) = Cardinality(codes)
        BY DEF Cardinality, C!Cardinality
      <4> QED BY <4>1, FS_CardinalityType DEF CodeInv
    <3>2. C!Largest + 1 \notin codes
      <4>1. ASSUME NEW n \in codes PROVE n # C!Largest + 1
        BY LargestIsLargest DEF CodeInv
      <4> QED BY <4>1
    <3>3. CASE creator[c].how = "form"
      BY <2>1, <3>2, <3>3, LargestIsLargest DEF C!Read
    <3>4. CASE creator[c].how # "form"
      BY <2>1, <3>1, <3>4 DEF C!Read
    <3> QED BY <3>3, <3>4
  <2>3. PICK r : r = [creator[c] EXCEPT
                        !.pc = IF creator[c].how = "form" THEN "insert" ELSE "scan", !.n = k]
    OBVIOUS
  <2>4. creator' = [creator EXCEPT ![c] = r] /\ UNCHANGED <<codes, others>>
        /\ creator[c].pc = "read"
    BY <1>2, <1>t, <2>1, <2>3 DEF C!ReadNumber
  <2>5. /\ r.pc = IF creator[c].how = "form" THEN "insert" ELSE "scan"
        /\ r.n = k /\ r.attempt = creator[c].attempt /\ r \in CreatorRows
    BY <1>t, <2>2, <2>3 DEF CreatorRows
  <2>6. Tries(r) /\ Seen(codes, r, others[c])
    BY <1>t, <2>2, <2>4, <2>5 DEF Tries, Seen
  <2> QED BY <1>t, <1>same, <2>4, <2>5, <2>6, CreatorStands
<1>3. ASSUME NEW c \in Creators, C!Scan(c) PROVE CodeInv'
  <2>1. CASE creator[c].n \in codes
    <3>1. PICK r : r = [creator[c] EXCEPT !.n = creator[c].n + 1]
      OBVIOUS
    <3>2. creator' = [creator EXCEPT ![c] = r] /\ UNCHANGED <<codes, others>>
          /\ creator[c].pc = "scan"
      BY <1>3, <1>t, <2>1, <3>1 DEF C!Scan
    <3>3. r \in CreatorRows /\ r.pc = "scan" /\ r.attempt = creator[c].attempt /\ r.n >= 1
      BY <1>t, <3>1, <3>2 DEF CreatorRows
    <3>4. Tries(r) /\ Seen(codes, r, others[c])
      BY <1>t, <3>2, <3>3 DEF Tries, Seen
    <3> QED BY <1>t, <1>same, <3>2, <3>3, <3>4, CreatorStands
  <2>2. CASE creator[c].n \notin codes
    <3>1. PICK r : r = [creator[c] EXCEPT !.pc = "insert"]
      OBVIOUS
    <3>2. creator' = [creator EXCEPT ![c] = r] /\ UNCHANGED <<codes, others>>
          /\ creator[c].pc = "scan"
      BY <1>3, <1>t, <2>2, <3>1 DEF C!Scan
    <3>3. /\ r \in CreatorRows /\ r.pc = "insert" /\ r.attempt = creator[c].attempt
          /\ r.n = creator[c].n
      BY <1>t, <3>1, <3>2 DEF CreatorRows
    <3>4. Tries(r) /\ Seen(codes, r, others[c])
      BY <1>t, <2>2, <3>2, <3>3 DEF Tries, Seen
    <3> QED BY <1>t, <1>same, <3>2, <3>3, <3>4, CreatorStands
  <2> QED BY <2>1, <2>2
<1>4. ASSUME NEW c \in Creators, C!Insert(c) PROVE CodeInv'
  <2>1. PICK n : n = creator[c].n
    OBVIOUS
  <2>2. /\ creator[c].pc = "insert" /\ n \notin codes /\ n \in Nat \ {0}
        /\ codes' = codes \cup {n}
    BY <1>4, <1>t, <2>1 DEF C!Insert, CreatorRows, Tries
  <2>3. creator' = [creator EXCEPT ![c] = C!Idle] /\ C!Idle \in CreatorRows /\ C!Idle.pc = "idle"
    BY <1>4, <1>t DEF C!Insert, C!Idle, CreatorRows
  <2>4. /\ creator' \in [Creators -> CreatorRows]
        /\ \A d \in Creators : creator'[d] = IF d = c THEN C!Idle ELSE creator[d]
    BY <1>t, <2>3
  <2>5. /\ others' \in [Creators -> Nat]
        /\ \A d \in Creators : others'[d] = IF d = c THEN others[d] ELSE others[d] + 1
    BY <1>4, <1>t DEF C!Insert
  <2>6. IsFiniteSet(codes')
    BY <2>2, FS_AddElement DEF CodeInv
  <2>7. HasLargest(codes')
    BY <2>2 DEF CodeInv, HasLargest
  <2>8. ASSUME NEW d \in Creators PROVE Tries(creator'[d]) /\ Seen(codes', creator'[d], others'[d])
    <3>1. CASE d = c
      BY <2>3, <2>4, <3>1 DEF Tries, Seen
    <3>2. CASE d # c
      BY <1>t, <2>2, <2>4, <2>5, <3>2 DEF Seen, CreatorRows
    <3> QED BY <3>1, <3>2
  <2> QED BY <2>2, <2>4, <2>5, <2>6, <2>7, <2>8 DEF CodeInv
<1>5. ASSUME NEW c \in Creators, C!Collide(c) PROVE CodeInv'
  <2>1. CASE creator[c].attempt = C!Attempts
    <3>1. PICK r : r = [creator[c] EXCEPT !.pc = "gave_up"]
      OBVIOUS
    <3>2. creator' = [creator EXCEPT ![c] = r] /\ UNCHANGED <<codes, others>>
          /\ creator[c].pc = "insert" /\ creator[c].n \in codes
      BY <1>5, <1>t, <2>1, <3>1 DEF C!Collide
    <3>3. r \in CreatorRows /\ r.pc = "gave_up" /\ r.attempt = creator[c].attempt
      BY <1>t, <3>1, <3>2 DEF CreatorRows
    <3>4. Tries(r) /\ Seen(codes, r, others[c])
      BY <1>t, <2>1, <3>2, <3>3 DEF Tries, Seen
    <3> QED BY <1>t, <1>same, <3>2, <3>3, <3>4, CreatorStands
  <2>2. CASE creator[c].attempt # C!Attempts
    <3>1. PICK r : r = [creator[c] EXCEPT !.pc = "read", !.attempt = creator[c].attempt + 1]
      OBVIOUS
    <3>2. creator' = [creator EXCEPT ![c] = r] /\ UNCHANGED <<codes, others>>
          /\ creator[c].pc = "insert" /\ creator[c].n \in codes
      BY <1>5, <1>t, <2>2, <3>1 DEF C!Collide
    <3>3. creator[c].attempt \in Nat /\ creator[c].attempt + 1 \in 0 .. C!Attempts
      BY <1>t, <2>2 DEF CreatorRows
    <3>4. r \in CreatorRows /\ r.pc = "read" /\ r.attempt = creator[c].attempt + 1
      BY <1>t, <3>1, <3>3 DEF CreatorRows
    <3>5. Tries(r) /\ Seen(codes, r, others[c])
      <4>1. others[c] \in Nat /\ others[c] >= creator[c].attempt
        BY <1>t, <3>2 DEF Seen
      <4> QED BY <3>3, <3>4, <4>1 DEF Tries, Seen
    <3> QED BY <1>t, <1>same, <3>2, <3>4, <3>5, CreatorStands
  <2> QED BY <2>1, <2>2
<1>6. ASSUME NEW c \in Creators, C!Ends(c) PROVE CodeInv'
  <2>1. creator' = [creator EXCEPT ![c] = C!Idle] /\ UNCHANGED <<codes, others>>
    BY <1>6 DEF C!Ends
  <2>2. C!Idle \in CreatorRows /\ Tries(C!Idle) /\ Seen(codes, C!Idle, others[c])
    BY <1>t DEF C!Idle, CreatorRows, Tries, Seen
  <2> QED BY <1>t, <1>same, <2>1, <2>2, CreatorStands
<1> QED BY <1>1, <1>2, <1>3, <1>4, <1>5, <1>6 DEF C!Next

(* A creator gives up only when others have created a requisition under it *)
(* once for each of its five attempts.                                     *)
THEOREM CreatorsGiveUpLate == C!Spec => []GivesUpLate
<1>1. CodeInv => GivesUpLate
  BY DEF CodeInv, Seen, GivesUpLate, C!GivesUpLate
<1>2. C!Init => CodeInv
  BY CodeInit, RequisitionConstants
<1> QED BY <1>1, <1>2, CodeStep, PTL DEF C!Spec

-----------------------------------------------------------------------------
(* Rows of the plan (HiringPlan).                                          *)

IsPlanRow(x) ==
    x = [is |-> x.is, req |-> x.req, link |-> x.link, status |-> x.status, who |-> x.who]
PlanInv ==
    /\ plan = [r \in PlanRows |-> plan[r]]
    /\ \A r \in PlanRows : IsPlanRow(plan[r])

\* What one step may do to what a planner has written.
HandStays ==
    \A r \in PlanRows :
        r \in byHand /\ plan[r].is /\ plan[r].status = "Hold" /\ plan'[r].status # "Hold" =>
            r \in byHand' \/ ~plan'[r].is \/ plan'[r].status = "Offered"

(* A step that writes one row, in a way a planner's status survives.        *)
LEMMA RowWritten ==
    ASSUME PlanInv, NEW r \in PlanRows, NEW x, IsPlanRow(x), plan' = [plan EXCEPT ![r] = x],
           \/ r \in byHand'
           \/ ~x.is
           \/ x.status \in {"Offered", plan[r].status}
           \/ plan[r].status = "Offered"
    PROVE  PlanInv' /\ HandStays
<1>1. /\ plan' = [s \in PlanRows |-> plan'[s]]
      /\ \A s \in PlanRows : plan'[s] = IF s = r THEN x ELSE plan[s]
  BY DEF PlanInv
<1>2. PlanInv'
  BY <1>1 DEF PlanInv
<1>3. HandStays
  BY <1>1 DEF HandStays
<1> QED BY <1>2, <1>3

LEMMA PlanStep == ASSUME PlanInv, [P!Next]_(P!vars) PROVE PlanInv' /\ HandStays
<1>0. CASE UNCHANGED plan
  BY <1>0 DEF PlanInv, HandStays
<1>1. ASSUME NEW q \in Reqs, P!CreateRequisition(q) \/ P!ChangeReqStatus(q) PROVE UNCHANGED plan
  BY <1>1 DEF P!CreateRequisition, P!ChangeReqStatus
<1>2. ASSUME NEW q \in Reqs, NEW d, P!TaRead(q, d) \/ P!TaWrite(q, d) PROVE UNCHANGED plan
  BY <1>2 DEF P!TaRead, P!TaWrite
<1>3. ASSUME NEW r \in PlanRows, P!CreateRow(r) \/ P!UpdateRow(r) PROVE PlanInv' /\ HandStays
  <2>1. PICK q, link, s :
          /\ plan' = [plan EXCEPT ![r] = [is |-> TRUE, req |-> q, link |-> link, status |-> s,
                                          who |-> None]]
          /\ byHand' = byHand \cup {r}
    BY <1>3 DEF P!CreateRow, P!UpdateRow, P!ByHand
  <2>2. PICK x : x = [is |-> TRUE, req |-> q, link |-> link, status |-> s, who |-> None]
    OBVIOUS
  <2> QED BY <2>1, <2>2, RowWritten DEF IsPlanRow
<1>4. ASSUME NEW r \in PlanRows, P!DeleteRow(r) PROVE PlanInv' /\ HandStays
  <2>1. plan' = [plan EXCEPT ![r] = P!NoRow] /\ IsPlanRow(P!NoRow) /\ ~P!NoRow.is
    BY <1>4 DEF P!DeleteRow, P!NoRow, IsPlanRow
  <2> QED BY <2>1, RowWritten
<1>5. ASSUME NEW r \in PlanRows, P!ImportRow(r) PROVE PlanInv' /\ HandStays
  <2>1. PICK x : plan' = [plan EXCEPT ![r] = x] /\ IsPlanRow(x)
    BY <1>5 DEF P!ImportRow, P!NoRow, IsPlanRow
  <2>2. r \in byHand'
    BY <1>5 DEF P!ImportRow
  <2> QED BY <2>1, <2>2, RowWritten
<1>6. ASSUME NEW r \in PlanRows, P!LinkPlanRow(r) PROVE PlanInv' /\ HandStays
  <2>1. CASE UNCHANGED plan
    BY <1>0, <2>1
  <2>2. CASE plan' = [plan EXCEPT ![r].req = making[r], ![r].link = "confirmed"]
    <3>1. PICK x : x = [plan[r] EXCEPT !.req = making[r], !.link = "confirmed"]
      OBVIOUS
    <3>2. IsPlanRow(plan[r]) /\ plan' = [plan EXCEPT ![r] = x]
      BY <2>2, <3>1 DEF PlanInv
    <3>3. IsPlanRow(x) /\ x.status = plan[r].status
      BY <3>1, <3>2 DEF IsPlanRow
    <3> QED BY <3>2, <3>3, RowWritten
  <2> QED BY <1>6, <2>1, <2>2 DEF P!LinkPlanRow
<1>7. ASSUME NEW r \in PlanRows, NEW q \in Reqs, P!CreateReqFromPlan(r, q) PROVE UNCHANGED plan
  BY <1>7 DEF P!CreateReqFromPlan
<1>8. ASSUME NEW h \in Syncs, P!FindRow(h) \/ P!SyncFails(h) PROVE UNCHANGED plan
  BY <1>8 DEF P!FindRow, P!SyncFails
<1>9. ASSUME NEW h \in Syncs, P!WriteOffered(h) PROVE PlanInv' /\ HandStays
  <2>1. CASE UNCHANGED plan
    BY <1>0, <2>1
  <2>2. CASE plan' = [plan EXCEPT ![sync[h].row].status = "Offered",
                                  ![sync[h].row].who = sync[h].app]
    <3>1. PICK r : r = sync[h].row
      OBVIOUS
    <3>2. PICK x : x = [plan[r] EXCEPT !.status = "Offered", !.who = sync[h].app]
      OBVIOUS
    <3>3. CASE r \in PlanRows
      <4>1. IsPlanRow(plan[r]) /\ plan' = [plan EXCEPT ![r] = x]
        BY <2>2, <3>1, <3>2, <3>3 DEF PlanInv
      <4>2. IsPlanRow(x) /\ x.status = "Offered"
        BY <3>2, <4>1 DEF IsPlanRow
      <4> QED BY <3>3, <4>1, <4>2, RowWritten
    <3>4. CASE r \notin PlanRows
      BY <1>0, <2>2, <3>1, <3>4 DEF PlanInv
    <3> QED BY <3>3, <3>4
  <2> QED BY <1>9, <2>1, <2>2 DEF P!WriteOffered
<1>10. ASSUME NEW h \in Syncs, P!Reopen(h) PROVE PlanInv' /\ HandStays
  <2>1. CASE UNCHANGED plan
    BY <1>0, <2>1
  <2>2. CASE /\ plan[sync[h].row].status = "Offered"
             /\ plan' = [plan EXCEPT ![sync[h].row].status = "Open Position",
                                     ![sync[h].row].who = None]
    <3>1. PICK r : r = sync[h].row
      OBVIOUS
    <3>2. PICK x : x = [plan[r] EXCEPT !.status = "Open Position", !.who = None]
      OBVIOUS
    <3>3. CASE r \in PlanRows
      <4>1. IsPlanRow(plan[r]) /\ plan' = [plan EXCEPT ![r] = x] /\ plan[r].status = "Offered"
        BY <2>2, <3>1, <3>2, <3>3 DEF PlanInv
      <4>2. IsPlanRow(x)
        BY <3>2, <4>1 DEF IsPlanRow
      <4> QED BY <3>3, <4>1, <4>2, RowWritten
    <3>4. CASE r \notin PlanRows
      BY <1>0, <2>2, <3>1, <3>4 DEF PlanInv
    <3> QED BY <3>3, <3>4
  <2> QED BY <1>10, <2>1, <2>2 DEF P!Reopen
<1>11. ASSUME NEW h \in Syncs, NEW a \in Apps,
              P!Apply(h, a) \/ P!Offered(h, a) \/ P!LeavesOffer(h, a) \/ P!Reverts(h, a)
       PROVE  UNCHANGED plan
  BY <1>11 DEF P!Apply, P!Offered, P!LeavesOffer, P!Reverts, P!Moves
<1>12. CASE UNCHANGED P!vars
  BY <1>0, <1>12 DEF P!vars
<1>13. CASE P!Next
  BY <1>0, <1>1, <1>2, <1>3, <1>4, <1>5, <1>6, <1>7, <1>8, <1>9, <1>10, <1>11, <1>13 DEF P!Next
<1> QED BY <1>12, <1>13

(* What a planner has written by hand is not reopened by a rejection that   *)
(* found the row before.                                                    *)
THEOREM PlannersWordStands == P!Spec => HandWrittenStands
<1>1. P!Init => PlanInv
  <2>1. IsPlanRow(P!NoRow)
    BY DEF P!NoRow, IsPlanRow
  <2>2. P!Init => plan = [r \in PlanRows |-> P!NoRow]
    BY DEF P!Init
  <2> QED BY <2>1, <2>2 DEF PlanInv
<1>2. PlanInv /\ [P!Next]_(P!vars) => PlanInv' /\ HandStays
  BY PlanStep
<1>3. HandStays => [HandStays]_(P!vars)
  OBVIOUS
<1> QED BY <1>1, <1>2, <1>3, PTL DEF P!Spec, HandWrittenStands, P!HandWrittenStands, HandStays

-----------------------------------------------------------------------------
(* The rounds under edit (RoundEdit).  While an editor is undisturbed it   *)
(* can account for every row: a round it knows is negated still or has the *)
(* number of an entry it has written, any other row is one it has added.   *)
(* So a statement that finds its number taken finds it in the list.        *)

EditorRows ==
    [pc : {"idle", "bump", "write", "done", "failed"},
     body : Seq([round : Rounds \cup {New}, n : Int]),
     known : SUBSET Rounds, at : Nat \ {0}, solo : BOOLEAN]

Moving(e) == job[e].pc \in {"bump", "write"}

RowsOK(S) == DOMAIN S \subseteq Rounds /\ \A r \in DOMAIN S : S[r] \in Int

\* The entries written so far, and whether one names a round known before.
Past(j) == 1 .. j.at - 1
IsNew(j, i) == j.body[i].round \notin j.known

\* What the rows S are while the list is written.
Written(S, j) ==
    /\ j.known \subseteq DOMAIN S
    /\ \A r \in j.known :
          S[r] < 0 \/ \E i \in Past(j) : j.body[i].round = r /\ S[r] = j.body[i].n
    /\ \A i \in Past(j) :
          ~IsNew(j, i) /\ (\A k \in Past(j) : k > i => j.body[k].round # j.body[i].round)
             => S[j.body[i].round] = j.body[i].n
    /\ \A i \in Past(j) : IsNew(j, i) => \E r \in DOMAIN S \ j.known : S[r] = j.body[i].n
    /\ \A r \in DOMAIN S \ j.known : \E i \in Past(j) : IsNew(j, i) /\ S[r] = j.body[i].n
    /\ \A i, k \in Past(j) : IsNew(j, i) /\ IsNew(j, k) /\ i # k => j.body[i].n # j.body[k].n

\* What they are when it is done.
Exact(S, j) ==
    /\ DOMAIN S \cap j.known = j.known \cap R!Named(j)
    /\ \A i \in R!Lasting(j) : S[j.body[i].round] = j.body[i].n
    /\ {S[r] : r \in DOMAIN S \ j.known} = {j.body[i].n : i \in R!Added(j)}
    /\ \A i, k \in R!Added(j) : i # k => j.body[i].n # j.body[k].n

\* The rounds the list leaves out.
Gone(j) == j.known \ R!Named(j)

SoloOK(S, B, j) ==
    /\ j.pc = "bump" => j.at = 1 /\ j.known = DOMAIN S /\ \A r \in DOMAIN S : S[r] >= 0
    /\ j.pc = "write" => j.at <= Len(j.body) + 1 /\ Written(S, j)
    /\ j.pc = "done" => Exact(S, j)
    /\ j.pc = "failed" => Gone(j) \cap B # {} \/ R!Clash(j)

EditInv ==
    /\ RowsOK(seq) /\ job \in [Editors -> EditorRows]
    /\ ~made => DOMAIN seq = {} /\ (\A e \in Editors : job[e].pc = "idle")
    /\ \A e \in Editors : job[e].solo =>
          /\ SoloOK(seq, booked, job[e])
          /\ \A f \in Editors \ {e} : ~Moving(f)

(* A step of the editor in the middle of an edit: nobody else is undisturbed. *)
LEMMA EditorStep ==
    ASSUME EditInv, NEW e \in Editors, NEW j \in EditorRows, Moving(e),
           job' = [job EXCEPT ![e] = j], RowsOK(seq'), UNCHANGED <<booked, made>>,
           j.solo = job[e].solo, j.solo => SoloOK(seq', booked, j)
    PROVE  EditInv'
<1>1. /\ job' \in [Editors -> EditorRows]
      /\ \A f \in Editors : job'[f] = IF f = e THEN j ELSE job[f]
  BY DEF EditInv
<1>2. made
  BY DEF EditInv, Moving
<1>3. ASSUME NEW f \in Editors, job'[f].solo
      PROVE  SoloOK(seq', booked', job'[f]) /\ \A g \in Editors \ {f} : ~Moving(g)'
  <2>1. f = e
    BY <1>1, <1>3 DEF EditInv
  <2>2. \A g \in Editors \ {e} : ~Moving(g) /\ job'[g] = job[g]
    BY <1>1, <1>3, <2>1 DEF EditInv
  <2> QED BY <1>1, <1>3, <2>1, <2>2 DEF Moving
<1>4. RowsOK(seq)'
  BY DEF RowsOK
<1> QED BY <1>1, <1>2, <1>3, <1>4 DEF EditInv

LEMMA EditorEnds ==
    ASSUME EditInv, NEW e \in Editors, job[e].pc # "idle", job' = [job EXCEPT ![e] = R!NoJob],
           UNCHANGED <<seq, booked, made>>
    PROVE  EditInv'
<1>1. R!NoJob \in EditorRows /\ R!NoJob.pc = "idle" /\ R!NoJob.solo = FALSE
  BY DEF R!NoJob, EditorRows
<1>2. /\ job' \in [Editors -> EditorRows]
      /\ \A f \in Editors : job'[f] = IF f = e THEN R!NoJob ELSE job[f]
  BY <1>1 DEF EditInv
<1>3. made
  BY DEF EditInv
<1>4. ASSUME NEW f \in Editors, job'[f].solo
      PROVE  SoloOK(seq', booked', job'[f]) /\ \A g \in Editors \ {f} : ~Moving(g)'
  <2>1. job'[f] = job[f] /\ job[f].solo
    BY <1>1, <1>2, <1>4
  <2>2. \A g \in Editors \ {f} : ~Moving(g)
    BY <2>1 DEF EditInv
  <2> QED BY <1>1, <1>2, <2>1, <2>2 DEF EditInv, Moving
<1>5. RowsOK(seq)'
  BY DEF EditInv, RowsOK
<1> QED BY <1>2, <1>3, <1>4, <1>5 DEF EditInv

(* An editor begins: whoever was undisturbed no longer is.                  *)
LEMMA EditorBegins ==
    ASSUME EditInv, NEW e \in Editors, NEW pc \in {"bump", "write"}, NEW b, NEW k, NEW j,
           R!Begin(e, pc, b, k), b \in Seq([round : Rounds \cup {New}, n : Int]),
           k \subseteq Rounds,
           j = [pc |-> pc, body |-> b, known |-> k, at |-> 1, solo |-> R!Busy = {} /\ R!Tidy],
           UNCHANGED <<seq, booked>>, made',
           R!Tidy => SoloOK(seq, booked, j)
    PROVE  EditInv'
<1>1. /\ j \in EditorRows /\ j.solo = (R!Busy = {} /\ R!Tidy)
  BY DEF EditorRows
<1>2. job' = [f \in Editors |-> IF f = e THEN j ELSE [job[f] EXCEPT !.solo = FALSE]]
  BY DEF R!Begin
<1>3. ASSUME NEW f \in Editors
      PROVE  /\ [job[f] EXCEPT !.solo = FALSE] \in EditorRows
             /\ [job[f] EXCEPT !.solo = FALSE].solo = FALSE
             /\ [job[f] EXCEPT !.solo = FALSE].pc = job[f].pc
  <2>1. job[f] \in EditorRows
    BY DEF EditInv
  <2> QED BY <2>1 DEF EditorRows
<1>4. job' \in [Editors -> EditorRows]
  BY <1>1, <1>2, <1>3
<1>5. ASSUME NEW f \in Editors, job'[f].solo
      PROVE  SoloOK(seq', booked', job'[f]) /\ \A g \in Editors \ {f} : ~Moving(g)'
  <2>1. f = e /\ job'[f] = j
    BY <1>2, <1>3, <1>5
  <2>2. R!Busy = {} /\ R!Tidy
    BY <1>1, <1>5, <2>1
  <2>3. \A g \in Editors \ {e} : ~Moving(g)'
    <3>1. ASSUME NEW g \in Editors \ {e} PROVE ~Moving(g)'
      <4>1. job'[g].pc = job[g].pc /\ g \notin R!Busy
        BY <1>2, <1>3, <2>2
      <4> QED BY <4>1 DEF R!Busy, Moving
    <3> QED BY <3>1
  <2> QED BY <2>1, <2>2, <2>3
<1>6. RowsOK(seq)'
  BY DEF EditInv, RowsOK
<1> QED BY <1>4, <1>5, <1>6 DEF EditInv

-----------------------------------------------------------------------------
(* A submitted list, as a sequence.                                         *)
LEMMA TupleIsSequence ==
    ASSUME NEW S, NEW m \in Nat, NEW b \in [1 .. m -> S]
    PROVE  b \in Seq(S)
OBVIOUS

LEMMA EntryOfSequence ==
    ASSUME NEW S, NEW b \in Seq(S), NEW i \in 1 .. Len(b)
    PROVE  b[i] \in S
OBVIOUS

LEMMA ListIsSequence ==
    ASSUME R!RoundAssumption, NEW shown \in SUBSET Rounds, NEW b \in R!Lists(shown)
    PROVE  b \in Seq([round : Rounds \cup {New}, n : Int])
<1>1. PICK m \in 0 .. MaxRounds : b \in [1 .. m -> [round : shown \cup {New}, n : Numbers]]
  BY DEF R!Lists
<1>2. m \in Nat
  BY <1>1 DEF R!RoundAssumption
<1>3. [round : shown \cup {New}, n : Numbers] \subseteq [round : Rounds \cup {New}, n : Int]
  BY DEF R!RoundAssumption
<1>4. b \in [1 .. m -> [round : Rounds \cup {New}, n : Int]]
  BY <1>1, <1>3
<1> QED BY <1>2, <1>4, TupleIsSequence

LEMMA CreateStep ==
    ASSUME EditInv, R!RoundAssumption, NEW e \in Editors, R!Create(e)
    PROVE  EditInv'
<1>k. PICK k \in SUBSET Rounds : k = {}
  OBVIOUS
<1>1. PICK b \in R!Lists(k) : R!Begin(e, "write", b, k)
  BY <1>k DEF R!Create
<1>2. b \in Seq([round : Rounds \cup {New}, n : Int]) /\ Len(b) \in Nat
  <2>1. b \in Seq([round : Rounds \cup {New}, n : Int])
    BY ListIsSequence
  <2> QED BY <2>1
<1>3. PICK j : j = [pc |-> "write", body |-> b, known |-> k, at |-> 1,
                    solo |-> R!Busy = {} /\ R!Tidy]
  OBVIOUS
<1>4. UNCHANGED <<seq, booked>> /\ made' /\ DOMAIN seq = {}
  BY DEF R!Create, EditInv
<1>5. SoloOK(seq, booked, j)
  <2>1. Past(j) = {} /\ j.known = {} /\ j.pc = "write" /\ j.at <= Len(j.body) + 1
    BY <1>k, <1>2, <1>3 DEF Past
  <2> QED BY <1>4, <2>1 DEF SoloOK, Written
<1> QED BY <1>1, <1>2, <1>3, <1>4, <1>5, EditorBegins

LEMMA EditStep ==
    ASSUME EditInv, R!RoundAssumption, NEW e \in Editors, R!Edit(e)
    PROVE  EditInv'
<1>1. PICK b \in R!Lists(R!Rows) : R!Begin(e, "bump", b, R!Rows)
  BY DEF R!Edit
<1>2. R!Rows \in SUBSET Rounds
  BY DEF R!Rows, EditInv, RowsOK
<1>3. b \in Seq([round : Rounds \cup {New}, n : Int])
  BY <1>2, ListIsSequence
<1>4. PICK j : j = [pc |-> "bump", body |-> b, known |-> R!Rows, at |-> 1,
                    solo |-> R!Busy = {} /\ R!Tidy]
  OBVIOUS
<1>5. UNCHANGED <<seq, booked>> /\ made'
  BY DEF R!Edit, EditInv
<1>6. R!Tidy => SoloOK(seq, booked, j)
  BY <1>4 DEF SoloOK, R!Tidy, R!Rows
<1> QED BY <1>1, <1>2, <1>3, <1>4, <1>5, <1>6, EditorBegins

LEMMA BumpStep == ASSUME EditInv, NEW e \in Editors, R!Bump(e) PROVE EditInv'
<1>1. job[e] \in EditorRows /\ job[e].pc = "bump" /\ RowsOK(seq) /\ Moving(e)
      /\ UNCHANGED <<booked, made>>
  BY DEF EditInv, R!Bump, Moving
<1>2. job[e].solo =>
        job[e].at = 1 /\ job[e].known = DOMAIN seq /\ \A r \in DOMAIN seq : seq[r] >= 0
  BY <1>1 DEF EditInv, SoloOK
<1>3. CASE \E r \in R!Rows : R!Taken(r, -seq[r] - 1)
  <2>1. PICK j : j = [job[e] EXCEPT !.pc = "failed"]
    OBVIOUS
  <2>2. j \in EditorRows /\ j.solo = job[e].solo
    BY <1>1, <2>1 DEF EditorRows
  <2>3. job' = [job EXCEPT ![e] = j] /\ UNCHANGED seq
    BY <1>3, <2>1 DEF R!Bump, R!Fails, R!Goes, EditInv
  <2>4. ASSUME job[e].solo PROVE FALSE
    <3>1. PICK r \in DOMAIN seq, q \in DOMAIN seq : seq[q] = -seq[r] - 1
      BY <1>3 DEF R!Taken, R!Rows
    <3> QED BY <1>1, <1>2, <2>4, <3>1 DEF RowsOK
  <2>5. RowsOK(seq')
    BY <1>1, <2>3 DEF RowsOK
  <2> QED BY <1>1, <2>2, <2>3, <2>4, <2>5, EditorStep
<1>4. CASE ~ \E r \in R!Rows : R!Taken(r, -seq[r] - 1)
  <2>1. PICK j : j = [job[e] EXCEPT !.pc = "write"]
    OBVIOUS
  <2>2. /\ j \in EditorRows /\ j.solo = job[e].solo /\ j.pc = "write" /\ j.at = job[e].at
        /\ j.body = job[e].body /\ j.known = job[e].known
    BY <1>1, <2>1 DEF EditorRows
  <2>3. /\ job' = [job EXCEPT ![e] = j]
        /\ seq' = [r \in DOMAIN seq |-> -seq[r] - 1]
    BY <1>4, <2>1 DEF R!Bump, R!Fails, R!Goes, R!Rows, EditInv
  <2>4. RowsOK(seq')
    BY <1>1, <2>3 DEF RowsOK
  <2>5. ASSUME j.solo PROVE SoloOK(seq', booked, j)
    <3>1. /\ Past(j) = {} /\ j.known = DOMAIN seq' /\ Len(j.body) \in Nat
          /\ \A r \in DOMAIN seq : seq[r] >= 0
      BY <1>2, <2>2, <2>3, <2>5 DEF Past, EditorRows
    <3>2. \A r \in DOMAIN seq' : seq'[r] < 0
      BY <1>1, <2>3, <3>1 DEF RowsOK
    <3> QED BY <1>2, <2>2, <2>5, <3>1, <3>2 DEF SoloOK, Written
  <2> QED BY <1>1, <2>2, <2>3, <2>4, <2>5, EditorStep
<1> QED BY <1>3, <1>4

-----------------------------------------------------------------------------
(* The next round of the list gets its number: one that is there, or a new one. *)
NumberNext(j, i, S, T, r) ==
    /\ j \in EditorRows /\ RowsOK(S) /\ r \in Rounds
    /\ j.at \in 1 .. Len(j.body) /\ Written(S, j)
    /\ i.body = j.body /\ i.known = j.known /\ i.at = j.at + 1
    /\ T = [q \in DOMAIN S \cup {r} |-> IF q = r THEN j.body[j.at].n ELSE S[q]]
    /\ \/ r \in j.known /\ r = j.body[j.at].round
       \/ /\ r \notin DOMAIN S /\ IsNew(j, j.at)
          /\ \A q \in DOMAIN S : S[q] # j.body[j.at].n

LEMMA NumberWritten ==
    ASSUME NEW j, NEW i, NEW S, NEW T, NEW r, NumberNext(j, i, S, T, r)
    PROVE  Written(T, i)
<1> USE DEF NumberNext
<1> DEFINE n == j.body[j.at].n
<1>1. /\ j.at \in Nat \ {0} /\ Past(i) = Past(j) \cup {j.at} /\ Past(i) \subseteq Int
      /\ \A k \in Past(j) : k < j.at
  BY DEF EditorRows, Past
<1>2. /\ DOMAIN T = DOMAIN S \cup {r} /\ T[r] = n
      /\ \A q \in DOMAIN S : q # r => T[q] = S[q]
  OBVIOUS
<1>3. /\ j.known \subseteq DOMAIN S /\ i.known = j.known /\ i.body = j.body
      /\ \A k : IsNew(i, k) = IsNew(j, k)
  BY DEF Written, IsNew
<1> HIDE DEF NumberNext, n
<1>4. ASSUME NEW q \in j.known
      PROVE  T[q] < 0 \/ \E k \in Past(i) : j.body[k].round = q /\ T[q] = j.body[k].n
  <2>1. CASE q = r
    <3>1. r = j.body[j.at].round
      BY <1>3, <2>1 DEF NumberNext
    <3> QED BY <1>1, <1>2, <2>1, <3>1 DEF n
  <2>2. CASE q # r
    <3>1. S[q] < 0 \/ \E k \in Past(j) : j.body[k].round = q /\ S[q] = j.body[k].n
      BY DEF NumberNext, Written
    <3> QED BY <1>1, <1>2, <1>3, <2>2, <3>1
  <2> QED BY <2>1, <2>2
<1>5. ASSUME NEW m \in Past(i), ~IsNew(j, m),
             \A k \in Past(i) : k > m => j.body[k].round # j.body[m].round
      PROVE  T[j.body[m].round] = j.body[m].n
  <2>1. j.body[m].round \in j.known
    BY <1>5 DEF IsNew
  <2>2. CASE m = j.at
    <3>1. r = j.body[m].round
      BY <1>5, <2>2 DEF NumberNext
    <3> QED BY <1>2, <2>2, <3>1 DEF n
  <2>3. CASE m # j.at
    <3>1. m \in Past(j) /\ j.at > m
      BY <1>1, <2>3
    <3>2. S[j.body[m].round] = j.body[m].n
      BY <1>1, <1>5, <3>1 DEF NumberNext, Written
    <3>3. j.body[m].round # r
      BY <1>1, <1>3, <1>5, <2>1, <3>1 DEF NumberNext
    <3> QED BY <1>2, <1>3, <2>1, <3>2, <3>3
  <2> QED BY <2>2, <2>3
<1>6. ASSUME NEW m \in Past(i), IsNew(j, m)
      PROVE  \E q \in DOMAIN T \ j.known : T[q] = j.body[m].n
  <2>1. CASE m = j.at
    <3>1. r \notin j.known
      BY <1>3, <1>6, <2>1 DEF NumberNext, IsNew
    <3> QED BY <1>2, <2>1, <3>1 DEF n
  <2>2. CASE m # j.at
    <3>1. m \in Past(j)
      BY <1>1, <2>2
    <3>2. PICK q \in DOMAIN S \ j.known : S[q] = j.body[m].n
      BY <1>6, <3>1 DEF NumberNext, Written
    <3>3. q # r
      BY <3>2 DEF NumberNext
    <3> QED BY <1>2, <3>2, <3>3
  <2> QED BY <2>1, <2>2
<1>7. ASSUME NEW q \in DOMAIN T \ j.known
      PROVE  \E m \in Past(i) : IsNew(j, m) /\ T[q] = j.body[m].n
  <2>1. CASE q = r
    <3>1. IsNew(j, j.at)
      BY <2>1 DEF NumberNext
    <3> QED BY <1>1, <1>2, <2>1, <3>1 DEF n
  <2>2. CASE q # r
    <3>1. PICK m \in Past(j) : IsNew(j, m) /\ S[q] = j.body[m].n
      BY <1>2, <2>2 DEF NumberNext, Written
    <3> QED BY <1>1, <1>2, <2>2, <3>1
  <2> QED BY <2>1, <2>2
<1>8. ASSUME NEW m \in Past(i), NEW k \in Past(i), IsNew(j, m), IsNew(j, k), m # k
      PROVE  j.body[m].n # j.body[k].n
  <2>1. ASSUME NEW l \in Past(j), IsNew(j, l), IsNew(j, j.at) PROVE j.body[l].n # n
    <3>1. PICK q \in DOMAIN S \ j.known : S[q] = j.body[l].n
      BY <2>1 DEF NumberNext, Written
    <3>2. \A p \in DOMAIN S : S[p] # n
      BY <2>1 DEF NumberNext, IsNew, n
    <3> QED BY <3>1, <3>2
  <2>2. CASE m \in Past(j) /\ k \in Past(j)
    BY <1>8, <2>2 DEF NumberNext, Written
  <2>3. CASE m = j.at \/ k = j.at
    BY <1>1, <1>8, <2>1, <2>3 DEF n
  <2> QED BY <1>1, <2>2, <2>3
<1> QED BY <1>2, <1>3, <1>4, <1>5, <1>6, <1>7, <1>8 DEF Written

(* A number found taken is negative or was written before: the list clashes. *)
LEMMA TakenIsClash ==
    ASSUME NEW j \in EditorRows, NEW S, Written(S, j), j.at \in 1 .. Len(j.body),
           NEW q \in DOMAIN S, S[q] = j.body[j.at].n
    PROVE  R!Clash(j)
<1>1. /\ DOMAIN j.body = 1 .. Len(j.body) /\ j.at \in DOMAIN j.body
      /\ \A i \in Past(j) : i \in DOMAIN j.body /\ i # j.at
  BY DEF EditorRows, Past
<1>2. S[q] < 0 \/ \E i \in Past(j) : S[q] = j.body[i].n
  BY DEF Written
<1> QED BY <1>1, <1>2 DEF R!Clash

LEMMA WriteStep ==
    ASSUME EditInv, New \notin Rounds, NEW e \in Editors, R!Write(e)
    PROVE  EditInv'
<1>1. /\ job[e] \in EditorRows /\ job[e].pc = "write" /\ job[e].at <= Len(job[e].body)
      /\ RowsOK(seq) /\ Moving(e) /\ UNCHANGED <<booked, made>>
  BY DEF EditInv, R!Write, Moving
<1> DEFINE at == job[e].at
           round == job[e].body[at].round
           num == job[e].body[at].n
<1>2. /\ at \in 1 .. Len(job[e].body) /\ round \in Rounds \cup {New} /\ num \in Int
      /\ job[e].known \subseteq Rounds /\ at \in Nat /\ Len(job[e].body) \in Nat
  <2>1. job[e].body \in Seq([round : Rounds \cup {New}, n : Int]) /\ at \in Nat \ {0}
    BY <1>1 DEF EditorRows
  <2>2. at \in 1 .. Len(job[e].body) /\ at \in Nat /\ Len(job[e].body) \in Nat
    BY <1>1, <2>1
  <2>3. job[e].body[at] \in [round : Rounds \cup {New}, n : Int]
    BY <2>1, <2>2, EntryOfSequence
  <2> QED BY <1>1, <2>2, <2>3 DEF EditorRows
<1>3. job[e].solo => Written(seq, job[e])
  BY <1>1 DEF EditInv, SoloOK
<1>4. PICK failed : failed = [job[e] EXCEPT !.pc = "failed"]
  OBVIOUS
<1>5. PICK on : on = [job[e] EXCEPT !.at = at + 1]
  OBVIOUS
<1>6. /\ failed \in EditorRows /\ failed.solo = job[e].solo /\ failed.pc = "failed"
      /\ failed.body = job[e].body
  BY <1>1, <1>4 DEF EditorRows
<1>7. /\ on \in EditorRows /\ on.solo = job[e].solo /\ on.body = job[e].body
      /\ on.known = job[e].known /\ on.at = at + 1 /\ on.pc = "write"
  BY <1>1, <1>2, <1>5 DEF EditorRows
<1>8. /\ R!Fails(e) => job' = [job EXCEPT ![e] = failed] /\ UNCHANGED seq
      /\ R!Next1(e) => job' = [job EXCEPT ![e] = on]
  BY <1>4, <1>5 DEF R!Fails, R!Goes, R!Next1, EditInv
<1>9. ASSUME R!Fails(e), NEW r, R!Taken(r, num) PROVE EditInv'
  <2>1. PICK q \in DOMAIN seq : seq[q] = num
    BY <1>9 DEF R!Taken, R!Rows
  <2>2. failed.solo => R!Clash(job[e])
    BY <1>1, <1>2, <1>3, <1>6, <2>1, TakenIsClash
  <2>3. failed.solo => SoloOK(seq', booked, failed)
    BY <1>6, <2>2 DEF SoloOK, R!Clash
  <2>4. RowsOK(seq')
    BY <1>1, <1>8, <1>9
  <2> QED BY <1>1, <1>6, <1>8, <1>9, <2>3, <2>4, EditorStep
<1> HIDE DEF round, num
<1>10. ASSUME NEW r \in Rounds, R!Set(r, num), R!Next1(e),
              on.solo => \/ r \in job[e].known /\ r = round
                         \/ /\ r \notin DOMAIN seq /\ IsNew(job[e], at)
                            /\ \A q \in DOMAIN seq : seq[q] # num
       PROVE  EditInv'
  <2>1. seq' = [q \in DOMAIN seq \cup {r} |-> IF q = r THEN num ELSE seq[q]]
    BY <1>10 DEF R!Set, R!Rows
  <2>2. RowsOK(seq')
    BY <1>1, <1>2, <2>1 DEF RowsOK
  <2>3. ASSUME on.solo PROVE SoloOK(seq', booked, on)
    <3>1. NumberNext(job[e], on, seq, seq', r)
      BY <1>1, <1>2, <1>3, <1>7, <1>10, <2>1, <2>3 DEF NumberNext, round, num
    <3>2. Written(seq', on) /\ on.at <= Len(on.body) + 1
      BY <1>2, <1>7, <3>1, NumberWritten
    <3> QED BY <1>7, <3>2 DEF SoloOK
  <2> QED BY <1>1, <1>7, <1>8, <1>10, <2>2, <2>3, EditorStep
<1>11. CASE round \in job[e].known
  <2>1. CASE round \in R!Rows /\ R!Taken(round, num)
    BY <1>9, <1>11, <2>1 DEF R!Write, round, num
  <2>2. CASE round \in R!Rows /\ ~R!Taken(round, num)
    <3>1. R!Set(round, num) /\ R!Next1(e)
      BY <1>11, <2>2 DEF R!Write, round, num
    <3> QED BY <1>2, <1>10, <1>11, <3>1
  <2>3. CASE round \notin R!Rows
    <3>1. UNCHANGED seq /\ R!Next1(e)
      BY <1>11, <2>3 DEF R!Write, round, num
    <3>2. ~on.solo
      BY <1>3, <1>7, <1>11, <2>3 DEF Written, R!Rows
    <3>3. RowsOK(seq')
      BY <1>1, <3>1
    <3> QED BY <1>1, <1>7, <1>8, <3>1, <3>2, <3>3, EditorStep
  <2> QED BY <2>1, <2>2, <2>3
<1>12. CASE round \notin job[e].known
  <2>1. CASE R!Taken(New, num)
    BY <1>9, <1>12, <2>1 DEF R!Write, round, num
  <2>2. CASE ~R!Taken(New, num)
    <3>1. R!Next1(e) /\ \E fresh \in Rounds \ R!Rows : R!Set(fresh, num)
      BY <1>12, <2>2 DEF R!Write, round, num
    <3>2. PICK fresh \in Rounds \ DOMAIN seq : R!Set(fresh, num)
      BY <3>1 DEF R!Rows
    <3>3. \A q \in DOMAIN seq : seq[q] # num
      BY <1>1, <2>2 DEF R!Taken, R!Rows, RowsOK
    <3>4. IsNew(job[e], at)
      BY <1>12 DEF IsNew, round
    <3> QED BY <1>10, <3>1, <3>2, <3>3, <3>4
  <2> QED BY <2>1, <2>2
<1> QED BY <1>11, <1>12

-----------------------------------------------------------------------------
(* The list is written and what it leaves out is deleted.                   *)
LEMMA WrittenIsExact ==
    ASSUME NEW j \in EditorRows, NEW S, NEW T, Written(S, j), j.at = Len(j.body) + 1,
           T = [r \in DOMAIN S \ Gone(j) |-> S[r]]
    PROVE  Exact(T, j)
<1>1. DOMAIN j.body = 1 .. Len(j.body) /\ Past(j) = DOMAIN j.body
  BY DEF EditorRows, Past
<1>2. DOMAIN T = DOMAIN S \ Gone(j) /\ \A r \in DOMAIN T : T[r] = S[r]
  OBVIOUS
<1>3. DOMAIN T \cap j.known = j.known \cap R!Named(j)
  BY <1>2 DEF Gone, Written
<1>4. ASSUME NEW i \in R!Lasting(j) PROVE T[j.body[i].round] = j.body[i].n
  <2>1. /\ i \in Past(j) /\ ~IsNew(j, i)
        /\ \A k \in Past(j) : k > i => j.body[k].round # j.body[i].round
    BY <1>1 DEF R!Lasting, R!Added, IsNew
  <2>2. S[j.body[i].round] = j.body[i].n
    BY <2>1 DEF Written
  <2>3. j.body[i].round \in DOMAIN T
    BY <1>1, <1>3, <2>1 DEF IsNew, R!Named
  <2> QED BY <1>2, <2>2, <2>3
<1>5. {T[r] : r \in DOMAIN T \ j.known} = {j.body[i].n : i \in R!Added(j)}
  <2>1. /\ DOMAIN T \ j.known = DOMAIN S \ j.known
        /\ R!Added(j) = {i \in Past(j) : IsNew(j, i)}
    BY <1>1, <1>2 DEF Gone, R!Added, IsNew
  <2>2. \A r \in DOMAIN T \ j.known : \E i \in R!Added(j) : T[r] = j.body[i].n
    BY <1>2, <2>1 DEF Written
  <2>3. \A i \in R!Added(j) : \E r \in DOMAIN T \ j.known : T[r] = j.body[i].n
    BY <1>2, <2>1 DEF Written
  <2> QED BY <2>2, <2>3
<1>6. \A i, k \in R!Added(j) : i # k => j.body[i].n # j.body[k].n
  BY <1>1 DEF R!Added, IsNew, Written
<1> QED BY <1>3, <1>4, <1>5, <1>6 DEF Exact

LEMMA DeleteStep == ASSUME EditInv, NEW e \in Editors, R!Delete(e) PROVE EditInv'
<1>1. /\ job[e] \in EditorRows /\ job[e].pc = "write" /\ job[e].at > Len(job[e].body)
      /\ RowsOK(seq) /\ Moving(e) /\ UNCHANGED <<booked, made>>
  BY DEF EditInv, R!Delete, Moving
<1>2. R!Removed(e) = Gone(job[e])
  BY DEF R!Removed, Gone
<1>3. CASE R!Removed(e) \cap R!Rows \cap booked # {}
  <2>1. PICK j : j = [job[e] EXCEPT !.pc = "failed"]
    OBVIOUS
  <2>2. /\ j \in EditorRows /\ j.solo = job[e].solo /\ j.pc = "failed"
        /\ j.body = job[e].body /\ j.known = job[e].known
    BY <1>1, <2>1 DEF EditorRows
  <2>3. job' = [job EXCEPT ![e] = j] /\ UNCHANGED seq
    BY <1>3, <2>1 DEF R!Delete, R!Fails, R!Goes, EditInv
  <2>4. SoloOK(seq', booked, j)
    BY <1>2, <1>3, <2>2 DEF SoloOK, Gone, R!Named
  <2>5. RowsOK(seq')
    BY <1>1, <2>3
  <2> QED BY <1>1, <2>2, <2>3, <2>4, <2>5, EditorStep
<1>4. CASE R!Removed(e) \cap R!Rows \cap booked = {}
  <2>1. PICK j : j = [job[e] EXCEPT !.pc = "done"]
    OBVIOUS
  <2>2. /\ j \in EditorRows /\ j.solo = job[e].solo /\ j.pc = "done" /\ j.at = job[e].at
        /\ j.body = job[e].body /\ j.known = job[e].known
    BY <1>1, <2>1 DEF EditorRows
  <2>3. /\ job' = [job EXCEPT ![e] = j]
        /\ seq' = [r \in DOMAIN seq \ Gone(job[e]) |-> seq[r]]
    BY <1>2, <1>4, <2>1 DEF R!Delete, R!Fails, R!Goes, R!Rows, EditInv
  <2>4. RowsOK(seq')
    BY <1>1, <2>3 DEF RowsOK
  <2>5. ASSUME j.solo PROVE SoloOK(seq', booked, j)
    <3>1. Written(seq, job[e]) /\ job[e].at <= Len(job[e].body) + 1
      BY <1>1, <2>2, <2>5 DEF EditInv, SoloOK
    <3>2. job[e].at = Len(job[e].body) + 1
      BY <1>1, <3>1 DEF EditorRows
    <3>3. Exact(seq', job[e])
      BY <1>1, <2>3, <3>1, <3>2, WrittenIsExact
    <3>4. Exact(seq', j)
      BY <2>2, <3>3 DEF Exact, R!Named, R!Lasting, R!Added
    <3> QED BY <2>2, <3>4 DEF SoloOK
  <2> QED BY <1>1, <2>2, <2>3, <2>4, <2>5, EditorStep
<1> QED BY <1>3, <1>4

LEMMA BookStep == ASSUME EditInv, NEW r \in Rounds, R!Book(r) PROVE EditInv'
<1>1. booked \subseteq booked' /\ UNCHANGED <<seq, made, job>>
  BY DEF R!Book
<1>2. \A e \in Editors : SoloOK(seq, booked, job[e]) => SoloOK(seq, booked', job[e])
  BY <1>1 DEF SoloOK
<1> QED BY <1>1, <1>2 DEF EditInv, Moving, RowsOK

LEMMA EditNext ==
    ASSUME EditInv, R!RoundAssumption, [R!Next]_(R!vars)
    PROVE  EditInv'
<1>1. CASE UNCHANGED R!vars
  BY <1>1 DEF R!vars, EditInv, Moving, RowsOK
<1>2. ASSUME NEW e \in Editors, R!Answered(e) \/ R!Dies(e) PROVE EditInv'
  <2>1. /\ job[e].pc # "idle" /\ job' = [job EXCEPT ![e] = R!NoJob]
        /\ UNCHANGED <<seq, booked, made>>
    BY <1>2 DEF R!Answered, R!Dies, R!Busy
  <2> QED BY <2>1, EditorEnds
<1>3. New \notin Rounds
  BY DEF R!RoundAssumption
<1>4. CASE R!Next
  BY <1>2, <1>3, <1>4, CreateStep, EditStep, BumpStep, WriteStep, DeleteStep, BookStep DEF R!Next
<1> QED BY <1>1, <1>4

(* Whatever list a caller sends, whatever numbers and ids it holds: an      *)
(* edit or a creation nobody interferes with, begun when none had broken    *)
(* off, ends with exactly the rounds submitted, each under its number, or   *)
(* the list clashes or an interview was booked for a round it removes.      *)
THEOREM UndisturbedEditIsExact == R!Spec => []EditIsExact
<1>1. R!RoundAssumption
  BY RequisitionConstants
<1>2. R!Init => EditInv
  <2> SUFFICES ASSUME R!Init PROVE EditInv
    OBVIOUS
  <2>1. R!NoJob \in EditorRows /\ R!NoJob.solo = FALSE /\ R!NoJob.pc = "idle"
    BY DEF R!NoJob, EditorRows
  <2> QED BY <2>1 DEF R!Init, EditInv, RowsOK
<1>3. EditInv /\ [R!Next]_(R!vars) => EditInv'
  BY <1>1, EditNext
<1>4. EditInv => EditIsExact
  <2> SUFFICES ASSUME EditInv, NEW e \in Editors, job[e].solo
               PROVE  /\ job[e].pc = "done" => Exact(seq, job[e])
                      /\ job[e].pc = "failed" => R!Removed(e) \cap booked # {} \/ R!Clash(job[e])
    BY DEF EditIsExact, R!EditIsExact, Exact, R!Rows
  <2> QED BY DEF EditInv, SoloOK, R!Removed, Gone
<1> QED BY <1>2, <1>3, <1>4, PTL DEF R!Spec
=============================================================================

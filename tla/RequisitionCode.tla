---------------------------- MODULE RequisitionCode ----------------------------
(***************************************************************************)
(* The number in a requisition's code, REQ-0001 and on.  create_requisition*)
(* takes the largest number plus one, create_req_from_plan the count of    *)
(* the rows plus one and then the first free number from there.  Neither   *)
(* locks anything: req_code is UNIQUE, and an INSERT that finds its code   *)
(* taken starts over, five times in all.                                   *)
(***************************************************************************)
EXTENDS Naturals, FiniteSets, FiniteSetsExt

CONSTANTS
    Creators,  \* requests that create requisitions
    Old,       \* the numbers in use at first
    MaxCode    \* bound: numbers handed out

CodeAssumption == MaxCode \in Nat /\ Old \subseteq 1..MaxCode

VARIABLES
    codes,    \* numbers of the requisitions there are
    creator,  \* per request: where it is, its attempt, and the number it is going to try
    others    \* ghost: requisitions other requests have inserted since it began

vars == <<codes, creator, others>>

-----------------------------------------------------------------------------
Attempts == 5
Idle == [pc |-> "idle", how |-> "form", attempt |-> 0, n |-> 0]
Largest == IF codes = {} THEN 0 ELSE Max(codes)

Init ==
    /\ codes = Old
    /\ creator = [c \in Creators |-> Idle]
    /\ others = [c \in Creators |-> 0]

\* The form's number and the plan row's, as each reads it.
Read(how) == IF how = "form" THEN Largest + 1 ELSE Cardinality(codes) + 1

Begin(c, how) ==
    /\ creator[c].pc = "idle" /\ Cardinality(codes) < MaxCode
    /\ creator' = [creator EXCEPT ![c] = [pc |-> "read", how |-> how, attempt |-> 1, n |-> 0]]
    /\ others' = [others EXCEPT ![c] = 0]
    /\ UNCHANGED codes

ReadNumber(c) ==
    /\ creator[c].pc = "read"
    /\ creator' = [creator EXCEPT ![c].pc = IF creator[c].how = "form" THEN "insert" ELSE "scan",
                                  ![c].n = Read(creator[c].how)]
    /\ UNCHANGED <<codes, others>>

\* Only a plan row's number is looked for.
Scan(c) ==
    /\ creator[c].pc = "scan"
    /\ creator' = IF creator[c].n \in codes THEN [creator EXCEPT ![c].n = @ + 1]
                  ELSE [creator EXCEPT ![c].pc = "insert"]
    /\ UNCHANGED <<codes, others>>

Insert(c) ==
    /\ creator[c].pc = "insert" /\ creator[c].n \notin codes
    /\ codes' = codes \cup {creator[c].n}
    /\ creator' = [creator EXCEPT ![c] = Idle]
    /\ others' = [d \in Creators |-> IF d = c THEN others[d] ELSE others[d] + 1]

\* Mutant for GivesUpLate: the number is read once, before the loop.
CollideWithout(c) ==
    /\ creator[c].pc = "insert" /\ creator[c].n \in codes
    /\ creator' = IF creator[c].attempt = Attempts THEN [creator EXCEPT ![c].pc = "gave_up"]
                  ELSE [creator EXCEPT ![c].attempt = @ + 1]
    /\ UNCHANGED <<codes, others>>

\* UniqueViolation: the number is read anew, until the attempts are used up.
Collide(c) ==
    /\ creator[c].pc = "insert" /\ creator[c].n \in codes
    /\ creator' = IF creator[c].attempt = Attempts THEN [creator EXCEPT ![c].pc = "gave_up"]
                  ELSE [creator EXCEPT ![c].pc = "read", ![c].attempt = @ + 1]
    /\ UNCHANGED <<codes, others>>

\* The 409 is answered; or the request dies.
Ends(c) ==
    /\ creator[c].pc # "idle"
    /\ creator' = [creator EXCEPT ![c] = Idle]
    /\ UNCHANGED <<codes, others>>

Next ==
    \E c \in Creators :
        \/ ReadNumber(c) \/ Scan(c) \/ Insert(c) \/ Collide(c) \/ Ends(c)
        \/ \E how \in {"form", "plan"} : Begin(c, how)

Spec == Init /\ [][Next]_vars

-----------------------------------------------------------------------------
\* "Could not generate a unique requisition code": a request gives up only when others have
\* created a requisition under it once for each of its five attempts.
GivesUpLate ==
    \A c \in Creators : creator[c].pc = "gave_up" => others[c] >= Attempts
=============================================================================

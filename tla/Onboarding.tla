----------------------------- MODULE Onboarding -----------------------------
(***************************************************************************)
(* Day one of a joiner, its tasks, and the employee record                 *)
(* (routers/onboarding_api.py).  No table has a key on the candidate, so   *)
(* "is there one already" is a read of its own.  Every statement commits   *)
(* by itself; a worker may die between two.  What an employee record says  *)
(* beside its code is left out.                                            *)
(***************************************************************************)
EXTENDS Naturals, Sequences, FiniteSets

CONSTANTS
    Workers,  \* concurrent handlers
    Tasks,    \* tasks of day one (_DAY_ONE_TASKS)
    MaxCode   \* bound: employee codes

CodeAssumption == MaxCode \in Nat \ {0}

Codes == 1 .. MaxCode

VARIABLES
    ready,  \* a pre-boarding case is ready, or the joining date has come
    board,  \* onboarding_case rows: status, tasks
    staff,  \* employee_master rows of the candidate: their codes
    codes,  \* employee codes in use in the tenant
    job     \* the handler a worker is in the middle of

vars == <<ready, board, staff, codes, job>>

Idle == [op |-> "idle"]
Is(w, o) == job[w].op = o
Go(w, j) == job' = [job EXCEPT ![w] = j]

Init ==
    /\ ready = FALSE
    /\ board = <<>>
    /\ staff = {}
    /\ codes = {}
    /\ job = [w \in Workers |-> Idle]

\* Pre-boarding makes a case ready, or an asset asked for later takes that back (Preboarding).
PreboardingMoves == ready' = ~ready /\ UNCHANGED <<board, staff, codes, job>>

-----------------------------------------------------------------------------
\* trigger_day_one: a case that is ready or the joining date, and no onboarding yet.
DayOne(w) ==
    /\ Is(w, "idle") /\ board = <<>>
    /\ ready
    /\ Go(w, [op |-> "dayone"])
    /\ UNCHANGED <<ready, board, staff, codes>>

OpenBoard(w) ==
    /\ Is(w, "dayone")
    /\ board' = Append(board, [status |-> "day_one", todo |-> {}, done |-> {}])
    /\ Go(w, [op |-> "tasks", of |-> Len(board) + 1, left |-> Tasks])
    /\ UNCHANGED <<ready, staff, codes>>

AddTask(w) ==
    /\ Is(w, "tasks")
    /\ \E t \in job[w].left : LET left == job[w].left \ {t} IN
        /\ board' = [board EXCEPT ![job[w].of].todo = @ \cup {t}]
        /\ Go(w, IF left = {} THEN Idle ELSE [op |-> "tasks", of |-> job[w].of, left |-> left])
    /\ UNCHANGED <<ready, staff, codes>>

\* patch_onboarding_task ...
PatchTask(w) ==
    /\ Is(w, "idle")
    /\ \E b \in DOMAIN board :
        /\ \/ \E t \in board[b].todo :
                board' = [board EXCEPT ![b].todo = @ \ {t}, ![b].done = @ \cup {t}]
           \/ \E t \in board[b].done :
                board' = [board EXCEPT ![b].done = @ \ {t}, ![b].todo = @ \cup {t}]
        /\ Go(w, [op |-> "board", of |-> b])
    /\ UNCHANGED <<ready, staff, codes>>

\* ... and _recompute_onboarding_case_status: completed when every task that is there is done.
ReadTasks(w) ==
    /\ Is(w, "board")
    /\ LET b == board[job[w].of] IN
        Go(w, [op |-> "case", of |-> job[w].of,
               status |-> IF b.todo = {} /\ b.done # {} THEN "completed" ELSE "day_one"])
    /\ UNCHANGED <<ready, board, staff, codes>>

WriteBoard(w) ==
    /\ Is(w, "case")
    /\ board' = [board EXCEPT ![job[w].of].status = job[w].status]
    /\ Go(w, Idle)
    /\ UNCHANGED <<ready, staff, codes>>

-----------------------------------------------------------------------------
\* convert_to_employee: no record yet; _generate_employee_code takes the first code that is
\* free, counting from the rows there are; UNIQUE (tenant_id, employee_code) refuses another's.
Convert(w) ==
    /\ Is(w, "idle") /\ staff = {}
    /\ Go(w, [op |-> "code"])
    /\ UNCHANGED <<ready, board, staff, codes>>

TakeCode(w) ==
    /\ Is(w, "code")
    /\ \E n \in Codes \ codes :
        /\ n > Cardinality(codes)
        /\ \A m \in Codes : m > Cardinality(codes) /\ m < n => m \in codes
        /\ Go(w, [op |-> "employ", code |-> n])
    /\ UNCHANGED <<ready, board, staff, codes>>

Employ(w) ==
    /\ Is(w, "employ")
    /\ IF job[w].code \in codes THEN UNCHANGED <<staff, codes>>
       ELSE staff' = staff \cup {job[w].code} /\ codes' = codes \cup {job[w].code}
    /\ Go(w, Idle)
    /\ UNCHANGED <<ready, board>>

\* Another candidate of the tenant becomes an employee.
OtherEmployed ==
    /\ \E n \in Codes \ codes : codes' = codes \cup {n}
    /\ UNCHANGED <<ready, board, staff, job>>

Die(w) == ~Is(w, "idle") /\ Go(w, Idle) /\ UNCHANGED <<ready, board, staff, codes>>

-----------------------------------------------------------------------------
Next ==
    \/ PreboardingMoves \/ OtherEmployed
    \/ \E w \in Workers :
        \/ DayOne(w) \/ OpenBoard(w) \/ AddTask(w)
        \/ PatchTask(w) \/ ReadTasks(w) \/ WriteBoard(w)
        \/ Convert(w) \/ TakeCode(w) \/ Employ(w)
        \/ Die(w)

Spec == Init /\ [][Next]_vars
=============================================================================

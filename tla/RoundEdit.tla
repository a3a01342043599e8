------------------------------- MODULE RoundEdit -------------------------------
(***************************************************************************)
(* The interview rounds of a requisition while they are created and edited *)
(* (create_requisition and edit_requisition in pipeline_api.py).  Every    *)
(* statement commits on its own, and UNIQUE(requisition_id, sequence)      *)
(* judges each one, so an edit first negates every number, then writes the *)
(* rounds in the order submitted, each with the number submitted for it,   *)
(* and deletes the others last.  The page numbers its rounds 1, 2, ..., the *)
(* handler takes whatever numbers and whatever repeated ids it is sent.    *)
(* Two editors overlap, an editor dies between two statements, and         *)
(* interviews are booked for a round meanwhile.                            *)
(***************************************************************************)
EXTENDS Integers, Sequences, FiniteSets

CONSTANTS
    Editors,   \* requests that create or edit rounds
    Rounds,    \* ids of round_config rows
    New,       \* a round of the submitted list that has no id yet
    Numbers,   \* sequence numbers a caller may submit
    MaxRounds, \* bound: rounds in a submitted list
    MaxEdits   \* bound: edits begun

RoundAssumption ==
    New \notin Rounds /\ Numbers \subseteq Int /\ MaxRounds \in Nat /\ MaxEdits \in Nat

VARIABLES
    seq,     \* the rows: the sequence number of each round there is
    booked,  \* rounds an interview row refers to
    made,    \* has the requisition been created
    edits,
    job      \* per editor: the request it serves

vars == <<seq, booked, made, edits, job>>

-----------------------------------------------------------------------------
NoJob == [pc |-> "idle", body |-> <<>>, known |-> {}, at |-> 1, solo |-> FALSE]

Rows == DOMAIN seq
\* Has a row other than r the number n?  The UNIQUE key says no.
Taken(r, n) == \E q \in Rows \ {r} : seq[q] = n
Named(j) == {j.body[i].round : i \in DOMAIN j.body}
Removed(e) == job[e].known \ Named(job[e])
Busy == {e \in Editors : job[e].pc \notin {"idle", "done", "failed"}}

\* No edit has broken off half-way: nothing is negative.
Tidy == \A r \in Rows : seq[r] >= 0

\* What is submitted: rounds the caller was shown and new ones, with numbers.
Lists(shown) ==
    UNION {[1..n -> [round : shown \cup {New}, n : Numbers]] : n \in 0..MaxRounds}

Init ==
    /\ seq = [r \in {} |-> 0]
    /\ booked = {} /\ made = FALSE /\ edits = 0
    /\ job = [e \in Editors |-> NoJob]

Goes(e, pc) == job' = [job EXCEPT ![e].pc = pc]
\* The statement failed: the request ends in a 500, and what was done stays.
Fails(e) == Goes(e, "failed") /\ UNCHANGED seq
Next1(e) == job' = [job EXCEPT ![e].at = @ + 1]
Set(r, n) == seq' = [q \in Rows \cup {r} |-> IF q = r THEN n ELSE seq[q]]

\* solo: nobody else edits meanwhile, and no edit had broken off before.
Begin(e, pc, body, known) ==
    /\ job[e].pc = "idle"
    /\ job' = [f \in Editors |->
                 IF f = e THEN [pc |-> pc, body |-> body, known |-> known, at |-> 1,
                                solo |-> Busy = {} /\ Tidy]
                 ELSE [job[f] EXCEPT !.solo = FALSE]]

-----------------------------------------------------------------------------
\* create_requisition: the row is there, and the rounds are inserted one by one.
Create(e) ==
    /\ ~made
    /\ \E body \in Lists({}) : Begin(e, "write", body, {})
    /\ made' = TRUE
    /\ UNCHANGED <<seq, booked, edits>>

\* The ids are read; a round with an interview cannot be removed.
Edit(e) ==
    /\ made /\ edits < MaxEdits
    /\ \E body \in Lists(Rows) :
          /\ (Rows \ {body[i].round : i \in DOMAIN body}) \cap booked = {}
          /\ Begin(e, "bump", body, Rows)
    /\ edits' = edits + 1
    /\ UNCHANGED <<seq, booked, made>>

\* Mutant for EditIsExact: the rounds are written where they stand.
NoBump(e) ==
    /\ job[e].pc = "bump"
    /\ Goes(e, "write")
    /\ UNCHANGED <<seq, booked, made, edits>>

\* One UPDATE for all rounds, which PostgreSQL checks row by row.
Bump(e) ==
    /\ job[e].pc = "bump"
    /\ IF \E r \in Rows : Taken(r, -seq[r] - 1) THEN Fails(e)
       ELSE seq' = [r \in Rows |-> -seq[r] - 1] /\ Goes(e, "write")
    /\ UNCHANGED <<booked, made, edits>>

\* The next round of the list gets the number submitted for it: an UPDATE of a round that was
\* there, which may be gone by now, or an INSERT.
Write(e) ==
    /\ job[e].pc = "write" /\ job[e].at <= Len(job[e].body)
    /\ LET r == job[e].body[job[e].at].round
           n == job[e].body[job[e].at].n
       IN  IF r \in job[e].known
           THEN IF r \in Rows /\ Taken(r, n) THEN Fails(e)
                ELSE (IF r \in Rows THEN Set(r, n) ELSE UNCHANGED seq) /\ Next1(e)
           ELSE IF Taken(New, n) THEN Fails(e)
                ELSE /\ \E fresh \in Rounds \ Rows :
                           (\A f \in Editors : fresh \notin job[f].known) /\ Set(fresh, n)
                     /\ Next1(e)
    /\ UNCHANGED <<booked, made, edits>>

\* One DELETE; an interview booked since the check makes it fail.
Delete(e) ==
    /\ job[e].pc = "write" /\ job[e].at > Len(job[e].body)
    /\ IF Removed(e) \cap Rows \cap booked # {} THEN Fails(e)
       ELSE seq' = [r \in Rows \ Removed(e) |-> seq[r]] /\ Goes(e, "done")
    /\ UNCHANGED <<booked, made, edits>>

\* The page shows the answer.
Answered(e) ==
    /\ job[e].pc \in {"done", "failed"}
    /\ job' = [job EXCEPT ![e] = NoJob]
    /\ UNCHANGED <<seq, booked, made, edits>>

Dies(e) ==
    /\ e \in Busy
    /\ job' = [job EXCEPT ![e] = NoJob]
    /\ UNCHANGED <<seq, booked, made, edits>>

\* An interview is booked for a round (InterviewScheduling).
Book(r) ==
    /\ r \in Rows \ booked
    /\ booked' = booked \cup {r}
    /\ UNCHANGED <<seq, made, edits, job>>

-----------------------------------------------------------------------------
Next ==
    \/ \E e \in Editors :
          \/ Create(e) \/ Edit(e) \/ Bump(e) \/ Write(e) \/ Delete(e) \/ Answered(e) \/ Dies(e)
    \/ \E r \in Rounds : Book(r)

Spec == Init /\ [][Next]_vars

-----------------------------------------------------------------------------
\* Entries of the list j has submitted: those of new rounds, and the last of each known one.
Added(j) == {i \in DOMAIN j.body : j.body[i].round \notin j.known}
Lasting(j) ==
    {i \in DOMAIN j.body \ Added(j) :
        \A k \in DOMAIN j.body : k > i => j.body[k].round # j.body[i].round}

\* The numbers the caller sent cannot stand together, or not beside the negated ones.
Clash(j) ==
    \/ \E i \in DOMAIN j.body : j.body[i].n < 0
    \/ \E i, k \in DOMAIN j.body : i # k /\ j.body[i].n = j.body[k].n

\* An edit or a creation nobody else interferes with, begun when no edit has broken off, ends
\* with exactly the rounds submitted, each under its number, however they were reordered,
\* repeated, inserted or removed; it fails half-way only over an interview booked since it
\* began or over a list whose numbers are negative or repeat.  In particular the page's lists,
\* numbered 1, 2, ..., never collide with the rounds they replace.
EditIsExact ==
    \A e \in Editors :
        LET j == job[e] IN
        j.solo =>
            /\ j.pc = "done" =>
                 /\ Rows \cap j.known = j.known \cap Named(j)
                 /\ \A i \in Lasting(j) : seq[j.body[i].round] = j.body[i].n
                 /\ {seq[r] : r \in Rows \ j.known} = {j.body[i].n : i \in Added(j)}
                 /\ \A i, k \in Added(j) : i # k => j.body[i].n # j.body[k].n
            /\ j.pc = "failed" => Removed(e) \cap booked # {} \/ Clash(j)
=============================================================================

---------------------- MODULE InterviewCalendar_proofs ----------------------
(***************************************************************************)
(* Proofs about the Google events of booked interviews, for any number of  *)
(* handlers, interviews and events (InterviewCalendar).                    *)
(*                                                                         *)
(* A handler keeps the id of an event over the commit of another one, and  *)
(* deletes or records it by id alone.  The argument is about whose event   *)
(* it is: an event belongs to one interview for good, only a handler that  *)
(* has cancelled that interview deletes it, and a cancelled interview is   *)
(* never scheduled again.                                                  *)
(***************************************************************************)
EXTENDS InterviewCalendar, TLAPS

\* The event was made for this interview, and is there while the interview is on.
Own(i, e) == google[e] # None /\ google[e].of = i /\ (Live(i) => google[e].live)

RowsOwn == \A i \in Interviews : interview[i].event # None => Own(i, interview[i].event)

JobOwns(j) ==
    /\ j.op # "idle" => interview[j.iv].status # "none"
    /\ j.op = "record" => Own(j.iv, j.event)
    /\ j.op \in {"cancel", "withdraw"} /\ j.event # None => Own(j.iv, j.event)
    /\ j.op = "withdraw" => interview[j.iv].status = "cancelled"
JobsOwn == \A w \in Workers : JobOwns(job[w])

Inv == TypeOK /\ RowsOwn /\ JobsOwn

-----------------------------------------------------------------------------
LEMMA InitInv == Init => Inv
BY RoundAssumption, BoundAssumption, NullAssumption
   DEF Init, Inv, TypeOK, RowsOwn, JobsOwn, JobOwns, InterviewRows, Rounds, Times, Sequences,
       Jobs, Idle

(* A handler never forgets what it was about, nor takes up another's work. *)
LEMMA JobTypes ==
    ASSUME NEW j \in Jobs
    PROVE  /\ j.op \in {"idle", "announce", "record", "mail", "move", "cancel", "withdraw"}
           /\ j.op # "idle" => j.iv \in Interviews
           /\ j.op = "record" => j.event \in Events
           /\ j.op \in {"cancel", "withdraw"} => j.event \in Events \cup {None}
BY DEF Jobs, Idle

(* Whose event it is, and what a handler is about, stands as long as no    *)
(* interview comes on again and nobody deletes the event of one that is on.*)
EventsStand ==
    \A e \in Events : google[e] # None =>
        /\ google'[e] # None /\ google'[e].of = google[e].of
        /\ (google[e].live /\ Live(google[e].of)' => google'[e].live)
StatusStands ==
    \A i \in Interviews :
        /\ interview[i].status # "none" => interview'[i].status # "none"
        /\ interview[i].status # "none" /\ Live(i)' => Live(i)
        /\ interview[i].status = "cancelled" => interview'[i].status = "cancelled"

LEMMA OwnStands ==
    ASSUME EventsStand, StatusStands, NEW i \in Interviews, NEW e \in Events,
           interview[i].status # "none", Own(i, e)
    PROVE  Own(i, e)'
BY DEF EventsStand, StatusStands, Own, Live

LEMMA JobsStand ==
    ASSUME Inv, EventsStand, StatusStands, NEW w \in Workers, NEW j \in Jobs,
           job' = [job EXCEPT ![w] = j], JobOwns(j)'
    PROVE  job' \in [Workers -> Jobs] /\ JobsOwn'
<1>1. job' \in [Workers -> Jobs] /\ job'[w] = j
  BY DEF Inv, TypeOK
<1>2. ASSUME NEW v \in Workers, v # w PROVE JobOwns(job[v])'
  <2>1. job'[v] = job[v] /\ job[v] \in Jobs /\ JobOwns(job[v])
    BY <1>2 DEF Inv, TypeOK, JobsOwn
  <2>2. job[v].op # "idle" => job[v].iv \in Interviews
    BY <2>1, JobTypes
  <2>3. /\ job[v].op = "record" => job[v].event \in Events
        /\ job[v].op \in {"cancel", "withdraw"} => job[v].event \in Events \cup {None}
    BY <2>1, JobTypes
  <2>4. ASSUME job[v].op # "idle", job[v].event \in Events, Own(job[v].iv, job[v].event)
        PROVE  Own(job[v].iv, job[v].event)'
    <3>1. PICK i \in Interviews, e \in Events : i = job[v].iv /\ e = job[v].event
      BY <2>2, <2>4
    <3>2. Own(i, e)'
      BY <2>1, <2>4, <3>1, OwnStands DEF JobOwns
    <3> QED BY <2>1, <3>1, <3>2 DEF Own, Live
  <2> QED BY <2>1, <2>2, <2>3, <2>4 DEF JobOwns, StatusStands
<1> QED BY <1>1, <1>2 DEF JobsOwn
(* Steps that move no interview on or off and make or delete no event.     *)
LEMMA QuietKeepsInv ==
    ASSUME Inv, UNCHANGED <<interview, google>>, entry' \in [Interviews -> Entries \cup {None}],
           told' \subseteq Interviews, lost' \subseteq Interviews,
           NEW w \in Workers, NEW j \in Jobs, job' = [job EXCEPT ![w] = j], JobOwns(j)'
    PROVE  Inv'
<1>1. EventsStand /\ StatusStands
  BY DEF EventsStand, StatusStands, Live
<1>2. job' \in [Workers -> Jobs] /\ JobsOwn'
  BY <1>1, JobsStand
<1> QED BY <1>2 DEF Inv, TypeOK, RowsOwn, Own, Live

(* One row is written.                                                     *)
LEMMA RowKeepsInv ==
    ASSUME Inv, NEW i \in Interviews, NEW r \in InterviewRows,
           interview' = [interview EXCEPT ![i] = r],
           UNCHANGED google, entry' \in [Interviews -> Entries \cup {None}],
           told' \subseteq Interviews, lost' \subseteq Interviews,
           StatusStands, r.event # None => Own(i, r.event)',
           NEW w \in Workers, NEW j \in Jobs, job' = [job EXCEPT ![w] = j], JobOwns(j)'
    PROVE  Inv'
<1>1. /\ interview' \in [Interviews -> InterviewRows] /\ interview'[i] = r
      /\ \A k \in Interviews : k # i => interview'[k] = interview[k]
  BY DEF Inv, TypeOK
<1>2. EventsStand
  BY DEF EventsStand, StatusStands, Inv, TypeOK, GoogleEvents
<1>3. job' \in [Workers -> Jobs] /\ JobsOwn'
  BY <1>2, JobsStand
<1>4. RowsOwn'
  BY <1>1 DEF Inv, RowsOwn, Own, Live
<1> QED BY <1>1, <1>3, <1>4 DEF Inv, TypeOK

-----------------------------------------------------------------------------
(* A mail leaves an entry of its kind, whatever it finds.                  *)
LEMMA ReceiveTypes ==
    ASSUME TypeOK, NEW i \in Interviews, NEW t \in Times, NEW n \in Sequences,
           NEW alive \in BOOLEAN, Receive(i, t, n, alive)
    PROVE  entry' \in [Interviews -> Entries \cup {None}]
BY DEF TypeOK, Receive, Entries

LEMMA BookStep ==
    ASSUME Inv, NEW w \in Workers, NEW i \in Interviews, NEW n \in Rounds, NEW t \in Times,
           Book(w, i, n, t)
    PROVE  Inv'
<1> DEFINE r == Row(n, t, TRUE)
           j == Announcing(i, t, 0)
<1>1. 0 \in Sequences
  BY BoundAssumption DEF Sequences
<1>2. r \in InterviewRows /\ r.event = None /\ r.status = "scheduled"
  BY <1>1 DEF Row, InterviewRows
<1>3. j \in Jobs /\ j.op = "announce" /\ j.iv = i
  BY <1>1 DEF Announcing, Jobs
<1> HIDE DEF r, j
<1>4. interview' = [interview EXCEPT ![i] = r] /\ job' = [job EXCEPT ![w] = j]
  BY DEF Book, Start, r, j
<1>5. interview'[i] = r /\ \A k \in Interviews : k # i => interview'[k] = interview[k]
  BY <1>4 DEF Inv, TypeOK
<1>6. \A k \in Interviews : interview[k].status # "none" => interview'[k] = interview[k]
  BY <1>5 DEF Book
<1>7. StatusStands
  BY <1>6, <1>5, <1>2 DEF StatusStands, Live
<1>8. JobOwns(j)'
  BY <1>2, <1>3, <1>5 DEF JobOwns
<1>9. /\ UNCHANGED google /\ entry' \in [Interviews -> Entries \cup {None}]
      /\ told' \subseteq Interviews /\ lost' \subseteq Interviews
  BY DEF Book, reports, Inv, TypeOK
<1> QED BY <1>2, <1>3, <1>4, <1>7, <1>8, <1>9, RowKeepsInv

\* The handlers' jobs stand beside a booking without one.
LEMMA ScheduleStep ==
    ASSUME Inv, NEW i \in Interviews, NEW t \in Times, Schedule(i, t)
    PROVE  Inv'
<1> DEFINE r == Row(1, t, FALSE)
<1>1. 0 \in Sequences /\ 1 \in Rounds
  BY BoundAssumption, RoundAssumption DEF Sequences, Rounds
<1>2. r \in InterviewRows /\ r.event = None
  BY <1>1 DEF Row, InterviewRows
<1> HIDE DEF r
<1>3. interview' = [interview EXCEPT ![i] = r] /\ UNCHANGED <<job, google>>
  BY DEF Schedule, r
<1>4. interview'[i] = r /\ \A k \in Interviews : k # i => interview'[k] = interview[k]
  BY <1>3 DEF Inv, TypeOK
<1>5. \A k \in Interviews : interview[k].status # "none" => interview'[k] = interview[k]
  BY <1>4 DEF Schedule
<1>6. TypeOK'
  <2>1. entry' \in [Interviews -> Entries \cup {None}]
    <3> DEFINE x == [seq |-> 0, start |-> t, live |-> TRUE]
    <3>1. x \in Entries
      BY <1>1 DEF Entries
    <3> HIDE DEF x
    <3>2. entry' = [entry EXCEPT ![i] = x] \/ entry' = entry
      BY DEF Schedule, x
    <3> QED BY <3>1, <3>2 DEF Inv, TypeOK
  <2>2. told' \subseteq Interviews /\ lost' \subseteq Interviews
    BY DEF Schedule, Inv, TypeOK
  <2> QED BY <1>2, <1>3, <2>1, <2>2 DEF Inv, TypeOK
<1>7. RowsOwn'
  BY <1>2, <1>3, <1>4 DEF Inv, RowsOwn, Own, Live
<1>8. ASSUME NEW v \in Workers PROVE JobOwns(job[v])'
  <2>1. job[v] \in Jobs /\ JobOwns(job[v]) /\ job'[v] = job[v]
    BY <1>3 DEF Inv, TypeOK, JobsOwn
  <2>2. job[v].op # "idle" => interview'[job[v].iv] = interview[job[v].iv]
    BY <1>5, <2>1, JobTypes DEF JobOwns
  <2> QED BY <1>3, <2>1, <2>2 DEF JobOwns, Own, Live
<1> QED BY <1>6, <1>7, <1>8 DEF Inv, JobsOwn

LEMMA MakeStep ==
    ASSUME Inv, NEW w \in Workers, NEW i \in Interviews, NEW t \in Times, NEW n \in Sequences,
           NEW e \in Events, MakeEvent(w, i, t, n, e)
    PROVE  Inv'
<1> DEFINE j == Recording(i, t, n, e)
           g == [of |-> i, live |-> TRUE]
<1>1. j \in Jobs /\ j.op = "record" /\ j.iv = i /\ j.event = e
  BY DEF Recording, Jobs
<1>2. g \in GoogleEvents /\ g # None /\ g.of = i /\ g.live
  <2>1. g \in GoogleEvents
    BY DEF GoogleEvents
  <2>2. None \notin GoogleEvents
    BY NullAssumption DEF GoogleEvents
  <2> HIDE DEF g
  <2>3. g # None
    BY <2>1, <2>2
  <2> QED BY <2>1, <2>3 DEF g
<1> HIDE DEF j, g
<1>3. google' = [google EXCEPT ![e] = g] /\ job' = [job EXCEPT ![w] = j] /\ google[e] = None
  BY DEF MakeEvent, GoOn, Unused, j, g
<1>4. UNCHANGED <<interview, entry, told, lost>> /\ interview[i].status # "none"
  BY DEF MakeEvent, reports, Announcing, Inv, JobsOwn, JobOwns
<1>5. /\ google' \in [Events -> GoogleEvents \cup {None}] /\ google'[e] = g
      /\ \A x \in Events : x # e => google'[x] = google[x]
  BY <1>2, <1>3 DEF Inv, TypeOK
<1>6. EventsStand /\ StatusStands
  BY <1>3, <1>4, <1>5 DEF EventsStand, StatusStands, Live
<1>7. JobOwns(j)'
  BY <1>1, <1>2, <1>4, <1>5 DEF JobOwns, Own
<1>8. job' \in [Workers -> Jobs] /\ JobsOwn'
  BY <1>1, <1>3, <1>6, <1>7, JobsStand
<1>9. RowsOwn'
  BY <1>3, <1>4, <1>5 DEF Inv, TypeOK, InterviewRows, RowsOwn, Own, Live
<1> QED BY <1>4, <1>5, <1>8, <1>9 DEF Inv, TypeOK

(* The id that is recorded is that of an event made for this interview.    *)
LEMMA RecordStep ==
    ASSUME Inv, NEW w \in Workers, NEW i \in Interviews, NEW t \in Times, NEW n \in Sequences,
           NEW e \in Events, RecordEvent(w, i, t, n, e)
    PROVE  Inv'
<1> DEFINE r == [interview[i] EXCEPT !.event = e]
           j == Mailing(i, t, n)
<1>1. j \in Jobs /\ j.op = "mail" /\ j.iv = i
  BY DEF Mailing, Jobs
<1>2. interview[i] \in InterviewRows
  BY DEF Inv, TypeOK
<1>3. r \in InterviewRows /\ r.event = e /\ r.status = interview[i].status
  BY <1>2 DEF InterviewRows
<1>4. interview[i].status # "none" /\ Own(i, e)
  BY DEF RecordEvent, Recording, Inv, JobsOwn, JobOwns
<1>5. interview' = [interview EXCEPT ![i] = r] /\ job' = [job EXCEPT ![w] = j]
  BY DEF RecordEvent, GoOn
<1>6. UNCHANGED <<google, entry, told, lost>>
  BY DEF RecordEvent, reports
<1> HIDE DEF r, j
<1>7. interview'[i] = r /\ \A k \in Interviews : k # i => interview'[k] = interview[k]
  BY <1>5 DEF Inv, TypeOK
<1>8. StatusStands /\ Own(i, e)'
  BY <1>3, <1>4, <1>6, <1>7 DEF StatusStands, Own, Live
<1>9. JobOwns(j)'
  BY <1>1, <1>3, <1>4, <1>7 DEF JobOwns
<1>10. /\ entry' \in [Interviews -> Entries \cup {None}]
       /\ told' \subseteq Interviews /\ lost' \subseteq Interviews
  BY <1>6 DEF Inv, TypeOK
<1> QED BY <1>1, <1>3, <1>5, <1>6, <1>8, <1>9, <1>10, RowKeepsInv

(* The row is moved only while it is scheduled, under its lock.            *)
LEMMA RescheduleStep ==
    ASSUME Inv, NEW w \in Workers, NEW i \in Interviews, NEW t \in Times, NEW n \in Sequences,
           RescheduleCommit(w, i, t, n)
    PROVE  Inv'
<1> DEFINE r == [interview[i] EXCEPT !.start = t, !.seq = n]
           j == Announcing(i, t, n)
<1>1. j \in Jobs /\ j.op = "announce" /\ j.iv = i
  BY DEF Announcing, Jobs
<1>2. interview[i] \in InterviewRows /\ Live(i)
  BY DEF Inv, TypeOK, RescheduleCommit, Reschedulable
<1>3. /\ r \in InterviewRows /\ r.event = interview[i].event
      /\ r.status = interview[i].status /\ r.status = "scheduled"
  BY <1>2 DEF InterviewRows, Live
<1>4. interview' = [interview EXCEPT ![i] = r] /\ job' = [job EXCEPT ![w] = j]
  BY <1>2 DEF RescheduleCommit, GoOn, Inv, TypeOK
<1>5. UNCHANGED <<google, entry, told, lost>>
  BY DEF RescheduleCommit, reports
<1> HIDE DEF r, j
<1>6. interview'[i] = r /\ \A k \in Interviews : k # i => interview'[k] = interview[k]
  BY <1>4 DEF Inv, TypeOK
<1>7. StatusStands
  BY <1>3, <1>6 DEF StatusStands, Live
<1> PICK e : e = r.event
  OBVIOUS
<1>10. e # None => Own(i, e)'
  BY <1>2, <1>3, <1>5, <1>6 DEF Inv, RowsOwn, Own, Live
<1>8. JobOwns(j)'
  BY <1>1, <1>3, <1>6 DEF JobOwns
<1>9. /\ entry' \in [Interviews -> Entries \cup {None}]
      /\ told' \subseteq Interviews /\ lost' \subseteq Interviews
  BY <1>5 DEF Inv, TypeOK
<1> QED BY <1>1, <1>3, <1>4, <1>5, <1>7, <1>8, <1>9, <1>10, RowKeepsInv

(* The handler goes on with the event the row had when it was read.        *)
LEMMA CancelStep ==
    ASSUME Inv, NEW w \in Workers, NEW i \in Interviews, NEW e \in Events \cup {None},
           NEW f \in BOOLEAN, CancelCommit(w, i, e, f)
    PROVE  Inv'
<1> PICK n : n = interview[i].seq + 1
  OBVIOUS
<1> PICK r : r = [interview[i] EXCEPT !.status = "cancelled", !.seq = n]
  OBVIOUS
<1> DEFINE j == Withdrawing(i, e, n)
<1>1. interview[i] \in InterviewRows /\ interview[i].seq < MaxSequence /\ Live(i)
  BY DEF Inv, TypeOK, CancelCommit
<1>2. n \in Sequences
  BY <1>1, BoundAssumption DEF InterviewRows, Sequences
<1>3. j \in Jobs /\ j.op = "withdraw" /\ j.iv = i /\ j.event = e
  BY <1>2 DEF Withdrawing, Jobs
<1>4. r \in InterviewRows /\ r.event = interview[i].event /\ r.status = "cancelled"
  BY <1>1, <1>2 DEF InterviewRows
<1>5. interview' = [interview EXCEPT ![i] = r] /\ job' = [job EXCEPT ![w] = j]
  BY <1>1 DEF CancelCommit, GoOn, Inv, TypeOK
<1>6. UNCHANGED <<google, entry, told, lost>> /\ (e # None => Own(i, e))
  BY DEF CancelCommit, reports, Cancelling, Inv, JobsOwn, JobOwns
<1> HIDE DEF j
<1>7. interview'[i] = r /\ \A k \in Interviews : k # i => interview'[k] = interview[k]
  BY <1>5 DEF Inv, TypeOK
<1>8. StatusStands
  BY <1>1, <1>4, <1>7 DEF StatusStands, Live
<1>9. r.event # None => Own(i, r.event)
  BY <1>4 DEF Inv, RowsOwn
<1>10. (r.event # None => Own(i, r.event)') /\ (e # None => Own(i, e)')
  BY <1>4, <1>6, <1>7, <1>9 DEF Own, Live
<1>11. JobOwns(j)'
  BY <1>3, <1>4, <1>7, <1>10 DEF JobOwns
<1>12. /\ entry' \in [Interviews -> Entries \cup {None}]
       /\ told' \subseteq Interviews /\ lost' \subseteq Interviews
  BY <1>6 DEF Inv, TypeOK
<1> QED BY <1>3, <1>4, <1>5, <1>6, <1>8, <1>10, <1>11, <1>12, RowKeepsInv

(* The event that is deleted is that of a cancelled interview.             *)
LEMMA WithdrawStep ==
    ASSUME Inv, NEW w \in Workers, NEW i \in Interviews, NEW e \in Events \cup {None},
           NEW n \in Sequences, job[w] = Withdrawing(i, e, n), GoOn(w, Idle),
           DeleteEvent(e), UNCHANGED interview,
           Receive(i, interview[i].start, n, FALSE) \/ UNCHANGED entry,
           told' \subseteq Interviews, lost' \subseteq Interviews
    PROVE  Inv'
<1>1. Idle \in Jobs /\ Idle.op = "idle"
  BY DEF Jobs, Idle
<1>2. /\ job' = [job EXCEPT ![w] = Idle] /\ UNCHANGED interview
      /\ interview[i].status = "cancelled" /\ (e # None => Own(i, e))
  BY DEF GoOn, Withdrawing, Inv, JobsOwn, JobOwns
<1>3. entry' \in [Interviews -> Entries \cup {None}]
  <2>1. interview[i].start \in Times
    BY DEF Inv, TypeOK, InterviewRows
  <2> QED BY <2>1, ReceiveTypes DEF Inv, TypeOK
<1>4. \A x \in Events :
        google'[x] = IF x = e THEN [google[x] EXCEPT !.live = FALSE] ELSE google[x]
  BY DEF DeleteEvent
<1>5. google' \in [Events -> GoogleEvents \cup {None}]
  <2>1. e \in Events => google[e] \in GoogleEvents
    BY <1>2, NullAssumption DEF Own, Inv, TypeOK
  <2>2. e \in Events => [google[e] EXCEPT !.live = FALSE] \in GoogleEvents
    BY <2>1 DEF GoogleEvents
  <2> QED BY <1>4, <2>2 DEF Inv, TypeOK, DeleteEvent
<1>6. EventsStand /\ StatusStands
  <2>1. ASSUME NEW x \in Events, google[x] # None
        PROVE  /\ google'[x] # None /\ google'[x].of = google[x].of
               /\ (google[x].live /\ Live(google[x].of)' => google'[x].live)
    <3>1. CASE x # e
      <4>1. google'[x] = google[x]
        BY <1>4, <3>1
      <4> QED BY <2>1, <4>1
    <3>2. CASE x = e
      <4>1. google[x] \in GoogleEvents /\ google[x].of = i
        BY <1>2, <2>1, <3>2, NullAssumption DEF Own, Inv, TypeOK
      <4>2. google'[x] = [google[x] EXCEPT !.live = FALSE]
        BY <1>4, <3>2
      <4>3. google'[x] \in GoogleEvents /\ google'[x].of = i
        BY <4>1, <4>2 DEF GoogleEvents
      <4>4. google'[x] # None
        BY <4>3, NullAssumption DEF GoogleEvents
      <4> QED BY <1>2, <4>1, <4>3, <4>4 DEF Live
    <3> QED BY <3>1, <3>2
  <2> QED BY <1>2, <2>1 DEF EventsStand, StatusStands, Live
<1>7. JobOwns(Idle)'
  BY <1>1 DEF JobOwns
<1>8. job' \in [Workers -> Jobs] /\ JobsOwn'
  BY <1>1, <1>2, <1>6, <1>7, JobsStand
<1>9. RowsOwn'
  <2>1. ASSUME NEW k \in Interviews, interview'[k].event # None
        PROVE  Own(k, interview[k].event)'
    <3>1. interview[k].event \in Events /\ Own(k, interview[k].event)
      BY <1>2, <2>1 DEF Inv, TypeOK, InterviewRows, RowsOwn
    <3> QED BY <1>2, <1>6, <3>1 DEF EventsStand, Own, Live
  <2> QED BY <1>2, <2>1 DEF RowsOwn, Own, Live
<1> QED BY <1>2, <1>3, <1>5, <1>8, <1>9 DEF Inv, TypeOK

(* The other steps change neither the rows nor Google's events.            *)
LEMMA QuietSteps ==
    ASSUME Inv, NEW w \in Workers, NEW i \in Interviews, NEW t \in Times, NEW n \in Sequences,
           NEW f \in BOOLEAN,
           \/ NoEvent(w, i, t, n) \/ MailInvite(w, i, t, n) \/ MailFails(w, i, t, n)
           \/ RescheduleRead(w, i, t) \/ CancelRead(w, i, f) \/ Refused(w) \/ Break(w)
           \/ \E e \in Events \cup {None} :
                 WithdrawInPart(w, i, e, n) /\ UNCHANGED google
    PROVE  Inv'
<1>1. PICK j \in Jobs : job' = [job EXCEPT ![w] = j] /\ JobOwns(j)
  <2>1. CASE NoEvent(w, i, t, n)
    <3>1. Mailing(i, t, n) \in Jobs /\ JobOwns(Mailing(i, t, n))
      BY <2>1 DEF NoEvent, Announcing, Mailing, Jobs, Inv, JobsOwn, JobOwns
    <3> QED BY <2>1, <3>1 DEF NoEvent, GoOn
  <2>2. CASE \/ MailInvite(w, i, t, n) \/ MailFails(w, i, t, n) \/ Refused(w) \/ Break(w)
             \/ \E e \in Events \cup {None} : WithdrawInPart(w, i, e, n)
    <3>1. Idle \in Jobs /\ JobOwns(Idle)
      BY DEF Idle, Jobs, JobOwns
    <3> QED BY <2>2, <3>1 DEF MailInvite, MailFails, Refused, Break, WithdrawInPart, GoOn
  <2>3. CASE RescheduleRead(w, i, t)
    <3> DEFINE m == interview[i].seq + 1
    <3>1. m \in Sequences /\ Live(i)
      BY <2>3, BoundAssumption DEF RescheduleRead, Inv, TypeOK, InterviewRows, Sequences
    <3>2. Moving(i, t, m) \in Jobs /\ JobOwns(Moving(i, t, m))
      BY <3>1 DEF Moving, Jobs, JobOwns, Live
    <3> QED BY <2>3, <3>2 DEF RescheduleRead, Start
  <2>4. CASE CancelRead(w, i, f)
    <3> DEFINE e == interview[i].event
    <3>1. e \in Events \cup {None} /\ Live(i) /\ (e # None => Own(i, e))
      BY <2>4 DEF CancelRead, Inv, TypeOK, InterviewRows, RowsOwn
    <3>2. Cancelling(i, e, f) \in Jobs /\ JobOwns(Cancelling(i, e, f))
      BY <3>1 DEF Cancelling, Jobs, JobOwns, Live
    <3> QED BY <2>4, <3>2 DEF CancelRead, Start
  <2> QED BY <2>1, <2>2, <2>3, <2>4
<1>2. UNCHANGED <<interview, google>>
  BY DEF NoEvent, MailInvite, MailFails, RescheduleRead, CancelRead, Refused, Break,
         WithdrawInPart
<1>3. JobOwns(j)'
  BY <1>1, <1>2 DEF JobOwns, Own, Live
<1>4. entry' \in [Interviews -> Entries \cup {None}]
  <2>1. interview[i].start \in Times
    BY DEF Inv, TypeOK, InterviewRows
  <2> QED
    BY <2>1, ReceiveTypes
       DEF NoEvent, MailInvite, MailFails, RescheduleRead, CancelRead, Refused, Break,
           WithdrawInPart, reports, Inv, TypeOK
<1>5. told' \subseteq Interviews /\ lost' \subseteq Interviews
  <2>1. job[w].op # "idle" => job[w].iv \in Interviews
    BY JobTypes DEF Inv, TypeOK
  <2> QED
    BY <2>1
       DEF NoEvent, MailInvite, MailFails, RescheduleRead, CancelRead, Refused, Break,
           WithdrawInPart, reports, Inv, TypeOK
<1> QED BY <1>1, <1>2, <1>3, <1>4, <1>5, QuietKeepsInv

LEMMA StepKeepsInv == Inv /\ [Next]_vars => Inv'
<1> SUFFICES ASSUME Inv, [Next]_vars PROVE Inv'
  OBVIOUS
<1>1. CASE UNCHANGED vars
  BY <1>1 DEF vars, Inv, TypeOK, RowsOwn, JobsOwn, JobOwns, Own, Live
<1>2. ASSUME NEW i \in Interviews, NEW t \in Times, Schedule(i, t) PROVE Inv'
  BY <1>2, ScheduleStep
<1>3. ASSUME NEW w \in Workers, Call(w) PROVE Inv'
  <2>1. 0 \in Sequences /\ 1 \in Times
    BY BoundAssumption DEF Sequences, Times
  <2> QED BY <1>3, <2>1, BookStep, QuietSteps DEF Call
<1>4. ASSUME NEW w \in Workers, Continue(w) PROVE Inv'
  <2>1. CASE Refused(w)
    <3>1. 0 \in Sequences /\ 1 \in Times
      BY BoundAssumption DEF Sequences, Times
    <3>2. PICK i \in Interviews : TRUE
      BY <2>1 DEF Refused
    <3> QED BY <2>1, <3>1, <3>2, QuietSteps
  <2>2. ASSUME NEW i \in Interviews, NEW e \in Events \cup {None}, NEW n \in Sequences,
               Withdraw(w, i, e, n)
        PROVE  Inv'
    BY <2>2, WithdrawStep DEF Withdraw, reports, Inv, TypeOK
  <2>3. ASSUME NEW i \in Interviews, NEW e \in Events \cup {None}, NEW n \in Sequences,
               WithdrawInPart(w, i, e, n)
        PROVE  Inv'
    <3>1. told' \subseteq Interviews /\ lost' \subseteq Interviews
      BY <2>3 DEF WithdrawInPart, Inv, TypeOK
    <3>2. CASE UNCHANGED google
      <4>1. 1 \in Times
        BY BoundAssumption DEF Times
      <4> QED BY <2>3, <3>2, <4>1, QuietSteps
    <3> QED BY <2>3, <3>1, <3>2, WithdrawStep DEF WithdrawInPart
  <2>4. CASE ~Refused(w)
    BY <1>4, <2>2, <2>3, <2>4, MakeStep, RecordStep, QuietSteps, RescheduleStep, CancelStep
       DEF Continue
  <2> QED BY <2>1, <2>4
<1>5. ASSUME NEW w \in Workers, Break(w) PROVE Inv'
  <2>1. 0 \in Sequences /\ 1 \in Times
    BY BoundAssumption DEF Sequences, Times
  <2>2. job[w].iv \in Interviews
    BY <1>5, JobTypes DEF Break, Inv, TypeOK
  <2> QED BY <1>5, <2>1, <2>2, QuietSteps
<1> QED BY <1>1, <1>2, <1>3, <1>4, <1>5 DEF Next

-----------------------------------------------------------------------------
(* All variables keep their types.                                         *)
THEOREM CalendarTypes == Spec => []TypeOK
BY InitInv, StepKeepsInv, PTL DEF Spec, Inv

(* The event id a scheduled interview holds is always that of an event of  *)
(* its own that is still there, so a later cancellation can delete it.     *)
THEOREM EventIdStaysGood == Spec => []EventIdIsGood
<1>1. Inv => EventIdIsGood
  <2> SUFFICES ASSUME Inv, NEW i \in Interviews, Live(i), interview[i].event # None
               PROVE  google[interview[i].event] = [of |-> i, live |-> TRUE]
    BY DEF EventIdIsGood
  <2>1. interview[i].event \in Events /\ Own(i, interview[i].event)
    BY DEF Inv, TypeOK, InterviewRows, RowsOwn
  <2>2. google[interview[i].event] \in GoogleEvents
    BY <2>1 DEF Own, Inv, TypeOK
  <2> QED BY <2>1, <2>2 DEF Own, GoogleEvents
<1> QED BY InitInv, StepKeepsInv, <1>1, PTL DEF Spec

-----------------------------------------------------------------------------
(* The action that CancelledStaysCancelled is about.                       *)
OnlyTheEventComesIn ==
    \A i \in Interviews : interview[i].status = "cancelled" =>
        interview'[i] = [interview[i] EXCEPT !.event = interview'[i].event]

LEMMA StepKeepsCancelled == Inv /\ [Next]_vars => OnlyTheEventComesIn
<1> SUFFICES ASSUME Inv, [Next]_vars, NEW i \in Interviews, interview[i].status = "cancelled"
             PROVE  interview'[i] = [interview[i] EXCEPT !.event = interview'[i].event]
  BY DEF OnlyTheEventComesIn
<1>1. interview[i] \in InterviewRows
  BY DEF Inv, TypeOK
<1>2. ASSUME interview'[i] = interview[i]
      PROVE  interview'[i] = [interview[i] EXCEPT !.event = interview'[i].event]
  BY <1>1, <1>2 DEF InterviewRows
<1>3. CASE UNCHANGED interview
  BY <1>2, <1>3
<1>4. ASSUME NEW w \in Workers, NEW k \in Interviews, NEW t \in Times, NEW n \in Sequences,
             NEW e \in Events, RecordEvent(w, k, t, n, e)
      PROVE  interview'[i] = [interview[i] EXCEPT !.event = interview'[i].event]
  <2>1. CASE k # i
    BY <1>2, <1>4, <2>1 DEF RecordEvent, Inv, TypeOK
  <2>2. CASE k = i
    <3>1. interview'[i] = [interview[i] EXCEPT !.event = e]
      BY <1>4, <2>2 DEF RecordEvent, Inv, TypeOK
    <3>2. interview'[i].event = e
      BY <1>1, <3>1 DEF InterviewRows
    <3> QED BY <3>1, <3>2
  <2> QED BY <2>1, <2>2
<1>5. ASSUME NEW k \in Interviews, NEW r, interview' = [interview EXCEPT ![k] = r],
             interview[k].status # "cancelled"
      PROVE  interview'[i] = [interview[i] EXCEPT !.event = interview'[i].event]
  BY <1>2, <1>5 DEF Inv, TypeOK
<1>6. ASSUME NEW w \in Workers, NEW k \in Interviews, NEW t \in Times, NEW n \in Sequences,
             RescheduleCommit(w, k, t, n)
      PROVE  interview'[i] = [interview[i] EXCEPT !.event = interview'[i].event]
  <2> PICK r : r = [interview[k] EXCEPT !.start = t, !.seq = n]
    OBVIOUS
  <2>1. interview' = [interview EXCEPT ![k] = r] /\ interview[k].status # "cancelled"
    BY <1>6 DEF RescheduleCommit, Reschedulable, Live, Inv, TypeOK
  <2> QED BY <1>5, <2>1
<1>7. ASSUME NEW w \in Workers, NEW k \in Interviews, NEW e, NEW f, CancelCommit(w, k, e, f)
      PROVE  interview'[i] = [interview[i] EXCEPT !.event = interview'[i].event]
  <2> PICK r : r = [interview[k] EXCEPT !.status = "cancelled", !.seq = interview[k].seq + 1]
    OBVIOUS
  <2>1. interview' = [interview EXCEPT ![k] = r] /\ interview[k].status # "cancelled"
    BY <1>7 DEF CancelCommit, Live, Inv, TypeOK
  <2> QED BY <1>5, <2>1
<1>8. ASSUME NEW k \in Interviews, NEW t,
             Schedule(k, t) \/ \E w \in Workers, n \in Rounds : Book(w, k, n, t)
      PROVE  interview'[i] = [interview[i] EXCEPT !.event = interview'[i].event]
  BY <1>5, <1>8 DEF Schedule, Book
<1>9. ASSUME NEW w \in Workers, Call(w)
      PROVE  interview'[i] = [interview[i] EXCEPT !.event = interview'[i].event]
  BY <1>3, <1>8, <1>9 DEF Call, RescheduleRead, CancelRead
<1>10. ASSUME NEW w \in Workers, Continue(w)
       PROVE  interview'[i] = [interview[i] EXCEPT !.event = interview'[i].event]
  BY <1>3, <1>4, <1>6, <1>7, <1>10
     DEF Continue, MakeEvent, NoEvent, MailInvite, MailFails, Withdraw, WithdrawInPart, Refused
<1> QED BY <1>3, <1>8, <1>9, <1>10 DEF Next, Break, vars

(* No handler, however stale what it read, moves, revives or cancels an    *)
(* interview that is cancelled; only its event id may still come in.       *)
THEOREM CancelledForGood == Spec => CancelledStaysCancelled
<1>1. Inv /\ [Next]_vars => [OnlyTheEventComesIn]_vars
  BY StepKeepsCancelled
<1>2. CancelledStaysCancelled <=> [][OnlyTheEventComesIn]_vars
  BY PTL DEF CancelledStaysCancelled, OnlyTheEventComesIn
<1> QED BY InitInv, StepKeepsInv, <1>1, <1>2, PTL DEF Spec
=============================================================================

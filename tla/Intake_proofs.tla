----------------------------- MODULE Intake_proofs -----------------------------
(***************************************************************************)
(* Proofs about how candidates come in, for any number of workers, mails,  *)
(* requests, rows and days: the CV repository, by its own names, the scans *)
(* of a mailbox (M!), the doors to a requisition (I!) and a campus drive   *)
(* (D!).                                                                   *)
(*                                                                         *)
(* What holds each of them up, with no transaction to do it: the id of a   *)
(* CV, drawn by the one worker that stores its file and inserts its row;   *)
(* the checkpoint of a mailbox, which a scan reads at its beginning and    *)
(* moves to its end, and the buffer in between; the order of a door's      *)
(* queries, which asks about the employer before anything is written; the  *)
(* order of a bulk invite's statements, link and session before the row    *)
(* names the application.                                                  *)
(***************************************************************************)
EXTENDS MCIntake, TLAPS

-----------------------------------------------------------------------------
(* The CV repository (CvRepository). *)

RowTypes == [content : Contents \cup {None}, mapped : BOOLEAN]
OpTypes == [pc : {"idle", "mail", "check", "save", "insert", "relink", "attach", "drop_row",
                  "drop_file"},
            how : {None, "gmail", "scan", "application", "portal", "enricher", "delete"},
            mails : SUBSET Mails, mail : Mails \cup {None}, k : Nat, good : SUBSET Mails,
            content : Contents \cup {None}, id : Ids \cup {None}]

RepositoryTypes ==
    /\ unread \subseteq Mails
    /\ rows \in [Ids -> RowTypes \cup {None}]
    /\ used \in 0 .. MaxIds
    /\ op \in [Workers -> OpTypes]

\* All of the mail's resumes are among those that have been in the repository.
BroughtIn(e, m) == \A k \in 1 .. Len(Attachments[m]) : Attachments[m][k] \in e

\* A worker in the middle of a mail has seen to the attachments before this one.
InMail(e, r) ==
    /\ r.mail \in Mails /\ r.k \in 1 .. Len(Attachments[r.mail])
    /\ r.content = Attachments[r.mail][r.k]
    /\ \A j \in 1 .. (r.k - 1) : Attachments[r.mail][j] \in e
    /\ \A m \in r.good : m # r.mail => BroughtIn(e, m)

Polling(e, r) ==
    /\ r.pc \in {"mail", "check", "save", "insert"}
    /\ \A m \in r.mails : Attachments[m] # <<>>
    /\ r.pc = "mail" => \A m \in r.good : BroughtIn(e, m)
    /\ r.pc # "mail" => InMail(e, r)

\* What a worker knows of the id it holds.
Holds(r) ==
    /\ r.pc \in {"insert", "drop_row", "drop_file"} => r.id \in Ids /\ r.id <= used
    /\ r.pc = "insert" => r.id \in files
    /\ r.pc \in {"insert", "drop_file"} => ~Row(r.id)

OpOK(r) ==
    /\ Holds(r)
    /\ r.pc # "idle" /\ r.how = "gmail" => Polling(ever, r)
    /\ r.how # "gmail" => r.pc # "mail"

\* An id that is being inserted is nobody else's.
Apart(r, s) ==
    r.pc = "insert" /\ s.pc \in {"insert", "drop_row", "drop_file"} => r.id # s.id

OpsOK ==
    /\ \A w \in Workers : OpOK(op[w])
    /\ \A v, w \in Workers : v # w => Apart(op[v], op[w])

CvRowsOK == \A i \in Ids : Row(i) => i <= used /\ i \in files /\ rows[i].content \in ever
MailsReadOK == \A m \in Mails \ unread : BroughtIn(ever, m)

RepositoryInv == RepositoryTypes /\ OpsOK /\ CvRowsOK /\ MailsReadOK

-----------------------------------------------------------------------------
LEMMA RepositoryInit == Init => RepositoryInv
<1> SUFFICES ASSUME Init PROVE RepositoryInv
  OBVIOUS
<1>1. Idle \in OpTypes /\ Idle.pc = "idle" /\ Idle.how = None
  BY DEF Idle, OpTypes
<1>2. \A w \in Workers : op[w] = Idle
  BY DEF Init
<1>3. RepositoryTypes
  BY <1>1, RepositoryAssumption DEF Init, RepositoryTypes
<1>4. OpsOK
  <2>1. OpOK(Idle)
    BY <1>1 DEF OpOK, Holds, Idle
  <2>2. \A v, w \in Workers : Apart(op[v], op[w])
    BY <1>1, <1>2 DEF Apart
  <2> QED BY <1>2, <2>1, <2>2 DEF OpsOK
<1> QED BY <1>3, <1>4 DEF Init, RepositoryInv, CvRowsOK, MailsReadOK, Row

(* What a worker knows stands while others go on, if they leave the id it  *)
(* inserts alone and put no row back that is gone.                         *)
LEMMA OthersStand ==
    ASSUME RepositoryInv, NEW w \in Workers, NEW r \in OpTypes,
           op' = [op EXCEPT ![w] = r],
           used <= used', ever \subseteq ever', used' \in Nat,
           \A v \in Workers \ {w} : op[v].pc = "insert" => op[v].id \in files',
           \A v \in Workers \ {w} :
               op[v].pc \in {"insert", "drop_file"} => rows'[op[v].id] = None,
           OpOK(r)',
           \A v \in Workers \ {w} : Apart(r, op[v]) /\ Apart(op[v], r)
    PROVE  op' \in [Workers -> OpTypes] /\ OpsOK'
<1>1. /\ op' \in [Workers -> OpTypes] /\ op'[w] = r
      /\ \A v \in Workers \ {w} : op'[v] = op[v] /\ op[v] \in OpTypes
  BY DEF RepositoryInv, RepositoryTypes
<1>2. ASSUME NEW v \in Workers \ {w} PROVE OpOK(op[v])'
  <2>1. OpOK(op[v]) /\ op'[v] = op[v]
    BY <1>1 DEF RepositoryInv, OpsOK
  <2>2. Holds(op[v])'
    <3>1. \A i \in Ids : i <= used => i <= used'
      BY DEF RepositoryInv, RepositoryTypes, Ids
    <3> QED BY <2>1, <3>1 DEF OpOK, Holds, Row
  <2>3. \A m \in Mails : BroughtIn(ever, m) => BroughtIn(ever, m)'
    BY DEF BroughtIn
  <2>4. op[v].mails \subseteq Mails /\ op[v].good \subseteq Mails
    BY <1>1 DEF OpTypes
  <2>5. op[v].pc # "idle" /\ op[v].how = "gmail" => Polling(ever, op[v])'
    BY <2>1, <2>3, <2>4 DEF OpOK, Polling, InMail
  <2> QED BY <2>1, <2>2, <2>5 DEF OpOK
<1>3. \A v \in Workers : OpOK(op[v])'
  BY <1>1, <1>2 DEF OpOK, Holds, Row, Polling, InMail, BroughtIn
<1>4. \A u, v \in Workers : u # v => Apart(op[u], op[v])'
  BY <1>1 DEF RepositoryInv, OpsOK, Apart
<1> QED BY <1>1, <1>3, <1>4 DEF OpsOK

(* Steps that only remember something, and lay hands on no id.             *)
LEMMA QuietKeepsInv ==
    ASSUME RepositoryInv, NEW w \in Workers, NEW r \in OpTypes,
           op' = [op EXCEPT ![w] = r], UNCHANGED <<unread, rows, files, used, ever>>,
           r.pc \notin {"insert", "drop_row", "drop_file"}, OpOK(r)
    PROVE  RepositoryInv'
<1>1. OpOK(r)'
  BY DEF OpOK, Holds, Row, Polling, InMail, BroughtIn
<1>2. op' \in [Workers -> OpTypes] /\ OpsOK'
  <2>1. used' \in Nat /\ used <= used'
    BY DEF RepositoryInv, RepositoryTypes
  <2>2. \A v \in Workers \ {w} : OpOK(op[v])
    BY DEF RepositoryInv, OpsOK
  <2> QED BY <1>1, <2>1, <2>2, OthersStand DEF OpOK, Holds, Row, Apart
<1> QED BY <1>2 DEF RepositoryInv, RepositoryTypes, CvRowsOK, MailsReadOK, Row, BroughtIn

(* The next attachment, or the next mail, for one who has this one in.     *)
LEMMA IngestedFine ==
    ASSUME RepositoryInv, NEW w \in Workers, NEW e, ever \subseteq e,
           op[w].how = "gmail", op[w].pc \notin {"idle", "mail"}, op[w].content \in e
    PROVE  /\ Ingested(w) \in OpTypes /\ Ingested(w).how = "gmail"
           /\ Ingested(w).pc \in {"mail", "check"} /\ Polling(e, Ingested(w))
<1> DEFINE s == op[w]
           m == s.mail
           r == Ingested(w)
<1>1. s \in OpTypes /\ InMail(ever, s) /\ \A n \in s.mails : Attachments[n] # <<>>
  BY DEF RepositoryInv, RepositoryTypes, OpsOK, OpOK, Polling
<1>2. m \in Mails /\ s.k \in Nat /\ Attachments[m] \in Seq(Contents) /\ s.good \subseteq Mails
  BY <1>1, RepositoryAssumption DEF OpTypes, InMail
<1>3. /\ s.k \in 1 .. Len(Attachments[m]) /\ Attachments[m][s.k] \in e
      /\ \A j \in 1 .. (s.k - 1) : Attachments[m][j] \in e
      /\ \A n \in s.good : n # m => BroughtIn(e, n)
  BY <1>1 DEF InMail, BroughtIn
<1>4. r.how = "gmail" /\ r.mails = s.mails /\ r.good = s.good \cup {m}
  BY <1>1 DEF Ingested, OpTypes
<1>5. CASE s.k < Len(Attachments[m])
  <2>1. /\ r.pc = "check" /\ r.k = s.k + 1 /\ r.mail = m /\ r.id = None
        /\ r.content = Attachments[m][s.k + 1]
    BY <1>1, <1>5 DEF Ingested, OpTypes
  <2>2. r.k \in 1 .. Len(Attachments[m]) /\ r.content \in Contents
    BY <1>2, <1>5, <2>1
  <2>3. r \in OpTypes
    <3>1. PICK c \in Contents : c = Attachments[m][s.k + 1]
      BY <2>1, <2>2
    <3>2. r = [s EXCEPT !.pc = "check", !.k = s.k + 1, !.content = c, !.id = None,
                        !.good = s.good \cup {m}]
      BY <1>5, <3>1 DEF Ingested
    <3>3. s.k + 1 \in Nat /\ s.good \cup {m} \subseteq Mails
      BY <1>2
    <3> HIDE DEF r, s, m
    <3> QED BY <1>1, <3>2, <3>3 DEF OpTypes
  <2>4. \A j \in 1 .. (r.k - 1) : Attachments[m][j] \in e
    BY <1>2, <1>3, <2>1
  <2>5. InMail(e, r)
    BY <1>2, <1>3, <1>4, <2>1, <2>2, <2>4 DEF InMail
  <2> QED BY <1>1, <1>4, <2>1, <2>3, <2>5 DEF Polling
<1>6. CASE ~ (s.k < Len(Attachments[m]))
  <2>1. r.pc = "mail"
    BY <1>1, <1>6 DEF Ingested, OpTypes
  <2>2. r \in OpTypes
    BY <1>1, <1>2, <1>6 DEF Ingested, OpTypes
  <2>3. BroughtIn(e, m)
    BY <1>2, <1>3, <1>6 DEF BroughtIn
  <2>4. \A n \in r.good : BroughtIn(e, n)
    BY <1>3, <1>4, <2>3
  <2> QED BY <1>1, <1>4, <2>1, <2>2, <2>4 DEF Polling
<1> QED BY <1>5, <1>6

LEMMA IdleFine == Idle \in OpTypes /\ Idle.pc = "idle" /\ OpOK(Idle)
BY DEF Idle, OpTypes, OpOK, Holds

(* Done, and whatever was ingested is in the repository.                   *)
LEMMA DoneFine ==
    ASSUME RepositoryInv, NEW w \in Workers, op[w].pc \notin {"idle", "mail"},
           NEW e, ever \subseteq e, op[w].how = "gmail" => op[w].content \in e
    PROVE  /\ Done(w) \in OpTypes /\ Done(w).pc \in {"idle", "mail", "check"}
           /\ Done(w).pc # "idle" => Done(w).how = "gmail" /\ Polling(e, Done(w))
<1>1. CASE op[w].how = "gmail"
  BY <1>1, IngestedFine DEF Done
<1>2. CASE op[w].how # "gmail"
  BY <1>2, IdleFine DEF Done
<1> QED BY <1>1, <1>2

-----------------------------------------------------------------------------
LEMMA FetchKeepsInv ==
    ASSUME RepositoryInv, NEW w \in Workers, Fetch(w) PROVE RepositoryInv'
<1> DEFINE with == {m \in unread : Attachments[m] # <<>>}
           r == [Idle EXCEPT !.pc = "mail", !.how = "gmail", !.mails = with]
<1>1. r \in OpTypes /\ r.pc = "mail" /\ r.how = "gmail" /\ r.mails = with /\ r.good = {}
  BY DEF OpTypes, Idle, RepositoryInv, RepositoryTypes
<1>2. OpOK(r)
  BY <1>1 DEF OpOK, Holds, Polling
<1>3. op' = [op EXCEPT ![w] = r] /\ UNCHANGED <<unread, rows, files, used, ever>>
  BY DEF Fetch, Step
<1> QED BY <1>1, <1>2, <1>3, QuietKeepsInv

LEMMA NextMailKeepsInv ==
    ASSUME RepositoryInv, NEW w \in Workers, NextMail(w) PROVE RepositoryInv'
<1> DEFINE s == op[w]
<1>1. s \in OpTypes /\ s.pc = "mail" /\ OpOK(s)
  BY DEF NextMail, RepositoryInv, RepositoryTypes, OpsOK
<1>2. s.how = "gmail" /\ Polling(ever, s)
  BY <1>1 DEF OpOK
<1>3. PICK m \in s.mails :
          op' = [op EXCEPT ![w] = [s EXCEPT !.pc = "check", !.mails = @ \ {m}, !.mail = m,
                                            !.k = 1, !.content = Attachments[m][1]]]
  BY DEF NextMail, Step
<1> DEFINE r == [s EXCEPT !.pc = "check", !.mails = @ \ {m}, !.mail = m, !.k = 1,
                          !.content = Attachments[m][1]]
<1>4. m \in Mails /\ Attachments[m] \in Seq(Contents) /\ Attachments[m] # <<>>
  BY <1>1, <1>2, RepositoryAssumption DEF OpTypes, Polling
<1>5. 1 \in 1 .. Len(Attachments[m]) /\ Attachments[m][1] \in Contents
  BY <1>4
<1>6. /\ r \in OpTypes /\ r.pc = "check" /\ r.how = "gmail" /\ r.mails = s.mails \ {m}
      /\ r.mail = m /\ r.k = 1 /\ r.content = Attachments[m][1] /\ r.good = s.good
  BY <1>1, <1>2, <1>4, <1>5 DEF OpTypes
<1>7. InMail(ever, r)
  BY <1>1, <1>2, <1>4, <1>5, <1>6 DEF InMail, Polling
<1>8. OpOK(r)
  BY <1>2, <1>6, <1>7 DEF OpOK, Holds, Polling
<1>9. op' = [op EXCEPT ![w] = r] /\ UNCHANGED <<unread, rows, files, used, ever>>
  BY <1>3 DEF NextMail
<1> QED BY <1>6, <1>8, <1>9, QuietKeepsInv

(* The one step that lays the mark: everything it marks went in.           *)
LEMMA MarkKeepsInv ==
    ASSUME RepositoryInv, NEW w \in Workers, Mark(w) PROVE RepositoryInv'
<1>1. op[w].how = "gmail" /\ \A m \in op[w].good : BroughtIn(ever, m)
  BY DEF Mark, RepositoryInv, OpsOK, OpOK, Polling
<1>2. unread' = unread \ op[w].good /\ UNCHANGED <<rows, files, used, ever>>
  BY DEF Mark
<1>3. op' = [op EXCEPT ![w] = Idle]
  BY DEF Mark, Step
<1>4. op' \in [Workers -> OpTypes] /\ OpsOK'
  <2>1. used' \in Nat /\ used <= used'
    BY <1>2 DEF RepositoryInv, RepositoryTypes
  <2>2. \A v \in Workers \ {w} : OpOK(op[v])
    BY DEF RepositoryInv, OpsOK
  <2>3. OpOK(Idle)'
    BY IdleFine DEF OpOK, Holds, Idle
  <2> QED BY <1>2, <1>3, <2>1, <2>2, <2>3, IdleFine, OthersStand DEF OpOK, Holds, Row, Apart
<1>5. MailsReadOK'
  BY <1>1, <1>2 DEF MailsReadOK, RepositoryInv, BroughtIn
<1>6. RepositoryTypes' /\ CvRowsOK'
  BY <1>2, <1>4 DEF RepositoryInv, RepositoryTypes, CvRowsOK, Row
<1> QED BY <1>4, <1>5, <1>6 DEF RepositoryInv

LEMMA HandInKeepsInv ==
    ASSUME RepositoryInv, NEW w \in Workers, NEW c \in Contents,
           NEW how \in {"scan", "application"}, HandIn(w, c, how)
    PROVE  RepositoryInv'
<1> DEFINE r == [Idle EXCEPT !.pc = "check", !.how = how, !.content = c]
<1>1. r \in OpTypes /\ r.pc = "check" /\ r.how # "gmail"
  BY DEF OpTypes, Idle
<1>2. OpOK(r)
  BY <1>1 DEF OpOK, Holds
<1>3. op' = [op EXCEPT ![w] = r] /\ UNCHANGED <<unread, rows, files, used, ever>>
  BY DEF HandIn, Step
<1> QED BY <1>1, <1>2, <1>3, QuietKeepsInv

LEMMA CheckHashKeepsInv ==
    ASSUME RepositoryInv, NEW w \in Workers, CheckHash(w) PROVE RepositoryInv'
<1> DEFINE s == op[w]
<1>1. s \in OpTypes /\ s.pc = "check" /\ OpOK(s)
  BY DEF CheckHash, RepositoryInv, RepositoryTypes, OpsOK
<1>2. UNCHANGED <<unread, rows, files, used, ever>>
  BY DEF CheckHash
<1>3. CASE RowsOf(s.content) = {}
  <2> DEFINE r == [s EXCEPT !.pc = "save"]
  <2>1. r \in OpTypes /\ r.pc = "save" /\ r.how = s.how
    BY <1>1 DEF OpTypes
  <2>2. /\ r.mails = s.mails /\ r.mail = s.mail /\ r.k = s.k /\ r.good = s.good
        /\ r.content = s.content
    BY <1>1 DEF OpTypes
  <2>3. OpOK(r)
    BY <1>1, <2>1, <2>2 DEF OpOK, Holds, Polling, InMail
  <2>4. op' = [op EXCEPT ![w] = r]
    BY <1>3 DEF CheckHash, Step
  <2> QED BY <1>2, <2>1, <2>3, <2>4, QuietKeepsInv
<1>4. CASE RowsOf(s.content) # {}
  <2>1. PICK i \in RowsOf(s.content) :
            op' = [op EXCEPT ![w] = IF s.how = "application" /\ ~rows[i].mapped
                                    THEN [s EXCEPT !.pc = "relink", !.id = i] ELSE Done(w)]
    BY <1>4 DEF CheckHash, Step
  <2>2. i \in Ids /\ s.content \in ever
    BY DEF RowsOf, RepositoryInv, CvRowsOK
  <2>3. CASE s.how = "application" /\ ~rows[i].mapped
    <3> DEFINE r == [s EXCEPT !.pc = "relink", !.id = i]
    <3>1. r \in OpTypes /\ r.pc = "relink" /\ r.how # "gmail"
      BY <1>1, <2>2, <2>3 DEF OpTypes
    <3>2. OpOK(r)
      BY <3>1 DEF OpOK, Holds
    <3>3. op' = [op EXCEPT ![w] = r]
      BY <2>1, <2>3
    <3> QED BY <1>2, <3>1, <3>2, <3>3, QuietKeepsInv
  <2>4. CASE ~ (s.how = "application" /\ ~rows[i].mapped)
    <3>1. PICK r : r = Done(w)
      OBVIOUS
    <3>2. r \in OpTypes /\ r.pc \in {"idle", "mail", "check"} /\ OpOK(r)
      BY <1>1, <2>2, <3>1, DoneFine DEF OpOK, Holds
    <3>3. op' = [op EXCEPT ![w] = r]
      BY <2>1, <2>4, <3>1
    <3> QED BY <1>2, <3>2, <3>3, QuietKeepsInv
  <2> QED BY <2>3, <2>4
<1> QED BY <1>3, <1>4

LEMMA SaveKeepsInv ==
    ASSUME RepositoryInv, NEW w \in Workers, Save(w) PROVE RepositoryInv'
<1> DEFINE s == op[w]
           n == used + 1
           r == [s EXCEPT !.pc = "insert", !.id = n]
<1>1. s \in OpTypes /\ s.pc = "save" /\ OpOK(s)
  BY DEF Save, RepositoryInv, RepositoryTypes, OpsOK
<1>2. /\ n \in Ids /\ used' = n /\ used <= n /\ n \in Nat /\ ~ (n <= used)
      /\ files' = files \cup {n} /\ UNCHANGED <<unread, rows, ever>>
  BY RepositoryAssumption DEF Save, RepositoryInv, RepositoryTypes, Ids
<1>3. op' = [op EXCEPT ![w] = r]
  BY DEF Save, Step
<1>4. r \in OpTypes /\ r.pc = "insert" /\ r.id = n /\ r.how = s.how
  BY <1>1, <1>2 DEF OpTypes
<1>5. /\ r.mails = s.mails /\ r.mail = s.mail /\ r.k = s.k /\ r.good = s.good
      /\ r.content = s.content
  BY <1>1 DEF OpTypes
<1>6. /\ r.id \in Ids /\ r.id <= used' /\ r.id \in files' /\ rows'[r.id] = None
      /\ r.how = "gmail" => Polling(ever', r)
  <2>1. rows[n] = None
    BY <1>2 DEF RepositoryInv, CvRowsOK, Row
  <2>2. s.how = "gmail" => Polling(ever, s)
    BY <1>1 DEF OpOK
  <2>3. r.how = "gmail" => Polling(ever, r)
    BY <1>1, <1>4, <1>5, <2>2 DEF Polling, InMail
  <2> QED BY <1>2, <1>4, <2>1, <2>3
<1>7. \A v \in Workers \ {w} : OpOK(op[v]) /\ Apart(r, op[v]) /\ Apart(op[v], r)
  <2> SUFFICES ASSUME NEW v \in Workers \ {w}
               PROVE  OpOK(op[v]) /\ Apart(r, op[v]) /\ Apart(op[v], r)
    OBVIOUS
  <2>1. OpOK(op[v])
    BY DEF RepositoryInv, OpsOK
  <2>2. op[v].pc \in {"insert", "drop_row", "drop_file"} => op[v].id # n
    BY <1>2, <2>1 DEF OpOK, Holds
  <2> QED BY <1>4, <2>1, <2>2 DEF Apart
<1>8. op' \in [Workers -> OpTypes] /\ OpsOK'
  <2>1. /\ \A v \in Workers \ {w} : op[v].pc = "insert" => op[v].id \in files'
        /\ \A v \in Workers \ {w} :
               op[v].pc \in {"insert", "drop_file"} => rows'[op[v].id] = None
    BY <1>2, <1>7 DEF OpOK, Holds, Row
  <2>2. used <= used' /\ used' \in Nat /\ ever \subseteq ever'
    BY <1>2
  <2>3. PICK q \in OpTypes : q = r
    BY <1>4
  <2>4. OpOK(q)'
    BY <1>4, <1>6, <2>3 DEF OpOK, Holds, Row
  <2>5. op' = [op EXCEPT ![w] = q] /\ \A v \in Workers \ {w} : Apart(q, op[v]) /\ Apart(op[v], q)
    BY <1>3, <1>7, <2>3
  <2> HIDE DEF r
  <2> QED BY <2>1, <2>2, <2>4, <2>5, OthersStand
<1>9. CvRowsOK'
  <2>1. \A i \in Ids : i <= used => i <= used'
    BY <1>2 DEF RepositoryInv, RepositoryTypes, Ids
  <2> QED BY <1>2, <2>1 DEF RepositoryInv, CvRowsOK, Row
<1>10. RepositoryTypes'
  BY <1>2, <1>8 DEF RepositoryInv, RepositoryTypes, Ids
<1> QED BY <1>2, <1>8, <1>9, <1>10 DEF RepositoryInv, MailsReadOK, BroughtIn

(* The row comes in under the id of its own file, and nobody else has it.  *)
LEMMA InsertKeepsInv ==
    ASSUME RepositoryInv, NEW w \in Workers, Insert(w) PROVE RepositoryInv'
<1> DEFINE s == op[w]
<1>1. s \in OpTypes /\ s.pc = "insert" /\ OpOK(s)
  BY DEF Insert, RepositoryInv, RepositoryTypes, OpsOK
<1>2. s.id \in Ids /\ s.id <= used /\ s.id \in files
  BY <1>1 DEF OpOK, Holds
<1>3. /\ ever' = ever \cup {s.content} /\ ever \subseteq ever' /\ s.content \in ever'
      /\ UNCHANGED <<unread, files, used>>
  BY DEF Insert
<1>4. PICK mapped \in BOOLEAN :
          /\ rows' = [rows EXCEPT ![s.id] = [content |-> s.content, mapped |-> mapped]]
          /\ op' = [op EXCEPT ![w] = IF mapped /\ s.how # "gmail"
                                     THEN [s EXCEPT !.pc = "attach"] ELSE Done(w)]
  BY DEF Insert, Step
<1>5. PICK q : q = IF mapped /\ s.how # "gmail" THEN [s EXCEPT !.pc = "attach"] ELSE Done(w)
  OBVIOUS
<1>6. /\ q \in OpTypes /\ q.pc \in {"idle", "mail", "check", "attach"}
      /\ q.pc # "idle" /\ q.how = "gmail" => Polling(ever', q)
      /\ q.how # "gmail" => q.pc # "mail"
  <2>1. CASE mapped /\ s.how # "gmail"
    BY <1>1, <1>5, <2>1 DEF OpTypes
  <2>2. CASE ~ (mapped /\ s.how # "gmail")
    <3>1. q = Done(w)
      BY <1>5, <2>2
    <3> QED BY <1>1, <1>3, <3>1, DoneFine
  <2> QED BY <2>1, <2>2
<1>7. OpOK(q)'
  BY <1>6 DEF OpOK, Holds
<1>8. \A v \in Workers \ {w} :
          /\ op[v].pc = "insert" => op[v].id \in files'
          /\ op[v].pc \in {"insert", "drop_file"} => rows'[op[v].id] = None
          /\ Apart(q, op[v]) /\ Apart(op[v], q)
  <2> SUFFICES ASSUME NEW v \in Workers \ {w}
               PROVE  /\ op[v].pc = "insert" => op[v].id \in files'
                      /\ op[v].pc \in {"insert", "drop_file"} => rows'[op[v].id] = None
                      /\ Apart(q, op[v]) /\ Apart(op[v], q)
    OBVIOUS
  <2>1. OpOK(op[v]) /\ Apart(s, op[v]) /\ rows \in [Ids -> RowTypes \cup {None}]
    BY DEF RepositoryInv, OpsOK, RepositoryTypes
  <2>2. op[v].pc \in {"insert", "drop_file"} =>
            op[v].id \in Ids /\ rows[op[v].id] = None /\ op[v].id # s.id
    BY <1>1, <2>1 DEF OpOK, Holds, Row, Apart
  <2> QED BY <1>3, <1>4, <1>6, <2>1, <2>2 DEF OpOK, Holds, Apart
<1>9. op' \in [Workers -> OpTypes] /\ OpsOK'
  <2>1. used <= used' /\ used' \in Nat
    BY <1>3 DEF RepositoryInv, RepositoryTypes
  <2>2. op' = [op EXCEPT ![w] = q]
    BY <1>4, <1>5
  <2> QED BY <1>3, <1>6, <1>7, <1>8, <2>1, <2>2, OthersStand
<1>10. RepositoryTypes'
  <2>1. [content |-> s.content, mapped |-> mapped] \in RowTypes
    BY <1>1 DEF OpTypes, RowTypes
  <2> QED BY <1>3, <1>4, <1>9, <2>1 DEF RepositoryInv, RepositoryTypes
<1>11. CvRowsOK'
  <2>1. \A i \in Ids : i # s.id => rows'[i] = rows[i]
    BY <1>4 DEF RepositoryInv, RepositoryTypes
  <2>2. rows'[s.id].content = s.content
    BY <1>2, <1>4 DEF RepositoryInv, RepositoryTypes
  <2> QED BY <1>2, <1>3, <2>1, <2>2 DEF RepositoryInv, CvRowsOK, Row
<1>12. MailsReadOK'
  BY <1>3 DEF RepositoryInv, MailsReadOK, BroughtIn
<1> QED BY <1>9, <1>10, <1>11, <1>12 DEF RepositoryInv

LEMMA RelinkKeepsInv ==
    ASSUME RepositoryInv, NEW w \in Workers, Relink(w) PROVE RepositoryInv'
<1> DEFINE s == op[w]
<1>1. s \in OpTypes /\ s.pc = "relink" /\ OpOK(s)
  BY DEF Relink, RepositoryInv, RepositoryTypes, OpsOK
<1> PICK q : q = [s EXCEPT !.pc = "attach"]
  OBVIOUS
<1>2. op' = [op EXCEPT ![w] = q] /\ UNCHANGED <<unread, files, used, ever>>
  BY DEF Relink, Step
<1>3. q \in OpTypes /\ q.pc = "attach" /\ q.how # "gmail"
  BY <1>1 DEF OpTypes, OpOK, Polling
<1>4. /\ rows' \in [Ids -> RowTypes \cup {None}]
      /\ \A i \in Ids : ~Row(i) => rows'[i] = None
      /\ \A i \in Ids : Row(i) => rows'[i].content = rows[i].content
  <2>1. CASE ~Row(s.id)
    BY <2>1 DEF Relink, RepositoryInv, RepositoryTypes, Row
  <2>2. CASE Row(s.id)
    <3>1. rows' = [rows EXCEPT ![s.id] = [rows[s.id] EXCEPT !.mapped = TRUE]]
      BY <2>2 DEF Relink
    <3>2. \A i \in Ids : Row(i) => rows[i] \in RowTypes
      BY DEF RepositoryInv, RepositoryTypes, Row
    <3>3. \A t \in RowTypes :
              [t EXCEPT !.mapped = TRUE] \in RowTypes
              /\ [t EXCEPT !.mapped = TRUE].content = t.content
      BY DEF RowTypes
    <3>4. PICK t : t = [rows[s.id] EXCEPT !.mapped = TRUE]
      OBVIOUS
    <3>5. s.id \in Ids => t \in RowTypes /\ t.content = rows[s.id].content
      BY <2>2, <3>2, <3>3, <3>4
    <3>6. rows' = [rows EXCEPT ![s.id] = t]
      BY <3>1, <3>4
    <3> QED BY <2>2, <3>5, <3>6 DEF RepositoryInv, RepositoryTypes, Row
  <2> QED BY <2>1, <2>2
<1>5. OpOK(q)'
  BY <1>3 DEF OpOK, Holds
<1>6. \A v \in Workers \ {w} :
          /\ op[v].pc = "insert" => op[v].id \in files'
          /\ op[v].pc \in {"insert", "drop_file"} => rows'[op[v].id] = None
          /\ Apart(q, op[v]) /\ Apart(op[v], q)
  BY <1>2, <1>3, <1>4 DEF RepositoryInv, OpsOK, OpOK, Holds, Apart
<1>7. op' \in [Workers -> OpTypes] /\ OpsOK'
  <2>1. used <= used' /\ used' \in Nat /\ ever \subseteq ever'
    BY <1>2 DEF RepositoryInv, RepositoryTypes
  <2> QED BY <1>2, <1>3, <1>5, <1>6, <2>1, OthersStand
<1> QED BY <1>2, <1>4, <1>7
        DEF RepositoryInv, RepositoryTypes, CvRowsOK, MailsReadOK, Row, BroughtIn

LEMMA AttachKeepsInv ==
    ASSUME RepositoryInv, NEW w \in Workers, Attach(w) PROVE RepositoryInv'
<1>1. op[w].pc = "attach" /\ OpOK(op[w])
  BY DEF Attach, RepositoryInv, OpsOK
<1>2. op[w].how # "gmail"
  BY <1>1 DEF OpOK, Polling
<1>3. op' = [op EXCEPT ![w] = Idle] /\ UNCHANGED <<unread, rows, files, used, ever>>
  BY <1>2 DEF Attach, Step, Done
<1> QED BY <1>3, IdleFine, QuietKeepsInv

LEMMA PortalUploadKeepsInv ==
    ASSUME RepositoryInv, NEW w \in Workers, PortalUpload(w) PROVE RepositoryInv'
<1> DEFINE r == [Idle EXCEPT !.pc = "save", !.how = "portal"]
<1>1. r \in OpTypes /\ r.pc = "save" /\ r.how # "gmail"
  BY DEF OpTypes, Idle
<1>2. OpOK(r)
  BY <1>1 DEF OpOK, Holds
<1>3. op' = [op EXCEPT ![w] = r] /\ UNCHANGED <<unread, rows, files, used, ever>>
  BY DEF PortalUpload, Step
<1> QED BY <1>1, <1>2, <1>3, QuietKeepsInv

LEMMA MapByLlmNameKeepsInv ==
    ASSUME RepositoryInv, NEW w \in Workers, NEW i \in Ids, MapByLlmName(w, i)
    PROVE  RepositoryInv'
<1> DEFINE r == [Idle EXCEPT !.pc = "relink", !.how = "enricher", !.id = i]
<1>1. r \in OpTypes /\ r.pc = "relink" /\ r.how # "gmail"
  BY DEF OpTypes, Idle
<1>2. OpOK(r)
  BY <1>1 DEF OpOK, Holds
<1>3. op' = [op EXCEPT ![w] = r] /\ UNCHANGED <<unread, rows, files, used, ever>>
  BY DEF MapByLlmName, Step
<1> QED BY <1>1, <1>2, <1>3, QuietKeepsInv

LEMMA ReadRowKeepsInv ==
    ASSUME RepositoryInv, NEW w \in Workers, NEW i \in Ids, ReadRow(w, i)
    PROVE  RepositoryInv'
<1> PICK r : r = [Idle EXCEPT !.pc = "drop_row", !.how = "delete", !.id = i]
  OBVIOUS
<1>1. r \in OpTypes /\ r.pc = "drop_row" /\ r.how # "gmail" /\ r.id = i
  BY DEF OpTypes, Idle
<1>2. op' = [op EXCEPT ![w] = r] /\ UNCHANGED <<unread, rows, files, used, ever>> /\ Row(i)
  BY DEF ReadRow, Step
<1>3. OpOK(r)'
  <2>1. i <= used
    BY <1>2 DEF RepositoryInv, CvRowsOK
  <2> QED BY <1>1, <1>2, <2>1 DEF OpOK, Holds
<1>4. \A v \in Workers \ {w} : OpOK(op[v]) /\ Apart(r, op[v]) /\ Apart(op[v], r)
  BY <1>1, <1>2 DEF RepositoryInv, OpsOK, OpOK, Holds, Apart
<1>5. op' \in [Workers -> OpTypes] /\ OpsOK'
  <2>1. used <= used' /\ used' \in Nat /\ ever \subseteq ever'
    BY <1>2 DEF RepositoryInv, RepositoryTypes
  <2>2. \A v \in Workers \ {w} :
            /\ op[v].pc = "insert" => op[v].id \in files'
            /\ op[v].pc \in {"insert", "drop_file"} => rows'[op[v].id] = None
    BY <1>2, <1>4 DEF OpOK, Holds, Row
  <2> QED BY <1>1, <1>2, <1>3, <1>4, <2>1, <2>2, OthersStand
<1> QED BY <1>2, <1>5 DEF RepositoryInv, RepositoryTypes, CvRowsOK, MailsReadOK, Row, BroughtIn

LEMMA DropRowKeepsInv ==
    ASSUME RepositoryInv, NEW w \in Workers, DropRow(w) PROVE RepositoryInv'
<1> DEFINE s == op[w]
<1>1. s \in OpTypes /\ s.pc = "drop_row" /\ OpOK(s) /\ s.id \in Ids /\ s.id <= used
  BY DEF DropRow, RepositoryInv, RepositoryTypes, OpsOK, OpOK, Holds
<1> PICK r : r = [s EXCEPT !.pc = "drop_file"]
  OBVIOUS
<1>2. /\ op' = [op EXCEPT ![w] = r] /\ rows' = [rows EXCEPT ![s.id] = None]
      /\ UNCHANGED <<unread, files, used, ever>>
  BY DEF DropRow, Step
<1>3. /\ r \in OpTypes /\ r.pc = "drop_file" /\ r.id = s.id
      /\ r.how # "gmail"
  BY <1>1 DEF OpTypes, OpOK, Polling
<1>4. rows' \in [Ids -> RowTypes \cup {None}] /\ \A i \in Ids : rows'[i] \in {rows[i], None}
  BY <1>1, <1>2 DEF RepositoryInv, RepositoryTypes
<1>5. OpOK(r)'
  <2>1. rows'[s.id] = None
    BY <1>1, <1>2 DEF RepositoryInv, RepositoryTypes
  <2> QED BY <1>1, <1>2, <1>3, <2>1 DEF OpOK, Holds, Row
<1>6. \A v \in Workers \ {w} :
          /\ op[v].pc = "insert" => op[v].id \in files'
          /\ op[v].pc \in {"insert", "drop_file"} => rows'[op[v].id] = None
          /\ Apart(r, op[v]) /\ Apart(op[v], r)
  <2> SUFFICES ASSUME NEW v \in Workers \ {w}
               PROVE  /\ op[v].pc = "insert" => op[v].id \in files'
                      /\ op[v].pc \in {"insert", "drop_file"} => rows'[op[v].id] = None
                      /\ Apart(r, op[v]) /\ Apart(op[v], r)
    OBVIOUS
  <2>1. OpOK(op[v]) /\ Apart(op[v], s)
    BY DEF RepositoryInv, OpsOK
  <2> QED BY <1>1, <1>2, <1>3, <1>4, <2>1 DEF OpOK, Holds, Apart, Row
<1>7. op' \in [Workers -> OpTypes] /\ OpsOK'
  <2>1. used <= used' /\ used' \in Nat /\ ever \subseteq ever'
    BY <1>2 DEF RepositoryInv, RepositoryTypes
  <2> QED BY <1>2, <1>3, <1>5, <1>6, <2>1, OthersStand
<1>8. CvRowsOK'
  BY <1>2, <1>4 DEF RepositoryInv, CvRowsOK, Row
<1> QED BY <1>2, <1>4, <1>7, <1>8 DEF RepositoryInv, RepositoryTypes, MailsReadOK, BroughtIn

(* The file goes when its row is gone, and nobody is about to insert it.   *)
LEMMA DropFileKeepsInv ==
    ASSUME RepositoryInv, NEW w \in Workers, DropFile(w) PROVE RepositoryInv'
<1> DEFINE s == op[w]
<1>1. s.pc = "drop_file" /\ OpOK(s) /\ s.id \in Ids /\ rows[s.id] = None
  BY DEF DropFile, RepositoryInv, OpsOK, OpOK, Holds, Row
<1>2. /\ op' = [op EXCEPT ![w] = Idle] /\ files' = files \ {s.id}
      /\ UNCHANGED <<unread, rows, used, ever>>
  BY DEF DropFile, Step
<1>3. OpOK(Idle)' /\ Idle \in OpTypes
  BY IdleFine DEF OpOK, Holds, Idle
<1>4. \A v \in Workers \ {w} :
          /\ op[v].pc = "insert" => op[v].id \in files'
          /\ op[v].pc \in {"insert", "drop_file"} => rows'[op[v].id] = None
          /\ Apart(Idle, op[v]) /\ Apart(op[v], Idle)
  <2> SUFFICES ASSUME NEW v \in Workers \ {w}
               PROVE  /\ op[v].pc = "insert" => op[v].id \in files'
                      /\ op[v].pc \in {"insert", "drop_file"} => rows'[op[v].id] = None
                      /\ Apart(Idle, op[v]) /\ Apart(op[v], Idle)
    OBVIOUS
  <2>1. OpOK(op[v]) /\ Apart(op[v], s)
    BY DEF RepositoryInv, OpsOK
  <2> QED BY <1>1, <1>2, <2>1, IdleFine DEF OpOK, Holds, Apart, Row
<1>5. op' \in [Workers -> OpTypes] /\ OpsOK'
  <2>1. used <= used' /\ used' \in Nat /\ ever \subseteq ever'
    BY <1>2 DEF RepositoryInv, RepositoryTypes
  <2> QED BY <1>2, <1>3, <1>4, <2>1, OthersStand
<1>6. CvRowsOK'
  BY <1>1, <1>2 DEF RepositoryInv, CvRowsOK, Row
<1> QED BY <1>2, <1>5, <1>6 DEF RepositoryInv, RepositoryTypes, MailsReadOK, BroughtIn

(* A failed mail is none of those to be marked.                            *)
LEMMA FailsKeepsInv ==
    ASSUME RepositoryInv, NEW w \in Workers, Fails(w) PROVE RepositoryInv'
<1> DEFINE s == op[w]
<1>1. s \in OpTypes /\ s.pc \notin {"idle", "mail"} /\ OpOK(s)
  BY DEF Fails, RepositoryInv, RepositoryTypes, OpsOK
<1>2. UNCHANGED <<unread, rows, files, used, ever>>
  BY DEF Fails
<1>3. CASE s.how = "gmail"
  <2> PICK r : r = MailFails(w)
    OBVIOUS
  <2>1. /\ r \in OpTypes /\ r.pc = "mail" /\ r.how = "gmail" /\ r.mails = s.mails
        /\ r.good = s.good \ {s.mail}
    BY <1>1, <1>3 DEF MailFails, OpTypes
  <2>2. Polling(ever, r)
    BY <1>1, <1>3, <2>1 DEF OpOK, Polling, InMail
  <2>3. OpOK(r)
    BY <2>1, <2>2 DEF OpOK, Holds
  <2>4. op' = [op EXCEPT ![w] = r]
    BY <1>3 DEF Fails, Step
  <2> QED BY <1>2, <2>1, <2>3, <2>4, QuietKeepsInv
<1>4. CASE s.how # "gmail"
  <2>1. op' = [op EXCEPT ![w] = Idle]
    BY <1>4 DEF Fails, Step
  <2> QED BY <1>2, <2>1, IdleFine, QuietKeepsInv
<1> QED BY <1>3, <1>4

LEMMA EndsKeepsInv ==
    ASSUME RepositoryInv, NEW w \in Workers, Ends(w) PROVE RepositoryInv'
<1>1. op' = [op EXCEPT ![w] = Idle] /\ UNCHANGED <<unread, rows, files, used, ever>>
  BY DEF Ends, Step
<1> QED BY <1>1, IdleFine, QuietKeepsInv

LEMMA RepositoryStep ==
    ASSUME RepositoryInv, [Next]_vars PROVE RepositoryInv'
<1>1. CASE UNCHANGED vars
  BY <1>1 DEF vars, RepositoryInv, RepositoryTypes, OpsOK, OpOK, Holds, Apart, Polling, InMail,
              BroughtIn, CvRowsOK, MailsReadOK, Row
<1>2. CASE Next
  <2> PICK w \in Workers :
          \/ Fetch(w) \/ NextMail(w) \/ Mark(w) \/ CheckHash(w) \/ Save(w) \/ Insert(w)
          \/ Relink(w) \/ Attach(w) \/ PortalUpload(w) \/ DropRow(w) \/ DropFile(w)
          \/ Fails(w) \/ Ends(w)
          \/ \E c \in Contents, how \in {"scan", "application"} : HandIn(w, c, how)
          \/ \E i \in Ids : MapByLlmName(w, i) \/ ReadRow(w, i)
    BY <1>2 DEF Next, ScanMessage, FolderFile, UploadCv, Apply, CampusResume, Backfill
  <2>1. CASE Fetch(w) \/ NextMail(w) \/ Mark(w)
    BY <2>1, FetchKeepsInv, NextMailKeepsInv, MarkKeepsInv
  <2>2. CASE CheckHash(w) \/ Save(w) \/ Insert(w) \/ Relink(w) \/ Attach(w)
    BY <2>2, CheckHashKeepsInv, SaveKeepsInv, InsertKeepsInv, RelinkKeepsInv, AttachKeepsInv
  <2>3. CASE PortalUpload(w) \/ DropRow(w) \/ DropFile(w) \/ Fails(w) \/ Ends(w)
    BY <2>3, PortalUploadKeepsInv, DropRowKeepsInv, DropFileKeepsInv, FailsKeepsInv,
       EndsKeepsInv
  <2>4. CASE \E c \in Contents, how \in {"scan", "application"} : HandIn(w, c, how)
    BY <2>4, HandInKeepsInv
  <2>5. CASE \E i \in Ids : MapByLlmName(w, i) \/ ReadRow(w, i)
    BY <2>5, MapByLlmNameKeepsInv, ReadRowKeepsInv
  <2> QED BY <2>1, <2>2, <2>3, <2>4, <2>5
<1> QED BY <1>1, <1>2

LEMMA InvHolds == Spec => []RepositoryInv
<1>1. Init => RepositoryInv
  BY RepositoryInit
<1>2. RepositoryInv /\ [Next]_vars => RepositoryInv'
  BY RepositoryStep
<1> QED BY <1>1, <1>2, PTL DEF Spec

-----------------------------------------------------------------------------
\* serve_cv_file finds the file of every row, whichever statements failed and whoever deleted in
\* between, for any number of workers and files.
THEOREM RowAlwaysHasFile == Spec => []RowHasFile
<1>1. RepositoryInv => RowHasFile
  BY DEF RepositoryInv, CvRowsOK, RowHasFile
<1> QED BY <1>1, InvHolds, PTL

\* _run_one_poll_cycle marks no mail as read whose resumes have not all been in the repository, for
\* any mails and attachments, any of which may fail.
THEOREM MarkedIsIngested == Spec => []ReadMeansIngested
<1>1. RepositoryInv => ReadMeansIngested
  BY DEF RepositoryInv, MailsReadOK, BroughtIn, ReadMeansIngested
<1> QED BY <1>1, InvHolds, PTL

-----------------------------------------------------------------------------
(* The scans of a mailbox (MailboxScan). *)

Items == Mails \cup Files
Scanning == [pc : {"idle", "begun", "search", "ask", "walk", "end", "report"},
             since : Nat \cup {None}, left : SUBSET Items, item : Items \cup {None},
             began : Nat \cup {None}, from : Int \cup {None}, cancelled : BOOLEAN]
JobRows == [status : {"running", "done", "cancelled"}, cancel : BOOLEAN]

ScanTypes ==
    /\ day \in Nat
    /\ arrived \in [Mails -> Nat \cup {None}]
    /\ checkpoint \in Nat \cup {None}
    /\ first \in Int \cup {None}
    /\ paused \in BOOLEAN
    /\ job \in [M!Jobs -> JobRows]
    /\ scan \in [M!Scanners -> Scanning]
    /\ after \in [M!Scanners -> Nat]

\* Told to stop, a scanner has finished at most one item, and none while it is still at one;
\* not told, it has none to its account.
StoppingOK(s, r) ==
    /\ M!ShouldStop(s) => after[s] <= 1 /\ (r.pc = "walk" => after[s] = 0)
    /\ ~M!ShouldStop(s) => after[s] = 0

\* The items a scan has still to walk, and the first day it answers for: its own window's, unless
\* a window has been covered already.
Left(r) == r.left \cup (IF r.pc = "walk" THEN {r.item} ELSE {})
From(r) == IF first = None THEN r.from ELSE first

\* A scan reads the checkpoint when it begins: it has only moved on since, and where there was
\* none, not to before the beginning.
ReadOK(r) ==
    IF r.since = None THEN checkpoint # None => checkpoint >= r.began
    ELSE checkpoint # None /\ r.since <= checkpoint

\* What arrived before the scan began, from the first day it answers for, has been or will be
\* walked.
CoverOK(r) ==
    /\ first = None => r.from \in Int /\ r.from <= day - Lookback
    /\ \A m \in Mails :
          arrived[m] # None /\ arrived[m] < r.began /\ arrived[m] >= From(r)
              => m \in walked \cup Left(r)
    /\ r.pc = "end" => r.left = {}

WindowOK(s, r) ==
    s \notin FolderJobs /\ r.pc # "idle" =>
        /\ r.began \in Nat /\ r.began <= day /\ day - r.began <= Buffer
        /\ r.pc \in {"begun", "search"} => ReadOK(r)
        /\ r.pc \in {"ask", "walk", "end"} /\ ~r.cancelled => CoverOK(r)

DaysOK ==
    /\ \A m \in Mails : arrived[m] # None => arrived[m] <= day
    /\ checkpoint # None => checkpoint <= day
    /\ checkpoint = None <=> first = None

ScanInv ==
    /\ ScanTypes /\ DaysOK
    /\ \A s \in M!Scanners : StoppingOK(s, scan[s]) /\ WindowOK(s, scan[s])
    /\ M!WindowCovers

LEMMA NoneIsNoNumber == None \notin Int /\ None \notin Nat
  BY IntakeConstants DEF M!ScanAssumption

LEMMA ScanInit == M!Init => ScanInv
<1> SUFFICES ASSUME M!Init PROVE ScanInv
  OBVIOUS
<1>1. M!Idle \in Scanning /\ M!Idle.pc = "idle"
  BY DEF M!Idle, Scanning
<1>2. [status |-> "done", cancel |-> FALSE] \in JobRows
  BY DEF JobRows
<1>3. ScanTypes
  BY <1>1, <1>2 DEF M!Init, ScanTypes
<1>4. \A s \in M!Scanners : StoppingOK(s, scan[s]) /\ WindowOK(s, scan[s])
  BY <1>1 DEF M!Init, StoppingOK, WindowOK
<1> QED
  BY <1>3, <1>4 DEF M!Init, ScanInv, DaysOK, M!WindowCovers

\* What a scanner is at when a scan begins.
LEMMA Beginning ==
    ASSUME NEW since \in Nat \cup {None}, NEW began \in Nat
    PROVE  /\ [M!Idle EXCEPT !.pc = "begun", !.since = since, !.began = began] \in
                  [pc : {"begun"}, since : {since}, left : {{}}, item : {None}, began : {began},
                   from : {None}, cancelled : {FALSE}]
           /\ [M!Idle EXCEPT !.pc = "begun"] \in
                  [pc : {"begun"}, since : {None}, left : {{}}, item : {None}, began : {None},
                   from : {None}, cancelled : {FALSE}]
BY DEF M!Idle

\* The rows of the scanners after each kind of step, as one record each.
LEMMA ScanRows ==
    ASSUME ScanTypes, NEW s \in M!Scanners
    PROVE  /\ scan[s] = [pc |-> scan[s].pc, since |-> scan[s].since, left |-> scan[s].left,
                         item |-> scan[s].item, began |-> scan[s].began, from |-> scan[s].from,
                         cancelled |-> scan[s].cancelled]
           /\ scan[s] \in Scanning
  BY DEF ScanTypes, Scanning

\* A step of scanner s alone, which moves neither the day nor the checkpoint.
LEMMA ScannerMoves ==
    ASSUME ScanInv, NEW s \in M!Scanners, NEW x \in Scanning, scan' = [scan EXCEPT ![s] = x],
           UNCHANGED <<day, arrived, checkpoint, paused, first>>,
           job' \in [M!Jobs -> JobRows], after' \in [M!Scanners -> Nat],
           \A t \in M!Scanners : t # s =>
               after'[t] = after[t] /\ (M!ShouldStop(t)' <=> M!ShouldStop(t)),
           walked \subseteq walked', StoppingOK(s, x)', WindowOK(s, x)'
    PROVE  ScanInv'
<1>1. ScanTypes'
  BY DEF ScanInv, ScanTypes
<1>2. DaysOK' /\ M!WindowCovers'
  BY DEF ScanInv, DaysOK, M!WindowCovers
<1>3. ASSUME NEW t \in M!Scanners PROVE StoppingOK(t, scan[t])' /\ WindowOK(t, scan[t])'
  <2>1. CASE t = s
    <3>1. scan'[t] = x
      BY <2>1 DEF ScanInv, ScanTypes
    <3> QED
      BY <2>1, <3>1 DEF StoppingOK, WindowOK, ReadOK, CoverOK, From, Left
  <2>2. CASE t # s
    <3>1. scan'[t] = scan[t] /\ StoppingOK(t, scan[t]) /\ WindowOK(t, scan[t])
      BY <2>2 DEF ScanInv, ScanTypes
    <3>2. StoppingOK(t, scan[t])'
      BY <2>2, <3>1 DEF StoppingOK
    <3>3. WindowOK(t, scan[t])'
      BY <3>1 DEF WindowOK, ReadOK, CoverOK, From, Left
    <3> QED
      BY <3>2, <3>3
  <2> QED
    BY <2>1, <2>2
<1> QED
  BY <1>1, <1>2, <1>3 DEF ScanInv

\* A scan that ends is nobody's concern any more.
LEMMA ScanEnds ==
    ASSUME ScanInv, NEW s \in M!Scanners,
           M!LoginFails(s) \/ M!Breaks(s) \/ M!Report(s) \/ M!Die(s)
    PROVE  ScanInv'
<1>1. M!Idle \in Scanning /\ M!Idle.pc = "idle"
  BY DEF M!Idle, Scanning
<1>2. /\ scan' = [scan EXCEPT ![s] = M!Idle]
      /\ UNCHANGED <<day, arrived, checkpoint, paused, first, walked, after>>
  BY DEF M!LoginFails, M!Breaks, M!Report, M!Die
<1>3. /\ job' \in [M!Jobs -> JobRows]
      /\ \A j \in M!Jobs : job'[j].cancel = job[j].cancel
  <2>1. ASSUME NEW status \in {"running", "done", "cancelled"}, s \in M!Jobs,
               job' = [job EXCEPT ![s].status = status]
        PROVE  /\ job' \in [M!Jobs -> JobRows]
               /\ \A j \in M!Jobs : job'[j].cancel = job[j].cancel
    <3>1. job[s] \in JobRows
      BY <2>1 DEF ScanInv, ScanTypes
    <3>2. /\ [job[s] EXCEPT !.status = status] \in JobRows
          /\ [job[s] EXCEPT !.status = status].cancel = job[s].cancel
      BY <3>1 DEF JobRows
    <3> QED
      BY <2>1, <3>2 DEF ScanInv, ScanTypes
  <2>2. CASE job' = job
    BY <2>2 DEF ScanInv, ScanTypes
  <2> QED
    BY <2>1, <2>2 DEF M!LoginFails, M!Breaks, M!Report, M!Die
<1>4. \A t \in M!Scanners : M!ShouldStop(t)' <=> M!ShouldStop(t)
  BY <1>2, <1>3 DEF M!ShouldStop
<1>5. StoppingOK(s, M!Idle)'
  BY <1>1, <1>2, <1>4 DEF StoppingOK, ScanInv
<1>6. WindowOK(s, M!Idle)'
  BY <1>1 DEF WindowOK
<1>7. after' \in [M!Scanners -> Nat]
  BY <1>2 DEF ScanInv, ScanTypes
<1> QED
  BY <1>1, <1>2, <1>3, <1>4, <1>5, <1>6, <1>7, ScannerMoves

\* A scan begins with the checkpoint it has read.
LEMMA ScanBegins ==
    ASSUME ScanInv, M!BeginPoll \/ (\E j \in M!Jobs : M!BeginJob(j))
    PROVE  ScanInv'
<1>1. UNCHANGED <<day, arrived, checkpoint, paused, first, walked, after, job>>
  BY DEF M!BeginPoll, M!BeginJob
<1>2. ASSUME NEW s \in M!Scanners, NEW x \in Scanning, scan' = [scan EXCEPT ![s] = x],
             x.pc = "begun", s \notin FolderJobs => x.since = checkpoint /\ x.began = day
      PROVE  ScanInv'
  <2>1. \A t \in M!Scanners : M!ShouldStop(t)' <=> M!ShouldStop(t)
    BY <1>1 DEF M!ShouldStop
  <2>2. StoppingOK(s, x)'
    BY <1>1, <1>2, <2>1 DEF StoppingOK, ScanInv
  <2>3. WindowOK(s, x)'
    BY <1>1, <1>2, IntakeConstants
       DEF WindowOK, ReadOK, ScanInv, ScanTypes, DaysOK, M!ScanAssumption
  <2>4. job' \in [M!Jobs -> JobRows] /\ after' \in [M!Scanners -> Nat]
    BY <1>1 DEF ScanInv, ScanTypes
  <2> QED
    BY <1>1, <1>2, <2>1, <2>2, <2>3, <2>4, ScannerMoves
<1>3. /\ checkpoint \in Nat \cup {None} /\ day \in Nat
      /\ "poller" \in M!Scanners /\ M!Jobs \subseteq M!Scanners
  BY DEF ScanInv, ScanTypes, M!Scanners
<1> DEFINE b == [M!Idle EXCEPT !.pc = "begun", !.since = checkpoint, !.began = day]
           f == [M!Idle EXCEPT !.pc = "begun"]
<1>4. /\ b \in [pc : {"begun"}, since : {checkpoint}, left : {{}}, item : {None},
                began : {day}, from : {None}, cancelled : {FALSE}]
      /\ f \in [pc : {"begun"}, since : {None}, left : {{}}, item : {None}, began : {None},
                from : {None}, cancelled : {FALSE}]
  BY <1>3, Beginning
<1>5. M!BeginPoll => scan' = [scan EXCEPT !["poller"] = b]
  BY DEF M!BeginPoll
<1>6. ASSUME NEW j \in M!Jobs, M!BeginJob(j)
      PROVE  \/ scan' = [scan EXCEPT ![j] = b]
             \/ j \in FolderJobs /\ scan' = [scan EXCEPT ![j] = f]
  BY <1>6 DEF M!BeginJob, M!Jobs
<1> HIDE DEF b, f
<1>7. b \in Scanning /\ b.pc = "begun" /\ b.since = checkpoint /\ b.began = day
  BY <1>3, <1>4 DEF Scanning
<1>8. f \in Scanning /\ f.pc = "begun"
  BY <1>4 DEF Scanning
<1> QED
  BY <1>2, <1>3, <1>5, <1>6, <1>7, <1>8

\* From the beginning to the search: the poller asks, a job gets its row.
LEMMA ScanOpens ==
    ASSUME ScanInv, M!OpenPoll \/ (\E j \in M!Jobs : M!InsertJob(j))
    PROVE  ScanInv'
<1>1. "poller" \in M!Scanners /\ M!Jobs \subseteq M!Scanners
  BY DEF M!Scanners
<1>2. PICK s \in M!Scanners :
          /\ scan[s].pc = "begun"
          /\ \/ s = "poller" /\ M!OpenPoll
             \/ s \in M!Jobs /\ M!InsertJob(s)
  BY <1>1 DEF M!OpenPoll, M!InsertJob
<1>3. PICK r, x : r = scan[s] /\ x = [r EXCEPT !.pc = "search"]
  OBVIOUS
<1>4. r \in Scanning /\ UNCHANGED <<day, arrived, checkpoint, paused, first, walked>>
  BY <1>2, <1>3 DEF ScanInv, ScanTypes, M!OpenPoll, M!InsertJob
<1>5. x \in Scanning /\ x.pc = "search" /\ x.since = r.since /\ x.began = r.began
  BY <1>4, <1>3 DEF Scanning
<1>6. M!Idle \in Scanning /\ M!Idle.pc = "idle"
  BY DEF M!Idle, Scanning
<1>7. WindowOK(s, x)' /\ WindowOK(s, M!Idle)'
  <2>1. WindowOK(s, r)
    BY <1>3 DEF ScanInv
  <2> QED
    BY <1>2, <1>4, <1>5, <1>6, <1>3, <2>1 DEF WindowOK, ReadOK
<1>8. CASE s = "poller" /\ M!OpenPoll
  <2>1. UNCHANGED <<job, after>>
    BY <1>8 DEF M!OpenPoll
  <2>2. \A t \in M!Scanners : M!ShouldStop(t)' <=> M!ShouldStop(t)
    BY <1>4, <2>1 DEF M!ShouldStop
  <2>3. StoppingOK(s, x)' /\ StoppingOK(s, M!Idle)'
    BY <1>5, <1>6, <2>1, <2>2 DEF StoppingOK, ScanInv
  <2>4. job' \in [M!Jobs -> JobRows] /\ after' \in [M!Scanners -> Nat]
    BY <2>1 DEF ScanInv, ScanTypes
  <2>5. scan' = [scan EXCEPT ![s] = x] \/ scan' = [scan EXCEPT ![s] = M!Idle]
    BY <1>8, <1>3 DEF M!OpenPoll
  <2> QED
    BY <1>4, <1>5, <1>6, <1>7, <2>1, <2>2, <2>3, <2>4, <2>5, ScannerMoves
<1>9. CASE s \in M!Jobs /\ M!InsertJob(s)
  <2>1. /\ job' = [job EXCEPT ![s] = [status |-> "running", cancel |-> FALSE]]
        /\ after' = [after EXCEPT ![s] = 0]
        /\ scan' = [scan EXCEPT ![s] = x]
    BY <1>9, <1>3 DEF M!InsertJob
  <2>2. [status |-> "running", cancel |-> FALSE] \in JobRows
    BY DEF JobRows
  <2>3. job' \in [M!Jobs -> JobRows] /\ after' \in [M!Scanners -> Nat]
    BY <1>9, <2>1, <2>2 DEF ScanInv, ScanTypes
  <2>4. \A t \in M!Scanners : t # s =>
            after'[t] = after[t] /\ (M!ShouldStop(t)' <=> M!ShouldStop(t))
    BY <1>4, <2>1 DEF ScanInv, ScanTypes, M!ShouldStop
  <2>5. after'[s] = 0
    BY <2>1 DEF ScanInv, ScanTypes
  <2>6. StoppingOK(s, x)'
    BY <1>5, <2>5 DEF StoppingOK
  <2> QED
    BY <1>4, <1>5, <1>7, <2>1, <2>3, <2>4, <2>6, ScannerMoves
<1> QED
  BY <1>2, <1>8, <1>9

\* The step of a scanner that changes nothing but what it is at, and walks no item.
LEMMA ScannerGoes ==
    ASSUME ScanInv, NEW s \in M!Scanners, NEW x \in Scanning, scan' = [scan EXCEPT ![s] = x],
           UNCHANGED <<day, arrived, checkpoint, paused, first, job, walked, after>>,
           x.pc = "walk" => ~M!ShouldStop(s), WindowOK(s, x)
    PROVE  ScanInv'
<1>1. \A t \in M!Scanners : M!ShouldStop(t)' <=> M!ShouldStop(t)
  BY DEF M!ShouldStop
<1>2. StoppingOK(s, x)'
  BY <1>1 DEF StoppingOK, ScanInv
<1>3. WindowOK(s, x)'
  BY DEF WindowOK, ReadOK, CoverOK, From, Left
<1>4. job' \in [M!Jobs -> JobRows] /\ after' \in [M!Scanners -> Nat]
  BY DEF ScanInv, ScanTypes
<1> QED
  BY <1>1, <1>2, <1>3, <1>4, ScannerMoves

\* The search finds what arrived since the day its window begins, and what arrived before that day
\* has been walked, if there has been a window before.
LEMMA SearchStep == ASSUME ScanInv, NEW s \in M!Scanners, M!Search(s) PROVE ScanInv'
<1> DEFINE r == scan[s]
           cutoff == M!Cutoff(r.since)
           from == IF first = None THEN cutoff ELSE None
           x == [r EXCEPT !.pc = "ask", !.left = M!Found(cutoff), !.from = from, !.since = None]
<1>1. /\ r \in Scanning /\ r.pc = "search" /\ s \notin FolderJobs /\ WindowOK(s, r)
      /\ UNCHANGED <<day, arrived, checkpoint, paused, first, job, walked, after>>
  BY DEF ScanInv, ScanTypes, M!Search
<1>2. r.began \in Nat /\ r.began <= day /\ day - r.began <= Buffer /\ ReadOK(r)
  BY <1>1 DEF WindowOK
<1>3. Lookback \in Nat /\ Buffer \in Nat /\ Lookback >= 2 * Buffer /\ None \notin Int
  BY IntakeConstants DEF M!ScanAssumption
<1>4. /\ day \in Nat /\ checkpoint \in Nat \cup {None} /\ first \in Int \cup {None}
      /\ arrived \in [Mails -> Nat \cup {None}]
      /\ checkpoint = None <=> first = None
  BY DEF ScanInv, ScanTypes, DaysOK
<1>5. cutoff \in Int /\ (r.since = None => cutoff = day - Lookback)
      /\ (r.since # None => r.since \in Nat /\ cutoff = r.since - Buffer)
  BY <1>1, <1>3, <1>4 DEF M!Cutoff, Scanning
<1>6. M!Found(cutoff) = {m \in Mails : arrived[m] # None /\ arrived[m] >= cutoff}
  BY DEF M!Found
<1>7. x \in [pc : {"ask"}, since : {None}, left : {M!Found(cutoff)}, item : {r.item},
             began : {r.began}, from : {from}, cancelled : {r.cancelled}]
  BY <1>1 DEF Scanning
<1>8. scan' = [scan EXCEPT ![s] = x]
  BY DEF M!Search
<1> HIDE DEF x
<1>9. x \in Scanning /\ x.pc = "ask" /\ x.began = r.began /\ x.left = M!Found(cutoff)
      /\ x.from = from
  <2>1. M!Found(cutoff) \in SUBSET Items /\ from \in Int \cup {None}
    BY <1>5, <1>6 DEF Items
  <2> QED
    BY <1>1, <1>7, <2>1 DEF Scanning
<1>10. ASSUME NEW m \in Mails, arrived[m] # None, arrived[m] < r.began, arrived[m] >= From(x)
       PROVE  m \in walked \cup M!Found(cutoff)
  <2>1. arrived[m] \in Nat
    BY <1>4, <1>10
  <2>2. CASE arrived[m] >= cutoff
    BY <1>6, <1>10, <2>2
  <2>3. CASE ~(arrived[m] >= cutoff)
    <3>1. first # None
      BY <1>5, <1>9, <1>10, <2>1, <2>3 DEF From
    <3>2. checkpoint \in Nat /\ first \in Int /\ arrived[m] >= first
      BY <1>4, <1>10, <3>1 DEF From
    <3>3. cutoff <= checkpoint - Buffer
      <4>1. CASE r.since = None
        BY <1>2, <1>3, <1>4, <1>5, <3>2, <4>1 DEF ReadOK
      <4>2. CASE r.since # None
        BY <1>2, <1>3, <1>5, <3>2, <4>2 DEF ReadOK
      <4> QED
        BY <4>1, <4>2
    <3>4. arrived[m] < checkpoint - Buffer
      BY <1>3, <1>5, <2>1, <2>3, <3>2, <3>3
    <3> QED
      BY <1>3, <1>10, <3>2, <3>4 DEF ScanInv, M!WindowCovers
  <2> QED
    BY <2>2, <2>3
<1>11. CoverOK(x)
  <2>1. first = None => x.from \in Int /\ x.from <= day - Lookback
    BY <1>2, <1>3, <1>4, <1>5, <1>9 DEF ReadOK
  <2> QED
    BY <1>9, <1>10, <2>1 DEF CoverOK, Left
<1>12. WindowOK(s, x)
  BY <1>2, <1>9, <1>11 DEF WindowOK
<1> QED
  BY <1>1, <1>8, <1>9, <1>12, ScannerGoes

\* The folder has no window.
LEMMA FolderStep == ASSUME ScanInv, NEW j \in M!Jobs, M!ListFolder(j) PROVE ScanInv'
<1> DEFINE r == scan[j]
           x == [r EXCEPT !.pc = "ask", !.left = Files]
<1>1. r \in Scanning /\ j \in M!Scanners /\ j \in FolderJobs
  BY DEF ScanInv, ScanTypes, M!Scanners, M!ListFolder
<1>2. x \in [pc : {"ask"}, since : {r.since}, left : {Files}, item : {r.item}, began : {r.began},
             from : {r.from}, cancelled : {r.cancelled}]
  BY <1>1 DEF Scanning
<1>3. /\ scan' = [scan EXCEPT ![j] = x]
      /\ UNCHANGED <<day, arrived, checkpoint, paused, first, job, walked, after>>
  BY DEF M!ListFolder
<1> HIDE DEF x
<1>4. x \in Scanning /\ x.pc = "ask"
  BY <1>1, <1>2 DEF Scanning, Items
<1>5. WindowOK(j, x)
  BY <1>1 DEF WindowOK
<1> QED
  BY <1>1, <1>3, <1>4, <1>5, ScannerGoes

\* Between two items.
LEMMA AskStep == ASSUME ScanInv, NEW s \in M!Scanners, M!Ask(s) \/ M!Exhausted(s) PROVE ScanInv'
<1> DEFINE r == scan[s]
<1>1. /\ r \in Scanning /\ r.pc = "ask" /\ WindowOK(s, r)
      /\ UNCHANGED <<day, arrived, checkpoint, paused, first, job, walked, after>>
  BY DEF ScanInv, ScanTypes, M!Ask, M!Exhausted
<1>2. CASE M!Ask(s) /\ M!ShouldStop(s)
  <2> DEFINE x == [r EXCEPT !.pc = "end", !.cancelled = TRUE]
  <2>1. x \in [pc : {"end"}, since : {r.since}, left : {r.left}, item : {r.item},
               began : {r.began}, from : {r.from}, cancelled : {TRUE}]
    BY <1>1 DEF Scanning
  <2>2. scan' = [scan EXCEPT ![s] = x]
    BY <1>2 DEF M!Ask, ScanInv, ScanTypes
  <2> HIDE DEF x
  <2>3. x \in Scanning /\ x.pc = "end" /\ x.cancelled /\ x.began = r.began
    BY <1>1, <2>1 DEF Scanning
  <2>4. WindowOK(s, x)
    BY <1>1, <2>3 DEF WindowOK
  <2> QED
    BY <1>1, <2>2, <2>3, <2>4, ScannerGoes
<1>3. CASE M!Ask(s) /\ ~M!ShouldStop(s)
  <2>1. PICK i \in r.left :
            scan' = [scan EXCEPT ![s].pc = "walk", ![s].item = i, ![s].left = @ \ {i}]
    BY <1>3 DEF M!Ask
  <2> DEFINE x == [r EXCEPT !.pc = "walk", !.item = i, !.left = r.left \ {i}]
  <2>2. x \in [pc : {"walk"}, since : {r.since}, left : {r.left \ {i}}, item : {i},
               began : {r.began}, from : {r.from}, cancelled : {r.cancelled}]
    BY <1>1 DEF Scanning
  <2>3. scan' = [scan EXCEPT ![s] = x]
    BY <1>1, <2>1 DEF ScanInv, ScanTypes, Scanning
  <2> HIDE DEF x
  <2>4. /\ x \in Scanning /\ x.pc = "walk" /\ x.began = r.began /\ x.from = r.from
        /\ x.left = r.left \ {i} /\ x.item = i /\ x.cancelled = r.cancelled
    BY <1>1, <2>2 DEF Scanning
  <2>5. Left(x) = r.left /\ Left(r) = r.left
    BY <1>1, <2>4 DEF Left
  <2>6. CoverOK(r) => CoverOK(x)
    BY <2>4, <2>5 DEF CoverOK, From
  <2>7. WindowOK(s, x)
    BY <1>1, <2>4, <2>6 DEF WindowOK
  <2> QED
    BY <1>1, <1>3, <2>3, <2>4, <2>7, ScannerGoes
<1>4. CASE M!Exhausted(s)
  <2> DEFINE x == [r EXCEPT !.pc = "end"]
  <2>1. x \in [pc : {"end"}, since : {r.since}, left : {r.left}, item : {r.item},
               began : {r.began}, from : {r.from}, cancelled : {r.cancelled}]
    BY <1>1 DEF Scanning
  <2>2. scan' = [scan EXCEPT ![s] = x] /\ r.left = {}
    BY <1>4 DEF M!Exhausted
  <2> HIDE DEF x
  <2>3. /\ x \in Scanning /\ x.pc = "end" /\ x.began = r.began /\ x.from = r.from
        /\ x.left = {} /\ x.cancelled = r.cancelled
    BY <1>1, <2>1, <2>2 DEF Scanning
  <2>4. CoverOK(r) => CoverOK(x)
    BY <1>1, <2>2, <2>3 DEF CoverOK, From, Left
  <2>5. WindowOK(s, x)
    BY <1>1, <2>3, <2>4 DEF WindowOK
  <2> QED
    BY <1>1, <2>2, <2>3, <2>5, ScannerGoes
<1> QED
  BY <1>2, <1>3, <1>4

\* An item is finished: it is the only one since the scanner was told to stop.
LEMMA WalkStep == ASSUME ScanInv, NEW s \in M!Scanners, M!Walk(s) PROVE ScanInv'
<1>1. PICK r, x : r = scan[s] /\ x = [r EXCEPT !.pc = "ask", !.item = None]
  OBVIOUS
<1>2. /\ r \in Scanning /\ r.pc = "walk" /\ WindowOK(s, r) /\ StoppingOK(s, r)
      /\ UNCHANGED <<day, arrived, checkpoint, paused, first, job>>
      /\ walked' = walked \cup {r.item} /\ after \in [M!Scanners -> Nat]
      /\ scan' = [scan EXCEPT ![s] = x]
  BY <1>1 DEF ScanInv, ScanTypes, M!Walk
<1>3. x \in [pc : {"ask"}, since : {r.since}, left : {r.left}, item : {None},
             began : {r.began}, from : {r.from}, cancelled : {r.cancelled}]
  BY <1>1, <1>2 DEF Scanning
<1>4. /\ x \in Scanning /\ x.pc = "ask" /\ x.began = r.began /\ x.from = r.from
      /\ x.left = r.left /\ x.cancelled = r.cancelled
  BY <1>2, <1>3 DEF Scanning
<1>5. \A t \in M!Scanners : M!ShouldStop(t)' <=> M!ShouldStop(t)
  BY <1>2 DEF M!ShouldStop
<1>6. /\ after' = IF M!ShouldStop(s) THEN [after EXCEPT ![s] = @ + 1] ELSE after
      /\ after' \in [M!Scanners -> Nat]
      /\ \A t \in M!Scanners : t # s => after'[t] = after[t]
  BY <1>2 DEF M!Walk
<1>7. StoppingOK(s, x)'
  <2>1. CASE M!ShouldStop(s)
    <3>1. after'[s] = 1
      BY <1>2, <1>6, <2>1 DEF StoppingOK
    <3> QED
      BY <1>4, <1>5, <2>1, <3>1 DEF StoppingOK
  <2>2. CASE ~M!ShouldStop(s)
    BY <1>2, <1>4, <1>5, <1>6, <2>2 DEF StoppingOK
  <2> QED
    BY <2>1, <2>2
<1>8. CoverOK(r) => CoverOK(x)'
  <2>1. walked' \cup Left(x) = walked \cup Left(r)
    BY <1>2, <1>4 DEF Left
  <2> QED
    BY <1>2, <1>4, <2>1 DEF CoverOK, From
<1>9. WindowOK(s, x)'
  BY <1>2, <1>4, <1>8 DEF WindowOK
<1>10. job' \in [M!Jobs -> JobRows]
  BY <1>2 DEF ScanInv, ScanTypes
<1> QED
  BY <1>2, <1>4, <1>5, <1>6, <1>7, <1>9, <1>10, ScannerMoves

\* The end of a scan nobody stopped: its window is covered up to the day it began, which is not
\* before the day the next scan will look at.
LEMMA EndStep == ASSUME ScanInv, NEW s \in M!Scanners, M!MoveCheckpoint(s) PROVE ScanInv'
<1>1. PICK r, x : r = scan[s] /\ x = [r EXCEPT !.pc = "report"]
  OBVIOUS
<1>2. /\ r \in Scanning /\ r.pc = "end" /\ WindowOK(s, r) /\ StoppingOK(s, r)
      /\ UNCHANGED <<day, arrived, paused, job, walked, after>>
      /\ scan' = [scan EXCEPT ![s] = x]
  BY <1>1 DEF ScanInv, ScanTypes, M!MoveCheckpoint
<1>3. x \in [pc : {"report"}, since : {r.since}, left : {r.left}, item : {r.item},
             began : {r.began}, from : {r.from}, cancelled : {r.cancelled}]
  BY <1>1, <1>2 DEF Scanning
<1>4. x \in Scanning /\ x.pc = "report" /\ x.began = r.began
  BY <1>2, <1>3 DEF Scanning
<1>5. CASE s \in FolderJobs \/ r.cancelled
  <2>1. UNCHANGED <<checkpoint, first>>
    BY <1>1, <1>5 DEF M!MoveCheckpoint
  <2>2. WindowOK(s, x)
    BY <1>2, <1>4 DEF WindowOK
  <2> QED
    BY <1>2, <1>4, <2>1, <2>2, ScannerGoes
<1>6. CASE s \notin FolderJobs /\ ~r.cancelled
  <2>1. checkpoint' = day /\ first' = IF first = None THEN r.from ELSE first
    BY <1>1, <1>6 DEF M!MoveCheckpoint
  <2>2. /\ CoverOK(r) /\ r.left = {} /\ Left(r) = {}
        /\ r.began \in Nat /\ r.began <= day /\ day - r.began <= Buffer
    BY <1>2, <1>6 DEF WindowOK, CoverOK, Left
  <2>3. Lookback \in Nat /\ Buffer \in Nat /\ Lookback >= 2 * Buffer /\ None \notin Int
    BY IntakeConstants DEF M!ScanAssumption
  <2>4. /\ day \in Nat /\ checkpoint \in Nat \cup {None} /\ first \in Int \cup {None}
        /\ arrived \in [Mails -> Nat \cup {None}] /\ ScanTypes /\ DaysOK
    BY DEF ScanInv, ScanTypes
  <2>5. first' \in Int /\ first' = From(r) /\ checkpoint' \in Nat
        /\ first' # None /\ checkpoint' # None
    BY <2>1, <2>2, <2>3, <2>4 DEF CoverOK, From
  <2>6. M!WindowCovers'
    <3> SUFFICES ASSUME NEW m \in Mails, arrived[m] # None, arrived[m] >= first',
                        arrived[m] < day - Buffer
                 PROVE  m \in walked
      BY <1>2, <2>1 DEF M!WindowCovers
    <3>1. arrived[m] \in Nat
      BY <2>4
    <3>2. arrived[m] < r.began
      BY <2>2, <2>3, <2>4, <3>1
    <3> QED
      BY <2>2, <2>5, <3>2 DEF CoverOK
  <2>7. scan' \in [M!Scanners -> Scanning]
    BY <1>2, <1>4, <2>4 DEF ScanTypes
  <2>8. ScanTypes' /\ DaysOK'
    BY <1>2, <2>1, <2>4, <2>5, <2>7 DEF ScanTypes, DaysOK
  <2>9. ASSUME NEW t \in M!Scanners PROVE StoppingOK(t, scan[t])' /\ WindowOK(t, scan[t])'
    <3>1. CASE t = s
      <4>1. scan'[t] = x
        BY <1>2, <2>4, <3>1 DEF ScanTypes
      <4>2. StoppingOK(t, scan[t])'
        BY <1>2, <1>4, <3>1, <4>1 DEF StoppingOK, M!ShouldStop
      <4>3. WindowOK(t, scan[t])'
        BY <1>2, <1>4, <2>2, <3>1, <4>1 DEF WindowOK
      <4> QED
        BY <4>2, <4>3
    <3>2. CASE t # s
      <4>1. PICK q : q = scan[t]
        OBVIOUS
      <4>2. scan'[t] = q /\ StoppingOK(t, q) /\ WindowOK(t, q) /\ q \in Scanning
        BY <1>2, <2>4, <3>2, <4>1 DEF ScanTypes, ScanInv
      <4>3. StoppingOK(t, scan[t])'
        BY <1>2, <4>2 DEF StoppingOK, M!ShouldStop
      <4>4. ASSUME ReadOK(q), q.began \in Nat, q.began <= day PROVE ReadOK(q)'
        <5>1. q.since \in Nat \cup {None}
          BY <4>2 DEF Scanning
        <5> QED
          BY <2>1, <2>4, <2>5, <4>4, <5>1 DEF ReadOK, DaysOK
      <4>5. ASSUME CoverOK(q), q.began \in Nat, q.began <= day PROVE CoverOK(q)'
        <5>1. Left(q)' = Left(q)
          BY DEF Left
        <5>2. From(q)' = first'
          BY <2>5 DEF From
        <5>3. ASSUME NEW m \in Mails, arrived[m] # None, arrived[m] < q.began,
                     arrived[m] >= first'
              PROVE  m \in walked \cup Left(q)
          <6>1. arrived[m] \in Nat
            BY <2>4, <5>3
          <6>2. CASE arrived[m] >= From(q)
            BY <4>5, <5>3, <6>2 DEF CoverOK
          <6>3. CASE ~(arrived[m] >= From(q))
            <7>1. first = None
              BY <2>1, <5>3, <6>3 DEF From
            <7>2. q.from \in Int /\ q.from <= day - Lookback /\ From(q) = q.from
              BY <4>5, <7>1 DEF CoverOK, From
            <7>3. arrived[m] < day - Buffer
              BY <2>3, <2>4, <6>1, <6>3, <7>2
            <7>4. m \in walked'
              BY <1>2, <2>1, <2>5, <2>6, <5>3, <7>3 DEF M!WindowCovers
            <7> QED
              BY <1>2, <7>4
          <6> QED
            BY <6>2, <6>3
        <5> QED
          BY <1>2, <2>5, <4>5, <5>1, <5>2, <5>3 DEF CoverOK
      <4>6. WindowOK(t, scan[t])'
        BY <1>2, <4>2, <4>4, <4>5 DEF WindowOK
      <4> QED
        BY <4>3, <4>6
    <3> QED
      BY <3>1, <3>2
  <2> QED
    BY <2>6, <2>8, <2>9 DEF ScanInv
<1> QED
  BY <1>5, <1>6

\* Days pass and mails arrive.
LEMMA DayStep == ASSUME ScanInv, M!Tick \/ (\E m \in Mails : M!Arrive(m)) PROVE ScanInv'
<1>1. /\ UNCHANGED <<checkpoint, paused, job, scan, walked, first, after>>
      /\ day \in Nat /\ arrived \in [Mails -> Nat \cup {None}]
      /\ checkpoint \in Nat \cup {None} /\ first \in Int \cup {None}
  BY DEF M!Tick, M!Arrive, ScanInv, ScanTypes
<1>2. Lookback \in Nat /\ Buffer \in Nat /\ None \notin Int
  BY IntakeConstants DEF M!ScanAssumption
<1>3. \A s \in M!Scanners : StoppingOK(s, scan[s])'
  BY <1>1 DEF ScanInv, StoppingOK, M!ShouldStop
<1>4. CASE M!Tick
  <2>1. day' = day + 1 /\ UNCHANGED arrived
    BY <1>4 DEF M!Tick
  <2>2. ScanTypes' /\ DaysOK'
    BY <1>1, <1>2, <2>1 DEF ScanInv, ScanTypes, DaysOK
  <2>3. M!WindowCovers'
    BY <1>1, <2>1 DEF ScanInv, M!WindowCovers
  <2>4. ASSUME NEW s \in M!Scanners PROVE WindowOK(s, scan[s])'
    <3>1. PICK r : r = scan[s]
      OBVIOUS
    <3>2. WindowOK(s, r) /\ r \in Scanning /\ scan'[s] = r
      BY <1>1, <3>1 DEF ScanInv, ScanTypes
    <3>3. r.began # None => day - r.began < Buffer
      BY <1>4, <3>1 DEF M!Tick
    <3>4. CoverOK(r) => CoverOK(r)'
      BY <1>1, <1>2, <2>1 DEF CoverOK, From, Left
    <3>5. ReadOK(r) => ReadOK(r)'
      BY <1>1, <2>1 DEF ReadOK
    <3>6. r.began \in Nat => r.began # None
      BY <1>2
    <3> QED
      BY <1>1, <1>2, <2>1, <3>2, <3>3, <3>4, <3>5, <3>6 DEF WindowOK
  <2> QED
    BY <1>3, <2>2, <2>3, <2>4 DEF ScanInv
<1>5. CASE \E m \in Mails : M!Arrive(m)
  <2>1. PICK m \in Mails : M!Arrive(m)
    BY <1>5
  <2>2. day' = day /\ \A n \in Mails : arrived'[n] = IF n = m THEN day ELSE arrived[n]
    BY <1>1, <2>1 DEF M!Arrive
  <2>3. ScanTypes' /\ DaysOK'
    <3>1. arrived' \in [Mails -> Nat \cup {None}]
      BY <1>1, <2>1 DEF M!Arrive
    <3> QED
      BY <1>1, <2>2, <3>1 DEF ScanInv, ScanTypes, DaysOK
  <2>4. M!WindowCovers'
    <3> SUFFICES ASSUME checkpoint # None, NEW n \in Mails, arrived'[n] # None,
                        arrived'[n] >= first, arrived'[n] < checkpoint - Buffer
                 PROVE  n \in walked
      BY <1>1 DEF M!WindowCovers
    <3>1. n # m
      BY <1>1, <1>2, <2>2 DEF ScanInv, DaysOK
    <3> QED
      BY <2>2, <3>1 DEF ScanInv, M!WindowCovers
  <2>5. ASSUME NEW s \in M!Scanners PROVE WindowOK(s, scan[s])'
    <3>1. PICK r : r = scan[s]
      OBVIOUS
    <3>2. WindowOK(s, r) /\ scan'[s] = r
      BY <1>1, <3>1 DEF ScanInv
    <3>3. ASSUME CoverOK(r), r.began \in Nat, r.began <= day PROVE CoverOK(r)'
      <4>1. ASSUME NEW n \in Mails, arrived'[n] < r.began PROVE arrived'[n] = arrived[n]
        BY <1>1, <2>2, <3>3, <4>1
      <4> QED
        BY <1>1, <2>2, <3>3, <4>1 DEF CoverOK, From, Left
    <3>4. ReadOK(r) => ReadOK(r)'
      BY <1>1 DEF ReadOK
    <3> QED
      BY <1>1, <2>2, <3>2, <3>3, <3>4 DEF WindowOK
  <2> QED
    BY <1>3, <2>3, <2>4, <2>5 DEF ScanInv
<1> QED
  BY <1>4, <1>5

\* Somebody stops the scans, one or all, or lets them go on.
LEMMA StoppingMoves ==
    ASSUME ScanInv, UNCHANGED <<day, arrived, checkpoint, scan, walked, first>>,
           paused' \in BOOLEAN, job' \in [M!Jobs -> JobRows], after' \in [M!Scanners -> Nat],
           \A s \in M!Scanners :
               after'[s] = IF M!ShouldStop(s)' THEN after[s] ELSE 0
    PROVE  ScanInv'
<1>1. ScanTypes' /\ DaysOK' /\ M!WindowCovers'
  BY DEF ScanInv, ScanTypes, DaysOK, M!WindowCovers
<1>2. ASSUME NEW s \in M!Scanners PROVE StoppingOK(s, scan[s])' /\ WindowOK(s, scan[s])'
  <2>1. StoppingOK(s, scan[s]) /\ WindowOK(s, scan[s]) /\ after[s] \in Nat
    BY DEF ScanInv, ScanTypes
  <2>2. StoppingOK(s, scan[s])'
    BY <2>1 DEF StoppingOK
  <2>3. WindowOK(s, scan[s])'
    BY <2>1 DEF WindowOK, ReadOK, CoverOK, From, Left
  <2> QED
    BY <2>2, <2>3
<1> QED
  BY <1>1, <1>2 DEF ScanInv

LEMMA StopStep ==
    ASSUME ScanInv,
           \/ M!MasterStop \/ M!FlagJobs \/ M!MasterResume
           \/ \E j \in M!Jobs : M!CancelJob(j)
    PROVE  ScanInv'
<1>1. /\ UNCHANGED <<day, arrived, checkpoint, scan, walked, first>>
      /\ paused \in BOOLEAN /\ job \in [M!Jobs -> JobRows] /\ after \in [M!Scanners -> Nat]
      /\ \A s \in M!Scanners : StoppingOK(s, scan[s])
  BY DEF M!MasterStop, M!FlagJobs, M!MasterResume, M!CancelJob, ScanInv, ScanTypes
<1>2. ASSUME NEW s \in M!Scanners, ~M!ShouldStop(s) PROVE after[s] = 0
  BY <1>1, <1>2 DEF StoppingOK
<1>3. ASSUME NEW r \in JobRows
      PROVE  [r EXCEPT !.cancel = TRUE] \in JobRows /\ [r EXCEPT !.cancel = TRUE].cancel = TRUE
  BY DEF JobRows
<1>4. CASE M!MasterStop
  <2>1. paused' = TRUE /\ UNCHANGED <<job, after>>
    BY <1>4 DEF M!MasterStop
  <2>2. \A s \in M!Scanners : M!ShouldStop(s)'
    BY <2>1 DEF M!ShouldStop
  <2> QED
    BY <1>1, <2>1, <2>2, StoppingMoves
<1>5. CASE M!FlagJobs \/ (\E j \in M!Jobs : M!CancelJob(j))
  <2>1. UNCHANGED <<paused, after>>
    BY <1>5 DEF M!FlagJobs, M!CancelJob
  <2>2. /\ job' \in [M!Jobs -> JobRows]
        /\ \A j \in M!Jobs : job[j].cancel => job'[j].cancel
    <3>1. CASE M!FlagJobs
      BY <1>1, <1>3, <3>1 DEF M!FlagJobs
    <3>2. CASE \E j \in M!Jobs : M!CancelJob(j)
      <4>1. PICK j \in M!Jobs : job' = [job EXCEPT ![j] = [job[j] EXCEPT !.cancel = TRUE]]
        BY <3>2 DEF M!CancelJob
      <4> QED
        BY <1>1, <1>3, <4>1
    <3> QED
      BY <1>5, <3>1, <3>2
  <2>3. \A s \in M!Scanners : M!ShouldStop(s) => M!ShouldStop(s)'
    BY <2>1, <2>2 DEF M!ShouldStop
  <2>4. \A s \in M!Scanners : after'[s] = IF M!ShouldStop(s)' THEN after[s] ELSE 0
    BY <1>2, <2>1, <2>3
  <2>5. paused' \in BOOLEAN /\ after' \in [M!Scanners -> Nat]
    BY <1>1, <2>1
  <2> QED
    BY <1>1, <2>2, <2>4, <2>5, StoppingMoves
<1>6. CASE M!MasterResume
  <2>1. /\ paused' = FALSE /\ UNCHANGED job
        /\ after' = [s \in M!Scanners |-> IF s \in M!Jobs /\ job[s].cancel THEN after[s] ELSE 0]
    BY <1>6 DEF M!MasterResume
  <2>2. \A s \in M!Scanners : M!ShouldStop(s)' <=> (s \in M!Jobs /\ job[s].cancel)
    BY <2>1 DEF M!ShouldStop
  <2>3. \A s \in M!Scanners : after'[s] = IF M!ShouldStop(s)' THEN after[s] ELSE 0
    BY <2>1, <2>2
  <2>4. after' \in [M!Scanners -> Nat]
    BY <1>1, <2>1
  <2> QED
    BY <1>1, <2>1, <2>3, <2>4, StoppingMoves
<1> QED
  BY <1>4, <1>5, <1>6

LEMMA ScanStep == ASSUME ScanInv, [M!Next]_(M!vars) PROVE ScanInv'
<1>1. CASE UNCHANGED M!vars
  <2>1. UNCHANGED <<day, arrived, checkpoint, paused, flagging, job, scan, walked, first, after>>
    BY <1>1 DEF M!vars
  <2>2. ScanTypes' /\ DaysOK' /\ M!WindowCovers'
    BY <2>1 DEF ScanInv, ScanTypes, DaysOK, M!WindowCovers
  <2>3. ASSUME NEW s \in M!Scanners PROVE StoppingOK(s, scan[s])' /\ WindowOK(s, scan[s])'
    BY <2>1 DEF ScanInv, StoppingOK, M!ShouldStop, WindowOK, ReadOK, CoverOK, From, Left
  <2> QED
    BY <2>2, <2>3 DEF ScanInv
<1>2. ASSUME NEW j \in M!Jobs, M!BeginJob(j) \/ M!InsertJob(j) \/ M!ListFolder(j) \/ M!CancelJob(j)
      PROVE  ScanInv'
  BY <1>2, ScanBegins, ScanOpens, FolderStep, StopStep
<1>3. ASSUME NEW s \in M!Scanners,
             \/ M!Search(s) \/ M!LoginFails(s) \/ M!Ask(s) \/ M!Walk(s) \/ M!Breaks(s)
             \/ M!Exhausted(s) \/ M!MoveCheckpoint(s) \/ M!Report(s) \/ M!Die(s)
      PROVE  ScanInv'
  BY <1>3, SearchStep, ScanEnds, AskStep, WalkStep, EndStep
<1>4. ASSUME M!Tick \/ (\E m \in Mails : M!Arrive(m)) PROVE ScanInv'
  BY <1>4, DayStep
<1>5. ASSUME M!BeginPoll \/ M!OpenPoll \/ M!MasterStop \/ M!FlagJobs \/ M!MasterResume
      PROVE  ScanInv'
  BY <1>5, ScanBegins, ScanOpens, StopStep
<1> QED
  BY <1>1, <1>2, <1>3, <1>4, <1>5 DEF M!Next

\* Between the first window's first day and the first day the next scan is going to look at, every
\* mail has been walked, however many scans overlap and whichever of them are stopped or break.
THEOREM NoMailLeftOut == M!Spec => []WindowCovers
<1>1. ScanInv => WindowCovers
  BY DEF ScanInv, WindowCovers
<1>2. ScanInv /\ [M!Next]_(M!vars) => ScanInv'
  BY ScanStep
<1> QED
  BY <1>1, <1>2, ScanInit, PTL DEF M!Spec

\* Told to stop, a scanner finishes at most the item it is at.
THEOREM StopsWithinAnItem == M!Spec => []StopsSoon
<1>1. ScanInv => StopsSoon
  BY DEF ScanInv, StoppingOK, StopsSoon, M!StopsSoon
<1>2. ScanInv /\ [M!Next]_(M!vars) => ScanInv'
  BY ScanStep
<1> QED
  BY <1>1, <1>2, ScanInit, PTL DEF M!Spec

-----------------------------------------------------------------------------
(* The doors to a requisition (CandidateIntake). *)

Doorways == {"career", "upload", "vendor", "portal", "campus", "repository"}
\* What a request of each door may be about to do.
Queries ==
    [career |-> {"ask", "find", "create", "intake", "upsert", "flag"},
     upload |-> {"ask", "find", "create", "intake", "upsert", "flag"},
     vendor |-> {"ask", "find", "create", "intake", "upsert", "flag"},
     portal |-> {"applied", "ask", "reject", "intake", "upsert", "flag"},
     campus |-> {"ask", "find", "create", "insert"},
     repository |-> {"find", "create", "intake", "upsert", "flag"}]
\* The queries that come after the first answer of the list.
Admitted == {"find", "create", "intake", "upsert", "flag", "insert"}

Requesting == [pc : {"idle", "applied", "ask", "reject"} \cup Admitted, door : Doorways \cup {None},
               email : Emails \cup {None}, phone : Phones \cup {None}]
\* Applications of people nobody who knew their employer had to keep out.
Applications == [status : {"screen", "rejected", "enteri_ai_bot"},
                 flag : {None, "past", "current"}, under : {None, "repository"}]

DoorTypes ==
    /\ listed \in {None, "past", "current"}
    /\ req \in [Requests -> Requesting]
    /\ app \in [Emails -> Applications \cup {None}]

\* A request that is past the gate, and whose employer is known, has not had the company listed
\* as 'current' since it began; what it flags is an application.
RequestOK(r) ==
    /\ ~I!At(r, "idle") =>
          req[r].door \in Doorways /\ req[r].pc \in Queries[req[r].door] /\ req[r].email \in Emails
    /\ req[r].pc \in Admitted /\ I!Collects(req[r].door) => r \notin throughout
    /\ I!At(r, "flag") => app[req[r].email] \in Applications

DoorsInv ==
    /\ DoorTypes
    /\ \A r \in Requests : RequestOK(r)
    /\ throughout # {} => listed = "current"

\* A query leads to another of the same door, and to the gate before what is behind it.
LEMMA NextQuery ==
    ASSUME NEW r, req[r].door \in Doorways, req[r].pc \in Queries[req[r].door],
           req[r].pc \in {"applied", "ask", "find", "create"}
    PROVE  /\ I!Following(r) \in Queries[req[r].door]
           /\ I!Following(r) # "idle" /\ I!Following(r) # "flag"
           /\ I!Following(r) \in Admitted => req[r].pc # "applied"
<1> DEFINE at == IF req[r].pc = "create" THEN "find" ELSE req[r].pc
<1>1. I!Following(r) = I!Path[req[r].door][(CHOOSE j \in DOMAIN I!Path[req[r].door] :
                                               I!Path[req[r].door][j] = at) + 1]
  BY DEF I!Following, I!At
<1>2. CASE req[r].door \in {"career", "upload", "vendor"}
  <2>1. I!Path[req[r].door] = <<"ask", "find", "intake", "upsert", "flag">>
    BY <1>2 DEF I!Path, I!Career, I!Upload, I!Vendor
  <2>2. req[r].pc \in {"ask", "find", "create"}
    BY <1>2 DEF Queries
  <2>3. \A j \in DOMAIN <<"ask", "find", "intake", "upsert", "flag">> :
           /\ <<"ask", "find", "intake", "upsert", "flag">>[j] = "ask" <=> j = 1
           /\ <<"ask", "find", "intake", "upsert", "flag">>[j] = "find" <=> j = 2
    OBVIOUS
  <2>4. I!Following(r) = IF req[r].pc = "ask" THEN "find" ELSE "intake"
    BY <1>1, <2>1, <2>2, <2>3
  <2> QED
    BY <1>2, <2>2, <2>4 DEF Queries, Admitted
<1>3. CASE req[r].door = "portal"
  <2>1. I!Path[req[r].door] = <<"applied", "ask", "intake", "upsert", "flag">>
    BY <1>3 DEF I!Path, I!Portal
  <2>2. req[r].pc \in {"applied", "ask"}
    BY <1>3 DEF Queries
  <2>3. \A j \in DOMAIN <<"applied", "ask", "intake", "upsert", "flag">> :
           /\ <<"applied", "ask", "intake", "upsert", "flag">>[j] = "applied" <=> j = 1
           /\ <<"applied", "ask", "intake", "upsert", "flag">>[j] = "ask" <=> j = 2
    OBVIOUS
  <2>4. I!Following(r) = IF req[r].pc = "applied" THEN "ask" ELSE "intake"
    BY <1>1, <2>1, <2>2, <2>3
  <2> QED
    BY <1>3, <2>2, <2>4 DEF Queries, Admitted
<1>4. CASE req[r].door = "campus"
  <2>1. I!Path[req[r].door] = <<"ask", "find", "insert">>
    BY <1>4 DEF I!Path, I!Campus
  <2>2. req[r].pc \in {"ask", "find", "create"}
    BY <1>4 DEF Queries
  <2>3. \A j \in DOMAIN <<"ask", "find", "insert">> :
           /\ <<"ask", "find", "insert">>[j] = "ask" <=> j = 1
           /\ <<"ask", "find", "insert">>[j] = "find" <=> j = 2
    OBVIOUS
  <2>4. I!Following(r) = IF req[r].pc = "ask" THEN "find" ELSE "insert"
    BY <1>1, <2>1, <2>2, <2>3
  <2> QED
    BY <1>4, <2>2, <2>4 DEF Queries, Admitted
<1>5. CASE req[r].door = "repository"
  <2>1. I!Path[req[r].door] = <<"find", "intake", "upsert", "flag">>
    BY <1>5 DEF I!Path, I!Repository
  <2>2. req[r].pc \in {"find", "create"}
    BY <1>5 DEF Queries
  <2>3. \A j \in DOMAIN <<"find", "intake", "upsert", "flag">> :
           <<"find", "intake", "upsert", "flag">>[j] = "find" <=> j = 1
    OBVIOUS
  <2>4. I!Following(r) = "intake"
    BY <1>1, <2>1, <2>2, <2>3
  <2> QED
    BY <1>5, <2>2, <2>4 DEF Queries, Admitted
<1> QED
  BY <1>2, <1>3, <1>4, <1>5 DEF Doorways

\* What a request's step may be: its own row, no other's, and nobody's admission undone.
LEMMA RequestMoves ==
    ASSUME DoorsInv, NEW r \in Requests, NEW x \in Requesting,
           req' = [req EXCEPT ![r] = x],
           UNCHANGED <<listed, throughout>>,
           app' \in [Emails -> Applications \cup {None}],
           \A e \in Emails : app[e] \in Applications => app'[e] \in Applications,
           x.pc # "idle" => x.door \in Doorways /\ x.pc \in Queries[x.door] /\ x.email \in Emails,
           x.pc \in Admitted /\ I!Collects(x.door) => r \notin throughout,
           x.pc = "flag" => app'[x.email] \in Applications
    PROVE  DoorsInv'
<1>1. DoorTypes'
  BY DEF DoorsInv, DoorTypes
<1>2. ASSUME NEW s \in Requests PROVE RequestOK(s)'
  <2>1. CASE s = r
    <3>1. req'[s] = x
      BY <2>1 DEF DoorsInv, DoorTypes
    <3> QED
      BY <2>1, <3>1 DEF RequestOK, I!At, I!Collects
  <2>2. CASE s # r
    <3>1. req'[s] = req[s] /\ RequestOK(s) /\ throughout' = throughout
      BY <2>2 DEF DoorsInv, DoorTypes
    <3>2. I!At(s, "flag") => req[s].email \in Emails
      BY <3>1 DEF RequestOK, I!At
    <3> QED
      BY <3>1, <3>2 DEF RequestOK, I!At, I!Collects
  <2> QED
    BY <2>1, <2>2
<1>3. (throughout # {} => listed = "current")'
  BY DEF DoorsInv
<1> QED
  BY <1>1, <1>2, <1>3 DEF DoorsInv

LEMMA DoorsInit == I!Init => DoorsInv
<1> SUFFICES ASSUME I!Init PROVE DoorsInv
  OBVIOUS
<1>1. I!Idle \in Requesting /\ I!Idle.pc = "idle"
  BY DEF I!Idle, Requesting
<1>2. DoorTypes
  BY <1>1 DEF I!Init, DoorTypes
<1>3. \A r \in Requests : RequestOK(r)
  BY <1>1 DEF I!Init, RequestOK, I!At, Admitted
<1> QED
  BY <1>2, <1>3 DEF DoorsInv, I!Init

\* Going on to another query, with the applications as they are.
LEMMA GoesOn ==
    ASSUME DoorsInv, NEW r \in Requests, ~I!At(r, "idle"), NEW pc, NEW e \in Emails,
           req' = [req EXCEPT ![r].email = e, ![r].pc = pc],
           pc \in Queries[req[r].door], pc # "flag",
           pc \in Admitted /\ I!Collects(req[r].door) => r \notin throughout,
           UNCHANGED <<listed, app, throughout>>
    PROVE  DoorsInv'
<1> DEFINE x == [req[r] EXCEPT !.email = e, !.pc = pc]
<1>0. req[r] \in Requesting /\ RequestOK(r)
  BY DEF DoorsInv, DoorTypes
<1>1. /\ req[r].door \in Doorways
      /\ Queries[req[r].door] \subseteq {"applied", "ask", "reject"} \cup Admitted
  BY <1>0 DEF RequestOK, Queries, Admitted, Doorways
<1>2. x = [pc |-> pc, door |-> req[r].door, email |-> e, phone |-> req[r].phone]
  <2> DEFINE y == [req[r] EXCEPT !.email = e]
  <2>1. y = [pc |-> req[r].pc, door |-> req[r].door, email |-> e, phone |-> req[r].phone]
    BY <1>0 DEF Requesting
  <2>2. x = [y EXCEPT !.pc = pc]
    OBVIOUS
  <2> HIDE DEF x, y
  <2> QED
    BY <2>1, <2>2
<1>3. x \in Requesting
  BY <1>0, <1>1, <1>2 DEF Requesting
<1>4. req' = [req EXCEPT ![r] = x]
  BY DEF DoorsInv, DoorTypes
<1>5. app' \in [Emails -> Applications \cup {None}]
  BY DEF DoorsInv, DoorTypes
<1> QED
  BY <1>1, <1>2, <1>3, <1>4, <1>5, RequestMoves

\* Being done, with the applications as they are.
LEMMA IsDone ==
    ASSUME DoorsInv, NEW r \in Requests, I!Ends(r), UNCHANGED <<listed, app, throughout>>
    PROVE  DoorsInv'
<1>1. I!Idle \in Requesting /\ I!Idle.pc = "idle"
  BY DEF I!Idle, Requesting
<1>2. app \in [Emails -> Applications \cup {None}]
  BY DEF DoorsInv, DoorTypes
<1> QED
  BY <1>1, <1>2, RequestMoves DEF I!Ends, Admitted

\* The gate.
LEMMA GateStep ==
    ASSUME DoorsInv, NEW r \in Requests, I!AppliedBefore(r) \/ I!Ask(r) \/ I!AskAgain(r)
    PROVE  DoorsInv'
<1>1. req[r] \in Requesting /\ RequestOK(r) /\ (r \in throughout => listed = "current")
  BY DEF DoorsInv, DoorTypes
<1>2. ~I!At(r, "idle")
  BY DEF I!AppliedBefore, I!Ask, I!AskAgain, I!At
<1>3. /\ req[r].door \in Doorways /\ req[r].email \in Emails
      /\ req[r].pc \in Queries[req[r].door]
  BY <1>1, <1>2 DEF RequestOK
<1>4. req[r] = [pc |-> req[r].pc, door |-> req[r].door, email |-> req[r].email,
                phone |-> req[r].phone]
  BY <1>1 DEF Requesting
<1>5. UNCHANGED <<listed, app, throughout>>
  BY DEF I!AppliedBefore, I!Ask, I!AskAgain
<1>6. ASSUME NEW pc, I!Go(r, pc) PROVE req' = [req EXCEPT ![r].email = req[r].email, ![r].pc = pc]
  BY <1>4, <1>6 DEF I!Go, DoorsInv, DoorTypes
<1>7. CASE I!Ends(r)
  BY <1>5, <1>7, IsDone
<1>8. CASE I!AppliedBefore(r) /\ I!Go(r, I!Following(r))
  BY <1>2, <1>3, <1>5, <1>6, <1>8, NextQuery, GoesOn DEF I!AppliedBefore, I!At
<1>9. CASE I!Ask(r) /\ I!Go(r, "reject") /\ req[r].door = "portal"
  <2>1. "reject" \in Queries[req[r].door] /\ "reject" \notin Admitted
    BY <1>9 DEF Queries, Admitted
  <2>2. req' = [req EXCEPT ![r].email = req[r].email, ![r].pc = "reject"]
    BY <1>6, <1>9
  <2> QED
    BY <1>2, <1>3, <1>5, <2>1, <2>2, GoesOn
<1>10. CASE I!Ask(r) /\ I!Go(r, I!Following(r)) /\ listed # "current"
  BY <1>1, <1>2, <1>3, <1>5, <1>6, <1>10, NextQuery, GoesOn DEF I!Ask, I!At
<1>11. CASE I!AskAgain(r) /\ I!Go(r, "upsert")
  <2>1. "upsert" \in Queries[req[r].door] /\ req[r].pc \in Admitted
    BY <1>3, <1>11 DEF I!AskAgain, I!At, Queries, Doorways, Admitted
  <2> QED
    BY <1>1, <1>2, <1>3, <1>5, <1>6, <1>11, <2>1, GoesOn DEF RequestOK
<1> QED
  BY <1>7, <1>8, <1>9, <1>10, <1>11 DEF I!AppliedBefore, I!Ask, I!AskAgain

\* The candidate.
LEMMA CandidateStep ==
    ASSUME DoorsInv, NEW r \in Requests, I!Find(r) \/ I!Create(r)
    PROVE  DoorsInv'
<1>1. req[r] \in Requesting /\ RequestOK(r)
  BY DEF DoorsInv, DoorTypes
<1>2. ~I!At(r, "idle") /\ req[r].pc \in {"find", "create"}
  BY DEF I!Find, I!Create, I!At
<1>3. /\ req[r].door \in Doorways /\ req[r].email \in Emails
      /\ req[r].pc \in Queries[req[r].door]
      /\ I!Collects(req[r].door) => r \notin throughout
  BY <1>1, <1>2 DEF RequestOK, Admitted
<1>4. req[r] = [pc |-> req[r].pc, door |-> req[r].door, email |-> req[r].email,
                phone |-> req[r].phone]
  BY <1>1 DEF Requesting
<1>5. UNCHANGED <<listed, app, throughout>>
  BY DEF I!Find, I!Create
<1>6. ASSUME NEW pc, I!Go(r, pc) PROVE req' = [req EXCEPT ![r].email = req[r].email, ![r].pc = pc]
  BY <1>4, <1>6 DEF I!Go, DoorsInv, DoorTypes
<1>7. "find" \in Queries[req[r].door] /\ "create" \in Queries[req[r].door]
  BY <1>2, <1>3 DEF Queries, Doorways
<1>8. I!Following(r) \in Queries[req[r].door] /\ I!Following(r) # "flag"
  BY <1>2, <1>3, NextQuery
<1>9. CASE I!Ends(r)
  BY <1>5, <1>9, IsDone
<1>10. CASE \E pc \in {"find", "create", I!Following(r)} : I!Go(r, pc)
  BY <1>2, <1>3, <1>5, <1>6, <1>7, <1>8, <1>10, GoesOn
<1>11. CASE \E e \in Emails : req' = [req EXCEPT ![r].email = e, ![r].pc = I!Following(r)]
  BY <1>2, <1>3, <1>5, <1>8, <1>11, GoesOn
<1>12. I!Find(r) => \/ I!Ends(r) \/ I!Go(r, "create")
                    \/ \E e \in Emails : req' = [req EXCEPT ![r].email = e,
                                                            ![r].pc = I!Following(r)]
  <2> SUFFICES ASSUME I!Find(r), I!Existing(r) # {}, ~I!Ends(r)
               PROVE  \E e \in Emails : req' = [req EXCEPT ![r].email = e,
                                                           ![r].pc = I!Following(r)]
    BY DEF I!Find
  <2>1. I!Existing(r) \subseteq Emails
    BY <1>3 DEF I!Existing
  <2> QED
    BY <2>1 DEF I!Find
<1>13. I!Create(r) => I!Ends(r) \/ \E pc \in {"find", "create", I!Following(r)} : I!Go(r, pc)
  BY DEF I!Create
<1> QED
  BY <1>9, <1>10, <1>11, <1>12, <1>13

\* The application.
LEMMA ApplicationStep ==
    ASSUME DoorsInv, NEW r \in Requests,
           I!Reject(r) \/ I!Upsert(r) \/ I!Flag(r) \/ I!InsertCampus(r)
    PROVE  /\ DoorsInv'
           /\ \A e \in Emails : app[e] # None => app'[e].status = app[e].status
<1> DEFINE m == req[r].email
<1>1. /\ req[r] \in Requesting /\ RequestOK(r) /\ listed \in {None, "past", "current"}
      /\ app \in [Emails -> Applications \cup {None}]
  BY DEF DoorsInv, DoorTypes
<1>2. ~I!At(r, "idle")
  BY DEF I!Reject, I!Upsert, I!Flag, I!InsertCampus, I!At
<1>3. /\ req[r].door \in Doorways /\ m \in Emails /\ req[r].pc \in Queries[req[r].door]
      /\ req[r].pc \in Admitted /\ I!Collects(req[r].door) => r \notin throughout
  BY <1>1, <1>2 DEF RequestOK
<1>4. UNCHANGED <<listed, throughout>>
  BY DEF I!Reject, I!Upsert, I!Flag, I!InsertCampus
<1>5. I!Idle \in Requesting /\ I!Idle.pc = "idle"
  BY DEF I!Idle, Requesting
<1>6. PICK y \in Applications :
          /\ app' = [app EXCEPT ![m] = y]
          /\ app[m] # None => y.status = app[m].status
  <2>1. CASE I!Reject(r)
    <3>1. [status |-> "rejected", flag |-> None, under |-> None] \in Applications
      BY DEF Applications
    <3> QED
      BY <2>1, <3>1 DEF I!Reject
  <2>2. CASE I!Upsert(r) \/ I!InsertCampus(r)
    <3>1. ASSUME NEW st \in {"screen", "enteri_ai_bot"} PROVE I!New(r, st) \in Applications
      <4>1. req[r].pc \in Admitted
        BY <2>2 DEF I!Upsert, I!InsertCampus, I!At, Admitted
      <4> DEFINE u == IF r \in throughout THEN req[r].door ELSE None
      <4>2. u \in {None, "repository"}
        BY <1>3, <4>1 DEF I!Collects
      <4>3. I!New(r, st) = [status |-> st, flag |-> None, under |-> u]
        BY DEF I!New
      <4> HIDE DEF u
      <4> QED
        BY <4>2, <4>3 DEF Applications
    <3>2. CASE I!Upsert(r) /\ app[m] # None
      BY <1>1, <1>3, <3>2 DEF I!Upsert
    <3>3. CASE I!Upsert(r) /\ app[m] = None
      BY <1>3, <3>1, <3>3 DEF I!Upsert
    <3>4. CASE I!InsertCampus(r)
      BY <1>3, <3>1, <3>4 DEF I!InsertCampus
    <3> QED
      BY <2>2, <3>2, <3>3, <3>4
  <2>3. CASE I!Flag(r)
    <3>1. app[m] \in Applications
      BY <1>1, <2>3 DEF I!Flag, RequestOK
    <3>2. app[m] = [status |-> app[m].status, flag |-> app[m].flag, under |-> app[m].under]
      BY <3>1 DEF Applications
    <3>3. CASE I!Collects(req[r].door) /\ listed # None
      <4>1. [app[m] EXCEPT !.flag = listed] \in Applications
        BY <1>1, <3>1, <3>2 DEF Applications
      <4> QED
        BY <1>1, <1>3, <2>3, <3>2, <3>3, <4>1 DEF I!Flag
    <3>4. CASE ~(I!Collects(req[r].door) /\ listed # None)
      BY <1>1, <1>3, <2>3, <3>1, <3>4 DEF I!Flag
    <3> QED
      BY <3>3, <3>4
  <2> QED
    BY <2>1, <2>2, <2>3
<1>7. /\ app' \in [Emails -> Applications \cup {None}]
      /\ app'[m] \in Applications
      /\ \A e \in Emails : app[e] \in Applications => app'[e] \in Applications
      /\ \A e \in Emails : app[e] # None => app'[e].status = app[e].status
  BY <1>1, <1>3, <1>6
<1>8. CASE I!Upsert(r)
  <2> DEFINE x == [req[r] EXCEPT !.pc = "flag"]
  <2>1. x = [pc |-> "flag", door |-> req[r].door, email |-> m, phone |-> req[r].phone]
    BY <1>1 DEF Requesting
  <2>2. x \in Requesting
    BY <1>1, <2>1 DEF Requesting, Admitted
  <2>3. req' = [req EXCEPT ![r] = x]
    BY <1>8 DEF I!Upsert, I!Go, DoorsInv, DoorTypes
  <2>4. "flag" \in Queries[req[r].door] /\ req[r].pc \in Admitted
    BY <1>3, <1>8 DEF I!Upsert, I!At, Queries, Doorways, Admitted
  <2> HIDE DEF x, m
  <2>5. x.pc = "flag" /\ x.door = req[r].door /\ x.email = m
    BY <2>1
  <2>6. DoorsInv'
    BY <1>3, <1>4, <1>7, <2>2, <2>3, <2>4, <2>5, RequestMoves
  <2> QED
    BY <1>7, <2>6
<1>9. CASE I!Ends(r)
  <2>1. DoorsInv'
    BY <1>4, <1>5, <1>7, <1>9, RequestMoves DEF I!Ends, Admitted
  <2> QED
    BY <1>7, <2>1
<1> QED
  BY <1>8, <1>9 DEF I!Reject, I!Flag, I!InsertCampus

\* The beginning of a request, and its failure.
LEMMA BeginStep ==
    ASSUME DoorsInv, NEW r \in Requests, NEW door \in I!Doors, NEW e \in Emails, NEW p \in Phones,
           I!Begin(r, door, e, p)
    PROVE  DoorsInv'
<1>0. PICK pc \in I!First(door, e) :
          req' = [req EXCEPT ![r] = [pc |-> pc, door |-> door, email |-> e,
                                     phone |-> IF door = "portal" THEN None ELSE p]]
  BY DEF I!Begin
<1> DEFINE x == [pc |-> pc, door |-> door, email |-> e,
                 phone |-> IF door = "portal" THEN None ELSE p]
<1>1. door \in Doorways
  BY DEF I!Doors, I!Path, Doorways
<1>2. pc \in IF door = "portal" THEN {"applied"}
             ELSE IF door = "repository" THEN {"find", "intake"} ELSE {"ask"}
  BY <1>1 DEF Doorways, I!First, I!Path, I!Career, I!Upload, I!Vendor, I!Portal, I!Campus,
              I!Repository
<1>3. x \in Requesting /\ x.pc \in Queries[door]
  BY <1>1, <1>2 DEF Requesting, Admitted, Queries, Doorways
<1>4. req' = [req EXCEPT ![r] = x]
  BY <1>0
<1>5. /\ x.door = door /\ x.email = e /\ x.pc # "flag"
      /\ x.pc \in Admitted => door = "repository"
  BY <1>2 DEF Admitted
<1> HIDE DEF x
<1>6. DoorTypes'
  BY <1>3, <1>4 DEF DoorsInv, DoorTypes, I!Begin
<1>7. ASSUME NEW s \in Requests PROVE RequestOK(s)'
  <2>1. CASE s = r
    <3>1. req'[s] = x
      BY <1>4, <2>1 DEF DoorsInv, DoorTypes
    <3> QED
      BY <1>1, <1>3, <1>5, <2>1, <3>1 DEF RequestOK, I!At, I!Collects
  <2>2. CASE s # r
    <3>1. req'[s] = req[s] /\ RequestOK(s) /\ app' = app /\ (s \in throughout' => s \in throughout)
      BY <1>4, <2>2 DEF DoorsInv, DoorTypes, I!Begin
    <3> QED
      BY <3>1 DEF RequestOK, I!At, I!Collects
  <2> QED
    BY <2>1, <2>2
<1>8. (throughout # {} => listed = "current")'
  BY DEF DoorsInv, I!Begin
<1> QED
  BY <1>6, <1>7, <1>8 DEF DoorsInv

\* What is no request's: the list is kept, and recruiters decide.
LEMMA ListStep ==
    ASSUME DoorsInv,
           \/ \E status \in {None, "past", "current"} : I!List(status)
           \/ \E e \in Emails : I!Decide(e)
    PROVE  DoorsInv'
<1>1. CASE \E status \in {None, "past", "current"} : I!List(status)
  <2>1. PICK status \in {None, "past", "current"} : I!List(status)
    BY <1>1
  <2>2. DoorTypes' /\ throughout' \subseteq throughout /\ UNCHANGED <<req, app>>
    BY <2>1 DEF DoorsInv, DoorTypes, I!List
  <2>3. (throughout # {} => listed = "current")'
    BY <2>1 DEF DoorsInv, I!List
  <2>4. \A r \in Requests : RequestOK(r)'
    BY <2>2 DEF DoorsInv, RequestOK, I!At, I!Collects
  <2> QED
    BY <2>2, <2>3, <2>4 DEF DoorsInv
<1>2. CASE \E e \in Emails : I!Decide(e)
  <2>1. PICK e \in Emails : I!Decide(e)
    BY <1>2
  <2>2. UNCHANGED <<listed, req, throughout>> /\ app[e] \in Applications
    BY <2>1 DEF I!Decide, DoorsInv, DoorTypes
  <2>3. app[e] = [status |-> app[e].status, flag |-> app[e].flag, under |-> app[e].under]
    BY <2>2 DEF Applications
  <2>4. [app[e] EXCEPT !.status = "rejected"] \in Applications
    BY <2>2, <2>3 DEF Applications
  <2>5. app' = [app EXCEPT ![e] = [app[e] EXCEPT !.status = "rejected"]]
    BY <2>1 DEF I!Decide
  <2>6. /\ app' \in [Emails -> Applications \cup {None}]
        /\ \A f \in Emails : app[f] \in Applications => app'[f] \in Applications
    BY <2>4, <2>5 DEF DoorsInv, DoorTypes
  <2>7. \A r \in Requests : RequestOK(r)'
    BY <2>2, <2>6 DEF DoorsInv, RequestOK, I!At, I!Collects
  <2>8. DoorTypes' /\ (throughout # {} => listed = "current")'
    BY <2>2, <2>6 DEF DoorsInv, DoorTypes
  <2> QED
    BY <2>7, <2>8 DEF DoorsInv
<1> QED
  BY <1>1, <1>2

LEMMA DoorsStep ==
    ASSUME DoorsInv, [I!Next]_(I!vars)
    PROVE  /\ DoorsInv'
           /\ \A e \in Emails : app[e] # None /\ req' # req => app'[e].status = app[e].status
<1>1. CASE UNCHANGED I!vars
  BY <1>1 DEF I!vars, DoorsInv, DoorTypes, RequestOK, I!At, I!Collects
<1>2. ASSUME NEW r \in Requests, I!Fails(r) PROVE DoorsInv' /\ app' = app
  BY <1>2, IsDone DEF I!Fails
<1>3. ASSUME NEW r \in Requests, NEW door \in I!Doors, NEW e \in Emails, NEW p \in Phones,
             I!Begin(r, door, e, p)
      PROVE  DoorsInv' /\ app' = app
  BY <1>3, BeginStep DEF I!Begin
<1>4. ASSUME NEW r \in Requests, I!AppliedBefore(r) \/ I!Ask(r) \/ I!AskAgain(r)
      PROVE  DoorsInv' /\ app' = app
  BY <1>4, GateStep DEF I!AppliedBefore, I!Ask, I!AskAgain
<1>5. ASSUME NEW r \in Requests, I!Find(r) \/ I!Create(r) PROVE DoorsInv' /\ app' = app
  BY <1>5, CandidateStep DEF I!Find, I!Create
<1>6. ASSUME NEW status \in {None, "past", "current"}, I!List(status) PROVE DoorsInv' /\ req' = req
  BY <1>6, ListStep DEF I!List
<1>7. ASSUME NEW e \in Emails, I!Decide(e) PROVE DoorsInv' /\ req' = req
  BY <1>7, ListStep DEF I!Decide
<1> QED
  BY <1>1, <1>2, <1>3, <1>4, <1>5, <1>6, <1>7, ApplicationStep DEF I!Next

\* While the company is on the no-poach list as 'current', no request that began and ended under
\* it puts anybody who works there into the pipeline, at any of the five doors that know the
\* employer; the repository's does not.
THEOREM BlockHoldsAtEveryDoor == I!Spec => []BlockHolds
<1>1. DoorsInv => BlockHolds
  BY DEF DoorsInv, DoorTypes, Applications, BlockHolds, I!BlockHolds
<1>2. DoorsInv /\ [I!Next]_(I!vars) => DoorsInv'
  BY DoorsStep
<1> QED
  BY <1>1, <1>2, DoorsInit, PTL DEF I!Spec

\* No intake moves an application that is there, whatever came in between its look for duplicates
\* and its upsert.
THEOREM IntakeMovesNobody == I!Spec => StatusStands
<1> DEFINE Stands == \A e \in Emails : app[e] # None /\ req' # req => app'[e].status = app[e].status
<1>1. DoorsInv /\ [I!Next]_(I!vars) => DoorsInv'
  BY DoorsStep
<1>2. DoorsInv /\ [I!Next]_(I!vars) => Stands
  BY DoorsStep
<1>3. Stands => [Stands]_(I!vars)
  OBVIOUS
<1> HIDE DEF Stands
<1>4. I!Spec => [][Stands]_(I!vars)
  BY <1>1, <1>2, <1>3, DoorsInit, PTL DEF I!Spec
<1> QED
  BY <1>4 DEF Stands, StatusStands, I!StatusStands

-----------------------------------------------------------------------------
(* A campus drive (CampusDrive). *)

SheetRows == [status : {"pending", "blocked", "invite_queued", "invited"},
              mail : {"none", "queued", "sent", "failed"}, app : D!Apps \cup {None}]
Inviting == [pc : {"idle", "row", "app", "token", "session", "attach", "queue"},
             left : SUBSET Rows, row : Rows \cup {None}, app : D!Apps \cup {None}]

DriveTypes ==
    /\ row \in [Rows -> SheetRows \cup {None}]
    /\ \A r \in Rows : D!There(r) => row[r] \in SheetRows
    /\ made \in 0 .. MaxApps
    /\ drive \in [DriveEmails -> D!Apps \cup {None}]
    /\ token \in [D!Apps -> {None, "live", "spent"}]
    /\ invite \in [Requests -> Inviting]

\* An application's number is no other's, and none is ahead of the count.
NumbersOK ==
    /\ \A e \in DriveEmails : drive[e] # None => drive[e] <= made
    /\ \A e, f \in DriveEmails : drive[e] # None /\ drive[e] = drive[f] => e = f

\* An invite at work on an application that is still there has made for it what it says.
InviteOK(h) ==
    LET i == invite[h] IN
    /\ i.pc \in {"app", "token", "session", "attach", "queue"} => i.row \in Rows
    /\ i.pc \in {"token", "session", "attach"} => i.app \in D!Apps /\ i.app <= made
    /\ i.pc \in {"session", "attach"} /\ D!Alive(i.app) => token[i.app] # None
    /\ i.pc = "attach" /\ D!Alive(i.app) => i.app \in session

DriveInv ==
    /\ DriveTypes /\ NumbersOK
    /\ \A h \in Requests : InviteOK(h)
    /\ D!WaitsForALink

LEMMA DriveInit == D!Init => DriveInv
<1> SUFFICES ASSUME D!Init PROVE DriveInv
  OBVIOUS
<1>1. DriveTypes
  <2>1. D!Idle \in Inviting
    BY DEF D!Idle, Inviting
  <2> QED
    BY <2>1, IntakeConstants DEF D!Init, DriveTypes, D!There, D!CampusAssumption
<1>2. \A h \in Requests : InviteOK(h)
  BY DEF D!Init, InviteOK, D!Idle
<1> QED
  BY <1>1, <1>2 DEF D!Init, DriveInv, NumbersOK, D!WaitsForALink, D!There

\* The rows of the sheets change, and no row comes by an application.
LEMMA RowsMove ==
    ASSUME DriveInv, UNCHANGED <<drive, made, session, token, invite>>,
           row' \in [Rows -> SheetRows \cup {None}],
           \A r \in Rows : D!There(r)' => row'[r] \in SheetRows,
           \A r \in Rows : D!There(r)' /\ row'[r].app # None =>
                               D!There(r) /\ row[r].app = row'[r].app
    PROVE  DriveInv'
<1>1. DriveTypes'
  BY DEF DriveInv, DriveTypes
<1>2. NumbersOK' /\ \A h \in Requests : InviteOK(h)'
  BY DEF DriveInv, NumbersOK, InviteOK, D!Alive
<1>3. D!WaitsForALink'
  BY DEF DriveInv, D!WaitsForALink, D!Alive
<1> QED
  BY <1>1, <1>2, <1>3 DEF DriveInv

\* One row's record changes, and its application is kept or lost.
LEMMA RowMoves ==
    ASSUME DriveInv, UNCHANGED <<drive, made, session, token, invite>>, NEW r \in Rows,
           NEW x \in SheetRows, row' = [row EXCEPT ![r] = x],
           x.app # None => D!There(r) /\ x.app = row[r].app
    PROVE  DriveInv'
<1>1. \A s \in Rows : row'[s] = IF s = r THEN x ELSE row[s]
  BY DEF DriveInv, DriveTypes
<1>2. row' \in [Rows -> SheetRows \cup {None}]
  BY DEF DriveInv, DriveTypes
<1> QED
  BY <1>1, <1>2, RowsMove DEF DriveInv, DriveTypes, D!There

\* An invite remembers something, and nothing else changes.
LEMMA InviteMoves ==
    ASSUME DriveInv, NEW h \in Requests, NEW x \in Inviting,
           UNCHANGED <<row, drive, made, session, token>>,
           invite' = [invite EXCEPT ![h] = x],
           x.pc \in {"app", "token", "session", "attach", "queue"} => x.row \in Rows,
           x.pc = "token" => x.app \in D!Apps /\ x.app <= made,
           x.pc \notin {"session", "attach"}
    PROVE  DriveInv'
<1>1. DriveTypes'
  BY DEF DriveInv, DriveTypes, D!There
<1>2. NumbersOK' /\ D!WaitsForALink'
  BY DEF DriveInv, NumbersOK, D!WaitsForALink, D!There, D!Alive
<1>3. ASSUME NEW g \in Requests PROVE InviteOK(g)'
  <2>1. invite'[g] = (IF g = h THEN x ELSE invite[g]) /\ InviteOK(g)
    BY DEF DriveInv, DriveTypes
  <2>2. CASE g = h
    BY <2>1, <2>2 DEF InviteOK
  <2>3. CASE g # h
    BY <2>1, <2>3 DEF InviteOK, D!Alive
  <2> QED
    BY <2>2, <2>3
<1> QED
  BY <1>1, <1>2, <1>3 DEF DriveInv

\* What has no hand in applications, links or sessions.
LEMMA SheetStep ==
    ASSUME DriveInv,
           \/ \E r \in Rows : D!Upload(r) \/ D!DeleteRow(r) \/ D!GivesUp(r) \/ D!Requeue(r)
           \/ \E w \in Senders : D!Sent(w) \/ D!Unsent(w) \/ (\E r \in Rows : D!ReadLink(w, r))
    PROVE  DriveInv'
<1>1. ASSUME NEW r \in Rows, D!Upload(r) PROVE DriveInv'
  <2>1. D!Fresh \in SheetRows /\ D!Fresh.app = None
    BY DEF D!Fresh, SheetRows
  <2> QED
    BY <1>1, <2>1, RowMoves DEF D!Upload
<1>2. ASSUME NEW r \in Rows, D!DeleteRow(r) PROVE DriveInv'
  <2>1. \A s \in Rows : row'[s] = IF s = r THEN None ELSE row[s]
    BY <1>2 DEF D!DeleteRow, DriveInv, DriveTypes
  <2>2. row' \in [Rows -> SheetRows \cup {None}]
    BY <1>2 DEF D!DeleteRow, DriveInv, DriveTypes
  <2> QED
    BY <1>2, <2>1, <2>2, RowsMove DEF D!DeleteRow, DriveInv, DriveTypes, D!There
<1>3. ASSUME NEW r \in Rows, NEW m \in {"failed", "queued"}, D!There(r),
             row' = [row EXCEPT ![r].mail = m], UNCHANGED <<drive, made, session, token, invite>>
      PROVE  DriveInv'
  <2>1. row[r] \in SheetRows
    BY <1>3 DEF DriveInv, DriveTypes
  <2>2. [row[r] EXCEPT !.mail = m] \in SheetRows /\ [row[r] EXCEPT !.mail = m].app = row[r].app
    BY <2>1 DEF SheetRows
  <2> QED
    BY <1>3, <2>2, RowMoves
<1>4. ASSUME NEW w \in Senders, D!Sent(w) PROVE DriveInv'
  <2> DEFINE r == sending[w].row
  <2>1. CASE D!There(r) /\ r \in Rows
    <3>1. row[r] \in SheetRows
      BY <2>1 DEF DriveInv, DriveTypes
    <3> DEFINE x == [row[r] EXCEPT !.status = "invited", !.mail = "sent"]
    <3>2. x \in [status : {"invited"}, mail : {"sent"}, app : {row[r].app}]
      BY <3>1 DEF SheetRows
    <3>3. x \in SheetRows /\ x.app = row[r].app
      BY <3>1, <3>2 DEF SheetRows
    <3>4. row' = [row EXCEPT ![r] = x] /\ UNCHANGED <<drive, made, session, token, invite>>
      BY <1>4, <2>1 DEF D!Sent
    <3> QED
      BY <2>1, <3>3, <3>4, RowMoves
  <2>2. CASE ~(D!There(r) /\ r \in Rows)
    <3>1. row' = row
      BY <1>4, <2>2 DEF D!Sent, DriveInv, DriveTypes
    <3> QED
      BY <1>4, <3>1, RowsMove DEF D!Sent, DriveInv, DriveTypes, D!There
  <2> QED
    BY <2>1, <2>2
<1>5. ASSUME NEW w \in Senders, D!Unsent(w) \/ (\E r \in Rows : D!ReadLink(w, r)) PROVE DriveInv'
  <2>1. UNCHANGED <<row, drive, made, session, token, invite>>
    BY <1>5 DEF D!Unsent, D!ReadLink
  <2> QED
    BY <2>1, RowsMove DEF DriveInv, DriveTypes, D!There
<1> QED
  BY <1>1, <1>2, <1>3, <1>4, <1>5 DEF D!GivesUp, D!Requeue

\* The steps of an invite that bring nothing into being.
LEMMA LoopStep ==
    ASSUME DriveInv, NEW h \in Requests,
           \/ \E chosen \in (SUBSET Rows) \ {{}} : D!Begin(h, chosen)
           \/ D!TakeRow(h) \/ D!LinkFails(h) \/ D!Ends(h)
    PROVE  DriveInv'
<1> DEFINE i == invite[h]
<1>1. i \in Inviting /\ InviteOK(h)
  BY DEF DriveInv, DriveTypes
<1>2. D!Idle \in Inviting /\ D!Idle.pc = "idle"
  BY DEF D!Idle, Inviting
<1>3. CASE \E chosen \in (SUBSET Rows) \ {{}} : D!Begin(h, chosen)
  <2>1. PICK chosen \in SUBSET Rows : D!Begin(h, chosen)
    BY <1>3
  <2>2. [D!Idle EXCEPT !.pc = "row", !.left = chosen] \in
            [pc : {"row"}, left : {chosen}, row : {None}, app : {None}]
    BY DEF D!Idle
  <2>3. [D!Idle EXCEPT !.pc = "row", !.left = chosen] \in Inviting
    BY <2>2 DEF Inviting
  <2> QED
    BY <2>1, <2>2, <2>3, InviteMoves DEF D!Begin
<1>4. CASE D!TakeRow(h)
  <2>1. PICK r \in i.left :
            \/ /\ D!There(r)
               /\ invite' = [invite EXCEPT ![h].pc = "app", ![h].left = @ \ {r}, ![h].row = r]
               /\ UNCHANGED row
            \/ /\ invite' = [invite EXCEPT ![h].left = @ \ {r}]
               /\ row' = IF D!There(r) THEN [row EXCEPT ![r].status = "blocked"] ELSE row
    BY <1>4 DEF D!TakeRow
  <2>2. i.pc = "row" /\ r \in Rows /\ UNCHANGED <<drive, made, session, token>>
    BY <1>1, <1>4 DEF D!TakeRow, Inviting
  <2>3. CASE invite' = [invite EXCEPT ![h].pc = "app", ![h].left = @ \ {r}, ![h].row = r]
             /\ UNCHANGED row
    <3> DEFINE x == [i EXCEPT !.pc = "app", !.left = i.left \ {r}, !.row = r]
    <3>1. x \in [pc : {"app"}, left : {i.left \ {r}}, row : {r}, app : {i.app}]
      BY <1>1 DEF Inviting
    <3>2. x \in Inviting
      BY <1>1, <2>2, <3>1 DEF Inviting
    <3>3. invite' = [invite EXCEPT ![h] = x]
      BY <1>1, <2>3 DEF Inviting
    <3> HIDE DEF x
    <3>4. x.pc = "app" /\ x.row \in Rows
      BY <2>2, <3>1
    <3> QED
      BY <2>2, <2>3, <3>2, <3>3, <3>4, InviteMoves
  <2>4. CASE /\ invite' = [invite EXCEPT ![h].left = @ \ {r}]
             /\ row' = IF D!There(r) THEN [row EXCEPT ![r].status = "blocked"] ELSE row
    <3>1. [i EXCEPT !.left = i.left \ {r}] \in
              [pc : {"row"}, left : {i.left \ {r}}, row : {i.row}, app : {i.app}]
      BY <1>1, <2>2 DEF Inviting
    <3>2. [i EXCEPT !.left = i.left \ {r}] \in Inviting
      BY <1>1, <2>2, <3>1 DEF Inviting
    <3>3. invite' = [invite EXCEPT ![h] = [i EXCEPT !.left = i.left \ {r}]]
      BY <2>4
    <3>4. /\ row' \in [Rows -> SheetRows \cup {None}]
          /\ \A s \in Rows : D!There(s)' => row'[s] \in SheetRows
          /\ \A s \in Rows : D!There(s)' /\ row'[s].app # None =>
                                 D!There(s) /\ row[s].app = row'[s].app
      <4>1. CASE D!There(r)
        <5>1. row[r] \in SheetRows
          BY <2>2, <4>1 DEF DriveInv, DriveTypes
        <5>2. [row[r] EXCEPT !.status = "blocked"] \in SheetRows
              /\ [row[r] EXCEPT !.status = "blocked"].app = row[r].app
          BY <5>1 DEF SheetRows
        <5>3. row' = [row EXCEPT ![r] = [row[r] EXCEPT !.status = "blocked"]]
          BY <2>4, <4>1
        <5>4. \A s \in Rows : row'[s] = IF s = r THEN [row[r] EXCEPT !.status = "blocked"]
                                      ELSE row[s]
          BY <5>3 DEF DriveInv, DriveTypes
        <5>5. row' \in [Rows -> SheetRows \cup {None}]
          BY <2>2, <5>2, <5>3 DEF DriveInv, DriveTypes
        <5> QED
          BY <2>2, <4>1, <5>2, <5>4, <5>5 DEF DriveInv, DriveTypes, D!There
      <4>2. CASE ~D!There(r)
        BY <2>4, <4>2 DEF DriveInv, DriveTypes, D!There
      <4> QED
        BY <4>1, <4>2
    <3>5. DriveTypes'
      BY <2>2, <3>2, <3>3, <3>4 DEF DriveInv, DriveTypes
    <3>6. NumbersOK'
      BY <2>2 DEF DriveInv, NumbersOK
    <3>7. D!WaitsForALink'
      BY <2>2, <3>4 DEF DriveInv, D!WaitsForALink, D!Alive
    <3>8. ASSUME NEW g \in Requests PROVE InviteOK(g)'
      <4>1. /\ invite'[g].pc = invite[g].pc /\ invite'[g].row = invite[g].row
            /\ invite'[g].app = invite[g].app
        BY <1>1, <3>1, <3>3 DEF DriveInv, DriveTypes
      <4> QED
        BY <2>2, <4>1 DEF DriveInv, InviteOK, D!Alive
    <3> QED
      BY <3>5, <3>6, <3>7, <3>8 DEF DriveInv
  <2> QED
    BY <2>1, <2>3, <2>4
<1>5. CASE D!LinkFails(h)
  <2> DEFINE x == [i EXCEPT !.pc = "row", !.row = None, !.app = None]
  <2>1. x \in [pc : {"row"}, left : {i.left}, row : {None}, app : {None}]
    BY <1>1 DEF Inviting
  <2>2. x \in Inviting
    BY <1>1, <2>1 DEF Inviting
  <2>3. invite' = [invite EXCEPT ![h] = x] /\ UNCHANGED <<row, drive, made, session, token>>
    BY <1>5 DEF D!LinkFails
  <2> HIDE DEF x
  <2>4. x.pc = "row"
    BY <2>1
  <2> QED
    BY <2>2, <2>3, <2>4, InviteMoves
<1>6. CASE D!Ends(h)
  BY <1>2, <1>6, InviteMoves DEF D!Ends
<1> QED
  BY <1>3, <1>4, <1>5, <1>6

\* The application there is, or a new one, which is nobody's yet.
LEMMA ApplyStep == ASSUME DriveInv, NEW h \in Requests, D!Apply(h) PROVE DriveInv'
<1> DEFINE i == invite[h]
           e == EmailOf[i.row]
<1>1. i \in Inviting /\ InviteOK(h) /\ i.pc = "app" /\ UNCHANGED <<row, session, token>>
  BY DEF DriveInv, DriveTypes, D!Apply
<1>2. i.row \in Rows /\ e \in DriveEmails
  BY <1>1, IntakeConstants DEF InviteOK, D!CampusAssumption
<1>3. None \notin D!Apps /\ D!Apps = 1 .. MaxApps /\ MaxApps \in Nat
  BY IntakeConstants DEF D!CampusAssumption, D!Apps
<1>4. ASSUME NEW a \in D!Apps,
             invite' = [invite EXCEPT ![h] = [@ EXCEPT !.pc = "token", !.app = a]]
      PROVE  /\ [i EXCEPT !.pc = "token", !.app = a] \in Inviting
             /\ invite' = [invite EXCEPT ![h] = [i EXCEPT !.pc = "token", !.app = a]]
             /\ [i EXCEPT !.pc = "token", !.app = a].pc = "token"
             /\ [i EXCEPT !.pc = "token", !.app = a].row = i.row
             /\ [i EXCEPT !.pc = "token", !.app = a].app = a
  <2>1. [i EXCEPT !.pc = "token", !.app = a] \in
            [pc : {"token"}, left : {i.left}, row : {i.row}, app : {a}]
    BY <1>1 DEF Inviting
  <2>2. [i EXCEPT !.pc = "token", !.app = a] \in Inviting
    BY <1>1, <2>1 DEF Inviting
  <2> QED
    BY <1>4, <2>1, <2>2
<1>5. CASE drive[e] # None
  <2>1. /\ invite' = [invite EXCEPT ![h] = [@ EXCEPT !.pc = "token", !.app = drive[e]]]
        /\ UNCHANGED <<drive, made>>
    BY <1>5 DEF D!Apply
  <2>2. drive[e] \in D!Apps /\ drive[e] <= made
    BY <1>2, <1>5 DEF DriveInv, DriveTypes, NumbersOK
  <2> DEFINE x == [i EXCEPT !.pc = "token", !.app = drive[e]]
  <2>3. /\ x \in Inviting /\ invite' = [invite EXCEPT ![h] = x]
        /\ x.pc = "token" /\ x.row \in Rows /\ x.app = drive[e]
    BY <1>2, <1>4, <2>1, <2>2
  <2> HIDE DEF x
  <2> QED
    BY <1>1, <2>1, <2>2, <2>3, InviteMoves
<1>6. CASE drive[e] = None
  <2> DEFINE n == made + 1
             x == [i EXCEPT !.pc = "token", !.app = n]
  <2>1. /\ made < MaxApps /\ made' = n /\ drive' = [drive EXCEPT ![e] = n]
        /\ invite' = [invite EXCEPT ![h] = [@ EXCEPT !.pc = "token", !.app = n]]
    BY <1>6 DEF D!Apply
  <2>2. made \in Nat /\ n \in D!Apps /\ n \in 0 .. MaxApps
    BY <1>3, <2>1 DEF DriveInv, DriveTypes
  <2>3. /\ x \in Inviting /\ invite' = [invite EXCEPT ![h] = x]
        /\ x.pc = "token" /\ x.row = i.row /\ x.app = n
    BY <1>4, <2>1, <2>2
  <2> HIDE DEF x
  <2>4. \A f \in DriveEmails : drive'[f] = IF f = e THEN n ELSE drive[f]
    BY <2>1 DEF DriveInv, DriveTypes
  <2>5. \A f \in DriveEmails : drive[f] # None => drive[f] \in Nat /\ drive[f] <= made
    BY <1>3 DEF DriveInv, DriveTypes, NumbersOK
  <2>6. DriveTypes'
    <3>1. drive' \in [DriveEmails -> D!Apps \cup {None}]
      BY <1>2, <2>1, <2>2 DEF DriveInv, DriveTypes
    <3>2. invite' \in [Requests -> Inviting]
      BY <2>3 DEF DriveInv, DriveTypes
    <3> QED
      BY <1>1, <2>1, <2>2, <3>1, <3>2 DEF DriveInv, DriveTypes, D!There
  <2>7. NumbersOK'
    <3>1. ASSUME NEW f \in DriveEmails, drive'[f] # None PROVE drive'[f] <= made'
      BY <2>1, <2>2, <2>4, <2>5, <3>1
    <3>2. ASSUME NEW f \in DriveEmails, NEW g \in DriveEmails, drive'[f] # None,
                 drive'[f] = drive'[g]
          PROVE  f = g
      BY <2>1, <2>2, <2>4, <2>5, <3>2 DEF DriveInv, NumbersOK
    <3> QED
      BY <3>1, <3>2 DEF NumbersOK
  <2>8. ASSUME NEW a \in D!Apps, a <= made PROVE D!Alive(a)' => D!Alive(a)
    <3>1. a # n
      BY <1>3, <2>2, <2>8
    <3> QED
      BY <2>4, <3>1 DEF D!Alive
  <2>9. \A a : D!Alive(a) /\ a # None => D!Alive(a)'
    BY <1>6, <2>4 DEF D!Alive
  <2>10. ASSUME NEW g \in Requests PROVE InviteOK(g)'
    <3>1. InviteOK(g) /\ invite'[g] = IF g = h THEN x ELSE invite[g]
      BY <2>3 DEF DriveInv, DriveTypes
    <3>2. CASE g = h
      <4>1. n <= made'
        BY <2>1, <2>2
      <4> QED
        BY <1>2, <2>2, <2>3, <3>1, <3>2, <4>1 DEF InviteOK
    <3>3. CASE g # h
      <4>1. invite'[g] = invite[g]
        BY <3>1, <3>3
      <4>2. \A a \in D!Apps : a <= made => a <= made'
        BY <1>3, <2>1, <2>2
      <4> QED
        BY <1>1, <2>8, <3>1, <4>1, <4>2 DEF InviteOK
    <3> QED
      BY <3>2, <3>3
  <2>11. D!WaitsForALink'
    BY <1>1, <2>9 DEF DriveInv, D!WaitsForALink, D!There
  <2> QED
    BY <2>6, <2>7, <2>10, <2>11 DEF DriveInv
<1> QED
  BY <1>5, <1>6

\* Links come and are spent, and sessions come; none goes.
LEMMA LinksStand ==
    ASSUME DriveInv, UNCHANGED <<row, drive, made>>,
           token' \in [D!Apps -> {None, "live", "spent"}],
           \A a \in D!Apps : token[a] # None => token'[a] # None,
           session \subseteq session',
           invite' \in [Requests -> Inviting],
           \A h \in Requests : InviteOK(h)'
    PROVE  DriveInv'
<1>1. DriveTypes' /\ NumbersOK'
  BY DEF DriveInv, DriveTypes, NumbersOK, D!There
<1>2. D!WaitsForALink'
  BY DEF DriveInv, DriveTypes, SheetRows, D!WaitsForALink, D!There, D!Alive
<1> QED
  BY <1>1, <1>2 DEF DriveInv

LEMMA LinkStep ==
    ASSUME DriveInv, \/ \E a \in D!Apps : D!Spend(a)
                     \/ \E h \in Requests : D!Link(h) \/ D!Session(h)
    PROVE  DriveInv'
<1>0. "live" # None /\ "spent" # None
  BY IntakeConstants DEF D!CampusAssumption
<1>1. ASSUME NEW a \in D!Apps, D!Spend(a) PROVE DriveInv'
  <2>1. /\ token' \in [D!Apps -> {None, "live", "spent"}]
        /\ \A b \in D!Apps : token[b] # None => token'[b] # None
    BY <1>0, <1>1 DEF D!Spend, DriveInv, DriveTypes
  <2>2. UNCHANGED <<row, drive, made, session, invite>>
    BY <1>1 DEF D!Spend
  <2>3. \A h \in Requests : InviteOK(h)'
    BY <2>1, <2>2 DEF DriveInv, InviteOK, D!Alive
  <2>4. invite' \in [Requests -> Inviting]
    BY <2>2 DEF DriveInv, DriveTypes
  <2> QED
    BY <2>1, <2>2, <2>3, <2>4, LinksStand
<1>2. ASSUME NEW h \in Requests, D!Link(h) \/ D!Session(h) PROVE DriveInv'
  <2> DEFINE i == invite[h]
  <2>1. i \in Inviting /\ InviteOK(h) /\ i.pc \in {"token", "session"}
    BY <1>2 DEF DriveInv, DriveTypes, D!Link, D!Session
  <2>2. i.app \in D!Apps /\ i.app <= made /\ i.row \in Rows /\ D!Alive(i.app)
    BY <1>2, <2>1 DEF InviteOK, D!Link, D!Session
  <2>3. PICK pc \in {"session", "attach"} :
            /\ invite' = [invite EXCEPT ![h].pc = pc]
            /\ pc = "session" => D!Link(h)
            /\ pc = "attach" => D!Session(h)
    BY <1>2 DEF D!Link, D!Session
  <2>4. /\ [i EXCEPT !.pc = pc] \in [pc : {pc}, left : {i.left}, row : {i.row}, app : {i.app}]
        /\ [i EXCEPT !.pc = pc] \in Inviting
    BY <2>1, <2>3 DEF Inviting
  <2>5. /\ invite' \in [Requests -> Inviting]
        /\ \A g \in Requests : invite'[g] = IF g = h THEN [i EXCEPT !.pc = pc] ELSE invite[g]
    BY <2>3, <2>4 DEF DriveInv, DriveTypes
  <2>6. /\ token' \in [D!Apps -> {None, "live", "spent"}]
        /\ \A b \in D!Apps : token[b] # None => token'[b] # None
        /\ session \subseteq session'
        /\ UNCHANGED <<row, drive, made>>
    BY <1>0, <1>2, <2>2 DEF D!Link, D!Session, DriveInv, DriveTypes
  <2>7. ASSUME NEW g \in Requests PROVE InviteOK(g)'
    <3>1. CASE g # h
      <4>1. InviteOK(g) /\ invite'[g] = invite[g]
        BY <2>5, <3>1 DEF DriveInv
      <4> QED
        BY <2>6, <4>1 DEF InviteOK, D!Alive
    <3>2. CASE g = h
      <4>1. /\ invite'[h].pc = pc /\ invite'[h].row = i.row /\ invite'[h].app = i.app
        BY <2>4, <2>5
      <4>2. token'[i.app] # None
        <5>1. CASE pc = "session"
          BY <1>0, <2>2, <2>3, <5>1 DEF D!Link, DriveInv, DriveTypes
        <5>2. CASE pc = "attach"
          BY <2>1, <2>2, <2>3, <2>6, <5>2 DEF D!Session, InviteOK
        <5> QED
          BY <2>3, <5>1, <5>2
      <4>3. pc = "attach" => i.app \in session'
        BY <2>3 DEF D!Session
      <4> QED
        BY <2>2, <2>3, <2>6, <3>2, <4>1, <4>2, <4>3 DEF InviteOK
    <3> QED
      BY <3>1, <3>2
  <2> QED
    BY <2>5, <2>6, <2>7, LinksStand
<1> QED
  BY <1>1, <1>2

\* The row comes to name its application, and its mail is queued.
LEMMA AttachStep ==
    ASSUME DriveInv, NEW h \in Requests, D!Attach(h) \/ D!Queue(h) PROVE DriveInv'
<1> DEFINE i == invite[h]
           r == invite[h].row
<1>1. /\ i \in Inviting /\ InviteOK(h) /\ i.pc \in {"attach", "queue"}
      /\ UNCHANGED <<drive, made, session, token>>
  BY DEF DriveInv, DriveTypes, D!Attach, D!Queue
<1>2. r \in Rows
  BY <1>1 DEF InviteOK
<1>3. PICK x \in Inviting : invite' = [invite EXCEPT ![h] = x] /\ x.pc \in {"queue", "row"}
                            /\ x.row \in Rows \cup {None} /\ (x.pc = "queue" => x.row \in Rows)
  <2>1. CASE D!Attach(h)
    <3> DEFINE x == [i EXCEPT !.pc = "queue", !.app = None]
    <3>1. x \in [pc : {"queue"}, left : {i.left}, row : {r}, app : {None}]
      BY <1>1 DEF Inviting
    <3>2. x \in Inviting
      BY <1>1, <3>1 DEF Inviting
    <3>3. invite' = [invite EXCEPT ![h] = x]
      BY <2>1 DEF D!Attach
    <3> HIDE DEF x
    <3> QED
      BY <1>2, <3>1, <3>2, <3>3
  <2>2. CASE D!Queue(h)
    <3> DEFINE x == [i EXCEPT !.pc = "row", !.row = None]
    <3>1. x \in [pc : {"row"}, left : {i.left}, row : {None}, app : {i.app}]
      BY <1>1 DEF Inviting
    <3>2. x \in Inviting
      BY <1>1, <3>1 DEF Inviting
    <3>3. invite' = [invite EXCEPT ![h] = x]
      BY <2>2 DEF D!Queue
    <3> HIDE DEF x
    <3> QED
      BY <3>1, <3>2, <3>3
  <2> QED
    BY <2>1, <2>2
<1>4. /\ invite' \in [Requests -> Inviting]
      /\ \A g \in Requests : invite'[g] = IF g = h THEN x ELSE invite[g]
  BY <1>3 DEF DriveInv, DriveTypes
<1>5. ASSUME NEW g \in Requests PROVE InviteOK(g)'
  BY <1>1, <1>3, <1>4 DEF InviteOK, DriveInv, D!Alive
<1>6. PICK y : /\ row' = IF D!There(r) THEN [row EXCEPT ![r] = y] ELSE row
               /\ D!There(r) => y \in SheetRows
               /\ D!There(r) /\ y.app # None =>
                      \/ y.app = row[r].app
                      \/ D!Alive(y.app) /\ y.app \in session /\ token[y.app] # None
  <2>1. D!There(r) => row[r] \in SheetRows
    BY <1>2 DEF DriveInv, DriveTypes
  <2>2. CASE D!Attach(h)
    <3> DEFINE y == [row[r] EXCEPT !.app = i.app]
    <3>1. D!There(r) => y \in SheetRows /\ y.app = i.app
      BY <1>1, <2>1, <2>2 DEF D!Attach, InviteOK, SheetRows
    <3>2. row' = IF D!There(r) THEN [row EXCEPT ![r] = y] ELSE row
      BY <2>2 DEF D!Attach
    <3>3. D!There(r) => D!Alive(i.app) /\ i.app \in session /\ token[i.app] # None
      BY <1>1, <2>2 DEF D!Attach, InviteOK
    <3> HIDE DEF y
    <3> QED
      BY <3>1, <3>2, <3>3
  <2>3. CASE D!Queue(h)
    <3> DEFINE y == [row[r] EXCEPT !.status = "invite_queued", !.mail = "queued"]
    <3>1. D!There(r) => y \in [status : {"invite_queued"}, mail : {"queued"}, app : {row[r].app}]
      BY <2>1 DEF SheetRows
    <3>2. D!There(r) => y \in SheetRows /\ y.app = row[r].app
      BY <2>1, <3>1 DEF SheetRows
    <3>3. row' = IF D!There(r) THEN [row EXCEPT ![r] = y] ELSE row
      BY <1>2, <2>3 DEF D!Queue, DriveInv, DriveTypes
    <3> HIDE DEF y
    <3> QED
      BY <3>2, <3>3
  <2> QED
    BY <2>2, <2>3
<1>7. \A s \in Rows : row'[s] = IF s = r /\ D!There(r) THEN y ELSE row[s]
  BY <1>2, <1>6 DEF DriveInv, DriveTypes
<1>8. DriveTypes'
  <2>1. row' \in [Rows -> SheetRows \cup {None}]
    BY <1>2, <1>6 DEF DriveInv, DriveTypes
  <2>2. \A s \in Rows : D!There(s)' => row'[s] \in SheetRows
    BY <1>6, <1>7 DEF DriveInv, DriveTypes, D!There
  <2> QED
    BY <1>1, <1>4, <2>1, <2>2 DEF DriveInv, DriveTypes
<1>9. NumbersOK'
  BY <1>1 DEF DriveInv, NumbersOK
<1>10. D!WaitsForALink'
  <2> SUFFICES ASSUME NEW s \in Rows, D!There(s)', row'[s].app # None
               PROVE  /\ D!Alive(row'[s].app) /\ row'[s].app \in session
                      /\ token[row'[s].app] # None
    BY <1>1 DEF D!WaitsForALink, D!Alive
  <2>1. D!There(s) /\ (\/ row'[s].app = row[s].app
                       \/ D!Alive(row'[s].app) /\ row'[s].app \in session
                          /\ token[row'[s].app] # None)
    BY <1>6, <1>7 DEF D!There
  <2> QED
    BY <2>1 DEF DriveInv, D!WaitsForALink
<1> QED
  BY <1>5, <1>8, <1>9, <1>10 DEF DriveInv

\* A deletion takes an application from the rows that name it.
LEMMA DetachStep == ASSUME DriveInv, NEW e \in DriveEmails, D!Detach(e) PROVE DriveInv'
<1>1. UNCHANGED <<drive, made, session, token, invite>>
  BY DEF D!Detach
<1>2. ASSUME NEW r \in Rows
      PROVE  /\ D!There(r)' => row'[r] \in SheetRows /\ D!There(r)
             /\ row'[r] \in SheetRows \cup {None}
             /\ D!There(r)' /\ row'[r].app # None => row'[r].app = row[r].app
  <2>1. row'[r] = IF D!There(r) /\ row[r].app = drive[e] THEN [row[r] EXCEPT !.app = None]
                  ELSE row[r]
    BY DEF D!Detach
  <2>2. CASE D!There(r)
    <3>1. row[r] \in SheetRows
      BY <2>2 DEF DriveInv, DriveTypes
    <3>2. [row[r] EXCEPT !.app = None] \in SheetRows /\ [row[r] EXCEPT !.app = None].app = None
      BY <3>1 DEF SheetRows
    <3> QED
      BY <2>1, <2>2, <3>1, <3>2 DEF D!There
  <2>3. CASE ~D!There(r)
    BY <2>1, <2>3 DEF D!There
  <2> QED
    BY <2>2, <2>3
<1>3. row' \in [Rows -> SheetRows \cup {None}]
  BY <1>2 DEF D!Detach
<1> QED
  BY <1>1, <1>2, <1>3, RowsMove

\* With an application that no row names go its link and its session.
LEMMA DeleteStep == ASSUME DriveInv, NEW e \in DriveEmails, D!DeleteApplication(e) PROVE DriveInv'
<1>0. PICK a : a = drive[e]
  OBVIOUS
<1>1. /\ a # None /\ a \in D!Apps /\ a <= made
      /\ UNCHANGED <<made, invite>> /\ session' = session \ {a}
      /\ drive' = [drive EXCEPT ![e] = None] /\ token' = [token EXCEPT ![a] = None]
  BY <1>0 DEF D!DeleteApplication, DriveInv, DriveTypes, NumbersOK
<1>2. /\ \A f \in DriveEmails : drive'[f] = IF f = e THEN None ELSE drive[f]
      /\ \A b \in D!Apps : token'[b] = IF b = a THEN None ELSE token[b]
  BY <1>1 DEF DriveInv, DriveTypes
<1>3. \A b : b # None /\ b # a => (D!Alive(b)' <=> D!Alive(b))
  BY <1>0, <1>2 DEF D!Alive
<1>4. ~D!Alive(a)'
  BY <1>0, <1>1, <1>2 DEF D!Alive, DriveInv, NumbersOK
<1>5. ASSUME NEW r \in Rows
      PROVE  /\ row'[r] = row[r] /\ (D!There(r) => row[r] \in SheetRows)
             /\ row[r] \in SheetRows \cup {None}
             /\ D!There(r) /\ row[r].app # None => row[r].app # a
  <2>1. row' = row /\ (D!There(r) => row[r].app # a)
    BY <1>0 DEF D!DeleteApplication
  <2>2. row[r] \in SheetRows \cup {None} /\ (D!There(r) => row[r] \in SheetRows)
    BY DEF DriveInv, DriveTypes
  <2> QED
    BY <2>1, <2>2
<1>6. DriveTypes'
  <2>1. row' \in [Rows -> SheetRows \cup {None}]
    BY DEF D!DeleteApplication, DriveInv, DriveTypes
  <2>2. /\ drive' \in [DriveEmails -> D!Apps \cup {None}]
        /\ token' \in [D!Apps -> {None, "live", "spent"}]
    BY <1>1 DEF DriveInv, DriveTypes
  <2>3. \A r \in Rows : D!There(r)' => row'[r] \in SheetRows
    BY <1>5 DEF D!There
  <2> QED
    BY <1>1, <2>1, <2>2, <2>3 DEF DriveInv, DriveTypes
<1>7. NumbersOK'
  BY <1>1, <1>2 DEF DriveInv, NumbersOK
<1>8. None \notin D!Apps
  BY IntakeConstants DEF D!CampusAssumption, D!Apps
<1>9. ASSUME NEW g \in Requests PROVE InviteOK(g)'
  <2>1. InviteOK(g) /\ invite'[g] = invite[g] /\ made' = made
    BY <1>1 DEF DriveInv
  <2> QED
    BY <1>1, <1>2, <1>3, <1>4, <1>8, <2>1 DEF InviteOK
<1>10. D!WaitsForALink'
  <2> SUFFICES ASSUME NEW r \in Rows, D!There(r)', row'[r].app # None
               PROVE  /\ \E f \in DriveEmails : drive'[f] = row'[r].app
                      /\ row'[r].app \in session' /\ token'[row'[r].app] # None
    BY DEF D!WaitsForALink, D!Alive
  <2>1. /\ D!There(r) /\ row'[r].app = row[r].app /\ row[r].app # a
        /\ row[r].app \in D!Apps
    BY <1>5 DEF SheetRows, D!There
  <2>2. D!Alive(row[r].app) /\ row[r].app \in session /\ token[row[r].app] # None
    BY <2>1 DEF DriveInv, D!WaitsForALink
  <2> QED
    BY <1>0, <1>1, <1>2, <2>1, <2>2 DEF D!Alive
<1> QED
  BY <1>6, <1>7, <1>9, <1>10 DEF DriveInv

LEMMA DriveStep == ASSUME DriveInv, [D!Next]_(D!vars) PROVE DriveInv'
<1>1. CASE UNCHANGED D!vars
  <2>1. UNCHANGED <<row, drive, made, session, token, invite>>
    BY <1>1 DEF D!vars
  <2> QED
    BY <2>1, RowsMove DEF DriveInv, DriveTypes, D!There
<1>2. ASSUME NEW h \in Requests,
             \/ D!TakeRow(h) \/ D!LinkFails(h) \/ D!Ends(h)
             \/ \E chosen \in (SUBSET Rows) \ {{}} : D!Begin(h, chosen)
      PROVE  DriveInv'
  BY <1>2, LoopStep
<1>3. ASSUME NEW h \in Requests,
             D!Apply(h) \/ D!Link(h) \/ D!Session(h) \/ D!Attach(h) \/ D!Queue(h)
      PROVE  DriveInv'
  BY <1>3, ApplyStep, LinkStep, AttachStep
<1> QED
  BY <1>1, <1>2, <1>3, SheetStep, LinkStep, DetachStep, DeleteStep DEF D!Next

\* An application a row of the drive names is there and has had a link and a session made for it,
\* for any number of invites at once, crashes between their statements and deletions.
THEOREM WhoeverIsMailedHasALink == D!Spec => []WaitsForALink
<1>1. DriveInv => WaitsForALink
  BY DEF DriveInv, WaitsForALink
<1>2. DriveInv /\ [D!Next]_(D!vars) => DriveInv'
  BY DriveStep
<1> QED
  BY <1>1, <1>2, DriveInit, PTL DEF D!Spec
=============================================================================

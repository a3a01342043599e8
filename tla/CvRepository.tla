----------------------------- MODULE CvRepository -----------------------------
(***************************************************************************)
(* The CV repository: a row of cv_repository per CV and a stored file per  *)
(* row, `{cv_id}.{ext}`.  The Gmail poller (email_ingest) brings in the    *)
(* attachments of unread mails and marks a mail read when all of its own   *)
(* went in.  ingest_one and ingest_and_link serve the scans, the uploads   *)
(* and the applications; a candidate's upload in the portal makes a row    *)
(* without a hash; a row is deleted together with its file.                *)
(*                                                                         *)
(* None of it runs in a transaction: a worker's operation goes statement   *)
(* by statement, any statement may fail or be the last.  UNIQUE(tenant_id, *)
(* file_hash) makes an INSERT fail; the rows here are one tenant's.        *)
(***************************************************************************)
EXTENDS Naturals, Sequences, FiniteSets

CONSTANTS
    None,
    Workers,
    Mails, Contents, \* mails of the polled mailbox; what is in a file (its hash)
    Attachments,     \* per mail: the contents of its *_Resume attachments, in order
    MaxIds           \* bound: cv_ids drawn

ASSUME RepositoryAssumption ==
    /\ Attachments \in [Mails -> Seq(Contents)]
    /\ MaxIds \in Nat /\ None \notin 1..MaxIds /\ None \notin Contents

VARIABLES
    unread,  \* mails with the UNREAD label
    rows,    \* per cv_id: its row, or None
    files,   \* cv_ids whose file is in storage
    used,    \* cv_ids drawn so far
    cv,      \* the candidate's cv_repository_id; every CV here is this candidate's
    op,      \* what each worker is doing
    ever     \* ghost: contents that have had a row

vars == <<unread, rows, files, used, cv, op, ever>>

-----------------------------------------------------------------------------
Ids == 1..MaxIds
Idle == [pc |-> "idle", how |-> None, mails |-> {}, mail |-> None, k |-> 0, good |-> {},
         content |-> None, id |-> None]

Init ==
    /\ unread = Mails
    /\ rows = [i \in Ids |-> None] /\ files = {} /\ used = 0
    /\ cv = None
    /\ op = [w \in Workers |-> Idle]
    /\ ever = {}

Row(i) == rows[i] # None
RowsOf(content) == {i \in Ids : Row(i) /\ rows[i].content = content}
Step(w, r) == op' = [op EXCEPT ![w] = r]

-----------------------------------------------------------------------------
(* The Gmail poller. *)

\* One request lists the unread mails and fetches their resume attachments.
Fetch(w) ==
    /\ op[w].pc = "idle"
    /\ LET with == {m \in unread : Attachments[m] # <<>>}
       IN  with # {} /\ Step(w, [Idle EXCEPT !.pc = "mail", !.how = "gmail", !.mails = with])
    /\ UNCHANGED <<unread, rows, files, used, cv, ever>>

NextMail(w) ==
    /\ op[w].pc = "mail"
    /\ \E m \in op[w].mails :
        Step(w, [op[w] EXCEPT !.pc = "check", !.mails = @ \ {m}, !.mail = m, !.k = 1,
                              !.content = Attachments[m][1]])
    /\ UNCHANGED <<unread, rows, files, used, cv, ever>>

\* The next attachment of the mail, when this one is in.
Ingested(w) ==
    LET k == op[w].k
        m == op[w].mail
    IN  IF k < Len(Attachments[m])
        THEN [op[w] EXCEPT !.pc = "check", !.k = k + 1, !.content = Attachments[m][k + 1],
                           !.id = None, !.good = @ \cup {m}]
        ELSE [op[w] EXCEPT !.pc = "mail", !.mail = None, !.k = 0, !.content = None,
                           !.id = None, !.good = @ \cup {m}]

\* What an operation goes on to: the poller with its mails, the others with nothing.
Done(w) == IF op[w].how = "gmail" THEN Ingested(w) ELSE Idle

\* Mutant for ReadMeansIngested: a failed attachment does not fail its mail.
MailFailsAlone(w) == Ingested(w)

\* The mail's other attachments are left, and it stays unread, those before it notwithstanding.
MailFails(w) ==
    [op[w] EXCEPT !.pc = "mail", !.mail = None, !.k = 0, !.content = None, !.id = None,
                  !.good = @ \ {op[w].mail}]

Mark(w) ==
    /\ op[w].pc = "mail" /\ op[w].mails = {}
    /\ unread' = unread \ op[w].good
    /\ Step(w, Idle)
    /\ UNCHANGED <<rows, files, used, cv, ever>>

-----------------------------------------------------------------------------
(* One file (ingest_one, ingest_and_link, _ingest_email_attachment). *)

HandIn(w, content, how) ==
    /\ op[w].pc = "idle"
    /\ Step(w, [Idle EXCEPT !.pc = "check", !.how = how, !.content = content])
    /\ UNCHANGED <<unread, rows, files, used, cv, ever>>

\* Who hands a file in: a mail of a recruiter's mailbox, a file of the ingest folder, an upload ...
ScanMessage(w, c) == HandIn(w, c, "scan")
FolderFile(w, c) == HandIn(w, c, "scan")
UploadCv(w, c) == HandIn(w, c, "scan")
\* ... and, knowing the candidate, an application, a campus interview or the backfill.
Apply(w, c) == HandIn(w, c, "application")
CampusResume(w, c) == HandIn(w, c, "application")
Backfill(w, c) == HandIn(w, c, "application")

\* The hash is looked for.  An application links the row it finds when nobody else is linked.
CheckHash(w) ==
    /\ op[w].pc = "check"
    /\ LET found == RowsOf(op[w].content)
       IN  IF found = {} THEN Step(w, [op[w] EXCEPT !.pc = "save"])
           ELSE \E i \in found :
                  Step(w, IF op[w].how = "application" /\ ~rows[i].mapped
                          THEN [op[w] EXCEPT !.pc = "relink", !.id = i] ELSE Done(w))
    /\ UNCHANGED <<unread, rows, files, used, cv, ever>>

Save(w) ==
    /\ op[w].pc = "save" /\ used < MaxIds
    /\ used' = used + 1 /\ files' = files \cup {used + 1}
    /\ Step(w, [op[w] EXCEPT !.pc = "insert", !.id = used + 1])
    /\ UNCHANGED <<unread, rows, cv, ever>>

\* Mapped when the file's name is the candidate's; an application's always is.
Insert(w) ==
    /\ op[w].pc = "insert"
    /\ op[w].content # None => RowsOf(op[w].content) = {}
    /\ \E mapped \in IF op[w].how \in {"application", "portal"} THEN {TRUE} ELSE BOOLEAN :
        /\ rows' = [rows EXCEPT ![op[w].id] = [content |-> op[w].content, mapped |-> mapped]]
        /\ Step(w, IF mapped /\ op[w].how # "gmail" THEN [op[w] EXCEPT !.pc = "attach"] ELSE Done(w))
    /\ ever' = ever \cup {op[w].content}
    /\ UNCHANGED <<unread, files, used, cv>>

Relink(w) ==
    /\ op[w].pc = "relink"
    /\ rows' = IF Row(op[w].id) THEN [rows EXCEPT ![op[w].id].mapped = TRUE] ELSE rows
    /\ Step(w, [op[w] EXCEPT !.pc = "attach"])
    /\ UNCHANGED <<unread, files, used, cv, ever>>

\* The candidate's own upload replaces the CV; an ingest gives one to who has none.
\* The foreign key refuses a row that is gone.
Attach(w) ==
    /\ op[w].pc = "attach" /\ (Row(op[w].id) \/ (op[w].how # "portal" /\ cv # None))
    /\ cv' = IF op[w].how = "portal" \/ cv = None THEN op[w].id ELSE cv
    /\ Step(w, Done(w))
    /\ UNCHANGED <<unread, rows, files, used, ever>>

\* portal_update_resume stores the file without a look at its hash, and the row without one.
PortalUpload(w) ==
    /\ op[w].pc = "idle"
    /\ Step(w, [Idle EXCEPT !.pc = "save", !.how = "portal"])
    /\ UNCHANGED <<unread, rows, files, used, cv, ever>>

\* The enricher maps a row in the pool by the name it read in the CV.
MapByLlmName(w, i) ==
    /\ op[w].pc = "idle" /\ Row(i) /\ ~rows[i].mapped
    /\ Step(w, [Idle EXCEPT !.pc = "relink", !.how = "enricher", !.id = i])
    /\ UNCHANGED <<unread, rows, files, used, cv, ever>>

-----------------------------------------------------------------------------
(* Deleting. *)

\* delete_cv and bulk_delete_cv read the file's path ...
ReadRow(w, i) ==
    /\ op[w].pc = "idle" /\ Row(i)
    /\ Step(w, [Idle EXCEPT !.pc = "drop_row", !.how = "delete", !.id = i])
    /\ UNCHANGED <<unread, rows, files, used, cv, ever>>

\* Mutant for RowHasFile: the file is removed before the row.
DropFileFirst(w) ==
    /\ op[w].pc = "drop_row"
    /\ files' = files \ {op[w].id}
    /\ Step(w, [op[w] EXCEPT !.pc = "drop_file"])
    /\ UNCHANGED <<unread, rows, used, cv, ever>>

\* ... delete the row, which takes itself out of the candidate's row ...
DropRow(w) ==
    /\ op[w].pc = "drop_row"
    /\ rows' = [rows EXCEPT ![op[w].id] = None]
    /\ cv' = IF cv = op[w].id THEN None ELSE cv
    /\ Step(w, [op[w] EXCEPT !.pc = "drop_file"])
    /\ UNCHANGED <<unread, files, used, ever>>

\* ... and then remove the file.
DropFile(w) ==
    /\ op[w].pc = "drop_file"
    /\ files' = files \ {op[w].id}
    /\ Step(w, Idle)
    /\ UNCHANGED <<unread, rows, used, cv, ever>>

-----------------------------------------------------------------------------
\* A statement fails, or the file cannot be read; and an INSERT whose hash is taken by now.
Fails(w) ==
    /\ op[w].pc \notin {"idle", "mail"}
    /\ Step(w, IF op[w].how = "gmail" THEN MailFails(w) ELSE Idle)
    /\ UNCHANGED <<unread, rows, files, used, cv, ever>>

\* The process dies, or Gmail does not take the mark.
Ends(w) ==
    /\ op[w].pc = "mail"
    /\ Step(w, Idle)
    /\ UNCHANGED <<unread, rows, files, used, cv, ever>>

Next ==
    \E w \in Workers :
        \/ Fetch(w) \/ NextMail(w) \/ Mark(w) \/ CheckHash(w) \/ Save(w) \/ Insert(w)
        \/ Relink(w) \/ Attach(w) \/ PortalUpload(w) \/ DropRow(w) \/ DropFile(w)
        \/ Fails(w) \/ Ends(w)
        \/ \E c \in Contents :
            \/ ScanMessage(w, c) \/ FolderFile(w, c) \/ UploadCv(w, c)
            \/ Apply(w, c) \/ CampusResume(w, c) \/ Backfill(w, c)
        \/ \E i \in Ids : MapByLlmName(w, i) \/ ReadRow(w, i)

Spec == Init /\ [][Next]_vars

-----------------------------------------------------------------------------
\* "Ingest and mark-read PER MESSAGE": a mail that is marked read has each of its resumes in the
\* repository, or had it there until a recruiter deleted it; none was lost to a failure on the way.
ReadMeansIngested ==
    \A m \in Mails \ unread : \A k \in 1..Len(Attachments[m]) : Attachments[m][k] \in ever

\* serve_cv_file: a row has its file in storage, whatever failed or died between the two.
RowHasFile == \A i \in Ids : Row(i) => i \in files
=============================================================================

------------------------ MODULE CandidateDocuments ------------------------
(***************************************************************************)
(* The documents of one candidate who is to join (routers/document_api.py):*)
(* the requests the recruiter makes, the document rows they ask for, the   *)
(* candidate's uploads and the reviews of HR and compliance.               *)
(*                                                                         *)
(* A statement commits by itself, so a handler is one action for each      *)
(* statement that another handler could come between; a worker may die     *)
(* between two of them.  Who verified what is left out; of the file a row  *)
(* says only whether one came in.                                          *)
(***************************************************************************)
EXTENDS Naturals, Sequences

CONSTANTS
    Workers,     \* concurrent handlers
    Types,       \* document types
    MaxRequests, \* bound: document_request rows of the candidate
    MaxReviews   \* bound: decisions on documents

RequestAssumption == MaxRequests \in Nat \ {0}
ReviewAssumption == MaxReviews \in Nat

VARIABLES
    request,  \* document_request rows, in the order they were made
    docs,     \* candidate_document rows, in the order they were made; file is "none", "stored",
              \* or (a ghost) "waived": none came in when HR set the verdict by hand
    reviews,  \* decisions on documents so far
    job       \* the handler a worker is in the middle of

vars == <<request, docs, reviews, job>>

\* What counts as uploaded in the request's status (_TERMINAL_UPLOAD_STATUSES).
Uploaded == {"uploaded", "verified", "compliance_review", "rejected"}

Idle == [op |-> "idle"]
Is(w, o) == job[w].op = o
Go(w, j) == job' = [job EXCEPT ![w] = j]

Init ==
    /\ request = <<>>
    /\ docs = <<>>
    /\ reviews = 0
    /\ job = [w \in Workers |-> Idle]

Rows(t) == {d \in DOMAIN docs : docs[d].type = t}

-----------------------------------------------------------------------------
\* request_documents: the request is on its way the moment its row is there ...
RequestDocuments(w) ==
    /\ Is(w, "idle") /\ Len(request) < MaxRequests
    /\ \E asked \in (SUBSET Types) \ {{}} :
        /\ request' = Append(request, [types |-> asked, status |-> "sent"])
        /\ Go(w, [op |-> "ask", left |-> asked])
    /\ UNCHANGED <<docs, reviews>>

\* ... and each type gets a row of its own, unless one is waiting for the candidate already.
LookForRow(w) ==
    /\ Is(w, "ask")
    /\ \E t \in job[w].left : LET left == job[w].left \ {t} IN
        Go(w, IF \A d \in Rows(t) : docs[d].status # "requested"
                  THEN [op |-> "add", left |-> left, type |-> t]
              ELSE IF left = {} THEN Idle ELSE [op |-> "ask", left |-> left])
    /\ UNCHANGED <<request, docs, reviews>>

AddRow(w) ==
    /\ Is(w, "add")
    /\ docs' = Append(docs, [type |-> job[w].type, status |-> "requested", file |-> "none"])
    /\ Go(w, IF job[w].left = {} THEN Idle ELSE [op |-> "ask", left |-> job[w].left])
    /\ UNCHANGED <<request, reviews>>

-----------------------------------------------------------------------------
\* verify_document and the three decisions of compliance_review_document: from which status
\* each is allowed, and what it makes of the document.
Decision == [
    verify  |-> [from |-> {"uploaded", "compliance_review"}, to |-> "verified"],
    start   |-> [from |-> {"uploaded", "verified"}, to |-> "compliance_review"],
    approve |-> [from |-> {"compliance_review"}, to |-> "verified"],
    reject  |-> [from |-> {"compliance_review"}, to |-> "rejected"]]

\* The status is read in one statement and written in the next.
Review(w) ==
    /\ Is(w, "idle") /\ reviews < MaxReviews
    /\ \E d \in DOMAIN docs, k \in DOMAIN Decision :
        /\ docs[d].status \in Decision[k].from
        /\ Go(w, [op |-> "review", doc |-> d, to |-> Decision[k].to])
    /\ reviews' = reviews + 1
    /\ UNCHANGED <<request, docs>>

WriteReview(w) ==
    /\ Is(w, "review")
    /\ docs' = [docs EXCEPT ![job[w].doc].status = job[w].to]
    /\ Go(w, Idle)
    /\ UNCHANGED <<request, reviews>>

\* patch_document_status asks for no status: a document that is merely requested may become
\* verified or rejected too.  It leaves the request as it is.
PatchStatus ==
    /\ reviews < MaxReviews
    /\ \E d \in DOMAIN docs, s \in {"verified", "rejected"} :
        docs' = [docs EXCEPT ![d].status = s,
                             ![d].file = IF @ = "none" THEN "waived" ELSE @]
    /\ reviews' = reviews + 1
    /\ UNCHANGED <<request, job>>

-----------------------------------------------------------------------------
\* candidate_upload_document: the newest row of the type; the file is stored in between.
Upload(w) ==
    /\ Is(w, "idle")
    /\ \E d \in DOMAIN docs :
        /\ \A e \in Rows(docs[d].type) : e <= d
        /\ Go(w, [op |-> "upload", doc |-> d])
    /\ UNCHANGED <<request, docs, reviews>>

WriteUpload(w) ==
    /\ Is(w, "upload")
    /\ docs' = [docs EXCEPT ![job[w].doc].status = "uploaded", ![job[w].doc].file = "stored"]
    /\ Go(w, [op |-> "refresh"])
    /\ UNCHANGED <<request, reviews>>

\* _refresh_request_status: the newest request ...
ReadLatest(w) ==
    /\ Is(w, "refresh")
    /\ Go(w, IF request = <<>> THEN Idle ELSE [op |-> "tally", of |-> Len(request)])
    /\ UNCHANGED <<request, docs, reviews>>

\* ... what its types have come to, where of several rows of a type the one the database
\* happens to return last is looked at ...
\* Mutant for CompleteIsEarned: a type counts as soon as it has a row.
TallyRows(types, row) ==
    LET done == {t \in types : row[t] # 0} IN
    IF done = types THEN "complete" ELSE IF done # {} THEN "partial" ELSE "sent"
Tally(types, row) ==
    LET done == {t \in types : row[t] # 0 /\ docs[row[t]].status \in Uploaded} IN
    IF done = types THEN "complete" ELSE IF done # {} THEN "partial" ELSE "sent"

ReadDocuments(w) ==
    /\ Is(w, "tally")
    /\ \E row \in [Types -> 0 .. Len(docs)] :
        /\ \A t \in Types : IF Rows(t) = {} THEN row[t] = 0 ELSE row[t] \in Rows(t)
        /\ Go(w, [op |-> "settle", of |-> job[w].of,
                  status |-> Tally(request[job[w].of].types, row)])
    /\ UNCHANGED <<request, docs, reviews>>

\* ... and its status by id, whatever it has become.
SettleRequest(w) ==
    /\ Is(w, "settle")
    /\ request' = [request EXCEPT ![job[w].of].status = job[w].status]
    /\ Go(w, Idle)
    /\ UNCHANGED <<docs, reviews>>

Die(w) == ~Is(w, "idle") /\ Go(w, Idle) /\ UNCHANGED <<request, docs, reviews>>

-----------------------------------------------------------------------------
Next ==
    \/ \E w \in Workers :
        \/ RequestDocuments(w) \/ LookForRow(w) \/ AddRow(w)
        \/ Review(w) \/ WriteReview(w)
        \/ Upload(w) \/ WriteUpload(w)
        \/ ReadLatest(w) \/ ReadDocuments(w) \/ SettleRequest(w)
        \/ Die(w)
    \/ PatchStatus

Spec == Init /\ [][Next]_vars

-----------------------------------------------------------------------------
\* A request reads 'complete' only when for every type it asks for a file came in, or HR has
\* set the verdict on a document of that type by hand, whichever uploads, refreshes and further
\* requests overlapped and whoever died (_refresh_request_status writes what it read a while
\* ago, by id).
CompleteIsEarned ==
    \A r \in DOMAIN request : request[r].status = "complete" =>
        \A t \in request[r].types : \E d \in Rows(t) : docs[d].file # "none"
=============================================================================

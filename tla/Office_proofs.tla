---------------------------- MODULE Office_proofs ----------------------------
(***************************************************************************)
(* Proofs about the office around the hiring (MCOffice), for any number of *)
(* sessions, handlers, document types, requests, reviews, pushes and       *)
(* messages: access withdrawn stays withdrawn (Identity), a complete       *)
(* request has had its documents (CandidateDocuments), and a verdict of    *)
(* the HRMS stands (VendorResults).                                        *)
(***************************************************************************)
EXTENDS MCOffice, SequenceTheorems, TLAPS

-----------------------------------------------------------------------------
(* The accounts (Identity).  Nothing is stored of a token, so the argument *)
(* is about numbers: a token never carries a version the row has not       *)
(* reached, every withdrawal moves the row past all tokens out there, and  *)
(* no version is ever taken back.  A deleted row keeps its version; there  *)
(* the argument is that it does not come back.                             *)

AccountRows ==
    [row : {"none", "there", "gone"}, active : BOOLEAN, boss : BOOLEAN, set : BOOLEAN, tver : Nat]
TokenRows == [phase : {"none", "signing", "signed", "expired"}, tver : Nat]

AccountRowsOK ==
    /\ account \in AccountRows
    /\ token \in [Sessions -> TokenRows]
    /\ shutOut \subseteq Sessions

\* No token is ahead of the row.
Behind == \A s \in Sessions : token[s].phase # "none" => token[s].tver <= account.tver

\* A token that was shut out is behind for good, or its account is gone for good.
Left(s) == token[s].phase # "none" /\ (token[s].tver < account.tver \/ account.row = "gone")
OutStaysOut == \A s \in shutOut : Left(s)

AccountInv == AccountRowsOK /\ Behind /\ OutStaysOut

-----------------------------------------------------------------------------
LEMMA AccountsInit == Init => AccountInv
BY DEF Init, AccountInv, AccountRowsOK, Behind, OutStaysOut, AccountRows, TokenRows, Unsigned

(* A token that gets the row's own version, as all that are given out do.  *)
LEMMA FreshKeepsInv ==
    ASSUME AccountInv, NEW s \in Sessions, token[s].phase = "none",
           NEW p \in {"signing", "signed"},
           token' = [token EXCEPT ![s] = [phase |-> p, tver |-> account.tver]],
           UNCHANGED <<account, shutOut>>
    PROVE  AccountInv'
<1>1. account.tver \in Nat
  BY DEF AccountInv, AccountRowsOK, AccountRows
<1>2. AccountRowsOK'
  BY <1>1 DEF AccountInv, AccountRowsOK, TokenRows
<1>3. Behind'
  BY <1>1 DEF AccountInv, AccountRowsOK, Behind, TokenRows
<1>4. s \notin shutOut
  BY DEF AccountInv, OutStaysOut, Left
<1>5. OutStaysOut'
  BY <1>4 DEF AccountInv, AccountRowsOK, OutStaysOut, Left, TokenRows
<1> QED BY <1>2, <1>3, <1>5 DEF AccountInv

(* A token that moves on with the version it was given.                    *)
LEMMA PhaseKeepsInv ==
    ASSUME AccountInv, NEW s \in Sessions, token[s].phase # "none",
           NEW p \in {"signed", "expired"},
           token' = [token EXCEPT ![s].phase = p],
           UNCHANGED <<account, shutOut>>
    PROVE  AccountInv'
<1>1. token[s] \in TokenRows /\ [token[s] EXCEPT !.phase = p] \in TokenRows
  BY DEF AccountInv, AccountRowsOK, TokenRows
<1>2. /\ AccountRowsOK' /\ token'[s].phase = p /\ token'[s].tver = token[s].tver
      /\ \A v \in Sessions : v # s => token'[v] = token[v]
  BY <1>1 DEF AccountInv, AccountRowsOK, TokenRows
<1> QED BY <1>2 DEF AccountInv, AccountRowsOK, Behind, OutStaysOut, Left

(* A change of the row that takes no version back and revives no row.      *)
LEMMA RowKeepsInv ==
    ASSUME AccountInv, account' \in AccountRows, account'.tver = account.tver,
           account.row = "gone" => account'.row = "gone",
           UNCHANGED <<token, shutOut>>
    PROVE  AccountInv'
BY DEF AccountInv, AccountRowsOK, Behind, OutStaysOut, Left

(* A withdrawal leaves every token behind: those that are out, those that  *)
(* are about to be signed, and those that were shut out before.            *)
LEMMA WithdrawKeepsInv ==
    ASSUME AccountInv, NEW row \in AccountRows, row.row = account.row, Withdraw(row)
    PROVE  AccountInv'
<1>1. /\ account \in AccountRows /\ account.tver \in Nat /\ account.tver + 1 \in Nat
      /\ account' = [row EXCEPT !.tver = account.tver + 1]
  BY DEF AccountInv, AccountRowsOK, AccountRows, Withdraw
<1>2. account' \in AccountRows /\ account'.tver = account.tver + 1 /\ account'.row = account.row
  BY <1>1 DEF AccountRows
<1>3. /\ token' = token /\ token \in [Sessions -> TokenRows]
      /\ \A s \in Sessions : token[s].tver \in Nat
  BY DEF Withdraw, AccountInv, AccountRowsOK, TokenRows
<1>4. AccountRowsOK'
  BY <1>2, <1>3 DEF Withdraw, AccountInv, AccountRowsOK
<1>5. Behind'
  BY <1>1, <1>2, <1>3 DEF AccountInv, Behind
<1>6. ASSUME NEW s \in shutOut' PROVE Left(s)'
  <2>1. s \in Sessions /\ token[s].phase # "none"
    BY <1>6 DEF Withdraw, AccountInv, AccountRowsOK, OutStaysOut, Left
  <2>2. token[s].tver <= account.tver
    BY <2>1 DEF AccountInv, Behind
  <2> QED BY <1>1, <1>2, <1>3, <2>1, <2>2 DEF Left
<1> QED BY <1>4, <1>5, <1>6 DEF AccountInv, OutStaysOut

(* So does a deletion: the row is gone, and nothing brings it back.        *)
LEMMA DeleteKeepsInv == ASSUME AccountInv, DeletePermanently PROVE AccountInv'
<1>1. account \in AccountRows /\ account' = [account EXCEPT !.row = "gone", !.active = FALSE]
  BY DEF AccountInv, AccountRowsOK, DeletePermanently
<1>2. account' \in AccountRows /\ account'.row = "gone" /\ account'.tver = account.tver
  BY <1>1 DEF AccountRows
<1> QED BY <1>2 DEF DeletePermanently, AccountInv, AccountRowsOK, Behind, OutStaysOut, Left

-----------------------------------------------------------------------------
(* What is done to the row.                                                *)
LEMMA AccountRowSteps ==
    ASSUME AccountInv,
           \/ CreateAccount \/ UpdateUser \/ Deactivate \/ AdminReset \/ RevokeSuperadmin
           \/ DeletePermanently \/ SetPassword
    PROVE  AccountInv'
<1>1. account \in AccountRows
  BY DEF AccountInv, AccountRowsOK
<1>2. CASE CreateAccount
  <2>1. PICK boss \in BOOLEAN, set \in BOOLEAN : account' =
            [account EXCEPT !.row = "there", !.active = TRUE, !.boss = boss, !.set = set]
    BY <1>2 DEF CreateAccount
  <2>2. account' \in AccountRows /\ account'.tver = account.tver
    BY <1>1, <2>1 DEF AccountRows
  <2> QED BY <1>2, <2>2, RowKeepsInv DEF CreateAccount, tokenVars
<1>3. CASE UpdateUser
  <2>1. PICK active \in BOOLEAN : Withdraw([account EXCEPT !.active = active])
    BY <1>3 DEF UpdateUser
  <2>2. /\ [account EXCEPT !.active = active] \in AccountRows
        /\ [account EXCEPT !.active = active].row = account.row
    BY <1>1 DEF AccountRows
  <2> QED BY <2>1, <2>2, WithdrawKeepsInv
<1>4. CASE Deactivate
  <2>1. /\ [account EXCEPT !.active = FALSE] \in AccountRows
        /\ [account EXCEPT !.active = FALSE].row = account.row
    BY <1>1 DEF AccountRows
  <2> QED BY <1>4, <2>1, WithdrawKeepsInv DEF Deactivate
<1>5. CASE AdminReset
  <2>1. /\ [account EXCEPT !.set = TRUE] \in AccountRows
        /\ [account EXCEPT !.set = TRUE].row = account.row
    BY <1>1 DEF AccountRows
  <2> QED BY <1>5, <2>1, WithdrawKeepsInv DEF AdminReset
<1>6. CASE RevokeSuperadmin
  <2>1. /\ [account EXCEPT !.boss = FALSE] \in AccountRows
        /\ [account EXCEPT !.boss = FALSE].row = account.row
    BY <1>1 DEF AccountRows
  <2> QED BY <1>6, <2>1, WithdrawKeepsInv DEF RevokeSuperadmin
<1>7. CASE SetPassword
  <2>1. account' = [account EXCEPT !.set = TRUE]
    BY <1>7 DEF SetPassword
  <2>2. account' \in AccountRows /\ account'.tver = account.tver /\ account'.row = account.row
    BY <1>1, <2>1 DEF AccountRows
  <2> QED BY <1>7, <2>2, RowKeepsInv DEF SetPassword, tokenVars
<1> QED BY <1>2, <1>3, <1>4, <1>5, <1>6, <1>7, DeleteKeepsInv

(* What is done with one token.                                            *)
LEMMA TokenSteps ==
    ASSUME AccountInv, NEW s \in Sessions,
           \/ Login(s) \/ PlatformLogin(s) \/ Impersonate(s) \/ Sign(s) \/ TokenExpires(s)
           \/ DownloadToken(s)
    PROVE  AccountInv'
<1>1. CASE Login(s) \/ PlatformLogin(s) \/ Impersonate(s)
  BY <1>1, FreshKeepsInv DEF Login, PlatformLogin, Impersonate
<1>2. CASE Sign(s)
  BY <1>2, PhaseKeepsInv DEF Sign
<1>3. CASE TokenExpires(s)
  BY <1>3, PhaseKeepsInv DEF TokenExpires
<1>4. CASE DownloadToken(s)
  BY <1>4, FreshKeepsInv DEF DownloadToken
<1> QED BY <1>1, <1>2, <1>3, <1>4

LEMMA AccountsStep == AccountInv /\ [Next]_vars => AccountInv'
<1> SUFFICES ASSUME AccountInv, [Next]_vars PROVE AccountInv'
  OBVIOUS
<1>1. ASSUME UNCHANGED <<account, token, shutOut>> PROVE AccountInv'
  BY <1>1 DEF AccountInv, AccountRowsOK, Behind, OutStaysOut, Left
<1>2. CASE UNCHANGED vars
  BY <1>1, <1>2 DEF vars
<1>3. CASE \/ LoginFails \/ WindowPasses \/ SetTenantStatus \/ DeleteTenant
           \/ SubscriptionLapses \/ IssueLink \/ LinkExpires \/ SubmitLink
  BY <1>1, <1>3 DEF LoginFails, WindowPasses, SetTenantStatus, DeleteTenant,
     SubscriptionLapses, IssueLink, LinkExpires, SubmitLink, tokenVars
<1>4. CASE \E s \in Sessions : Request(s) \/ ChangePassword(s) \/ RequestEnds(s)
  BY <1>1, <1>4 DEF Request, ChangePassword, RequestEnds
<1> QED BY <1>2, <1>3, <1>4, AccountRowSteps, TokenSteps DEF Next

(* Once access was withdrawn, no token that was out or about to be signed  *)
(* is let in again, whatever is given back later (_refresh_staff_claims).  *)
THEOREM RevokedForGood == Spec => []RevokedStaysOut
<1>1. AccountInv => RevokedStaysOut
  <2> SUFFICES ASSUME AccountInv, NEW s \in shutOut PROVE ~Admits(s)
    BY DEF RevokedStaysOut
  <2>1. s \in Sessions /\ token[s].tver \in Nat /\ account.tver \in Nat /\ Left(s)
    BY DEF AccountInv, AccountRowsOK, OutStaysOut, AccountRows, TokenRows
  <2> QED BY <2>1 DEF Left, Admits
<1> QED BY AccountsInit, AccountsStep, <1>1, PTL DEF Spec

-----------------------------------------------------------------------------
(* The documents (CandidateDocuments).  A handler writes by id a status it *)
(* computed from rows it read earlier.  What makes that safe when the      *)
(* status is 'complete' is that nothing is ever taken back: a document     *)
(* that came in, or was settled by hand, stays one, and a request keeps    *)
(* its types.  So the invariant is also about the handlers about to write  *)
(* 'complete', and about the reviews under way.                            *)

RequestRows == [types : SUBSET DocTypes, status : {"sent", "partial", "complete"}]
\* What counts as uploaded has a file, or was settled by hand without one.
DocumentRows ==
    [type : DocTypes, status : {"requested"}, file : {"none", "stored", "waived"}]
        \cup [type : DocTypes, status : D!Uploaded, file : {"stored", "waived"}]

DocumentRowsOK ==
    /\ wanted \in Seq(RequestRows)
    /\ docs \in Seq(DocumentRows)

\* A document of type t came in or was settled by hand; every one of the types was.
CameIn(t) == \E d \in DOMAIN docs : docs[d].type = t /\ docs[d].file # "none"
Earned(types) == \A t \in types : CameIn(t)

\* What a handler remembers, as far as it matters.
JobOK(j) ==
    /\ j.op \in {"ask", "add"} => j.left \subseteq DocTypes
    /\ j.op = "add" => j.type \in DocTypes
    /\ j.op \in {"review", "upload"} => j.doc \in DOMAIN docs
    /\ j.op = "review" => j.to \in D!Uploaded /\ docs[j.doc].file # "none"
    /\ j.op \in {"tally", "settle"} => j.of \in DOMAIN wanted
    /\ j.op = "settle" => j.status \in {"sent", "partial", "complete"}

SettleEarned(j) ==
    j.op = "settle" /\ j.status = "complete" => Earned(wanted[j.of].types)

JobsOK ==
    /\ clerk = [w \in Workers |-> clerk[w]]
    /\ \A w \in Workers : JobOK(clerk[w]) /\ SettleEarned(clerk[w])

RequestsEarned ==
    \A r \in DOMAIN wanted : wanted[r].status = "complete" => Earned(wanted[r].types)

DocumentsInv == DocumentRowsOK /\ JobsOK /\ RequestsEarned

\* Nothing is taken back.
Keeps ==
    /\ \A d \in DOMAIN docs : d \in DOMAIN docs' /\ docs'[d].type = docs[d].type
                              /\ (docs[d].file # "none" => docs'[d].file # "none")
    /\ \A r \in DOMAIN wanted : r \in DOMAIN wanted' /\ wanted'[r].types = wanted[r].types

-----------------------------------------------------------------------------
(* What came in is not taken back.                                         *)
LEMMA CameInStays ==
    ASSUME NEW t, Keeps, CameIn(t)
    PROVE  CameIn(t)'
BY DEF Keeps, CameIn

(* What the other handlers remember stands.                                *)
LEMMA JobsStand ==
    ASSUME Keeps, JobsOK, NEW w \in Workers, NEW j, D!Go(w, j),
           JobOK(clerk[w])', SettleEarned(clerk[w])'
    PROVE  JobsOK'
<1>1. clerk' = [v \in Workers |-> clerk'[v]]
  BY DEF D!Go, JobsOK
<1>2. ASSUME NEW v \in Workers, v # w PROVE JobOK(clerk[v])' /\ SettleEarned(clerk[v])'
  <2>1. clerk'[v] = clerk[v]
    BY <1>2 DEF D!Go, JobsOK
  <2>2. JobOK(clerk[v]) /\ SettleEarned(clerk[v])
    BY DEF JobsOK
  <2>3. JobOK(clerk[v])'
    BY <2>1, <2>2 DEF JobOK, Keeps
  <2>4. ASSUME clerk'[v].op = "settle", clerk'[v].status = "complete",
               NEW t \in wanted'[clerk'[v].of].types
        PROVE  CameIn(t)'
    <3>1. t \in wanted[clerk[v].of].types
      BY <2>1, <2>2, <2>4 DEF JobOK, Keeps
    <3>2. CameIn(t)
      BY <2>1, <2>2, <2>4, <3>1 DEF SettleEarned, Earned
    <3> QED BY <3>2, CameInStays
  <2> QED BY <2>3, <2>4 DEF SettleEarned, Earned
<1> QED BY <1>1, <1>2 DEF JobsOK

-----------------------------------------------------------------------------
LEMMA DocumentsInit == D!Init => DocumentsInv
BY DEF D!Init, DocumentsInv, DocumentRowsOK, JobsOK, RequestsEarned, JobOK, SettleEarned, D!Idle

(* Steps that leave the rows alone, if what the handler then remembers is right. *)
LEMMA QuietKeepsDocuments ==
    ASSUME DocumentsInv, UNCHANGED <<wanted, docs>>, NEW w \in Workers, NEW j, D!Go(w, j),
           JobOK(clerk[w])', SettleEarned(clerk[w])'
    PROVE  DocumentsInv'
<1>1. Keeps
  BY DEF Keeps
<1>2. JobsOK'
  BY <1>1, JobsStand DEF DocumentsInv
<1>3. RequestsEarned'
  BY DEF DocumentsInv, RequestsEarned, Earned, CameIn
<1> QED BY <1>2, <1>3 DEF DocumentsInv, DocumentRowsOK

(* Steps of a handler that move a document, as a review or an upload does.  *)
LEMMA MoveKeeps ==
    ASSUME DocumentRowsOK, NEW d \in DOMAIN docs, NEW s \in D!Uploaded,
           NEW f \in {"stored", "waived"},
           docs' = [docs EXCEPT ![d].status = s, ![d].file = f], UNCHANGED wanted
    PROVE  Keeps /\ DocumentRowsOK'
<1>1. docs \in Seq(DocumentRows) /\ d \in 1 .. Len(docs) /\ docs[d] \in DocumentRows
  BY DEF DocumentRowsOK
<1> DEFINE new == [type |-> docs[d].type, status |-> s, file |-> f]
<1>2. new \in DocumentRows /\ new.type = docs[d].type /\ new.file # "none"
  BY <1>1 DEF DocumentRows
<1>3. docs' = [docs EXCEPT ![d] = new]
  <2>1. docs[d] = [type |-> docs[d].type, status |-> docs[d].status, file |-> docs[d].file]
    BY <1>1 DEF DocumentRows
  <2> DEFINE y == [docs[d] EXCEPT !.status = s]
  <2>4. y = [type |-> docs[d].type, status |-> s, file |-> docs[d].file]
    BY <2>1
  <2>5. [y EXCEPT !.file = f] = new
    <3> HIDE DEF y
    <3> QED BY <2>4
  <2>2. [docs[d] EXCEPT !.status = s, !.file = f] = new
    BY <2>5
  <2>3. docs' = [docs EXCEPT ![d] = [docs[d] EXCEPT !.status = s, !.file = f]]
    BY <1>1
  <2> QED BY <2>2, <2>3
<1> HIDE DEF new
<1>4. /\ docs' \in Seq(DocumentRows) /\ Len(docs') = Len(docs)
      /\ \A e \in 1 .. Len(docs) : docs'[e] = IF e = d THEN new ELSE docs[e]
  <2> DEFINE moved == [docs EXCEPT ![d] = new]
  <2>1. new \in DocumentRows /\ docs \in Seq(DocumentRows) /\ d \in 1 .. Len(docs)
    BY <1>1, <1>2
  <2>2. /\ moved \in Seq(DocumentRows) /\ Len(moved) = Len(docs)
        /\ \A e \in 1 .. Len(docs) : moved[e] = IF e = d THEN new ELSE docs[e]
    BY <2>1, ExceptSeq
  <2>3. docs' = moved
    BY <1>3
  <2> HIDE DEF moved
  <2> QED BY <2>2, <2>3
<1>5. DOMAIN docs = 1 .. Len(docs) /\ DOMAIN docs' = 1 .. Len(docs)
  BY <1>1, <1>4
<1> QED BY <1>2, <1>4, <1>5 DEF Keeps, DocumentRowsOK

(* What a request has earned it keeps while requests stay as they are.      *)
LEMMA RequestsStand ==
    ASSUME RequestsEarned, Keeps, UNCHANGED wanted
    PROVE  RequestsEarned'
BY CameInStays DEF RequestsEarned, Earned

-----------------------------------------------------------------------------
(* The handlers that write, one lemma each.                                *)
LEMMA RequestStep ==
    ASSUME DocumentsInv, NEW w \in Workers, D!RequestDocuments(w)
    PROVE  DocumentsInv'
<1>1. PICK asked \in (SUBSET DocTypes) \ {{}} :
        /\ wanted' = Append(wanted, [types |-> asked, status |-> "sent"])
        /\ D!Go(w, [op |-> "ask", left |-> asked])
  BY DEF D!RequestDocuments
<1> DEFINE new == [types |-> asked, status |-> "sent"]
<1>2. new \in RequestRows /\ new.status = "sent" /\ wanted' = Append(wanted, new)
  BY <1>1 DEF RequestRows
<1> HIDE DEF new
<1>3. wanted \in Seq(RequestRows) /\ docs' = docs
  BY DEF DocumentsInv, DocumentRowsOK, D!RequestDocuments
<1>4. /\ wanted' \in Seq(RequestRows) /\ Len(wanted') = Len(wanted) + 1
      /\ \A r \in 1 .. Len(wanted) : wanted'[r] = wanted[r]
      /\ wanted'[Len(wanted) + 1] = new
  BY <1>2, <1>3, AppendProperties
<1>5. /\ DOMAIN wanted = 1 .. Len(wanted) /\ DOMAIN wanted' = 1 .. (Len(wanted) + 1)
      /\ Len(wanted) \in Nat
  BY <1>3, <1>4
<1>6. Keeps
  BY <1>3, <1>4, <1>5 DEF Keeps
<1>7. JobsOK'
  <2>1. clerk'[w] = [op |-> "ask", left |-> asked]
    BY <1>1 DEF DocumentsInv, JobsOK, D!Go
  <2> QED BY <1>1, <1>6, <2>1, JobsStand DEF DocumentsInv, JobOK, SettleEarned
<1>8. ASSUME NEW r \in DOMAIN wanted', wanted'[r].status = "complete",
             NEW t \in wanted'[r].types
      PROVE  CameIn(t)'
  <2>1. r \in DOMAIN wanted /\ wanted'[r] = wanted[r]
    BY <1>2, <1>4, <1>5, <1>8
  <2> QED BY <1>6, <1>8, <2>1, CameInStays DEF DocumentsInv, RequestsEarned, Earned
<1> QED BY <1>3, <1>4, <1>7, <1>8 DEF DocumentsInv, DocumentRowsOK, RequestsEarned, Earned

LEMMA AddStep == ASSUME DocumentsInv, NEW w \in Workers, D!AddRow(w) PROVE DocumentsInv'
<1> DEFINE new == [type |-> clerk[w].type, status |-> "requested", file |-> "none"]
<1>1. new \in DocumentRows /\ docs' = Append(docs, new) /\ wanted' = wanted
  BY DEF D!AddRow, D!Is, DocumentsInv, JobsOK, JobOK, DocumentRows
<1>2. docs \in Seq(DocumentRows)
  BY DEF DocumentsInv, DocumentRowsOK
<1> HIDE DEF new
<1>3. /\ docs' \in Seq(DocumentRows) /\ Len(docs') = Len(docs) + 1
      /\ \A d \in 1 .. Len(docs) : docs'[d] = docs[d]
  BY <1>1, <1>2, AppendProperties
<1>4. /\ DOMAIN docs = 1 .. Len(docs) /\ DOMAIN docs' = 1 .. (Len(docs) + 1)
      /\ Len(docs) \in Nat
  BY <1>2, <1>3
<1>5. Keeps
  BY <1>1, <1>3, <1>4 DEF Keeps
<1>6. PICK j : D!Go(w, j) /\ j \in {D!Idle, [op |-> "ask", left |-> clerk[w].left]}
  BY DEF D!AddRow
<1>7. JobsOK'
  <2>1. clerk'[w] = j /\ clerk[w].left \subseteq DocTypes
    BY <1>6 DEF DocumentsInv, JobsOK, JobOK, D!Go, D!AddRow, D!Is
  <2> QED BY <1>5, <1>6, <2>1, JobsStand DEF DocumentsInv, JobOK, SettleEarned, D!Idle
<1> QED BY <1>1, <1>3, <1>5, <1>7, RequestsStand DEF DocumentsInv, DocumentRowsOK

LEMMA ReviewStep == ASSUME DocumentsInv, NEW w \in Workers, D!WriteReview(w) PROVE DocumentsInv'
<1> DEFINE d == clerk[w].doc
<1>1. d \in DOMAIN docs /\ clerk[w].to \in D!Uploaded /\ docs[d].file # "none"
  BY DEF D!WriteReview, D!Is, DocumentsInv, JobsOK, JobOK
<1>2. Keeps /\ DocumentRowsOK'
  <2>1. docs[d].file \in {"stored", "waived"} /\ docs[d] \in DocumentRows
    BY <1>1 DEF DocumentsInv, DocumentRowsOK, DocumentRows
  <2>2. [docs[d] EXCEPT !.status = clerk[w].to]
          = [docs[d] EXCEPT !.status = clerk[w].to, !.file = docs[d].file]
    BY <2>1 DEF DocumentRows
  <2>3. docs' = [docs EXCEPT ![d] = [docs[d] EXCEPT !.status = clerk[w].to]]
    BY <1>1 DEF D!WriteReview, DocumentsInv, DocumentRowsOK
  <2>4. docs' = [docs EXCEPT ![d].status = clerk[w].to, ![d].file = docs[d].file]
    BY <1>1, <2>2, <2>3 DEF DocumentsInv, DocumentRowsOK
  <2>5. wanted' = wanted /\ DocumentRowsOK
    BY DEF D!WriteReview, DocumentsInv
  <2> HIDE DEF d
  <2> QED BY <1>1, <2>1, <2>4, <2>5, MoveKeeps
<1>3. D!Go(w, D!Idle) /\ clerk'[w] = D!Idle
  BY DEF D!WriteReview, DocumentsInv, JobsOK, D!Go
<1>4. JobsOK'
  BY <1>2, <1>3, JobsStand DEF DocumentsInv, JobOK, SettleEarned, D!Idle
<1> QED BY <1>2, <1>4, RequestsStand DEF DocumentsInv, D!WriteReview

LEMMA UploadStep == ASSUME DocumentsInv, NEW w \in Workers, D!WriteUpload(w) PROVE DocumentsInv'
<1>1. clerk[w].doc \in DOMAIN docs /\ "uploaded" \in D!Uploaded
  BY DEF D!WriteUpload, D!Is, DocumentsInv, JobsOK, JobOK, D!Uploaded
<1>2. Keeps /\ DocumentRowsOK'
  BY <1>1, MoveKeeps DEF D!WriteUpload, DocumentsInv
<1>3. D!Go(w, [op |-> "refresh"]) /\ clerk'[w] = [op |-> "refresh"]
  BY DEF D!WriteUpload, DocumentsInv, JobsOK, D!Go
<1>4. JobsOK'
  BY <1>2, <1>3, JobsStand DEF DocumentsInv, JobOK, SettleEarned
<1> QED BY <1>2, <1>4, RequestsStand DEF DocumentsInv, D!WriteUpload

LEMMA PatchStep == ASSUME DocumentsInv, D!PatchStatus PROVE DocumentsInv'
<1>1. PICK d \in DOMAIN docs, s \in {"verified", "rejected"} :
        docs' = [docs EXCEPT ![d].status = s,
                             ![d].file = IF docs[d].file = "none" THEN "waived" ELSE docs[d].file]
  BY DEF D!PatchStatus
<1> DEFINE f == IF docs[d].file = "none" THEN "waived" ELSE docs[d].file
<1>2. s \in D!Uploaded /\ f \in {"stored", "waived"}
  BY DEF D!Uploaded, DocumentsInv, DocumentRowsOK, DocumentRows
<1>3. Keeps /\ DocumentRowsOK'
  <2>1. docs' = [docs EXCEPT ![d].status = s, ![d].file = f] /\ wanted' = wanted /\ DocumentRowsOK
    BY <1>1 DEF D!PatchStatus, DocumentsInv
  <2> HIDE DEF f
  <2> QED BY <1>2, <2>1, MoveKeeps
<1>4. clerk' = clerk /\ wanted' = wanted
  BY DEF D!PatchStatus
<1>5. ASSUME NEW v \in Workers PROVE JobOK(clerk[v])' /\ SettleEarned(clerk[v])'
  <2>1. JobOK(clerk[v])'
    BY <1>3, <1>4 DEF DocumentsInv, JobsOK, JobOK, Keeps
  <2> QED BY <1>3, <1>4, <2>1, CameInStays DEF DocumentsInv, JobsOK, SettleEarned, Earned
<1> QED BY <1>3, <1>4, <1>5, RequestsStand DEF DocumentsInv, JobsOK

(* The status is written by id; the types of that request came in when it was computed. *)
LEMMA SettleStep == ASSUME DocumentsInv, NEW w \in Workers, D!SettleRequest(w) PROVE DocumentsInv'
<1> DEFINE r == clerk[w].of
           new == [wanted[r] EXCEPT !.status = clerk[w].status]
<1>1. /\ r \in 1 .. Len(wanted) /\ wanted \in Seq(RequestRows) /\ wanted[r] \in RequestRows
      /\ wanted' = [wanted EXCEPT ![r] = new] /\ docs' = docs
  BY DEF D!SettleRequest, D!Is, DocumentsInv, DocumentRowsOK, JobsOK, JobOK
<1>2. /\ new \in RequestRows /\ new.types = wanted[r].types
      /\ new.status = "complete" => Earned(new.types)
  BY <1>1 DEF D!SettleRequest, D!Is, DocumentsInv, JobsOK, JobOK, SettleEarned, RequestRows
<1> HIDE DEF new, r
<1>3. /\ wanted' \in Seq(RequestRows) /\ Len(wanted') = Len(wanted)
      /\ \A q \in 1 .. Len(wanted) : wanted'[q] = IF q = r THEN new ELSE wanted[q]
  BY <1>1, <1>2, ExceptSeq
<1>4. DOMAIN wanted = 1 .. Len(wanted) /\ DOMAIN wanted' = 1 .. Len(wanted)
  BY <1>1, <1>3
<1>5. Keeps
  BY <1>1, <1>2, <1>3, <1>4 DEF Keeps
<1>6. JobsOK'
  <2>1. D!Go(w, D!Idle) /\ clerk'[w] = D!Idle
    BY DEF D!SettleRequest, DocumentsInv, JobsOK, D!Go
  <2> QED BY <1>5, <2>1, JobsStand DEF DocumentsInv, JobOK, SettleEarned, D!Idle
<1>7. ASSUME NEW q \in DOMAIN wanted', wanted'[q].status = "complete",
             NEW t \in wanted'[q].types
      PROVE  CameIn(t)'
  <2>1. CameIn(t)
    BY <1>2, <1>3, <1>4, <1>7 DEF DocumentsInv, RequestsEarned, Earned
  <2> QED BY <1>5, <2>1, CameInStays
<1> QED BY <1>1, <1>3, <1>6, <1>7 DEF DocumentsInv, DocumentRowsOK, RequestsEarned, Earned

(* What Tally calls complete has come in.                                  *)
LEMMA TallyEarned ==
    ASSUME DocumentRowsOK, NEW types \in SUBSET DocTypes, NEW row \in [DocTypes -> 0 .. Len(docs)],
           \A t \in DocTypes : IF D!Rows(t) = {} THEN row[t] = 0 ELSE row[t] \in D!Rows(t),
           D!Tally(types, row) = "complete"
    PROVE  Earned(types)
<1> SUFFICES ASSUME NEW t \in types PROVE CameIn(t)
  BY DEF Earned
<1>1. row[t] # 0 /\ docs[row[t]].status \in D!Uploaded
  BY DEF D!Tally
<1>2. row[t] \in D!Rows(t)
  BY <1>1
<1>3. docs[row[t]].file # "none"
  BY <1>1, <1>2 DEF D!Rows, DocumentRowsOK, DocumentRows, D!Uploaded
<1> QED BY <1>2, <1>3 DEF D!Rows, CameIn

LEMMA ReadStep == ASSUME DocumentsInv, NEW w \in Workers, D!ReadDocuments(w) PROVE DocumentsInv'
<1> DEFINE r == clerk[w].of
<1>1. r \in DOMAIN wanted /\ wanted[r].types \in SUBSET DocTypes
  <2>1. r \in DOMAIN wanted
    BY DEF D!ReadDocuments, D!Is, DocumentsInv, JobsOK, JobOK
  <2>2. wanted[r] \in RequestRows
    BY <2>1 DEF DocumentsInv, DocumentRowsOK
  <2> QED BY <2>1, <2>2 DEF RequestRows
<1>2. PICK row \in [DocTypes -> 0 .. Len(docs)] :
        /\ \A t \in DocTypes : IF D!Rows(t) = {} THEN row[t] = 0 ELSE row[t] \in D!Rows(t)
        /\ D!Go(w, [op |-> "settle", of |-> r, status |-> D!Tally(wanted[r].types, row)])
  BY DEF D!ReadDocuments
<1> DEFINE s == D!Tally(wanted[r].types, row)
<1>3. s \in {"sent", "partial", "complete"}
  BY DEF D!Tally
<1>4. s = "complete" => Earned(wanted[r].types)
  BY <1>1, <1>2, TallyEarned DEF DocumentsInv
<1> HIDE DEF s
<1>5. D!Go(w, [op |-> "settle", of |-> r, status |-> s]) /\ UNCHANGED <<wanted, docs>>
  BY <1>2 DEF s, D!ReadDocuments
<1>6. clerk'[w] = [op |-> "settle", of |-> r, status |-> s]
  BY <1>5 DEF DocumentsInv, JobsOK, D!Go
<1>7. JobOK(clerk[w])' /\ SettleEarned(clerk[w])'
  BY <1>1, <1>3, <1>4, <1>5, <1>6 DEF JobOK, SettleEarned, Earned, CameIn
<1> QED BY <1>5, <1>7, QuietKeepsDocuments

(* The handlers' other steps only remember something.                      *)
LEMMA OtherDocumentSteps ==
    ASSUME DocumentsInv, NEW w \in Workers,
           D!LookForRow(w) \/ D!Review(w) \/ D!Upload(w) \/ D!ReadLatest(w) \/ D!Die(w)
    PROVE  DocumentsInv'
<1>1. ASSUME NEW j, D!Go(w, j), UNCHANGED <<wanted, docs>>, JobOK(j), j.op # "settle"
      PROVE  DocumentsInv'
  <2>1. clerk'[w] = j
    BY <1>1 DEF DocumentsInv, JobsOK, D!Go
  <2> QED BY <1>1, <2>1, QuietKeepsDocuments DEF JobOK, SettleEarned
<1>2. CASE D!LookForRow(w)
  <2>1. clerk[w].left \subseteq DocTypes
    BY <1>2 DEF D!LookForRow, D!Is, DocumentsInv, JobsOK, JobOK
  <2>2. PICK t \in clerk[w].left : LET left == clerk[w].left \ {t} IN
            D!Go(w, IF \A d \in D!Rows(t) : docs[d].status # "requested"
                      THEN [op |-> "add", left |-> left, type |-> t]
                  ELSE IF left = {} THEN D!Idle ELSE [op |-> "ask", left |-> left])
    BY <1>2 DEF D!LookForRow
  <2> QED BY <1>1, <1>2, <2>1, <2>2 DEF D!LookForRow, JobOK, D!Idle
<1>3. CASE D!Review(w)
  <2>1. PICK d \in DOMAIN docs, k \in DOMAIN D!Decision :
            /\ docs[d].status \in D!Decision[k].from
            /\ D!Go(w, [op |-> "review", doc |-> d, to |-> D!Decision[k].to])
    BY <1>3 DEF D!Review
  <2>2. D!Decision[k].to \in D!Uploaded /\ docs[d].status # "requested"
    BY <2>1 DEF D!Decision, D!Uploaded
  <2>3. docs[d].file # "none"
    BY <2>2 DEF DocumentsInv, DocumentRowsOK, DocumentRows
  <2> QED BY <1>1, <1>3, <2>1, <2>2, <2>3 DEF D!Review, JobOK
<1>4. CASE D!Upload(w)
  BY <1>1, <1>4 DEF D!Upload, JobOK
<1>5. CASE D!ReadLatest(w)
  <2>1. wanted # <<>> => Len(wanted) \in DOMAIN wanted
    BY DEF DocumentsInv, DocumentRowsOK
  <2> QED BY <1>1, <1>5, <2>1 DEF D!ReadLatest, JobOK, D!Idle
<1>6. CASE D!Die(w)
  BY <1>1, <1>6 DEF D!Die, JobOK, D!Idle
<1> QED BY <1>2, <1>3, <1>4, <1>5, <1>6

LEMMA DocumentsStep == DocumentsInv /\ [D!Next]_(D!vars) => DocumentsInv'
<1> SUFFICES ASSUME DocumentsInv, [D!Next]_(D!vars) PROVE DocumentsInv'
  OBVIOUS
<1>1. CASE UNCHANGED D!vars
  BY <1>1 DEF D!vars, DocumentsInv, DocumentRowsOK, JobsOK, JobOK, SettleEarned, RequestsEarned,
              Earned, CameIn
<1>2. CASE D!PatchStatus
  BY <1>2, PatchStep
<1>3. ASSUME NEW w \in Workers,
             \/ D!RequestDocuments(w) \/ D!LookForRow(w) \/ D!AddRow(w)
             \/ D!Review(w) \/ D!WriteReview(w)
             \/ D!Upload(w) \/ D!WriteUpload(w)
             \/ D!ReadLatest(w) \/ D!ReadDocuments(w) \/ D!SettleRequest(w)
             \/ D!Die(w)
      PROVE  DocumentsInv'
  BY <1>3, RequestStep, AddStep, ReviewStep, UploadStep, SettleStep, ReadStep, OtherDocumentSteps
<1> QED BY <1>1, <1>2, <1>3 DEF D!Next

(* For every type a complete request asks for a file came in or HR set a verdict by hand,     *)
(* whatever overlapped and whoever died: _refresh_request_status may write what it read long *)
(* ago.                                                                                      *)
THEOREM CompleteStaysEarned == D!Spec => []CompleteIsEarned
<1>1. DocumentsInv => CompleteIsEarned
  BY DEF DocumentsInv, RequestsEarned, Earned, CameIn, CompleteIsEarned, D!CompleteIsEarned, D!Rows
<1> QED BY DocumentsInit, DocumentsStep, <1>1, PTL DEF D!Spec

-----------------------------------------------------------------------------
(* The pushes (VendorResults).  A handler writes the outcome of its call by *)
(* row id, without a look at the row.  It is the reference that keeps it   *)
(* from writing over a verdict: a webhook finds only rows that have one,   *)
(* the handler stores it with the last thing it writes, and no two         *)
(* handlers push the same row.                                             *)

SyncRows == [status : V!SyncReports, ref : BOOLEAN, byVendor : BOOLEAN]

Pushing(w) == agent[w].op = "push"

\* A handler that waits for the vendor has a row of its own, which no webhook can find yet.
PushesApart ==
    /\ \A w \in Workers : Pushing(w) => agent[w].row \in DOMAIN sync /\ ~sync[agent[w].row].ref
    /\ \A v, w \in Workers : v # w /\ Pushing(v) /\ Pushing(w) => agent[v].row # agent[w].row

\* The vendor has spoken only of rows with a reference.
SpokenOfByRef == \A i \in DOMAIN sync : sync[i].byVendor => sync[i].ref

SyncInv ==
    /\ sync \in Seq(SyncRows)
    /\ agent = [w \in Workers |-> agent[w]]
    /\ PushesApart
    /\ SpokenOfByRef

-----------------------------------------------------------------------------
LEMMA SyncInit == V!Init => SyncInv
BY DEF V!Init, SyncInv, PushesApart, SpokenOfByRef, Pushing, V!Idle

(* Steps that leave the rows alone, and do not make the handler a pusher.  *)
LEMMA QuietKeepsSync ==
    ASSUME SyncInv, sync' = sync, NEW w \in Workers, NEW j, agent' = [agent EXCEPT ![w] = j],
           j.op # "push"
    PROVE  SyncInv'
<1>1. agent' = [v \in Workers |-> agent'[v]]
  BY DEF SyncInv
<1>2. \A v \in Workers : Pushing(v)' => Pushing(v) /\ agent'[v] = agent[v]
  BY DEF SyncInv, Pushing
<1> QED BY <1>1, <1>2 DEF SyncInv, PushesApart, SpokenOfByRef

(* A row is written in place.                                              *)
LEMMA WrittenRow ==
    ASSUME SyncInv, NEW i \in DOMAIN sync, NEW new \in SyncRows, sync' = [sync EXCEPT ![i] = new]
    PROVE  /\ sync' \in Seq(SyncRows) /\ DOMAIN sync' = DOMAIN sync
           /\ \A k \in DOMAIN sync : sync'[k] = IF k = i THEN new ELSE sync[k]
<1>1. sync \in Seq(SyncRows) /\ DOMAIN sync = 1 .. Len(sync) /\ i \in 1 .. Len(sync)
  BY DEF SyncInv
<1>2. /\ sync' \in Seq(SyncRows) /\ Len(sync') = Len(sync)
      /\ \A k \in 1 .. Len(sync) : sync'[k] = IF k = i THEN new ELSE sync[k]
  BY <1>1, ExceptSeq
<1> QED BY <1>1, <1>2

-----------------------------------------------------------------------------
LEMMA InsertStep == ASSUME SyncInv, NEW w \in Workers, V!InsertSync(w) PROVE SyncInv'
<1>1. V!NewSync \in SyncRows /\ V!NewSync.ref = FALSE /\ V!NewSync.byVendor = FALSE
  BY DEF V!NewSync, SyncRows, V!SyncReports
<1>2. sync \in Seq(SyncRows) /\ sync' = Append(sync, V!NewSync)
  BY DEF SyncInv, V!InsertSync
<1>3. /\ sync' \in Seq(SyncRows) /\ Len(sync') = Len(sync) + 1 /\ Len(sync) \in Nat
      /\ \A k \in 1 .. Len(sync) : sync'[k] = sync[k]
      /\ sync'[Len(sync) + 1] = V!NewSync
  BY <1>1, <1>2, AppendProperties
<1>4. DOMAIN sync = 1 .. Len(sync) /\ DOMAIN sync' = 1 .. (Len(sync) + 1)
  BY <1>2, <1>3
<1>5. /\ agent' = [v \in Workers |-> agent'[v]]
      /\ agent'[w] = [op |-> "push", row |-> Len(sync) + 1]
      /\ \A v \in Workers : v # w => agent'[v] = agent[v]
  BY DEF SyncInv, V!InsertSync, V!Go
<1>6. PushesApart'
  <2>1. ASSUME NEW v \in Workers, Pushing(v)'
        PROVE  agent'[v].row \in DOMAIN sync' /\ ~sync'[agent'[v].row].ref
    BY <1>1, <1>3, <1>4, <1>5, <2>1 DEF SyncInv, PushesApart, Pushing
  <2>2. ASSUME NEW u \in Workers, NEW v \in Workers, u # v, Pushing(u)', Pushing(v)'
        PROVE  agent'[u].row # agent'[v].row
    <3>1. \A x \in Workers \ {w} : Pushing(x)' => agent'[x].row # Len(sync) + 1
      BY <1>3, <1>4, <1>5 DEF SyncInv, PushesApart, Pushing
    <3> QED BY <1>5, <2>2, <3>1 DEF SyncInv, PushesApart, Pushing
  <2> QED BY <2>1, <2>2 DEF PushesApart
<1>7. SpokenOfByRef'
  BY <1>1, <1>3, <1>4 DEF SyncInv, SpokenOfByRef
<1> QED BY <1>3, <1>5, <1>6, <1>7 DEF SyncInv

(* The handler has its answer, or none, and lets go of the row.            *)
LEMMA OutcomeStep ==
    ASSUME SyncInv, NEW w \in Workers, V!PushFails(w) \/ V!PushAnswered(w)
    PROVE  SyncInv'
<1> DEFINE i == agent[w].row
<1>1. Pushing(w) /\ i \in DOMAIN sync /\ ~sync[i].ref /\ ~sync[i].byVendor
  BY DEF V!PushFails, V!PushAnswered, V!Is, SyncInv, PushesApart, SpokenOfByRef, Pushing
<1>2. sync[i] \in SyncRows
  BY <1>1 DEF SyncInv
<1>3. PICK new \in SyncRows : sync' = [sync EXCEPT ![i] = new] /\ new.byVendor = FALSE
  <2>1. CASE V!PushFails(w)
    <3>1. [sync[i] EXCEPT !.status = "failed"] \in SyncRows
      BY <1>2 DEF SyncRows, V!SyncReports
    <3> QED BY <1>1, <1>2, <2>1, <3>1 DEF V!PushFails, SyncRows
  <2>2. CASE V!PushAnswered(w)
    <3>1. [sync[i] EXCEPT !.status = "in_progress", !.ref = TRUE] \in SyncRows
      BY <1>2 DEF SyncRows, V!SyncReports
    <3>2. sync' = [sync EXCEPT ![i] = [sync[i] EXCEPT !.status = "in_progress", !.ref = TRUE]]
      BY <1>1, <2>2 DEF V!PushAnswered, SyncInv
    <3> QED BY <1>1, <1>2, <3>1, <3>2 DEF SyncRows
  <2> QED BY <2>1, <2>2
<1>4. /\ sync' \in Seq(SyncRows) /\ DOMAIN sync' = DOMAIN sync
      /\ \A k \in DOMAIN sync : sync'[k] = IF k = i THEN new ELSE sync[k]
  BY <1>1, <1>3, WrittenRow
<1>5. /\ agent' = [v \in Workers |-> agent'[v]] /\ ~Pushing(w)'
      /\ \A v \in Workers : v # w => agent'[v] = agent[v]
  BY DEF SyncInv, V!PushFails, V!PushAnswered, V!Go, V!Idle, Pushing
<1>6. \A v \in Workers : Pushing(v)' => Pushing(v) /\ agent'[v] = agent[v] /\ agent[v].row # i
  BY <1>1, <1>5 DEF SyncInv, PushesApart, Pushing
<1>7. PushesApart'
  BY <1>4, <1>6 DEF SyncInv, PushesApart
<1>8. SpokenOfByRef'
  BY <1>3, <1>4 DEF SyncInv, SpokenOfByRef
<1> QED BY <1>4, <1>5, <1>7, <1>8 DEF SyncInv

(* A webhook keeps the reference it found the row by.                      *)
LEMMA WebhookStep == ASSUME SyncInv, V!HrmsWebhook PROVE SyncInv'
<1>1. PICK i \in DOMAIN sync, s \in V!SyncReports :
        /\ sync[i].ref
        /\ sync' = [sync EXCEPT ![i].status = s, ![i].byVendor = TRUE]
  BY DEF V!HrmsWebhook
<1> DEFINE new == [sync[i] EXCEPT !.status = s, !.byVendor = TRUE]
<1>2. sync[i] \in SyncRows
  BY DEF SyncInv
<1>3. new \in SyncRows /\ new.ref
  BY <1>1, <1>2 DEF SyncRows
<1>4. sync' = [sync EXCEPT ![i] = new]
  BY <1>1 DEF SyncInv
<1> HIDE DEF new
<1>5. /\ sync' \in Seq(SyncRows) /\ DOMAIN sync' = DOMAIN sync
      /\ \A k \in DOMAIN sync : sync'[k] = IF k = i THEN new ELSE sync[k]
  BY <1>3, <1>4, WrittenRow
<1>6. agent' = agent
  BY DEF V!HrmsWebhook
<1>7. PushesApart'
  BY <1>1, <1>5, <1>6 DEF SyncInv, PushesApart, Pushing
<1>8. SpokenOfByRef'
  BY <1>3, <1>5 DEF SyncInv, SpokenOfByRef
<1> QED BY <1>5, <1>6, <1>7, <1>8 DEF SyncInv

(* The background check and a death leave the rows of the push alone.      *)
LEMMA OtherSyncSteps ==
    ASSUME SyncInv, NEW w \in Workers,
           \/ V!InsertCase(w) \/ V!InsertCheck(w) \/ V!VendorRefuses(w) \/ V!StoreCaseRef(w)
           \/ V!SetChecks(w) \/ V!BgvWebhook(w) \/ V!ReadChecks(w) \/ V!WriteOverall(w) \/ V!Die(w)
    PROVE  SyncInv' /\ sync' = sync
<1>1. sync' = sync
  BY DEF V!InsertCase, V!InsertCheck, V!VendorRefuses, V!StoreCaseRef, V!SetChecks, V!BgvWebhook,
         V!ReadChecks, V!WriteOverall, V!Die
<1> SUFFICES SyncInv'
  BY <1>1
<1>2. ASSUME NEW j, V!Go(w, j), j.op # "push" PROVE SyncInv'
  BY <1>1, <1>2, QuietKeepsSync DEF V!Go
<1>3. CASE V!InsertCheck(w)
  <2>1. PICK c \in agent[w].left :
          V!Go(w, IF agent[w].left \ {c} = {} THEN [op |-> "vendor"]
                ELSE [op |-> "checks", left |-> agent[w].left \ {c}])
    BY <1>3 DEF V!InsertCheck
  <2> QED BY <1>2, <2>1
<1>4. CASE V!SetChecks(w)
  <2>1. CASE agent' = agent
    BY <1>1, <2>1 DEF SyncInv, PushesApart, SpokenOfByRef, Pushing
  <2>2. CASE agent' # agent
    <3>1. V!Go(w, [op |-> "derive"])
      BY <1>4, <2>2 DEF V!SetChecks
    <3> QED BY <1>2, <3>1
  <2> QED BY <2>1, <2>2
<1>5. CASE ~V!InsertCheck(w) /\ ~V!SetChecks(w)
  BY <1>2, <1>5 DEF V!InsertCase, V!VendorRefuses, V!StoreCaseRef, V!BgvWebhook, V!ReadChecks,
                    V!WriteOverall, V!Die, V!Idle
<1> QED BY <1>3, <1>4, <1>5

LEMMA SyncStep == SyncInv /\ [V!Next]_(V!vars) => SyncInv'
<1> SUFFICES ASSUME SyncInv, [V!Next]_(V!vars) PROVE SyncInv'
  OBVIOUS
<1>1. CASE UNCHANGED V!vars
  BY <1>1 DEF V!vars, SyncInv, PushesApart, SpokenOfByRef, Pushing
<1> QED BY <1>1, InsertStep, OutcomeStep, WebhookStep, OtherSyncSteps DEF V!Next

-----------------------------------------------------------------------------
(* The action that VerdictStands is about.                                 *)
VerdictKept ==
    \A i \in DOMAIN sync :
        sync[i].byVendor /\ sync[i].status \in V!Verdicts /\ sync'[i].status # sync[i].status
            => reports' = reports + 1

LEMMA SyncKeepsVerdict == SyncInv /\ [V!Next]_(V!vars) => VerdictKept
<1> SUFFICES ASSUME SyncInv, [V!Next]_(V!vars), NEW i \in DOMAIN sync, sync[i].byVendor,
                    sync'[i].status # sync[i].status
             PROVE  reports' = reports + 1
  BY DEF VerdictKept
<1>1. sync' # sync
  OBVIOUS
<1>2. CASE V!HrmsWebhook
  BY <1>2 DEF V!HrmsWebhook
<1>3. ASSUME NEW w \in Workers, V!InsertSync(w) PROVE FALSE
  <2>1. sync'[i] = sync[i]
    BY <1>3, AppendProperties DEF V!InsertSync, SyncInv
  <2> QED BY <2>1
<1>4. ASSUME NEW w \in Workers, V!PushFails(w) \/ V!PushAnswered(w) PROVE FALSE
  <2>1. i # agent[w].row
    BY <1>4 DEF V!PushFails, V!PushAnswered, V!Is, SyncInv, PushesApart, SpokenOfByRef, Pushing
  <2> QED BY <1>4, <2>1 DEF V!PushFails, V!PushAnswered, SyncInv
<1> QED BY <1>1, <1>2, <1>3, <1>4, OtherSyncSteps DEF V!Next, V!vars

(* What the HRMS said of a push stands until it says something else: the   *)
(* handler that still waits for the answer to its call writes nothing over *)
(* it (sync_candidate_to_hrms, hrms_webhook).                              *)
THEOREM VerdictStandsAlways == V!Spec => VerdictStands
<1>1. SyncInv /\ [V!Next]_(V!vars) => [VerdictKept]_(V!vars)
  BY SyncKeepsVerdict
<1>2. VerdictStands <=> [][VerdictKept]_(V!vars)
  BY PTL DEF VerdictStands, V!VerdictStands, VerdictKept
<1> QED BY SyncInit, SyncStep, <1>1, <1>2, PTL DEF V!Spec
=============================================================================

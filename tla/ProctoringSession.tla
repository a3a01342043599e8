------------------------- MODULE ProctoringSession -------------------------
(***************************************************************************)
(* The server's side of a proctored interview (routers/proctoring_api.py,  *)
(* services/proctoring_alerts.py): the session row and its secret made by  *)
(* overlapping tabs, the behaviour flags and their count, and the          *)
(* integrity inbox with the digest that mails it.  How a ledger of flags   *)
(* is judged is in ProctoringJudge.                                        *)
(*                                                                         *)
(* Statements commit one by one, so a handler that makes several is a row  *)
(* of actions; one statement that reads and writes is one action.          *)
(***************************************************************************)
EXTENDS Naturals, TLC

CONSTANTS
    Workers,      \* concurrent handlers
    Tabs,         \* browser tabs of the candidate
    MaxSessions,  \* bound: proctoring_session rows of the application
    MaxFlags,     \* bound: behaviour flags appended to a session
    Kinds         \* integrity flags that can be raised: their kind and dedupe_key

SessionAssumption == MaxSessions \in Nat \ {0}
FlagAssumption == MaxFlags \in Nat
KindAssumption == Kinds \subseteq {"monitoring_gap", "termination_discrepancy", "secret_misuse"}

Sessions == 1 .. MaxSessions
Secrets == Sessions \X Tabs      \* a secret is named by its session and the tab it was minted for
NoSecret == <<0, 0>>

VARIABLES
    session,  \* proctoring_session rows: the length of flags, flag_count
    key,      \* proctoring_session_key of each session
    tab,      \* the session and secret a tab of the page works with
    gaps,     \* sessions whose heartbeats have a gap above the threshold
    inbox,    \* proctoring_integrity_flag rows
    lost,     \* a handler died in the middle
    job       \* the handler a worker is in the middle of

vars == <<session, key, tab, gaps, inbox, lost, job>>

-----------------------------------------------------------------------------
Absent == [made |-> FALSE, flags |-> 0, count |-> 0]
Blank == [Absent EXCEPT !.made = TRUE]
\* An integrity flag; "again" is one that was marked reviewed and unmarked.
NoRow == [made |-> FALSE, reviewed |-> "no", emailed |-> 0]
Row == [NoRow EXCEPT !.made = TRUE]

Idle == [op |-> "idle"]
Do(o, s, x) == [op |-> o, s |-> s, x |-> x]

Init ==
    /\ session = [s \in Sessions |-> Absent]
    /\ key = [s \in Sessions |-> NoSecret]
    /\ tab = [t \in Tabs |-> [session |-> 0, secret |-> NoSecret]]
    /\ gaps = {}
    /\ inbox = [s \in Sessions |-> [k \in Kinds |-> NoRow]]
    /\ lost = FALSE
    /\ job = [w \in Workers |-> Idle]

Made == {s \in Sessions : session[s] # Absent}
At(w, o) == job[w].op = o
Start(w, j) == job[w] = Idle /\ job' = [job EXCEPT ![w] = j]
GoOn(w, j) == job' = [job EXCEPT ![w] = j]
Finish(w) == GoOn(w, Idle)

-----------------------------------------------------------------------------
(* POST /candidate/init: the application's session, or a new one (nothing  *)
(* makes application_id unique), then its secret: read, mint ON CONFLICT   *)
(* DO NOTHING, read again.  POST /sessions makes the row without a secret. *)
InitRead(w, t) ==
    /\ IF Made = {} THEN Start(w, Do("insert", 0, t))
       ELSE \E s \in Made : Start(w, Do("secret", s, t))
    /\ UNCHANGED <<session, key, tab, gaps, inbox, lost>>

InsertSession(w) ==
    /\ At(w, "insert")
    /\ \E s \in Sessions \ Made :
          /\ \A r \in Sessions \ Made : s <= r
          /\ session' = [session EXCEPT ![s] = Blank]
          /\ GoOn(w, Do("secret", s, job[w].x))
    /\ UNCHANGED <<key, tab, gaps, inbox, lost>>

\* Mutant for TabsHoldTheSecret: the tab is given the secret it minted, stored or not.
MintAndTell(w) ==
    LET s == job[w].s IN
    /\ At(w, "mint")
    /\ key' = IF key[s] = NoSecret THEN [key EXCEPT ![s] = <<s, job[w].x>>] ELSE key
    /\ tab' = [tab EXCEPT ![job[w].x] = [session |-> s, secret |-> <<s, job[w].x>>]]
    /\ Finish(w)
    /\ UNCHANGED <<session, gaps, inbox, lost>>

ReadSecret(w) ==
    LET s == job[w].s IN
    /\ At(w, "secret")
    /\ IF key[s] # NoSecret
       THEN /\ tab' = [tab EXCEPT ![job[w].x] = [session |-> s, secret |-> key[s]]]
            /\ Finish(w)
       ELSE /\ GoOn(w, Do("mint", s, job[w].x))
            /\ UNCHANGED tab
    /\ UNCHANGED <<session, key, gaps, inbox, lost>>

MintSecret(w) ==
    LET s == job[w].s IN
    /\ At(w, "mint")
    /\ key' = IF key[s] = NoSecret THEN [key EXCEPT ![s] = <<s, job[w].x>>] ELSE key
    /\ GoOn(w, Do("secret", s, job[w].x))
    /\ UNCHANGED <<session, tab, gaps, inbox, lost>>

CreateSession(w) ==
    /\ Made = {}
    /\ Start(w, Do("create", 1, 0))
    /\ UNCHANGED <<session, key, tab, gaps, inbox, lost>>

CreateInsert(w) ==
    /\ At(w, "create")
    /\ \E s \in Sessions \ Made :
          /\ \A r \in Sessions \ Made : s <= r
          /\ session' = [session EXCEPT ![s] = Blank]
    /\ Finish(w)
    /\ UNCHANGED <<key, tab, gaps, inbox, lost>>

-----------------------------------------------------------------------------
Appended(s, n) == [session EXCEPT ![s].flags = @ + n, ![s].count = @ + n]

SubmitFlags(s) ==
    /\ s \in Made
    /\ \E n \in 1 .. MaxFlags - session[s].flags : session' = Appended(s, n)
    /\ UNCHANGED <<key, tab, gaps, inbox, lost, job>>

-----------------------------------------------------------------------------
\* The session-secret endpoints: a wrong or foreign secret is refused and noted.
Accepted(s, x) == key[s] # NoSecret /\ x = key[s]

LateHeartbeat(t) ==
    /\ tab[t].session # 0 /\ Accepted(tab[t].session, tab[t].secret)
    /\ gaps' = gaps \cup {tab[t].session}
    /\ UNCHANGED <<session, key, tab, inbox, lost, job>>

\* record_integrity_flag: one row per kind and dedupe_key.
Noted(s, k) == IF ~inbox[s][k].made THEN [inbox EXCEPT ![s][k] = Row] ELSE inbox

SecretMisuse(w, s) ==
    /\ "secret_misuse" \in Kinds
    /\ key[s] # NoSecret
    /\ inbox' = Noted(s, "secret_misuse")
    /\ Start(w, IF ~inbox[s]["secret_misuse"].made THEN Do("digest", s, 0) ELSE Do("done", s, 0))
    /\ UNCHANGED <<session, key, tab, gaps, lost>>

\* terminate_invite_session when the ledger does not support the browser.
TerminationDiscrepancy(w, s) ==
    /\ "termination_discrepancy" \in Kinds
    /\ s \in Made
    /\ inbox' = Noted(s, "termination_discrepancy")
    /\ Start(w, Do("gaps", s, 0))
    /\ UNCHANGED <<session, key, tab, gaps, lost>>

(* POST /candidate/{id}/complete: a marker flag when the last flush        *)
(* failed, the gaps, the digest (proctoring_complete itself is left out).  *)
\* Mutant for AlertsHaveASender: the digest goes first, the gaps are recorded after it.
RecordGapsLast(w) ==
    LET s == job[w].s IN
    /\ At(w, "gaps")
    /\ inbox' = IF "monitoring_gap" \in Kinds /\ s \in gaps THEN Noted(s, "monitoring_gap") ELSE inbox
    /\ GoOn(w, Do("done", s, 0))
    /\ UNCHANGED <<session, key, tab, gaps, lost>>

Complete(w, t) ==
    LET s == tab[t].session IN
    /\ s # 0
    /\ \/ Start(w, Do("marker", s, 0))
       \/ Start(w, Do("gaps", s, 0))
    /\ UNCHANGED <<session, key, tab, gaps, inbox, lost>>

FlushMarker(w) ==
    /\ At(w, "marker")
    /\ session' = IF session[job[w].s].flags < MaxFlags THEN Appended(job[w].s, 1) ELSE session
    /\ GoOn(w, Do("gaps", job[w].s, 0))
    /\ UNCHANGED <<key, tab, gaps, inbox, lost>>

RecordMonitoringGaps(w) ==
    LET s == job[w].s IN
    /\ At(w, "gaps")
    /\ inbox' = IF "monitoring_gap" \in Kinds /\ s \in gaps THEN Noted(s, "monitoring_gap") ELSE inbox
    /\ GoOn(w, Do("digest", s, 0))
    /\ UNCHANGED <<session, key, tab, gaps, lost>>

\* send_integrity_digest_for_session: the unreviewed rows not yet emailed are claimed in one UPDATE.
Claimable(s) ==
    {k \in Kinds : inbox[s][k].made /\ inbox[s][k].reviewed # "yes" /\ inbox[s][k].emailed = 0}

ClaimDigest(w) ==
    LET s == job[w].s IN
    /\ At(w, "digest")
    /\ inbox' = [inbox EXCEPT ![s] =
                    [k \in Kinds |-> IF k \in Claimable(s)
                                     THEN [inbox[s][k] EXCEPT !.emailed = inbox[s][k].emailed + 1]
                                     ELSE inbox[s][k]]]
    /\ GoOn(w, Do("done", s, 0))
    /\ UNCHANGED <<session, key, tab, gaps, lost>>

Answer(w) ==
    /\ At(w, "done")
    /\ Finish(w)
    /\ UNCHANGED <<session, key, tab, gaps, inbox, lost>>

ReviewIntegrityFlag(s, k) ==
    /\ inbox[s][k].made
    /\ inbox' = [inbox EXCEPT ![s][k].reviewed = IF @ = "yes" THEN "again" ELSE "yes"]
    /\ UNCHANGED <<session, key, tab, gaps, lost, job>>

Crash(w) ==
    /\ job[w] # Idle
    /\ lost' = TRUE
    /\ Finish(w)
    /\ UNCHANGED <<session, key, tab, gaps, inbox>>

Next ==
    \/ \E w \in Workers :
        \/ InsertSession(w) \/ ReadSecret(w) \/ MintSecret(w) \/ CreateSession(w) \/ CreateInsert(w)
        \/ FlushMarker(w) \/ RecordMonitoringGaps(w) \/ ClaimDigest(w) \/ Answer(w)
        \/ Crash(w)
        \/ \E t \in Tabs : InitRead(w, t) \/ Complete(w, t)
        \/ \E s \in Sessions : SecretMisuse(w, s) \/ TerminationDiscrepancy(w, s)
    \/ \E s \in Sessions : SubmitFlags(s)
    \/ \E t \in Tabs : LateHeartbeat(t)
    \/ \E s \in Sessions, k \in Kinds : ReviewIntegrityFlag(s, k)

Spec == Init /\ [][Next]_vars

\* Handlers and tabs are interchangeable.
Symmetry == Permutations(Workers) \cup Permutations(Tabs)

-----------------------------------------------------------------------------
\* Tabs that race through /candidate/init on one session hold the same, live secret, so no
\* tab's ledger posts are refused (_get_or_create_session_secret).
TabsHoldTheSecret ==
    \A t \in Tabs : tab[t].session # 0 => tab[t].secret = key[tab[t].session]

\* No alert is forgotten: unless a handler died, a flag nobody reviewed and no digest claimed
\* has a handler on its way to the digest of that session.
AlertsHaveASender ==
    \A s \in Sessions, k \in Kinds : k \in Claimable(s) /\ inbox[s][k].reviewed = "no" =>
        lost \/ \E w \in Workers : job[w].op \in {"gaps", "digest"} /\ job[w].s = s
=============================================================================

---------------------------- MODULE SchemaUpgrade ----------------------------
(***************************************************************************)
(* The statements by which a starting server brings the database to the    *)
(* schema of its release (main.py, _auto_migrate): one list, run from the  *)
(* first statement to the last at every start, each statement committed on *)
(* its own and a failed one logged and skipped.  A statement fails when a  *)
(* table or column it speaks of is not there yet.  The list once did so    *)
(* ("nothing earlier in this list created these"), and nobody notices: the *)
(* process serves all the same, with a part of the schema missing.         *)
(*                                                                         *)
(* A statement is kept as the table it is about, the tables it refers to   *)
(* and the columns, added by another statement, that it uses.  Left out    *)
(* are plain indexes, and columns, CHECKs and seeds of a migration that    *)
(* need no more than another statement of it on that table.  What depends  *)
(* on the rows is left to StartupMigration.                                *)
(***************************************************************************)
EXTENDS Naturals, Sequences, SequencesExt

CONSTANTS
    Processes,  \* processes of the web server
    Flaky,      \* bound: the tables whose statements may fail for a reason that passes, and
                \* before whose statements a process may die
    MaxFaults,  \* bound: deaths, and statements that fail for such a reason
    MaxRestarts \* bound: restarts of a process that serves

ASSUME BoundAssumption ==
    /\ IsFiniteSet(Processes)
    /\ MaxFaults \in Nat /\ MaxRestarts \in Nat

VARIABLES
    done,     \* the statements whose effect today's tables show
    renamed,  \* the interview tables migration 99 has renamed
    second,   \* those whose effect is on, or tied to, tables created anew under the old names
    at,       \* the statement a process is about to run; it serves after the last one
    clean,    \* ghost: the processes in whose migration, or beside it, no statement has failed
              \* for a reason that passes
    faults    \* the deaths, failures and restarts so far

vars == <<done, renamed, second, at, clean, faults>>

-----------------------------------------------------------------------------
\* The tables of 01_schema.sql, which every database has.
Base == {"group_company", "business_unit", "band", "app_user", "requisition",
         "requisition_recruiter", "round_config", "candidate", "application", "interview",
         "interview_panel", "feedback_form", "scorecard", "approval_chain", "offer",
         "email_template", "stage_event"}

Statement(kind, m, t, refs, uses) ==
    <<[kind |-> kind, mig |-> m, table |-> t, refs |-> refs, uses |-> uses]>>

\* CREATE TABLE t with foreign keys to refs.
Create(t, refs) == Statement("create", 0, t, refs, {})
\* Migration m adds columns to t, foreign keys to refs among them; or columns to each of tables.
Column(m, t, refs) == Statement("column", m, t, refs, {})
Columns(m, tables) == FlattenSeq([i \in DOMAIN tables |-> Column(m, tables[i], {})])
\* Migration m constrains, fills, seeds or indexes t, and reads columns <<table, migration>>.
Rule(m, t, uses) == Statement("rule", m, t, {u[1] : u \in uses}, uses)
Rules(m, tables) == FlattenSeq([i \in DOMAIN tables |-> Rule(m, tables[i], {})])
\* The columns of migration m and what it does with them at once.
Filled(m, t, refs) == Column(m, t, refs) \o Rule(m, t, {<<t, m>>})
Tenanted(tables) == FlattenSeq([i \in DOMAIN tables |-> Filled(96, tables[i], {"tenant"})])

ToUser == {"app_user"}
ToApp == {"application"}
ToReq == {"requisition"}
ToTenant == {"tenant"}
ToCandidate == {"tenant", "candidate"}

Migrations16 ==
    Columns(0, <<"app_user">>)
    \o Create("nexai_session", ToApp \cup ToReq) \o Rules(0, <<"nexai_session">>)
    \o Create("nexai_invite", ToApp \cup ToUser) \o Columns(0, <<"requisition">>)
    \o Create("system_settings", ToUser) \o Columns(12, <<"nexai_session">>)
    \o Create("avatar_video_cache", {}) \o Create("requisition_questions", ToReq \cup ToUser)
    \o Rules(15, <<"nexai_invite">>) \o Columns(16, <<"nexai_session">>) \o Rules(17, <<"candidate">>)

Migrations21 ==
    Create("proctoring_session", {"nexai_session"} \cup ToApp \cup ToUser)
    \o Columns(18, <<"proctoring_session">>) \o Columns(19, <<"nexai_session">>)
    \o Rules(20, <<"nexai_session">>) \o Columns(20, <<"nexai_session">>)
    \o Create("proctoring_appeal", {"nexai_session"} \cup ToApp \cup ToUser)

Migrations29 ==
    Columns(22, <<"application">>) \o Filled(23, "scorecard", {}) \o Columns(24, <<"application">>)
    \o Column(25, "email_template", ToUser)
    \o Column(26, "offer", ToUser) \o Rules(26, <<"offer", "application">>)
    \o Create("req_offer_approver", ToReq \cup ToUser)
    \o Create("offer_approval_step", {"offer"} \cup ToUser)
    \o Create("interview_notes", {"interview"} \cup ToApp) \o Create("sla_config", ToUser)
    \o Create("offer_chain_template", ToUser)
    \o Create("offer_chain_template_step", {"offer_chain_template"} \cup ToUser)
    \o Columns(29, <<"req_offer_approver", "offer_approval_step">>)

Migrations31 ==
    Rules(30, <<"application">>) \o Filled(30, "requisition", {}) \o Rules(30, <<"sla_config">>)
    \o Rules(31, <<"application">>) \o Column(31, "application", ToUser)
    \o Create("application_document", ToApp \cup ToUser)
    \o Create("negotiation_log", ToApp \cup ToUser) \o Rules(31, <<"sla_config">>)

Migrations37 ==
    Create("hiring_plan_rows", {"band"} \cup ToReq \cup ToUser)
    \o Create("cv_repository", {"candidate"} \cup ToReq \cup ToUser)
    \o Create("cv_ingest_jobs", {}) \o Filled(33, "app_user", {})
    \o Column(33, "candidate", {"cv_repository"}) \o Filled(34, "requisition", {})
    \o Columns(35, <<"email_template">>) \o Rules(36, <<"cv_repository", "system_settings">>)

Migrations41 ==
    Rules(38, <<"application">>) \o Columns(39, <<"requisition">>) \o Filled(39, "application", {})
    \o Create("campus_upload_batch", ToReq \cup ToUser)
    \o Create("campus_candidate", {"campus_upload_batch"} \cup ToApp \cup ToReq)
    \o Create("password_reset_token", ToUser) \o Rules(41, <<"password_reset_token">>)
    \o Create("vendor", ToUser) \o Create("vendor_user", {"vendor"})
    \o Create("requisition_vendor", {"vendor"} \cup ToReq \cup ToUser)

Migrations45 ==
    Columns(41, <<"application">>) \o Create("candidate_user", {"candidate"})
    \o Create("candidate_feedback", {"candidate"} \cup ToApp) \o Columns(43, <<"requisition">>)
    \o Create("gamification_event", ToApp \cup ToReq) \o Create("gamification_config", ToUser)
    \o Rules(43, <<"gamification_config">>) \o Create("gamification_badge", {})
    \o Columns(43, <<"app_user">>) \o Create("recruiter_module_access", ToUser)

Migration44 ==
    Statement("rule", 44, "app_user",
              {"system_settings", "sla_config", "offer_chain_template", "offer_chain_template_step",
               "req_offer_approver", "offer_approval_step"}, {})

Migrations48 ==
    Filled(46, "campus_candidate", {}) \o Columns(47, <<"requisition">>)
    \o Columns(48, <<"application", "requisition">>)
    \o Create("support_ticket", ToUser) \o Create("login_log", ToUser)
    \o Create("sent_email_log", ToApp \cup ToUser) \o Rule(48, "requisition", {<<"requisition", 48>>})

Migrations52 ==
    Create("hrbp", {}) \o Create("bu_hrbp_map", {"business_unit", "hrbp"})
    \o Column(49, "app_user", {"business_unit"}) \o Rules(49, <<"app_user">>)
    \o Filled(49, "requisition", {"hrbp"}) \o Columns(49, <<"application">>)
    \o Create("former_employee", {}) \o Rules(49, <<"former_employee">>)
    \o Create("no_poach_company", {}) \o Rules(49, <<"no_poach_company">>)
    \o Create("market_intelligence", {}) \o Columns(50, <<"campus_candidate", "no_poach_company">>)
    \o Columns(51, <<"requisition">>)

Migrations58 ==
    Columns(53, <<"nexai_invite">>)
    \o Create("interview_schedule_request", {"round_config"} \cup ToApp \cup ToUser)
    \o Create("interview_slot", {"interview_schedule_request"})
    \o Statement("rule", 54, "interview_schedule_request", {"interview_slot"}, {})
    \o Create("login_attempt", {}) \o Create("activity_log", ToApp \cup ToReq \cup ToUser)
    \o Columns(57, <<"round_config">>) \o Rules(58, <<"feedback_form">>)

Migrations66 ==
    Create("notification", {"interview_schedule_request"} \cup ToApp \cup ToReq \cup ToUser)
    \o Rules(60, <<"campus_candidate">>) \o Columns(61, <<"requisition">>)
    \o Columns(62, <<"round_config">>) \o Create("google_calendar_connection", ToUser)
    \o Create("google_oauth_state", ToUser) \o Create("proctoring_media", {"proctoring_session"})
    \o Column(65, "nexai_session", {})
    \o Rule(65, "nexai_session", {<<"nexai_session", 12>>, <<"nexai_session", 65>>})
    \o Rules(66, <<"scorecard", "feedback_form", "round_config">>)

Migrations72 ==
    Column(67, "cv_ingest_jobs", ToUser)
    \o Create("cv_scorecard", {"cv_repository"} \cup ToReq \cup ToUser)
    \o Filled(69, "candidate", {}) \o Create("candidate_work_experience", {"candidate"})
    \o Create("candidate_education", {"candidate"}) \o Create("linkedin_oauth_state", {"candidate"})
    \o Create("app_user_bu", {"business_unit"} \cup ToUser)
    \o Rule(70, "app_user_bu", {<<"app_user", 49>>})
    \o Create("app_user_company", {"group_company"} \cup ToUser)
    \o Create("band_company", {"band", "group_company"}) \o Rules(72, <<"band_company">>)

Migrations82 ==
    Rules(73, <<"hrbp">>) \o Rules(74, <<"cv_repository">>) \o Columns(74, <<"cv_ingest_jobs">>)
    \o Columns(75, <<"app_user">>) \o Rules(76, <<"cv_repository">>)
    \o Columns(77, <<"cv_ingest_jobs">>) \o Rules(77, <<"cv_ingest_jobs">>)
    \o Columns(78, <<"cv_repository">>) \o Columns(79, <<"requisition">>)
    \o Filled(80, "interview", {}) \o Filled(81, "interview", {})
    \o Create("interview_reschedule", {"interview"} \cup ToApp)
    \o Rule(82, "requisition_recruiter", {<<"requisition", 34>>})

Migrations90 ==
    Rules(83, <<"interview_reschedule">>) \o Columns(84, <<"application">>)
    \o Column(85, "app_user", ToUser)
    \o Create("proctoring_flag_ledger", {"proctoring_session"})
    \o Create("proctoring_session_key", {"proctoring_session"})
    \o Create("proctoring_session_state", {"proctoring_session"})
    \o Create("proctoring_pause_event", {"proctoring_session"})
    \o Create("proctoring_heartbeat", {"proctoring_session"})
    \o Create("proctoring_termination_discrepancy", {"nexai_session", "proctoring_session"})
    \o Create("proctoring_integrity_flag", {"nexai_session", "proctoring_session"} \cup ToUser)
    \o Columns(90, <<"proctoring_integrity_flag">>)

Migrations95 ==
    Columns(91, <<"proctoring_session">>) \o Rules(92, <<"proctoring_session">>)
    \o Filled(93, "proctoring_appeal", {"nexai_invite"})
    \o Create("tenant", {}) \o Rules(94, <<"tenant">>)
    \o Filled(94, "app_user", ToTenant) \o Filled(94, "group_company", ToTenant)
    \o Columns(95, <<"app_user", "tenant">>) \o Create("client", ToTenant)
    \o Filled(95, "requisition", {"client"})

Migrations96 ==
    Tenanted(<<"requisition", "candidate", "candidate_user", "vendor", "vendor_user", "band", "hrbp",
               "former_employee", "no_poach_company", "email_template", "offer_chain_template",
               "feedback_form", "cv_repository", "hiring_plan_rows">>)

Migrations98 ==
    Tenanted(<<"gamification_event", "gamification_badge", "google_calendar_connection",
               "system_settings", "sla_config", "gamification_config">>)
    \o Rule(96, "group_company", {<<"group_company", 94>>})
    \o Create("system_status", {}) \o Statement("rule", 97, "system_status", {"system_settings"}, {})
    \o Create("hr_question", ToTenant \cup ToUser)
    \o Create("user_question_answer", {"hr_question"} \cup ToTenant)
    \o Create("user_gamification_streak", ToTenant)
    \o Rule(98, "gamification_config", {<<"gamification_config", 96>>})

\* Migration 99: rename the interview tables; then the columns and values named after them.
RenameTables == Statement("rename", 99, "nexai_session", {"nexai_invite"}, {})
Migrations99 ==
    RenameTables
    \o Rules(99, <<"proctoring_session", "proctoring_appeal", "proctoring_termination_discrepancy",
                   "proctoring_integrity_flag", "campus_candidate", "application", "stage_event",
                   "sla_config">>)

Migrations103 ==
    Column(100, "app_user", {}) \o Rule(100, "app_user", {<<"app_user", 94>>, <<"app_user", 100>>})
    \o Filled(101, "tenant", {}) \o Rules(101, <<"app_user">>)
    \o Create("module_catalog", {}) \o Create("tenant_module_config", {"module_catalog"} \cup ToTenant)
    \o Create("subscription_plan_config", {})
    \o Rules(102, <<"subscription_plan_config", "module_catalog", "tenant_module_config">>)
    \o Create("support_ticket_reply", {"support_ticket"} \cup ToUser)

Modules(m) == Rules(m, <<"module_catalog", "tenant_module_config">>)

Migrations107 ==
    Create("platform_settings", {}) \o Create("document_type_config", ToTenant)
    \o Rules(105, <<"document_type_config">>) \o Create("document_request", ToCandidate \cup ToUser)
    \o Create("candidate_document", ToCandidate \cup ToApp) \o Modules(105)
    \o Rules(106, <<"module_catalog">>) \o Create("bgv_check_type_config", ToTenant)
    \o Rules(107, <<"bgv_check_type_config">>)
    \o Create("bgv_case", ToCandidate \cup ToApp \cup ToUser)
    \o Create("bgv_check", {"bgv_case"} \cup ToTenant) \o Modules(107)

Migrations110 ==
    Rules(108, <<"module_catalog">>)
    \o Create("preboarding_case", ToCandidate \cup ToApp \cup ToUser)
    \o Create("preboarding_content", ToTenant) \o Rules(109, <<"preboarding_content">>)
    \o Create("preboarding_policy_ack", {"preboarding_case"} \cup ToTenant)
    \o Create("asset_task", {"preboarding_case"} \cup ToTenant) \o Modules(109)
    \o Columns(110, <<"preboarding_case">>) \o Rules(110, <<"preboarding_case">>)
    \o Create("preboarding_config", ToTenant) \o Rules(110, <<"preboarding_config">>)

Migrations112 ==
    Create("employee_master", {"business_unit"} \cup ToCandidate \cup ToApp \cup ToUser)
    \o Create("onboarding_case", {"employee_master"} \cup ToCandidate)
    \o Create("onboarding_task", {"onboarding_case"} \cup ToTenant) \o Modules(111)
    \o Create("hrms_provider_config", ToTenant)
    \o Create("hrms_sync", {"employee_master"} \cup ToCandidate) \o Modules(112)

Migrations115 ==
    Rule(113, "requisition_recruiter", {<<"app_user", 94>>, <<"requisition", 96>>})
    \o Columns(114, <<"cv_repository">>) \o Rules(114, <<"cv_repository">>)
    \o Rules(115, <<"cv_repository">>)

Statements ==
    Migrations16 \o Migrations21 \o Migrations29 \o Migrations31 \o Migrations37 \o Migrations41
    \o Migrations45 \o Migration44 \o Migrations48 \o Migrations52 \o Migrations58 \o Migrations66
    \o Migrations72 \o Migrations82 \o Migrations90 \o Migrations95 \o Migrations96
    \o Migrations98 \o Migrations99 \o Migrations103 \o Migrations107 \o Migrations110
    \o Migrations112 \o Migrations115

N == Len(Statements)
Serving == N + 1
Old == {"nexai_session", "nexai_invite"}

Creators(t) == {i \in 1..N : Statements[i].kind = "create" /\ Statements[i].table = t}
\* The tables a statement speaks of, and does not create.
Spoken(s) == s.refs \cup (IF s.kind = "create" THEN {} ELSE {s.table})
Givers(s) ==
    {i \in 1..N : Statements[i].kind = "column" /\ <<Statements[i].table, Statements[i].mig>> \in s.uses}
\* What has to be there for each statement: for every table a number, 0 if nothing creates it.
Needs == [i \in 1..N |->
    Givers(Statements[i]) \cup
    {IF Creators(t) = {} THEN 0 ELSE CHOOSE j \in Creators(t) : TRUE :
        t \in Spoken(Statements[i]) \ Base}]

\* What the statements find under the names they use.
Seen(j) == j \in IF Statements[j].table \in renamed THEN second ELSE done \cup second
Works(i) == \A j \in Needs[i] : j # 0 /\ Seen(j)
Tables(i) == Statements[i].refs \cup {Statements[i].table}
Tied(i, tables) == Tables(i) \cap tables # {}

\* The list, which is given in full above, is in order: what a statement needs is made by earlier
\* ones, of tables it speaks of, and after the renaming nothing speaks of the old names.
Renaming == CHOOSE i \in 1..N : Statements[i].kind = "rename"
ASSUME ListInOrder ==
    /\ N \in Nat /\ Renaming \in 1..N
    /\ \A i \in 1..N :
          /\ Statements[i].kind = "rename" <=> i = Renaming
          /\ \A j \in Needs[i] : j \in 1 .. i-1 /\ Statements[j].table \in Tables(i)
          /\ Tied(i, Old) => i <= Renaming
    /\ \A t \in Old : Creators(t) # {}

\* A new database, and some of the processes deployed on it.
Init ==
    /\ done = {} /\ renamed = {} /\ second = {}
    /\ at \in {f \in [Processes -> {0, 1}] : \E p \in Processes : f[p] = 1}
    /\ clean = Processes
    /\ faults = [deaths |-> 0, failures |-> 0, restarts |-> 0]

-----------------------------------------------------------------------------
Goes(p) == at[p] \in 1..N /\ at' = [at EXCEPT ![p] = @ + 1]
Faulty == faults.deaths + faults.failures < MaxFaults
Migrating == {p \in Processes : at[p] \in 1..N}
Count(what) == faults' = [faults EXCEPT ![what] = @ + 1]

\* A statement, but for the renaming: it takes effect, finds its effect there, or fails.
Apply(p) ==
    LET i == at[p] IN
    /\ Goes(p) /\ Statements[i].kind # "rename"
    /\ IF ~Works(i) THEN UNCHANGED <<done, second>>
       ELSE IF Tied(i, renamed) THEN second' = second \cup {i} /\ UNCHANGED done
       ELSE done' = done \cup {i} /\ UNCHANGED second
    /\ UNCHANGED <<renamed, clean, faults>>

\* The block renames every table found under its old name, or fails as a whole.
Rename(p) ==
    LET found == {t \in Old : \E j \in Creators(t) : Seen(j)} IN
    /\ Goes(p) /\ Statements[at[p]].kind = "rename"
    /\ IF found \cap renamed = {}
       THEN renamed' = renamed \cup found /\ done' = done \cup {at[p]}
       ELSE UNCHANGED <<renamed, done>>
    /\ UNCHANGED <<second, clean, faults>>

\* A statement that a lock or a lost connection makes fail: "log but don't crash".
Fail(p) ==
    /\ Faulty
    /\ Goes(p) /\ Statements[at[p]].table \in Flaky
    /\ clean' = clean \ Migrating
    /\ Count("failures")
    /\ UNCHANGED <<done, renamed, second>>

\* Mutant for ServesComplete: a process that starts again takes the schema for up to date.
StartUpToDate(p) == at' = [at EXCEPT ![p] = Serving] /\ clean' = clean \cup {p}
Start(p) ==
    /\ at' = [at EXCEPT ![p] = 1]
    /\ clean' = IF Migrating \ {p} \subseteq clean THEN clean \cup {p} ELSE clean \ {p}

\* A process dies while it migrates; what supervises it starts it again.
Die(p) ==
    /\ Faulty
    /\ at[p] \in 2..N /\ Statements[at[p]].table \in Flaky /\ Start(p)
    /\ Count("deaths")
    /\ UNCHANGED <<done, renamed, second>>

\* A process that serves is restarted.
Restart(p) ==
    /\ at[p] = Serving /\ faults.restarts < MaxRestarts /\ Start(p)
    /\ Count("restarts")
    /\ UNCHANGED <<done, renamed, second>>

Next == \E p \in Processes : Apply(p) \/ Rename(p) \/ Fail(p) \/ Die(p) \/ Restart(p)

Spec == Init /\ [][Next]_vars

-----------------------------------------------------------------------------
\* A process that serves finds the whole schema of its release, whatever died before it or
\* migrates beside it, and from whichever statement of the list its database dates, if no
\* statement failed for a passing reason while it migrated, neither its own nor that of a
\* process which migrated beside it; and a failure before that has it miss nothing but what is
\* tied to the renamed tables ("a failed migration shouldn't block startup").
ServesComplete ==
    \A p \in Processes : at[p] = Serving /\ p \in clean =>
        \A i \in 1..N : i \in done \/ (faults.failures > 0 /\ Tied(i, Old))
=============================================================================

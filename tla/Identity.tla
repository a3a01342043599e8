------------------------------ MODULE Identity ------------------------------
(***************************************************************************)
(* A staff account, its sessions and its password links (routers/auth.py,  *)
(* auth_utils.py, routers/platform_auth_api.py, password_api.py,           *)
(* admin_users.py, platform_admin_api.py).  A session is a signed token:   *)
(* nothing is stored for it, each request compares the token_version the   *)
(* token carries with the row's and asks whether account and tenant are    *)
(* alive.                                                                  *)
(*                                                                         *)
(* A login reads the row in one statement and signs the token some time    *)
(* later; a request is let in at one moment and acts at a later one.  Who  *)
(* may administrate whom is left out, and so are the roles but for their   *)
(* change.                                                                 *)
(***************************************************************************)
EXTENDS Naturals

CONSTANTS
    Sessions,    \* tokens, each signed once
    MaxVersion,  \* bound: token_version
    MaxFailures  \* failed logins of a pair that are let through (RL_MAX_PER_IP_EMAIL)

ASSUME VersionAssumption == MaxVersion \in Nat
ASSUME FailureAssumption == MaxFailures \in Nat \ {0}

VARIABLES
    account,   \* the app_user row
    tenant,    \* the tenant row, and whether its subscription has lapsed
    token,     \* each token: unsigned, being signed, signed or expired
    request,   \* the request a token has been let in with, none or what it is about
    link,      \* an open password_reset_token: none, open, or open and being submitted
    failures,  \* failed logins of the pair inside the window
    shutOut    \* tokens signed or being signed when access was last withdrawn

vars == <<account, tenant, token, request, link, failures, shutOut>>

Unsigned == [phase |-> "none", tver |-> 0]

Init ==
    /\ account = [row |-> "none", active |-> FALSE, boss |-> FALSE, set |-> FALSE, tver |-> 0]
    /\ tenant = [status |-> "trial", deleted |-> FALSE, lapsed |-> FALSE]
    /\ token = [s \in Sessions |-> Unsigned]
    /\ request = [s \in Sessions |-> "none"]
    /\ link = "none"
    /\ failures = 0
    /\ shutOut = {}

tokenVars == <<token, request, shutOut>>

-----------------------------------------------------------------------------
\* create_user, add_tenant_admin, add_placement_officer, create_superadmin and the first admin of
\* create_tenant: an account with or without a password, and an invite for it that may fail.
CreateAccount ==
    /\ account.row = "none"
    /\ \E boss, set \in BOOLEAN :
        account' = [account EXCEPT !.row = "there", !.active = TRUE, !.boss = boss, !.set = set]
    /\ link' \in {"none", "open"}
    /\ UNCHANGED <<tenant, tokenVars, failures>>

\* The tenant lets nobody in but a superadmin (login, _refresh_staff_claims).
TenantOpen ==
    account.boss \/ (~tenant.deleted /\ tenant.status # "suspended" /\ ~tenant.lapsed)

\* login with the right password: the row is read, with its token_version ...
Login(s) ==
    /\ token[s].phase = "none" /\ failures < MaxFailures
    /\ account.active /\ account.set /\ TenantOpen
    /\ token' = [token EXCEPT ![s] = [phase |-> "signing", tver |-> account.tver]]
    /\ failures' = 0
    /\ UNCHANGED <<account, tenant, request, link, shutOut>>

\* ... platform_login asks for a superadmin instead of an open tenant ...
PlatformLogin(s) ==
    /\ token[s].phase = "none" /\ failures < MaxFailures
    /\ account.active /\ account.set /\ account.boss
    /\ token' = [token EXCEPT ![s] = [phase |-> "signing", tver |-> account.tver]]
    /\ failures' = 0
    /\ UNCHANGED <<account, tenant, request, link, shutOut>>

\* ... impersonate_user for an active account that is not a superadmin's, without a password ...
Impersonate(s) ==
    /\ token[s].phase = "none" /\ account.active /\ ~account.boss
    /\ token' = [token EXCEPT ![s] = [phase |-> "signing", tver |-> account.tver]]
    /\ UNCHANGED <<account, tenant, request, link, failures, shutOut>>

\* ... and _build_token signs what was read.
\* Mutant for RevokedStaysOut: the token carries the version the row has by then.
SignFresh(s) ==
    /\ token[s].phase = "signing"
    /\ token' = [token EXCEPT ![s] = [phase |-> "signed", tver |-> account.tver]]
    /\ UNCHANGED <<account, tenant, request, link, failures, shutOut>>
Sign(s) ==
    /\ token[s].phase = "signing"
    /\ token' = [token EXCEPT ![s].phase = "signed"]
    /\ UNCHANGED <<account, tenant, request, link, failures, shutOut>>

\* A failed login is counted, and the pair waits when it has failed too often (rate_limited);
\* the window moves on.
LoginFails ==
    /\ failures < MaxFailures
    /\ failures' = failures + 1
    /\ UNCHANGED <<account, tenant, tokenVars, link>>

WindowPasses ==
    /\ failures > 0
    /\ failures' = 0
    /\ UNCHANGED <<account, tenant, tokenVars, link>>

TokenExpires(s) ==
    /\ token[s].phase = "signed"
    /\ token' = [token EXCEPT ![s].phase = "expired"]
    /\ UNCHANGED <<account, tenant, request, link, failures, shutOut>>

-----------------------------------------------------------------------------
\* decode_staff_token with _refresh_staff_claims: the row as it is now decides.
Admits(s) ==
    /\ token[s].phase = "signed"
    /\ account.row = "there" /\ account.active
    /\ token[s].tver = account.tver
    /\ TenantOpen

Request(s) ==
    /\ request[s] = "none" /\ Admits(s)
    /\ \E about \in {"file", "password"} : request' = [request EXCEPT ![s] = about]
    /\ UNCHANGED <<account, tenant, token, link, failures, shutOut>>

\* download_token: a sixty-second token, from the row as it is by then.
DownloadToken(s) ==
    /\ request[s] = "file" /\ account.row = "there"
    /\ \E d \in Sessions :
        /\ token[d].phase = "none"
        /\ token' = [token EXCEPT ![d] = [phase |-> "signed", tver |-> account.tver]]
    /\ request' = [request EXCEPT ![s] = "none"]
    /\ UNCHANGED <<account, tenant, link, failures, shutOut>>

\* change_password: the old password is checked, the sessions are left alone.
ChangePassword(s) ==
    /\ request[s] = "password"
    /\ request' = [request EXCEPT ![s] = "none"]
    /\ UNCHANGED <<account, tenant, token, link, failures, shutOut>>

RequestEnds(s) ==
    /\ request[s] # "none"
    /\ request' = [request EXCEPT ![s] = "none"]
    /\ UNCHANGED <<account, tenant, token, link, failures, shutOut>>

-----------------------------------------------------------------------------
\* What withdraws access: whoever holds a token, or is about to be given one, is shut out.
Withdraw(row) ==
    /\ account.row = "there" /\ account.tver < MaxVersion
    /\ account' = [row EXCEPT !.tver = account.tver + 1]
    /\ shutOut' = shutOut \cup {s \in Sessions : token[s].phase \in {"signing", "signed"}}
    /\ UNCHANGED <<tenant, token, request, link, failures>>

\* update_user and update_user_full with a role or is_active; set_user_status likewise, not for a
\* superadmin.
UpdateUser == \E active \in BOOLEAN : Withdraw([account EXCEPT !.active = active])

\* deactivate_user.
Deactivate == Withdraw([account EXCEPT !.active = FALSE])

\* reset_password of an administrator.
AdminReset == Withdraw([account EXCEPT !.set = TRUE])

\* revoke_superadmin.
RevokeSuperadmin == account.boss /\ Withdraw([account EXCEPT !.boss = FALSE])

\* delete_user_permanent, which a row with records refuses (409).
DeletePermanently ==
    /\ account.row = "there"
    /\ account' = [account EXCEPT !.row = "gone", !.active = FALSE]
    /\ shutOut' = shutOut \cup {s \in Sessions : token[s].phase \in {"signing", "signed"}}
    /\ UNCHANGED <<tenant, token, request, link, failures>>

\* set_tenant_status, delete_tenant, and the day the subscription and its grace run out: all
\* sessions stop at once, and those of a suspended or lapsed tenant come back with it.
SetTenantStatus ==
    /\ ~tenant.deleted
    /\ \E status \in {"active", "trial", "suspended"}, lapsed \in {FALSE, tenant.lapsed} :
        tenant' = [tenant EXCEPT !.status = status, !.lapsed = lapsed]
    /\ UNCHANGED <<account, tokenVars, link, failures>>

DeleteTenant ==
    /\ ~tenant.deleted
    /\ tenant' = [tenant EXCEPT !.deleted = TRUE]
    /\ UNCHANGED <<account, tokenVars, link, failures>>

SubscriptionLapses ==
    /\ ~tenant.lapsed
    /\ tenant' = [tenant EXCEPT !.lapsed = TRUE]
    /\ UNCHANGED <<account, tokenVars, link, failures>>

-----------------------------------------------------------------------------
\* send_setup_link and forgot_password: one more link, the earlier ones stay good.
IssueLink ==
    /\ account.row = "there" /\ account.active /\ link = "none"
    /\ link' = "open"
    /\ UNCHANGED <<account, tenant, tokenVars, failures>>

LinkExpires ==
    /\ link = "open"
    /\ link' = "none"
    /\ UNCHANGED <<account, tenant, tokenVars, failures>>

\* reset_password with a link: it is looked at ...
SubmitLink ==
    /\ link = "open"
    /\ link' = "submitted"
    /\ UNCHANGED <<account, tenant, tokenVars, failures>>

\* ... the password is set, whatever became of the account, its sessions left alone; then this
\* link and all others of the account are marked as used, unless the process dies before.
SetPassword ==
    /\ link = "submitted"
    /\ account' = [account EXCEPT !.set = TRUE]
    /\ link' \in {"open", "none"}
    /\ UNCHANGED <<tenant, tokenVars, failures>>

-----------------------------------------------------------------------------
Next ==
    \/ CreateAccount \/ LoginFails \/ WindowPasses
    \/ UpdateUser \/ Deactivate \/ AdminReset \/ RevokeSuperadmin \/ DeletePermanently
    \/ SetTenantStatus \/ DeleteTenant \/ SubscriptionLapses
    \/ IssueLink \/ LinkExpires \/ SubmitLink \/ SetPassword
    \/ \E s \in Sessions :
        \/ Login(s) \/ PlatformLogin(s) \/ Impersonate(s) \/ Sign(s) \/ TokenExpires(s)
        \/ Request(s) \/ DownloadToken(s) \/ ChangePassword(s) \/ RequestEnds(s)

Spec == Init /\ [][Next]_vars

-----------------------------------------------------------------------------
\* "Invalidate any JWT already issued": once access was withdrawn (a role change, a deactivation,
\* an administrator's reset, a revocation), no token that had been signed by then is let in ever
\* again, and none that a login was just about to sign from the row it had read, whatever else is
\* withdrawn, given back or reactivated later (_refresh_staff_claims).
RevokedStaysOut == \A s \in shutOut : ~Admits(s)
=============================================================================

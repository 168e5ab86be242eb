----------------------------- MODULE Accounts -----------------------------
(***************************************************************************)
(* The account store: users, tenants, who belongs to which tenant in which *)
(* role, the sessions of the users and the tenant each has chosen, and the *)
(* API tokens.                                                             *)
(*                                                                         *)
(* Each operation of AuthStore that writes is one BEGIN IMMEDIATE          *)
(* transaction, hence one action.  A login is two: authenticate, then      *)
(* create_session; whatever else happens may come in between.              *)
(***************************************************************************)
CONSTANTS Users, TenantIds, Sessions  \* ids the store may hand out

ASSUME NoneIsNobody == "none" \notin Users \cup TenantIds

VARIABLES
  users,     \* rows of users
  active,    \* users.is_active
  tenants,   \* rows of tenants
  role,      \* memberships: user -> tenant -> "none", "member" or "admin"
  session,   \* auth_sessions
  tokens,    \* api_tokens: who created them for which tenant
  login      \* users authenticated whose session is not created yet

store == <<users, active, tenants, role, session, tokens, login>>

Roles == {"member", "admin"}
Row == [user : Users \cup {"none"}, tenant : TenantIds \cup {"none"}, live : BOOLEAN, late : BOOLEAN]
NoSession == [user |-> "none", tenant |-> "none", live |-> FALSE, late |-> FALSE]

AccountsTypeOK ==
  /\ users \subseteq Users
  /\ active \in [Users -> BOOLEAN]
  /\ tenants \subseteq TenantIds
  /\ role \in [Users -> [TenantIds -> Roles \cup {"none"}]]
  /\ session \in [Sessions -> Row]
  /\ tokens \subseteq Users \X TenantIds
  /\ login \subseteq Users

Member(u, t) == role[u][t] # "none"

\* What _assert_admin_remains counts, with and without the user excluded.
Administers(u, t)    == active[u] /\ role[u][t] = "admin"
AdminRemains(t, u)   == \E v \in Users \ {u} : Administers(v, t)
HasAdmin(t)          == \E v \in Users : Administers(v, t)

\* _guard_last_admin_removal: t is not among the tenants u stays admin of.
MayLeave_Own(u, keeping) == \A t \in TenantIds \ keeping : role[u][t] = "admin" => HasAdmin(t)
MayLeave(u, keeping) == \A t \in TenantIds \ keeping : role[u][t] = "admin" => AdminRemains(t, u)

Nowhere == [t \in TenantIds |-> "none"]

\* What ensure_initial_admin leaves on the first start of a server.
InitAccounts ==
  /\ \E u \in Users, t \in TenantIds :
       /\ users = {u}
       /\ tenants = {t}
       /\ role = [v \in Users |-> IF v = u THEN [Nowhere EXCEPT ![t] = "admin"] ELSE Nowhere]
  /\ active = [u \in Users |-> TRUE]
  /\ session = [s \in Sessions |-> NoSession]
  /\ tokens = {}
  /\ login = {}

-----------------------------------------------------------------------------
(* Sessions of a user as the operations change them.                       *)

Of(u) == {s \in Sessions : session[s].user = u}

SignedOut_Not(u) == session
SignedOut(u) == [s \in Sessions |-> IF s \in Of(u) THEN [session[s] EXCEPT !.live = FALSE] ELSE session[s]]

\* The choice of a tenant is undone in the sessions where P holds.
Unchosen(P) == [s \in Sessions |-> IF P[s] THEN [session[s] EXCEPT !.tenant = "none"] ELSE session[s]]

-----------------------------------------------------------------------------
(* Tenants.                                                                *)

CreateTenant(t) ==
  /\ t \notin tenants
  /\ tenants' = tenants \cup {t}
  /\ UNCHANGED <<users, active, role, session, tokens, login>>

DeleteTenant(t) ==
  /\ t \in tenants
  /\ tenants # {t}
  /\ tenants' = tenants \ {t}
  /\ role' = [u \in Users |-> [role[u] EXCEPT ![t] = "none"]]
  /\ tokens' = {k \in tokens : k[2] # t}
  /\ session' = Unchosen([s \in Sessions |-> session[s].tenant = t])
  /\ UNCHANGED <<users, active, login>>

-----------------------------------------------------------------------------
(* Users and memberships.                                                  *)

\* With a tenant by an administrator, without one by the user's own signup.
CreateUser(u) ==
  /\ u \notin users
  /\ users' = users \cup {u}
  /\ active' = [active EXCEPT ![u] = TRUE]
  /\ \/ role' = role
     \/ \E t \in tenants, r \in Roles : role' = [role EXCEPT ![u][t] = r]
  /\ UNCHANGED <<tenants, session, tokens, login>>

\* An administrator of tenant t changes the role there, or the account.
\* "same" is a field the request does not carry.
UpdateUser(u, t, r, a) ==
  /\ u \in users /\ Member(u, t)
  /\ LET demoting     == r = "member"
         deactivating == a = "no" /\ active[u]
     IN  role[u][t] = "admin" /\ (demoting \/ deactivating) => AdminRemains(t, u)
  /\ role' = IF r = "same" THEN role ELSE [role EXCEPT ![u][t] = r]
  /\ active' = IF a = "same" THEN active ELSE [active EXCEPT ![u] = (a = "yes")]
  /\ session' = IF a = "no" THEN SignedOut(u) ELSE session
  /\ UNCHANGED <<users, tenants, tokens, login>>

SetUserActive(u, a) ==
  /\ u \in users
  /\ ~a /\ active[u] => MayLeave(u, {})
  /\ active' = [active EXCEPT ![u] = a]
  /\ session' = IF a THEN session ELSE SignedOut(u)
  /\ UNCHANGED <<users, tenants, role, tokens, login>>

\* A token refers to the user who made it: the database refuses.  A login
\* between its two steps will find no user to create a session for.
DeleteUser(u) ==
  /\ u \in users
  /\ MayLeave(u, {})
  /\ \A k \in tokens : k[1] # u
  /\ users' = users \ {u}
  /\ role' = [role EXCEPT ![u] = Nowhere]
  /\ session' = [s \in Sessions |-> IF s \in Of(u) THEN NoSession ELSE session[s]]
  /\ login' = login \ {u}
  /\ UNCHANGED <<active, tenants, tokens>>

\* The memberships of u are replaced by f; sessions elsewhere choose again.
Stranded_None(u, f) == [s \in Sessions |-> FALSE]
Stranded(u, f) == [s \in Sessions |-> /\ session[s].user = u
                                      /\ session[s].tenant # "none"
                                      /\ f[session[s].tenant] = "none"]

SetMemberships(u, f) ==
  /\ u \in users
  /\ \A t \in TenantIds : f[t] # "none" => t \in tenants
  /\ MayLeave(u, {t \in TenantIds : f[t] = "admin"})
  /\ role' = [role EXCEPT ![u] = f]
  /\ session' = Unchosen(Stranded(u, f))
  /\ UNCHANGED <<users, active, tenants, tokens, login>>

-----------------------------------------------------------------------------
(* Logging in and out, choosing a tenant, passwords and tokens.            *)

Authenticate(u) ==
  /\ u \in users /\ active[u]
  /\ login' = login \cup {u}
  /\ UNCHANGED <<users, active, tenants, role, session, tokens>>

\* The user may have been deactivated since; nothing looks.
CreateSession(u, s) ==
  /\ u \in login
  /\ session[s] = NoSession
  /\ session' = [session EXCEPT ![s] = [user |-> u, tenant |-> "none", live |-> TRUE, late |-> ~active[u]]]
  /\ login' = login \ {u}
  /\ UNCHANGED <<users, active, tenants, role, tokens>>

BindTenant(s, t) ==
  /\ session[s].live
  /\ Member(session[s].user, t)
  /\ session' = [session EXCEPT ![s].tenant = t]
  /\ UNCHANGED <<users, active, tenants, role, tokens, login>>

Logout(s) ==
  /\ session' = [session EXCEPT ![s].live = FALSE]
  /\ UNCHANGED <<users, active, tenants, role, tokens, login>>

\* change_password and reset_password end every session of the user.
NewPassword(u) ==
  /\ u \in users
  /\ session' = SignedOut(u)
  /\ UNCHANGED <<users, active, tenants, role, tokens, login>>

\* A revoked token keeps its row, and with it the user it refers to.
CreateToken(u, t) ==
  /\ u \in users /\ t \in tenants
  /\ tokens' = tokens \cup {<<u, t>>}
  /\ UNCHANGED <<users, active, tenants, role, session, login>>

Account(u) ==
  \/ CreateUser(u) \/ DeleteUser(u) \/ Authenticate(u) \/ NewPassword(u)
  \/ \E t \in TenantIds, r \in Roles \cup {"same"}, a \in {"same", "yes", "no"} : UpdateUser(u, t, r, a)
  \/ \E a \in BOOLEAN : SetUserActive(u, a)
  \/ \E f \in [TenantIds -> Roles \cup {"none"}] : SetMemberships(u, f)
  \/ \E t \in TenantIds : CreateToken(u, t)
  \/ \E s \in Sessions : CreateSession(u, s)

NextAccounts ==
  \/ \E t \in TenantIds : CreateTenant(t) \/ DeleteTenant(t)
  \/ \E u \in Users : Account(u)
  \/ \E s \in Sessions : Logout(s) \/ \E t \in TenantIds : BindTenant(s, t)

AccountsSpec == InitAccounts /\ [][NextAccounts]_store

-----------------------------------------------------------------------------
(* What the store keeps true.                                              *)

\* A tenant that has an administrator keeps one, however users are demoted,
\* deactivated, removed or deleted; only the deactivation of an account from
\* another tenant is not checked for it (update_user asks for the tenant of
\* the request alone, although the account is everybody's).
AdminsRemain ==
  [][\A t \in tenants \cap tenants' :
       HasAdmin(t) /\ ~HasAdmin(t)'
         => \E u \in Users, s \in TenantIds \ {t} : active[u] /\ ~active'[u] /\ Member(u, s)]_store

\* A session that has chosen a tenant belongs to a member of it, through all
\* changes of memberships and tenants (set_memberships, delete_tenant).
SessionsAreMembers ==
  \A s \in Sessions : session[s].tenant # "none" =>
    /\ session[s].user \in users
    /\ session[s].tenant \in tenants
    /\ Member(session[s].user, session[s].tenant)

\* A deactivated user has no session that works, but for one whose login was
\* overtaken by the deactivation (authenticate and create_session).
DeactivatedIsOut ==
  \A s \in Sessions : session[s].live /\ ~session[s].late => active[session[s].user]

=============================================================================

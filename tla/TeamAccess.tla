----------------------------- MODULE TeamAccess -----------------------------
(***************************************************************************)
(* The management API: organizations, teams, memberships, invites, service *)
(* principals, keys and guardrail policy, and who may change them.         *)
(*                                                                         *)
(* Every handler of the management controllers is an endpoint: the         *)
(* dependency that authenticates the caller, the team permission it asks   *)
(* for, the operation it performs and how it is audited.  A request is a   *)
(* process: it is authorized (with the reads its operation makes before    *)
(* its transaction), then its transaction commits, then its audit record   *)
(* is written.  Each of the three is a step, and the process may crash     *)
(* between any two of them.                                                *)
(*                                                                         *)
(* Accounts models how a caller is authenticated; CallableAliases, the     *)
(* models and routers behind the endpoints that only "configure" here.     *)
(***************************************************************************)
EXTENDS Naturals, FiniteSets

CONSTANTS Users, Orgs, Teams, Keys, SPs, Invites, Procs, NoOne,
          Admins,       \* the platform admins (Accounts models how they change)
          Existing,     \* the accounts there are at the start
          TeamMapping,  \* SSO_TEAM_MAPPING: a set of [group, team, role]
          MaxRejoin     \* bound: how often one user joins one team

Roles == {"admin", "member", "model_manager", "key_issuer", "billing_viewer"}

ASSUME TeamAccessAssumption ==
    /\ Admins \subseteq Existing /\ Existing \subseteq Users
    /\ NoOne \notin Users \cup Orgs \cup Teams \cup Keys \cup SPs \cup Invites \cup Procs
    /\ IsFiniteSet(Users) /\ Users \cap Keys = {}
    /\ \A g \in TeamMapping : g.team \in Teams /\ g.role \in Roles
    /\ MaxRejoin \in Nat \ {0}

VARIABLES
    orgs,      \* organization rows: "absent", "live", "deleted"
    teams,     \* team rows, with their organization and whether they were billed
    lifecycle, \* who holds a team's lifecycle lock (lock_for_lifecycle)
    members,   \* team_membership: the role, and which of the user's rows it is
    users,     \* the platform flags of the accounts
    invites,   \* invite rows
    sps,       \* service principals, with their team
    keys,      \* api_key rows
    log,       \* the audit trail
    req,       \* the request each process is serving
    managers,  \* history: <<user, team>> that ever were team admins
    holders,   \* history: <<user, key>>: who was handed a key's plaintext
    editors,   \* history: <<caller, team>> that changed a team's guardrails
    raced,     \* history: teams on which two role changes were in flight at once
    late,      \* history: keys inserted after their team's delete had begun
    joined     \* history: memberships created from each invite

accessVars == <<orgs, teams, lifecycle, members, users, invites, sps, keys, log, req,
          managers, holders, editors, raced, late, joined>>

(***************************************************************************)
(* Authorization                                                           *)
(***************************************************************************)
Permission ==
    {"members:read", "members:manage", "models:read", "models:manage", "playground:execute",
     "keys:read", "keys:issue", "service-principals:manage", "usage:read", "budget:read",
     "decisions:read", "guardrails:read", "guardrails:manage"}

ROLE_PERMISSIONS ==
    [admin |-> Permission,
     member |-> {},
     model_manager |-> {"models:read", "models:manage", "playground:execute", "decisions:read"},
     key_issuer |-> {"keys:read", "keys:issue"},
     billing_viewer |-> {"usage:read", "budget:read"}]

AUDITOR_TEAM_PERMISSIONS == {"usage:read", "budget:read"}

role_grants(role, permission) == role \in Roles /\ permission \in ROLE_PERMISSIONS[role]

Live(t) == teams[t].row = "live"

Person(c) == c \in Users /\ users[c].row = "live"

Usable(k) == keys[k].row \in {"active", "grace"}

\* ensure_team_permission, as the grounds on which it lets the user pass.
ensure_team_permission(u, t, permission) ==
    {"admin" : x \in IF users[u].admin THEN {u} ELSE {}}
        \cup {"auditor" : x \in IF users[u].auditor /\ permission \in AUDITOR_TEAM_PERMISSIONS
                                THEN {u} ELSE {}}
        \cup {"role" : x \in IF role_grants(members[t][u].role, permission) THEN {u} ELSE {}}

\* A key manages its own team, with a management scope, while its service
\* principal is enabled.
KeyManages(k, t) ==
    /\ Usable(k) /\ keys[k].mgmt /\ keys[k].team = t
    /\ keys[k].sp # NoOne /\ sps[keys[k].sp].state = "enabled"

\* Which of the dependencies (provide_current_admin, provide_audit_reader,
\* provide_current_user, provide_principal) and checks let caller c through.
Grounds(c, e, t) ==
    CASE Person(c) /\ e.who = "admin" ->
            {"admin" : x \in IF users[c].admin /\ (e.perm = "none" \/ Live(t)) THEN {c} ELSE {}}
      [] Person(c) /\ e.who = "reader" ->
            {"admin" : x \in IF users[c].admin THEN {c} ELSE {}}
                \cup {"auditor" : x \in IF users[c].auditor THEN {c} ELSE {}}
      [] Person(c) /\ e.who \in {"self", "any"} -> {"self"}
      [] c \in Keys /\ e.who = "any" -> {"self" : x \in IF Usable(c) THEN {c} ELSE {}}
      [] Person(c) /\ e.who \in {"user", "principal"} ->
            IF Live(t) THEN ensure_team_permission(c, t, e.perm) ELSE {}
      [] c \in Keys /\ e.who = "principal" ->
            IF Live(t) /\ KeyManages(c, t) THEN {"key"} ELSE {}
      [] OTHER -> {}

(***************************************************************************)
(* The endpoints.  audit: "user" records the human behind the request (no  *)
(* one, for a key), "principal" the human or the key, "atomic" is staged   *)
(* in the operation's own transaction, "none" is not audited.              *)
(***************************************************************************)
E(who, perm, op, audit) == [who |-> who, perm |-> perm, op |-> op, audit |-> audit]

Read(who, perm) == E(who, perm, "read", "none")

\* organizations/controller.py
create_organization == E("admin", "none", "create_org", "user")
list_organizations == Read("admin", "none")
get_organization == Read("admin", "none")
organization_spend == Read("admin", "none")
update_organization == E("admin", "none", "configure", "user")
delete_organization == E("admin", "none", "delete_org", "user")
create_team == E("admin", "none", "create_team", "user")

\* teams/controller.py: the team
list_teams == Read("admin", "none")
get_team == Read("user", "members:read")
update_team == E("admin", "none", "configure", "user")
delete_team == E("admin", "none", "delete_team", "user")
export_team == Read("admin", "none")
purge_team == E("admin", "none", "purge_team", "atomic")

\* its members
list_members == Read("user", "members:read")
add_member == E("user", "members:manage", "add_member", "user")
set_member_role == E("user", "members:manage", "set_role", "user")
remove_member == E("user", "members:manage", "remove_member", "user")

\* its keys
create_key == E("user", "keys:issue", "issue", "user")
list_keys == Read("user", "keys:read")
keys_spending == Read("principal", "usage:read")
revoke_key == E("user", "keys:issue", "revoke", "user")
rotate_key == E("user", "keys:issue", "rotate", "atomic")
get_key_budget == Read("principal", "budget:read")
set_key_budget == E("principal", "keys:issue", "key_budget", "user")
delete_key_budget == E("principal", "keys:issue", "key_budget", "user")

\* its budget and usage
get_budget == Read("principal", "budget:read")
budget_alerts == Read("principal", "budget:read")
set_budget == E("admin", "budget:read", "configure", "user")
delete_budget == E("admin", "budget:read", "configure", "user")
usage == Read("principal", "usage:read")
usage_timeseries == Read("principal", "usage:read")
team_cache_savings == Read("user", "usage:read")
platform_cache_savings == Read("admin", "none")
quarantined_budget_alerts == Read("admin", "none")
requeue_budget_alert == E("admin", "none", "configure", "user")

\* service_principals/controller.py
create_sp == E("user", "service-principals:manage", "sp_create", "user")
list_sps == Read("user", "service-principals:manage")
set_sp_enabled == E("user", "service-principals:manage", "sp_enable", "user")
delete_sp == E("user", "service-principals:manage", "sp_delete", "user")
issue_sp_key == E("user", "service-principals:manage", "sp_issue", "user")

\* models/controller.py and models/platform_controller.py
list_model_credentials == Read("principal", "models:manage")
create_model == E("principal", "models:manage", "configure", "principal")
list_models == Read("principal", "models:read")
list_callable == Read("principal", "models:read")
update_model == E("principal", "models:manage", "configure", "principal")
delete_model == E("principal", "models:manage", "configure", "principal")
get_price == Read("any", "none")
create_global_model == E("admin", "none", "configure", "user")
list_global_models == Read("admin", "none")
update_global_model == E("admin", "none", "configure", "user")
delete_global_model == E("admin", "none", "configure", "user")
make_model_global == E("admin", "none", "configure", "user")
extend_model == E("admin", "members:read", "configure", "user")
list_model_grants == Read("admin", "none")
unextend_model == E("admin", "none", "configure", "user")

\* routing/controller.py and routing/platform_controller.py
create_router == E("user", "models:manage", "configure", "user")
list_routers == Read("user", "models:read")
list_callable_routers == Read("user", "models:read")
update_router == E("user", "models:manage", "configure", "user")
delete_router == E("user", "models:manage", "configure", "user")
list_decisions == Read("user", "usage:read")
router_stats == Read("user", "usage:read")
router_reliability == Read("user", "usage:read")
router_savings == Read("user", "usage:read")
team_savings == Read("user", "usage:read")
export_decisions == Read("user", "decisions:read")
platform_routing_savings == Read("admin", "none")
create_global_router == E("admin", "none", "configure", "user")
list_global_routers == Read("admin", "none")
update_global_router == E("admin", "none", "configure", "user")
delete_global_router == E("admin", "none", "configure", "user")
make_router_global == E("admin", "none", "configure", "user")
extend_router == E("admin", "members:read", "configure", "user")
list_revisions == Read("admin", "none")
list_router_grants == Read("admin", "none")
unextend_router == E("admin", "none", "configure", "user")
upgrade_grant == E("admin", "none", "configure", "atomic")

\* guardrails/controller.py, authorized in guardrail_policy_service.py
list_rules == Read("principal", "guardrails:read")
get_rule == Read("principal", "guardrails:read")
create_rule == E("principal", "guardrails:manage", "guardrails", "user")
update_rule == E("principal", "guardrails:manage", "guardrails", "user")
delete_rule == E("principal", "guardrails:manage", "guardrails", "user")

\* the rest: playground, credentials, SSO settings, SCIM tokens, users, audit
compare == E("user", "playground:execute", "execute", "user")
create_credential == E("admin", "none", "configure", "user")
list_credentials == Read("admin", "none")
update_credential == E("admin", "none", "configure", "user")
delete_credential == E("admin", "none", "configure", "user")
get_sso_settings == Read("admin", "none")
upsert_sso_settings == E("admin", "none", "configure", "user")
create_scim_token == E("admin", "none", "configure", "user")
list_scim_tokens == Read("admin", "none")
revoke_scim_token == E("admin", "none", "configure", "user")
list_users == Read("admin", "none")
create_invite == E("admin", "none", "invite", "user")
set_user_auditor == E("admin", "none", "set_auditor", "user")
delete_user == E("admin", "none", "delete_user", "user")
list_audit == Read("reader", "none")
me == Read("self", "none")
my_teams == Read("self", "none")

\* The endpoints a request may call for itself, whose operation needs no read
\* before its transaction.
Plain ==
    {create_organization, purge_team, create_sp, create_invite, compare,
     create_key, issue_sp_key,
     list_organizations, get_organization, organization_spend, update_organization,
     list_teams, get_team, update_team, export_team, list_members, list_keys, keys_spending,
     get_key_budget, get_budget, budget_alerts, set_budget, delete_budget, usage,
     usage_timeseries, team_cache_savings, platform_cache_savings, quarantined_budget_alerts,
     requeue_budget_alert, list_sps, list_model_credentials, create_model, list_models,
     list_callable, update_model, delete_model, get_price, create_global_model,
     list_global_models, update_global_model, delete_global_model, make_model_global,
     extend_model, list_model_grants, unextend_model, create_router, list_routers,
     list_callable_routers, update_router, delete_router, list_decisions, router_stats,
     router_reliability, router_savings, team_savings, export_decisions,
     platform_routing_savings, create_global_router, list_global_routers,
     update_global_router, delete_global_router, make_router_global, extend_router,
     list_revisions, list_router_grants, unextend_router, upgrade_grant, list_rules, get_rule,
     create_rule, update_rule, delete_rule, create_credential, list_credentials,
     update_credential, delete_credential, get_sso_settings, upsert_sso_settings,
     create_scim_token, list_scim_tokens, revoke_scim_token, list_users, list_audit, me, my_teams}

Idle == [at |-> "idle", by |-> NoOne, ep |-> me, team |-> NoOne, ground |-> "none",
         user |-> NoOne, role |-> "none", was |-> [role |-> "none", gen |-> 0],
         key |-> NoOne, plan |-> {}]

Free(p) == req[p].at = "idle"

Callers == Users \cup Keys

\* The caller authenticates and is authorized; x holds what the operation
\* read before its transaction.
Authorize(p, c, e, t, x) ==
    \E g \in Grounds(c, e, t) :
        req' = [req EXCEPT ![p] = [x EXCEPT !.at = "act", !.by = c, !.ep = e, !.team = t, !.ground = g]]

Unaudited == {"none", "atomic"}

Ended(p) == req' = [req EXCEPT ![p] = Idle]

\* The transaction committed: the audit record follows in one of its own.
Done(p) == req' = [req EXCEPT ![p] = IF @.ep.audit \in Unaudited THEN Idle ELSE [@ EXCEPT !.at = "audit"]]

Entry(r) == [op |-> r.ep.op, team |-> r.team, key |-> r.key,
             by |-> IF r.by \in Users \/ r.ep.audit = "principal" THEN r.by ELSE NoOne]

Acting(p, op) == req[p].at = "act" /\ req[p].ep.op = op

record_audit(p) ==
    /\ req[p].at = "audit"
    /\ log' = log \cup {Entry(req[p])}
    /\ Ended(p)
    /\ UNCHANGED <<orgs, teams, lifecycle, members, users, invites, sps, keys,
                   managers, holders, editors, raced, late, joined>>

\* A process dies: its open transaction is rolled back and its locks freed.
Crash(p) ==
    /\ ~Free(p) /\ Ended(p)
    /\ lifecycle' = [t \in Teams |-> IF lifecycle[t] = p THEN NoOne ELSE lifecycle[t]]
    /\ UNCHANGED <<orgs, teams, members, users, invites, sps, keys, log,
                   managers, holders, editors, raced, late, joined>>

\* Requests that read nothing but their authorization.
call(p) ==
    Free(p) /\ \E e \in Plain, c \in Callers, t \in Teams :
        /\ Authorize(p, c, e, t, Idle)
        /\ UNCHANGED <<orgs, teams, lifecycle, members, users, invites, sps, keys, log,
                       managers, holders, editors, raced, late, joined>>

\* Handlers whose effect is outside this module's state.
serve(p) ==
    /\ req[p].at = "act" /\ req[p].ep.op \in {"read", "configure"}
    /\ Done(p)
    /\ UNCHANGED <<orgs, teams, lifecycle, members, users, invites, sps, keys, log,
                   managers, holders, editors, raced, late, joined>>

change_guardrails(p) ==
    /\ Acting(p, "guardrails")
    /\ editors' = editors \cup {<<req[p].by, req[p].team>>}
    /\ Done(p)
    /\ UNCHANGED <<orgs, teams, lifecycle, members, users, invites, sps, keys, log,
                   managers, holders, raced, late, joined>>

\* A playground comparison is billed to the team.
execute(p) ==
    /\ Acting(p, "execute") /\ Done(p)
    /\ teams' = [teams EXCEPT ![req[p].team].billed = @ \/ teams[req[p].team].row \in {"live", "tombstoned"}]
    /\ UNCHANGED <<orgs, lifecycle, members, users, invites, sps, keys, log,
                   managers, holders, editors, raced, late, joined>>

(***************************************************************************)
(* Organizations and the life of a team                                    *)
(***************************************************************************)
OneOf(S) == {x \in S : x = CHOOSE y \in S : TRUE}

SetMembers(m) ==
    /\ members' = m
    /\ managers' = managers \cup {x \in Users \X Teams : m[x[2]][x[1]].role = "admin"}

NoMember == [role |-> "none", gen |-> 0]

Joined(m, t, u, role) == [m EXCEPT ![t][u] = [role |-> role, gen |-> @.gen + 1]]

Left(m, t, u) == [m EXCEPT ![t][u].role = "none"]

CanJoin(t, u) == members[t][u].role = "none" /\ members[t][u].gen < MaxRejoin

add_organization(p) ==
    /\ Acting(p, "create_org") /\ Done(p)
    /\ \E o \in OneOf({x \in Orgs : orgs[x] = "absent"}) : orgs' = [orgs EXCEPT ![o] = "live"]
    /\ UNCHANGED <<teams, lifecycle, members, users, invites, sps, keys, log,
                   managers, holders, editors, raced, late, joined>>

\* The organization is found, and empty of live teams, before it is deleted.
delete_org_check(p) ==
    Free(p) /\ \E c \in Users, o \in Orgs, t \in OneOf(Teams) :
        /\ orgs[o] = "live" /\ \A x \in Teams : Live(x) => teams[x].org # o
        /\ Authorize(p, c, delete_organization, t, [Idle EXCEPT !.key = o])
        /\ UNCHANGED <<orgs, teams, lifecycle, members, users, invites, sps, keys, log,
                       managers, holders, editors, raced, late, joined>>

\* A team row that still refers to it, a tombstoned one too, fails the delete.
delete_org(p) ==
    LET o == req[p].key
        ok == orgs[o] = "live" /\ \A t \in Teams : teams[t].row \in {"live", "tombstoned"} => teams[t].org # o
    IN
    /\ Acting(p, "delete_org")
    /\ orgs' = IF ok THEN [orgs EXCEPT ![o] = "deleted"] ELSE orgs
    /\ IF ok THEN Done(p) ELSE Ended(p)
    /\ UNCHANGED <<teams, lifecycle, members, users, invites, sps, keys, log,
                   managers, holders, editors, raced, late, joined>>

\* The organization and the named lead are found before the insert.
create_team_check(p) ==
    Free(p) /\ \E c \in Users, lead \in Users, o \in Orgs, t \in OneOf({x \in Teams : teams[x].row = "absent"}) :
        /\ orgs[o] = "live" /\ Person(lead)
        /\ Authorize(p, c, create_team, t, [Idle EXCEPT !.user = lead, !.key = o])
        /\ UNCHANGED <<orgs, teams, lifecycle, members, users, invites, sps, keys, log,
                       managers, holders, editors, raced, late, joined>>

\* The team and the admin memberships of the actor and of the lead, in one
\* transaction; a foreign key that is gone fails it.
add_team(p) ==
    LET r == req[p]
        ok == orgs[r.key] = "live" /\ Person(r.by) /\ Person(r.user)
        one == Joined(members, r.team, r.by, "admin")
    IN
    /\ Acting(p, "create_team")
    /\ IF ok /\ teams[r.team].row = "absent"
       THEN /\ teams' = [teams EXCEPT ![r.team] = [row |-> "live", org |-> r.key, billed |-> FALSE]]
            /\ SetMembers(IF r.user = r.by THEN one ELSE Joined(one, r.team, r.user, "admin"))
            /\ Done(p)
       ELSE UNCHANGED <<teams, members, managers>> /\ Ended(p)
    /\ UNCHANGED <<orgs, lifecycle, users, invites, sps, keys, log,
                   holders, editors, raced, late, joined>>

TeamKeys(t) == {k \in Keys : keys[k].row # "absent" /\ keys[k].team = t}

\* list_by_team: every key row of the team, the revoked ones included.
TeamEmpty(t) == TeamKeys(t) = {}

\* delete_team takes the team's lifecycle lock and looks for keys ...
delete_team_check(p) ==
    Free(p) /\ \E c \in Users, t \in Teams :
        /\ Live(t) /\ lifecycle[t] = NoOne /\ TeamEmpty(t)
        /\ Authorize(p, c, delete_team, t, Idle)
        /\ lifecycle' = [lifecycle EXCEPT ![t] = p]
        /\ UNCHANGED <<orgs, teams, members, users, invites, sps, keys, log,
                       managers, holders, editors, raced, late, joined>>

\* The rows that go with the team.
Erased(t) ==
    /\ SetMembers([members EXCEPT ![t] = [u \in Users |-> [role |-> "none", gen |-> members[t][u].gen]]])
    /\ invites' = [i \in Invites |-> IF invites[i].team = t THEN [invites[i] EXCEPT !.state = "gone"] ELSE invites[i]]
    /\ sps' = [s \in SPs |-> IF sps[s].team = t THEN [sps[s] EXCEPT !.state = "deleted"] ELSE sps[s]]

\* ... then tombstones a team that was billed, and removes one that was not;
\* the insert of a key does not take the lock, and its foreign key fails the
\* removal.
delete_team_commit(p) ==
    LET t == req[p].team IN
    /\ Acting(p, "delete_team")
    /\ lifecycle' = [lifecycle EXCEPT ![t] = NoOne]
    /\ \/ /\ teams[t].billed
          /\ teams' = [teams EXCEPT ![t].row = "tombstoned"] /\ Done(p)
          /\ UNCHANGED <<members, managers, invites, sps>>
       \/ /\ ~teams[t].billed /\ TeamKeys(t) = {}
          /\ teams' = [teams EXCEPT ![t].row = "gone"] /\ Erased(t) /\ Done(p)
       \/ /\ ~teams[t].billed /\ TeamKeys(t) # {}
          /\ UNCHANGED <<teams, members, managers, invites, sps>> /\ Ended(p)
    /\ UNCHANGED <<orgs, users, keys, log, holders, editors, raced, late, joined>>

\* Only a tombstoned team; the audit record is staged in the same transaction.
purge(p) ==
    LET t == req[p].team
        ok == teams[t].row = "tombstoned" /\ TeamKeys(t) = {}
    IN
    /\ Acting(p, "purge_team") /\ Ended(p)
    /\ IF ok THEN /\ teams' = [teams EXCEPT ![t].row = "purged"] /\ Erased(t)
                  /\ log' = log \cup {Entry(req[p])}
             ELSE UNCHANGED <<teams, members, managers, invites, sps, log>>
    /\ UNCHANGED <<orgs, lifecycle, users, keys, holders, editors, raced, late, joined>>

(***************************************************************************)
(* Members                                                                 *)
(***************************************************************************)
RoleOps == {"set_role", "remove_member", "sso"}

\* (for the history variable: role changes of one team in flight together)
InFlight(p, t) == req[p].at = "act" /\ req[p].ep.op \in RoleOps /\ (req[p].team = t \/ req[p].ep.op = "sso")

Overlaps(p, ts) == raced' = raced \cup {t \in ts : \E q \in Procs \ {p} : InFlight(q, t)}

count_admins(t) == Cardinality({u \in Users : members[t][u].role = "admin"})

NeverLast(t, u) == FALSE

_is_last_admin(t, u) == members[t][u].role = "admin" /\ count_admins(t) = 1

\* The checks of add_member, set_role and remove_member, all before the
\* transaction.
add_member_check(p) ==
    Free(p) /\ \E c \in Users, t \in Teams, u \in Users, r \in Roles :
        /\ Person(u) /\ members[t][u].role = "none"
        /\ Authorize(p, c, add_member, t, [Idle EXCEPT !.user = u, !.role = r])
        /\ UNCHANGED <<orgs, teams, lifecycle, members, users, invites, sps, keys, log,
                       managers, holders, editors, raced, late, joined>>

set_role_check(p) ==
    Free(p) /\ \E c \in Users, t \in Teams, u \in Users, r \in Roles :
        /\ members[t][u].role # "none"
        /\ r # "admin" => ~_is_last_admin(t, u)
        /\ Authorize(p, c, set_member_role, t, [Idle EXCEPT !.user = u, !.role = r, !.was = members[t][u]])
        /\ Overlaps(p, {t})
        /\ UNCHANGED <<orgs, teams, lifecycle, members, users, invites, sps, keys, log,
                       managers, holders, editors, late, joined>>

remove_member_check(p) ==
    Free(p) /\ \E c \in Users, t \in Teams, u \in Users :
        /\ members[t][u].role # "none" /\ ~_is_last_admin(t, u)
        /\ Authorize(p, c, remove_member, t, [Idle EXCEPT !.user = u])
        /\ Overlaps(p, {t})
        /\ UNCHANGED <<orgs, teams, lifecycle, members, users, invites, sps, keys, log,
                       managers, holders, editors, late, joined>>

\* The insert: the unique constraint and the foreign keys decide.  The team's
\* row is enough, a tombstoned one too.
join(p) ==
    LET r == req[p]
        ok == /\ members[r.team][r.user].role = "none" /\ Person(r.user)
              /\ teams[r.team].row \in {"live", "tombstoned"}
    IN
    /\ Acting(p, "add_member")
    /\ IF ok THEN CanJoin(r.team, r.user) /\ SetMembers(Joined(members, r.team, r.user, r.role)) /\ Done(p)
             ELSE UNCHANGED <<members, managers>> /\ Ended(p)
    /\ UNCHANGED <<orgs, teams, lifecycle, users, invites, sps, keys, log,
                   holders, editors, raced, late, joined>>

\* An UPDATE of the row that was read, if it is still there; none at all when
\* the role is the one read.
update_role(p) ==
    LET r == req[p]
        row == members[r.team][r.user]
        ok == row.role # "none" /\ row.gen = r.was.gen
    IN
    /\ Acting(p, "set_role")
    /\ IF ok THEN /\ SetMembers(IF r.role = r.was.role THEN members
                                ELSE [members EXCEPT ![r.team][r.user].role = r.role])
                  /\ Done(p)
             ELSE UNCHANGED <<members, managers>> /\ Ended(p)
    /\ UNCHANGED <<orgs, teams, lifecycle, users, invites, sps, keys, log,
                   holders, editors, raced, late, joined>>

leave(p) ==
    LET r == req[p] IN
    /\ Acting(p, "remove_member") /\ Done(p)
    /\ SetMembers(Left(members, r.team, r.user))
    /\ UNCHANGED <<orgs, teams, lifecycle, users, invites, sps, keys, log,
                   holders, editors, raced, late, joined>>

(***************************************************************************)
(* SSO: memberships of the governed teams follow the groups of the login   *)
(***************************************************************************)
Governed == {g.team : g \in TeamMapping}

\* The roles the groups may grant in t: ADMIN wins, otherwise the first one in
\* the order of the groups.
_resolve_team_grants(groups, t) ==
    LET granted == {g.role : g \in {x \in TeamMapping : x.group \in groups /\ x.team = t}}
    IN IF granted = {} THEN {"none"} ELSE IF "admin" \in granted THEN {"admin"} ELSE granted

Planned(t, u, role) ==
    LET row == members[t][u] IN
    CASE ~Live(t) -> {}
      [] Live(t) /\ role = "none" ->
            IF row.role # "none" /\ ~_is_last_admin(t, u) THEN {[do |-> "remove", team |-> t, role |-> "none", gen |-> row.gen]} ELSE {}
      [] Live(t) /\ role # "none" /\ row.role = "none" -> {[do |-> "add", team |-> t, role |-> role, gen |-> 0]}
      [] OTHER ->
            IF row.role # role /\ (role = "admin" \/ ~_is_last_admin(t, u))
            THEN {[do |-> "update", team |-> t, role |-> role, gen |-> row.gen]} ELSE {}

SsoEndpoint == E("self", "none", "sso", "none")

\* reconcile_sso_memberships: the reads ...
reconcile_sso_read(p) ==
    Free(p) /\ \E u \in Users, groups \in SUBSET {g.group : g \in TeamMapping} :
        /\ Person(u) /\ Governed # {}
        /\ \E desired \in [Governed -> Roles \cup {"none"}] :
              /\ \A t \in Governed : desired[t] \in _resolve_team_grants(groups, t)
              /\ req' = [req EXCEPT ![p] = [Idle EXCEPT !.at = "act", !.ep = SsoEndpoint, !.user = u,
                             !.plan = UNION {Planned(t, u, desired[t]) : t \in Governed}]]
        /\ Overlaps(p, Governed)
        /\ UNCHANGED <<orgs, teams, lifecycle, members, users, invites, sps, keys, log,
                       managers, holders, editors, late, joined>>

\* ... and the commit of every change, or of none.
reconcile_sso_memberships(p) ==
    LET r == req[p]
        row(x) == members[x.team][r.user]
        fits(x) ==
            CASE x.do = "remove" -> TRUE
              [] x.do = "update" -> row(x).role # "none" /\ row(x).gen = x.gen
              [] x.do = "add"    -> CanJoin(x.team, r.user) /\ teams[x.team].row \in {"live", "tombstoned"}
        new(t, u) ==
            IF u = r.user /\ \E x \in r.plan : x.team = t
            THEN LET x == CHOOSE y \in r.plan : y.team = t
                 IN [role |-> x.role, gen |-> IF x.do = "add" THEN members[t][u].gen + 1 ELSE members[t][u].gen]
            ELSE members[t][u]
        ok == Person(r.user) /\ \A x \in r.plan : fits(x)
    IN
    /\ Acting(p, "sso") /\ Ended(p)
    /\ IF ok THEN SetMembers([t \in Teams |-> [u \in Users |-> new(t, u)]])
             ELSE UNCHANGED <<members, managers>>
    /\ UNCHANGED <<orgs, teams, lifecycle, users, invites, sps, keys, log,
                   holders, editors, raced, late, joined>>

(***************************************************************************)
(* Invites                                                                 *)
(***************************************************************************)
\* One transaction under the team's lifecycle lock.
add_invite(p) ==
    LET t == req[p].team IN
    /\ Acting(p, "invite") /\ lifecycle[t] = NoOne
    /\ \/ ~Live(t) /\ Ended(p) /\ UNCHANGED invites
       \/ /\ Live(t) /\ Done(p)
          /\ \E i \in OneOf({x \in Invites : invites[x].state = "absent"}), r \in Roles :
                invites' = [invites EXCEPT ![i] = [state |-> "open", team |-> t, role |-> r]]
    /\ UNCHANGED <<orgs, teams, lifecycle, members, users, sps, keys, log,
                   managers, holders, editors, raced, late, joined>>

InviteExpires(i) ==
    /\ invites[i].state = "open" /\ invites' = [invites EXCEPT ![i].state = "expired"]
    /\ UNCHANGED <<orgs, teams, lifecycle, members, users, sps, keys, log, req,
                   managers, holders, editors, raced, late, joined>>

SignupEndpoint == E("self", "none", "signup", "none")

\* register finds the invite usable, checks the password ...
signup(p) ==
    Free(p) /\ \E i \in Invites :
        /\ invites[i].state = "open"
        /\ req' = [req EXCEPT ![p] = [Idle EXCEPT !.at = "act", !.ep = SignupEndpoint, !.key = i,
                                                   !.team = invites[i].team]]
        /\ UNCHANGED <<orgs, teams, lifecycle, members, users, invites, sps, keys, log,
                       managers, holders, editors, raced, late, joined>>

\* The conditional UPDATE of invite_repository.py: unused and unexpired.
mark_used(i) == invites[i].state = "open"

RedeemUnlocked(t) == teams[t].row \in {"live", "tombstoned"}

\* lock_for_lifecycle finds the team live (a delete that holds the lock is
\* waited for, see register).
lock_for_lifecycle(t) == Live(t)

\* ... and, under the team's lifecycle lock, consumes the invite and creates
\* the account with its membership; a registered email consumes it too.
register(p) ==
    LET i == req[p].key
        t == req[p].team
    IN
    /\ Acting(p, "signup") /\ Ended(p)
    /\ lock_for_lifecycle(t) => lifecycle[t] = NoOne
    /\ \/ /\ ~(lock_for_lifecycle(t) /\ mark_used(i))
          /\ UNCHANGED <<invites, users, members, managers, joined>>
       \/ /\ lock_for_lifecycle(t) /\ mark_used(i)
          /\ invites' = [invites EXCEPT ![i].state = "used"]
          /\ \/ UNCHANGED <<users, members, managers, joined>>
             \/ \E u \in OneOf({x \in Users : users[x].row = "absent"}) :
                   /\ users' = [users EXCEPT ![u].row = "live"]
                   /\ SetMembers(Joined(members, t, u, invites[i].role))
                   /\ joined' = [joined EXCEPT ![i] = @ + 1]
    /\ UNCHANGED <<orgs, teams, lifecycle, sps, keys, log, holders, editors, raced, late>>

(***************************************************************************)
(* Service principals and keys                                             *)
(***************************************************************************)
add_sp(p) ==
    LET t == req[p].team
        ok == teams[t].row \in {"live", "tombstoned"}
    IN
    /\ Acting(p, "sp_create")
    /\ \/ ~ok /\ Ended(p) /\ UNCHANGED sps
       \/ /\ ok /\ Done(p)
          /\ \E s \in OneOf({x \in SPs : sps[x].state = "absent"}) :
                sps' = [sps EXCEPT ![s] = [state |-> "enabled", team |-> t]]
    /\ UNCHANGED <<orgs, teams, lifecycle, members, users, invites, keys, log,
                   managers, holders, editors, raced, late, joined>>

\* set_sp_enabled and delete_sp name a principal of the team.
change_sp_check(p) ==
    Free(p) /\ \E c \in Users, t \in Teams, s \in SPs, e \in {set_sp_enabled, delete_sp} :
        /\ sps[s].team = t /\ sps[s].state \in {"enabled", "disabled"}
        /\ Authorize(p, c, e, t, [Idle EXCEPT !.key = s])
        /\ UNCHANGED <<orgs, teams, lifecycle, members, users, invites, sps, keys, log,
                       managers, holders, editors, raced, late, joined>>

toggle_sp(p) ==
    LET s == req[p].key IN
    /\ Acting(p, "sp_enable") /\ Done(p)
    /\ sps' = IF sps[s].state = "deleted" THEN sps
              ELSE [sps EXCEPT ![s].state = IF @ = "enabled" THEN "disabled" ELSE "enabled"]
    /\ UNCHANGED <<orgs, teams, lifecycle, members, users, invites, keys, log,
                   managers, holders, editors, raced, late, joined>>

\* The principal's keys are revoked and detached with it.
remove_sp(p) ==
    LET s == req[p].key IN
    /\ Acting(p, "sp_delete") /\ Done(p)
    /\ sps' = [sps EXCEPT ![s].state = "deleted"]
    /\ keys' = [k \in Keys |-> IF keys[k].sp = s THEN [keys[k] EXCEPT !.row = "revoked", !.sp = NoOne] ELSE keys[k]]
    /\ UNCHANGED <<orgs, teams, lifecycle, members, users, invites, log,
                   managers, holders, editors, raced, late, joined>>

\* (for the history variable: key k of team t is inserted now)
Belated(k, t) == IF Live(t) /\ lifecycle[t] = NoOne THEN late ELSE late \cup {k}

\* A key row for the caller (who is shown its plaintext) in team t.
Insert(k, t, u, s, mgmt) ==
    /\ keys' = [keys EXCEPT ![k] = [row |-> "active", team |-> t, sp |-> s, mgmt |-> mgmt, by |-> u, rotated |-> FALSE]]
    /\ holders' = holders \cup {<<u, k>>}
    /\ late' = Belated(k, t)

\* A personal key only ever has the inference scope; a service principal's is
\* issued while it is enabled.  The foreign keys need the team's row, no more.
issue(p) ==
    LET r == req[p] IN
    /\ Acting(p, "issue") \/ Acting(p, "sp_issue")
    /\ \/ /\ teams[r.team].row \in {"live", "tombstoned"} /\ Person(r.by)
          /\ \E k \in OneOf({x \in Keys : keys[x].row = "absent"}) :
                \/ r.ep.op = "issue" /\ Insert(k, r.team, r.by, NoOne, FALSE)
                \/ /\ r.ep.op = "sp_issue"
                   /\ \E s \in SPs, mgmt \in BOOLEAN :
                        sps[s] = [state |-> "enabled", team |-> r.team] /\ Insert(k, r.team, r.by, s, mgmt)
          /\ Done(p)
       \/ /\ Ended(p) /\ UNCHANGED <<keys, holders, late>>
          /\ \/ teams[r.team].row \notin {"live", "tombstoned"} \/ ~Person(r.by)
             \/ r.ep.op = "sp_issue" /\ \A s \in SPs : sps[s] # [state |-> "enabled", team |-> r.team]
    /\ UNCHANGED <<orgs, teams, lifecycle, members, users, invites, sps, log,
                   managers, editors, raced, joined>>

RotateAnyKey(c, t, k) == ensure_team_permission(c, t, "keys:issue") # {}

\* rotate_key: the replacement of a service principal's key carries its
\* authority, so minting one takes the permission that mints them.
MayRotate(c, t, k) ==
    keys[k].sp # NoOne => ensure_team_permission(c, t, "service-principals:manage") # {}

\* revoke, rotate and the key budget endpoints start from an active key of the
\* team (get_active_for_team).
key_check(p) ==
    Free(p) /\ \E c \in Callers, t \in Teams, k \in Keys, e \in {revoke_key, rotate_key, set_key_budget, delete_key_budget} :
        /\ Usable(k) /\ keys[k].team = t
        /\ e = rotate_key => c \in Users /\ Live(t) /\ MayRotate(c, t, k)
        /\ Authorize(p, c, e, t, [Idle EXCEPT !.key = k])
        /\ UNCHANGED <<orgs, teams, lifecycle, members, users, invites, sps, keys, log,
                       managers, holders, editors, raced, late, joined>>

revoke(p) ==
    /\ Acting(p, "revoke") /\ Done(p)
    /\ keys' = [keys EXCEPT ![req[p].key].row = "revoked"]
    /\ UNCHANGED <<orgs, teams, lifecycle, members, users, invites, sps, log,
                   managers, holders, editors, raced, late, joined>>

\* The old key's row is locked and must be unrevoked and still its principal's;
\* the replacement has its owner and scope, and the audit record is staged with
\* it.  The plaintext goes to the caller.
rotate(p) ==
    LET r == req[p]
        old == keys[r.key]
        ok == /\ old.row = "active"
              /\ IF old.sp = NoOne THEN ~old.mgmt /\ Person(old.by) ELSE sps[old.sp].state = "enabled"
    IN
    /\ Acting(p, "rotate") /\ Ended(p)
    /\ \/ ~ok /\ UNCHANGED <<keys, holders, late, log>>
       \/ /\ ok
          /\ \E k \in OneOf({x \in Keys : keys[x].row = "absent"}) :
               /\ keys' = [keys EXCEPT ![k] = [old EXCEPT !.rotated = FALSE],
                                       ![r.key].row = "grace", ![r.key].rotated = TRUE]
               /\ holders' = holders \cup {<<r.by, k>>}
               /\ late' = Belated(k, r.team)
          /\ log' = log \cup {Entry(r)}
    /\ UNCHANGED <<orgs, teams, lifecycle, members, users, invites, sps,
                   managers, editors, raced, joined>>

set_or_remove_key_budget(p) ==
    /\ Acting(p, "key_budget") /\ Done(p)
    /\ UNCHANGED <<orgs, teams, lifecycle, members, users, invites, sps, keys, log,
                   managers, holders, editors, raced, late, joined>>

GraceEnds(k) ==
    /\ keys[k].row = "grace" /\ keys' = [keys EXCEPT ![k].row = "revoked"]
    /\ UNCHANGED <<orgs, teams, lifecycle, members, users, invites, sps, log, req,
                   managers, holders, editors, raced, late, joined>>

(***************************************************************************)
(* Users                                                                   *)
(***************************************************************************)
user_check(p) ==
    Free(p) /\ \E c \in Users, u \in Users, e \in {set_user_auditor, delete_user}, t \in OneOf(Teams) :
        /\ Person(u) /\ (e = delete_user => u # c)
        /\ Authorize(p, c, e, t, [Idle EXCEPT !.user = u])
        /\ UNCHANGED <<orgs, teams, lifecycle, members, users, invites, sps, keys, log,
                       managers, holders, editors, raced, late, joined>>

set_auditor(p) ==
    LET u == req[p].user IN
    /\ Acting(p, "set_auditor")
    /\ users' = IF Person(u) THEN [users EXCEPT ![u].auditor = ~@] ELSE users
    /\ IF Person(u) THEN Done(p) ELSE Ended(p)
    /\ UNCHANGED <<orgs, teams, lifecycle, members, invites, sps, keys, log,
                   managers, holders, editors, raced, late, joined>>

\* Refused while the user has memberships, or keys they created (Accounts has
\* the admin's side).
remove_user(p) ==
    LET u == req[p].user
        ok == /\ Person(u) /\ Person(req[p].by)
              /\ \A t \in Teams : members[t][u].role = "none"
              /\ \A k \in Keys : keys[k].row # "absent" => keys[k].by # u
    IN
    /\ Acting(p, "delete_user")
    /\ users' = IF ok THEN [users EXCEPT ![u] = [row |-> "deleted", admin |-> FALSE, auditor |-> FALSE]] ELSE users
    /\ IF ok THEN Done(p) ELSE Ended(p)
    /\ UNCHANGED <<orgs, teams, lifecycle, members, invites, sps, keys, log,
                   managers, holders, editors, raced, late, joined>>

(***************************************************************************)
(* The specification                                                       *)
(***************************************************************************)
AccessInit ==
    /\ orgs = [o \in Orgs |-> "absent"]
    /\ teams = [t \in Teams |-> [row |-> "absent", org |-> NoOne, billed |-> FALSE]]
    /\ lifecycle = [t \in Teams |-> NoOne]
    /\ members = [t \in Teams |-> [u \in Users |-> NoMember]]
    /\ users = [u \in Users |-> [row |-> IF u \in Existing THEN "live" ELSE "absent",
                                  admin |-> u \in Admins, auditor |-> FALSE]]
    /\ invites = [i \in Invites |-> [state |-> "absent", team |-> NoOne, role |-> "none"]]
    /\ sps = [s \in SPs |-> [state |-> "absent", team |-> NoOne]]
    /\ keys = [k \in Keys |-> [row |-> "absent", team |-> NoOne, sp |-> NoOne, mgmt |-> FALSE,
                                by |-> NoOne, rotated |-> FALSE]]
    /\ log = {} /\ req = [p \in Procs |-> Idle]
    /\ managers = {} /\ holders = {} /\ editors = {} /\ raced = {} /\ late = {}
    /\ joined = [i \in Invites |-> 0]

TeamStep(p) ==
    \/ add_organization(p) \/ delete_org_check(p) \/ delete_org(p) \/ create_team_check(p)
    \/ add_team(p) \/ delete_team_check(p) \/ delete_team_commit(p) \/ purge(p)

MemberStep(p) ==
    \/ add_member_check(p) \/ set_role_check(p) \/ remove_member_check(p)
    \/ join(p) \/ update_role(p) \/ leave(p)
    \/ reconcile_sso_read(p) \/ reconcile_sso_memberships(p)

InviteStep(p) == add_invite(p) \/ signup(p) \/ register(p)

KeyStep(p) ==
    \/ add_sp(p) \/ change_sp_check(p) \/ toggle_sp(p) \/ remove_sp(p) \/ issue(p)
    \/ key_check(p) \/ revoke(p) \/ rotate(p) \/ set_or_remove_key_budget(p)

UserStep(p) == user_check(p) \/ set_auditor(p) \/ remove_user(p)

OtherStep(p) == call(p) \/ serve(p) \/ change_guardrails(p) \/ execute(p) \/ record_audit(p) \/ Crash(p)

AccessNext ==
    \/ \E p \in Procs : TeamStep(p) \/ MemberStep(p) \/ InviteStep(p) \/ KeyStep(p) \/ UserStep(p) \/ OtherStep(p)
    \/ \E i \in Invites : InviteExpires(i)
    \/ \E k \in Keys : GraceEnds(k)

AccessSpec == AccessInit /\ [][AccessNext]_accessVars

(***************************************************************************)
(* Properties                                                              *)
(***************************************************************************)
AccessTypeOK ==
    /\ orgs \in [Orgs -> {"absent", "live", "deleted"}]
    /\ teams \in [Teams -> [row: {"absent", "live", "tombstoned", "gone", "purged"},
                            org: Orgs \cup {NoOne}, billed: BOOLEAN]]
    /\ lifecycle \in [Teams -> Procs \cup {NoOne}]
    /\ \A t \in Teams : lifecycle[t] \in Procs => Acting(lifecycle[t], "delete_team")
    /\ members \in [Teams -> [Users -> [role: Roles \cup {"none"}, gen: 0..MaxRejoin]]]
    /\ users \in [Users -> [row: {"absent", "live", "deleted"}, admin: BOOLEAN, auditor: BOOLEAN]]
    /\ invites \in [Invites -> [state: {"absent", "open", "expired", "used", "gone"},
                                team: Teams \cup {NoOne}, role: Roles \cup {"none"}]]
    /\ sps \in [SPs -> [state: {"absent", "enabled", "disabled", "deleted"}, team: Teams \cup {NoOne}]]
    /\ keys \in [Keys -> [row: {"absent", "active", "grace", "revoked"}, team: Teams \cup {NoOne},
                          sp: SPs \cup {NoOne}, mgmt: BOOLEAN, by: Users \cup {NoOne}, rotated: BOOLEAN]]
    /\ managers \subseteq Users \X Teams /\ holders \subseteq Users \X Keys
    /\ editors \subseteq Callers \X Teams /\ raced \subseteq Teams /\ late \subseteq Keys

Managed(u, t) == u \in Admins \/ <<u, t>> \in managers

\* Nobody is ever shown the plaintext of a key that can manage a team unless
\* they were a platform admin or an admin of that team: issuing, rotating and
\* revoking in any order, a key_issuer does not end up with such a key
\* (teams/controller.py:515, the second check of rotate_key).
NoEscalation ==
    \A h \in holders : keys[h[2]].mgmt => Managed(h[1], keys[h[2]].team)

\* A team's guardrails are changed only by someone who managed the team, in
\* person or through a key only such people were handed (authorization.py:35: a
\* control that the person configuring models can switch off is not a control).
GuardrailsByManagers ==
    \A e \in editors :
        IF e[1] \in Users THEN Managed(e[1], e[2])
        ELSE \A h \in holders : h[2] = e[1] => Managed(h[1], e[2])

\* People become team admins through a team admin's or a platform admin's
\* request, an invite, or the SSO mapping, and never by their own doing
\* (team_service.py:419, 452).
AdminsMadeByManagers ==
    [][\A x \in managers' \ managers :
          \E p \in Procs :
              /\ req'[p] # req[p] /\ req[p].at = "act"
              /\ \/ req[p].ep.op \in {"sso", "signup"}
                 \/ req[p].by \in Users /\ req[p].by # x[1] /\ Managed(req[p].by, x[2])
                 \/ req[p].by \in Admins]_accessVars

\* What the auditor flag alone opens is reading: a request let through on that
\* ground never changes anything (authorization.py:61).
AuditorReads == \A p \in Procs : req[p].ground = "auditor" => req[p].ep.op = "read"

\* A live team keeps an admin, whatever removals, demotions, SSO logins and
\* crashes, as long as no two role changes of the team were in flight at once:
\* the check for the last admin (team_service.py:461) is not in the transaction
\* that acts on it.
KeepsAnAdmin ==
    \A t \in Teams \ raced : Live(t) => count_admins(t) > 0

\* An invite makes at most one membership, however many signups with it run at
\* once (invite_repository.py:54).
InviteOnce == \A i \in Invites : joined[i] <= 1

\* A redeemed invite leads into a live team: a delete that runs at the same
\* time waits, or the signup fails (user_service.py:258).
JoinsLiveTeam ==
    [][\A p \in Procs :
          Acting(p, "signup") /\ members' # members /\ req'[p] # req[p] => teams'[req[p].team].row = "live"]_accessVars

\* A purge and a key rotation are in the audit trail if they happened at all:
\* no crash falls between the change and its record (team_service.py:372,
\* service.py:208).
ChangesAudited ==
    /\ \A t \in Teams : teams[t].row = "purged" => \E e \in log : e.op = "purge_team" /\ e.team = t
    /\ \A k \in Keys : keys[k].rotated => \E e \in log : e.op = "rotate" /\ e.key = k

\* A team that ever had a key is never tombstoned; a key of a tombstoned team
\* was inserted once its delete was under way (team_service.py:294).
TombstonedHadNoKeys ==
    \A t \in Teams : teams[t].row \in {"tombstoned", "gone", "purged"} => TeamKeys(t) \subseteq late

\* No sequence of issues, rotations and role changes gives anybody more than a
\* manager granted: keys, guardrails and the auditor's reading
\* (teams/controller.py:515, authorization.py:35, 61).
AuthorityKept == NoEscalation /\ GuardrailsByManagers /\ AuditorReads

\* A team keeps an admin, its keys and its audit trail through removals, races
\* of signups and deletes, and crashes (team_service.py:294, 372, 461).
TeamsKept == AccessTypeOK /\ KeepsAnAdmin /\ InviteOnce /\ ChangesAudited /\ TombstonedHadNoKeys

\* A step that makes a member or an admin has someone's authority behind it and
\* a live team in front of it (team_service.py:419, user_service.py:258).
RolesGranted == AdminsMadeByManagers /\ JoinsLiveTeam
=============================================================================

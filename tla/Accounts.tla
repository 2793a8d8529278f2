------------------------------ MODULE Accounts ------------------------------
(***************************************************************************)
(* User accounts, browser and bearer sessions, and API keys: who may       *)
(* authenticate to the gateway, and what stops them.                       *)
(*                                                                         *)
(* One request is one process of Procs.  Every await between a read and    *)
(* the transaction that uses it is a step boundary, so the value a request *)
(* read (its actor, the account it is about to change, the key it is about *)
(* to rotate) may be stale when it is used.  A transaction is one step:    *)
(* the row locks the code takes (lock_platform_admins, get_for_update)     *)
(* make it atomic for the rows it reads under the lock.                    *)
(*                                                                         *)
(* Account ids, key ids and token ids are never reused (uuid4).  Time is   *)
(* abstracted to the transitions it causes: a lock or a grace window ends, *)
(* a key or a reset token expires.                                         *)
(***************************************************************************)
EXTENDS Naturals, FiniteSets

CONSTANTS Users, Emails, Subjects, Keys, SPs, Tokens, Procs,
          NoOne,             \* the absence of a user, subject, key or principal
          AdminEmail,        \* the settings' admin_email
          DefaultAdmin,      \* the SSO settings' default_admin
          MAX_FAILED_LOGINS,
          MaxTokenVersion,   \* bound: token_version increments per account
          MaxCycles          \* bound: lock cycles counted per account

ASSUME AccountsAssumption ==
    /\ NoOne \notin Users \cup Subjects \cup Keys \cup SPs \cup Tokens \cup Emails
    /\ AdminEmail \in Emails /\ DefaultAdmin \in BOOLEAN
    /\ MAX_FAILED_LOGINS \in Nat \ {0}
    /\ MaxTokenVersion \in Nat /\ MaxCycles \in Nat \ {0}

VARIABLES
    users,     \* the user_account table
    sessions,  \* the JWTs handed out: [user, tv]
    resets,    \* the password_reset table
    keys,      \* the api_key table
    sps,       \* service principals: "absent", "enabled", "disabled", "deleted"
    req,       \* the request each process is serving
    revoked,   \* history: JWTs, handed out or about to be, when their account was revoked
    clobbered, \* history: accounts an SSO bind overwrote with a stale read
    changes,   \* history: how often each reset token changed a password
    admitted   \* history: the last key admitted, and whether it was still good

vars == <<users, sessions, resets, keys, sps, req, revoked, clobbered, changes, admitted>>

(***************************************************************************)
(* Rows                                                                    *)
(***************************************************************************)
Locks == {"none", "locked", "expired", "decayed"}

User == [row: {"absent", "live", "deleted"}, email: Emails \cup {NoOne},
         admin: BOOLEAN, active: BOOLEAN, by: {"none", "admin", "scim"},
         tv: 0..MaxTokenVersion, sub: Subjects \cup {NoOne}, known: BOOLEAN,
         failed: Nat, lock: Locks, cycles: 0..MaxCycles]

Absent == [row |-> "absent", email |-> NoOne, admin |-> FALSE, active |-> TRUE,
           by |-> "none", tv |-> 0, sub |-> NoOne, known |-> FALSE,
           failed |-> 0, lock |-> "none", cycles |-> 0]

APIKey == [row: BOOLEAN, created_by: Users \cup {NoOne}, sp: SPs \cup {NoOne},
           issued_to: {"none", "user", "sp"}, revoked: {"no", "grace", "yes"},
           expired: BOOLEAN, replaces: Keys \cup {NoOne}]

NoKey == [row |-> FALSE, created_by |-> NoOne, sp |-> NoOne, issued_to |-> "none",
          revoked |-> "no", expired |-> FALSE, replaces |-> NoOne]

Live(u) == u \in Users /\ users[u].row = "live"

ByEmail(e) == {u \in Users : Live(u) /\ users[u].email = e}

BySubject(s) == {u \in Users : Live(u) /\ users[u].sub = s}

is_active(k) == keys[k].row /\ ~keys[k].expired /\ keys[k].revoked # "yes"

Idle == [at |-> "idle", user |-> NoOne, target |-> NoOne, flag |-> FALSE,
         row |-> Absent, sub |-> NoOne, key |-> NoOne, email |-> NoOne]

Free(p) == req[p].at = "idle"

Start(p, r) == req' = [req EXCEPT ![p] = r]

Finish(p) == req' = [req EXCEPT ![p] = Idle]

(***************************************************************************)
(* The user repository's writes                                            *)
(***************************************************************************)
Bump(row) == [row EXCEPT !.tv = @ + 1]

CanBump(u) == users[u].tv < MaxTokenVersion

\* What a revocation of the account's sessions must end: the tokens handed
\* out, and those a login that has already checked the account will hand out.
Outstanding(u) ==
    {s \in sessions : s.user = u}
        \cup {[user |-> u, tv |-> req[p].row.tv] :
                p \in {q \in Procs : req[q].at \in {"login", "sso_token"} /\ req[q].user = u}}

Revokes(u) == revoked' = revoked \cup Outstanding(u)

\* add / add_staged: the unique constraints on email and sso_subject arbitrate.
CanAdd(e, s) == ByEmail(e) = {} /\ (s = NoOne \/ BySubject(s) = {})

\* Ids are opaque, so it does not matter which fresh one a row gets.
OneOf(S) == {x \in S : x = CHOOSE y \in S : TRUE}

NewId == OneOf({u \in Users : users[u].row = "absent"})

\* ensure_admin runs in the startup hook, before any request is served.
Bootstrapped == \E u \in Users : users[u].row # "absent"

Added(u, row) == users' = [users EXCEPT ![u] = row]

set_active(u, active, by) ==
    /\ users' = [users EXCEPT ![u] =
          IF active THEN [@ EXCEPT !.active = TRUE, !.by = "none"]
                    ELSE Bump([@ EXCEPT !.active = FALSE, !.by = by])]
    /\ IF active THEN UNCHANGED revoked ELSE Revokes(u)

clear_login_failures(row) == [row EXCEPT !.failed = 0, !.lock = "none", !.cycles = 0]

\* Every personal key still usable, one in its grace window included.
revoke_personal_keys_for_user(u) ==
    keys' = [k \in Keys |->
        IF keys[k].created_by = u /\ keys[k].sp = NoOne
        THEN [keys[k] EXCEPT !.revoked = "yes"] ELSE keys[k]]

(***************************************************************************)
(* Sessions                                                                *)
(***************************************************************************)
\* _load_user: the account exists, the token carries its current version and
\* the account is active.
Valid(s) == Live(s.user) /\ s.tv = users[s.user].tv /\ users[s.user].active

AdminOps == {"set_active", "set_admin", "delete", "unlock", "reset"}

\* The dependency of every admin endpoint: the actor is read from the live
\* row when the request starts, and kept.
provide_current_admin(p) ==
    Free(p) /\ \E s \in sessions, op \in AdminOps, t \in Users, f \in BOOLEAN :
        /\ Valid(s) /\ users[s.user].admin
        /\ op \in {"delete", "unlock", "reset"} => ~f
        /\ Start(p, [Idle EXCEPT !.at = op, !.user = s.user, !.target = t, !.flag = f])
        /\ UNCHANGED <<users, sessions, resets, keys, sps, revoked, clobbered, changes, admitted>>

logout ==
    \E s \in sessions :
        /\ Valid(s) /\ CanBump(s.user)
        /\ users' = [users EXCEPT ![s.user] = Bump(@)]
        /\ Revokes(s.user)
        /\ UNCHANGED <<sessions, resets, keys, sps, req, clobbered, changes, admitted>>

(***************************************************************************)
(* UserService: bootstrap and the admin's levers                           *)
(***************************************************************************)
\* Two replicas may both count zero users; the unique email picks one.
ensure_admin_count(p) ==
    /\ Free(p) /\ \A u \in Users : ~Live(u)
    /\ Start(p, [Idle EXCEPT !.at = "bootstrap"])
    /\ UNCHANGED <<users, sessions, resets, keys, sps, revoked, clobbered, changes, admitted>>

ensure_admin_add(p) ==
    /\ req[p].at = "bootstrap"
    /\ \/ ~CanAdd(AdminEmail, NoOne) /\ UNCHANGED users
       \/ /\ CanAdd(AdminEmail, NoOne)
          /\ \E u \in NewId :
               Added(u, [Absent EXCEPT !.row = "live", !.email = AdminEmail,
                                       !.admin = TRUE, !.known = TRUE])
    /\ Finish(p)
    /\ UNCHANGED <<sessions, resets, keys, sps, revoked, clobbered, changes, admitted>>

RequireAdminAtStart(u) == Live(u)

\* lock_platform_admins, then the actor looked up among the locked rows.
_lock_and_require_live_admin(u) == Live(u) /\ users[u].admin /\ users[u].active

set_user_active(p) ==
    LET r == req[p] IN
    /\ r.at = "set_active"
    /\ \/ /\ r.user # r.target /\ _lock_and_require_live_admin(r.user) /\ Live(r.target)
          /\ r.flag \/ CanBump(r.target)
          /\ set_active(r.target, r.flag, "admin")
          /\ IF r.flag THEN UNCHANGED keys ELSE revoke_personal_keys_for_user(r.target)
       \/ /\ r.user = r.target \/ ~_lock_and_require_live_admin(r.user) \/ ~Live(r.target)
          /\ UNCHANGED <<users, keys, revoked>>
    /\ Finish(p)
    /\ UNCHANGED <<sessions, resets, sps, clobbered, changes, admitted>>

set_user_admin(p) ==
    LET r == req[p] IN
    /\ r.at = "set_admin"
    /\ users' = IF r.user # r.target /\ _lock_and_require_live_admin(r.user) /\ Live(r.target)
                THEN [users EXCEPT ![r.target].admin = r.flag] ELSE users
    /\ Finish(p)
    /\ UNCHANGED <<sessions, resets, keys, sps, revoked, clobbered, changes, admitted>>

\* Refused while keys the user created remain (memberships: see TeamAccess).
delete_user(p) ==
    LET r == req[p]
        ok == /\ r.user # r.target /\ _lock_and_require_live_admin(r.user) /\ Live(r.target)
              /\ \A k \in Keys : keys[k].row => keys[k].created_by # r.target
    IN
    /\ r.at = "delete"
    /\ users' = IF ok THEN [users EXCEPT ![r.target] = [Absent EXCEPT !.row = "deleted"]] ELSE users
    /\ resets' = IF ok THEN [t \in Tokens |-> IF resets[t].user = r.target
                                             THEN [resets[t] EXCEPT !.state = "gone"] ELSE resets[t]]
                 ELSE resets
    /\ IF ok THEN Revokes(r.target) ELSE UNCHANGED revoked
    /\ Finish(p)
    /\ UNCHANGED <<sessions, keys, sps, clobbered, changes, admitted>>

unlock_user(p) ==
    LET r == req[p] IN
    /\ r.at = "unlock"
    /\ users' = IF Live(r.target) THEN [users EXCEPT ![r.target] = clear_login_failures(@)] ELSE users
    /\ Finish(p)
    /\ UNCHANGED <<sessions, resets, keys, sps, revoked, clobbered, changes, admitted>>

create_password_reset(p) ==
    LET r == req[p] IN
    /\ r.at = "reset"
    /\ \/ ~Live(r.target) /\ UNCHANGED resets
       \/ /\ Live(r.target)
          /\ \E t \in OneOf({i \in Tokens : resets[i].state = "absent"}) :
                 resets' = [resets EXCEPT ![t] = [user |-> r.target, state |-> "open"]]
    /\ Finish(p)
    /\ UNCHANGED <<users, sessions, keys, sps, revoked, clobbered, changes, admitted>>

(***************************************************************************)
(* Password reset: read the token, hash the password, then one transaction *)
(***************************************************************************)
reset_password_read(p) ==
    Free(p) /\ \E t \in Tokens :
        /\ resets[t].state = "open"
        /\ Start(p, [Idle EXCEPT !.at = "redeem", !.target = resets[t].user, !.key = t])
        /\ UNCHANGED <<users, sessions, resets, keys, sps, revoked, clobbered, changes, admitted>>

\* The conditional UPDATE: one redemption wins.
mark_used(t) == resets[t].state \in {"open", "expired"}

reset_password(p) ==
    LET r == req[p] IN
    /\ r.at = "redeem"
    /\ \/ /\ mark_used(r.key) /\ CanBump(r.target)
          /\ resets' = [resets EXCEPT ![r.key].state = "used"]
          /\ users' = [users EXCEPT ![r.target] = Bump([@ EXCEPT !.known = TRUE])]
          /\ Revokes(r.target)
          /\ changes' = [changes EXCEPT ![r.key] = @ + 1]
       \/ ~mark_used(r.key) /\ UNCHANGED <<resets, users, revoked, changes>>
    /\ Finish(p)
    /\ UNCHANGED <<sessions, keys, sps, clobbered, admitted>>

(***************************************************************************)
(* Password login and its lockout                                          *)
(***************************************************************************)
\* What a login keeps of the row it read.
Read(u) == [Absent EXCEPT !.tv = users[u].tv, !.failed = users[u].failed, !.lock = users[u].lock]

\* The failure branches that change nothing (unknown email, locked or
\* disabled account) are the steps not taken.
authenticate(p) ==
    Free(p) /\ \E u \in Users, right \in BOOLEAN :
        /\ Live(u) /\ users[u].lock # "locked"
        /\ right => users[u].known /\ users[u].active
        /\ Start(p, [Idle EXCEPT !.at = IF right THEN "login" ELSE "failed",
                                 !.user = u, !.row = Read(u)])
        /\ UNCHANGED <<users, sessions, resets, keys, sps, revoked, clobbered, changes, admitted>>

\* The account's failures are cleared on the strength of the row read before
\* the password was verified; the token carries that row's version.
finish_login(p) ==
    LET r == req[p] IN
    /\ r.at = "login"
    /\ users' = IF (r.row.failed # 0 \/ r.row.lock # "none") /\ Live(r.user)
                THEN [users EXCEPT ![r.user] = clear_login_failures(@)] ELSE users
    /\ sessions' = sessions \cup {[user |-> r.user, tv |-> r.row.tv]}
    /\ Finish(p)
    /\ UNCHANGED <<resets, keys, sps, revoked, clobbered, changes, admitted>>

\* The increment returns the new count: reaching the threshold obliges this
\* request to lock.
register_failed_login(p) ==
    LET r == req[p]
        count == users[r.user].failed + 1
    IN
    /\ r.at = "failed"
    /\ users' = IF Live(r.user) THEN [users EXCEPT ![r.user].failed = count] ELSE users
    /\ req' = [req EXCEPT ![p] = IF Live(r.user) /\ count >= MAX_FAILED_LOGINS
                                 THEN [r EXCEPT !.at = "lock"] ELSE Idle]
    /\ UNCHANGED <<sessions, resets, keys, sps, revoked, clobbered, changes, admitted>>

Min_(a, b) == IF a < b THEN a ELSE b

set_login_lock(p) ==
    LET r == req[p]
        decayed == r.row.lock = "decayed"
    IN
    /\ r.at = "lock"
    /\ users' = IF Live(r.user)
                THEN [users EXCEPT ![r.user].lock = "locked", ![r.user].failed = 0,
                         ![r.user].cycles = IF decayed THEN 1 ELSE Min_(@ + 1, MaxCycles)]
                ELSE users
    /\ Finish(p)
    /\ UNCHANGED <<sessions, resets, keys, sps, revoked, clobbered, changes, admitted>>

\* A lock runs out, then LOCKOUT_DECAY passes.
LockPasses(u) ==
    /\ Live(u) /\ users[u].lock \in {"locked", "expired"}
    /\ users' = [users EXCEPT ![u].lock = IF @ = "locked" THEN "expired" ELSE "decayed"]
    /\ UNCHANGED <<sessions, resets, keys, sps, req, revoked, clobbered, changes, admitted>>

(***************************************************************************)
(* SSO                                                                     *)
(***************************************************************************)
\* A login that found the account it is going to bind: it keeps the admin
\* flag it read.
ToBind(r, u) == [r EXCEPT !.at = "sso_bind", !.user = u, !.row = [@ EXCEPT !.admin = users[u].admin]]

\* A login whose account is known: the token will carry the version it read.
ToToken(r, u, version) ==
    [r EXCEPT !.at = "sso_token", !.user = u, !.row = [Absent EXCEPT !.tv = version]]

\* upsert_sso_user up to its write: the account bound to the subject, else
\* the unlinked account with the verified email, else none (JIT creation).
\* An email linked to another subject is a conflict: no step.
upsert_sso_user(p) ==
    Free(p) /\ \E s \in Subjects, e \in Emails, group_admin \in BOOLEAN :
        LET found == IF BySubject(s) # {} THEN BySubject(s) ELSE ByEmail(e)
            next == [Idle EXCEPT !.sub = s, !.email = e, !.flag = group_admin]
        IN
        /\ Bootstrapped
        /\ BySubject(s) = {} => \A u \in ByEmail(e) : users[u].sub = NoOne
        /\ \/ found = {} /\ Start(p, [next EXCEPT !.at = "sso_create"])
           \/ \E u \in found : Start(p, ToBind(next, u))
        /\ UNCHANGED <<users, sessions, resets, keys, sps, revoked, clobbered, changes, admitted>>

\* The insert; its loser re-resolves the account the winner created.
_resolve_or_create_sso_user(p) ==
    LET r == req[p]
        raced == IF BySubject(r.sub) # {} THEN BySubject(r.sub) ELSE ByEmail(r.email)
    IN
    /\ r.at = "sso_create"
    /\ \/ /\ CanAdd(r.email, r.sub)
          /\ \E u \in NewId :
               /\ Added(u, [Absent EXCEPT !.row = "live", !.email = r.email, !.sub = r.sub,
                                          !.admin = r.flag \/ DefaultAdmin])
               /\ req' = [req EXCEPT ![p] = ToToken(r, u, 0)]
       \/ /\ ~CanAdd(r.email, r.sub)
          /\ UNCHANGED users
          /\ \E u \in raced :
               req' = [req EXCEPT ![p] =
                  CASE users[u].sub = r.sub -> ToToken(r, u, users[u].tv)
                    [] users[u].sub = NoOne -> ToBind(r, u)
                    [] OTHER -> Idle]
    /\ UNCHANGED <<sessions, resets, keys, sps, revoked, clobbered, changes, admitted>>

\* An unconditional UPDATE: the admin flag is the one read before, or the
\* group's, and the subject replaces whatever is there.  Another row holding
\* the subject, or a deleted account, fails the request.
bind_sso(p) ==
    LET r == req[p]
        ok == Live(r.user) /\ BySubject(r.sub) \subseteq {r.user}
        admin == r.row.admin \/ r.flag
    IN
    /\ r.at = "sso_bind"
    /\ users' = IF ok THEN [users EXCEPT ![r.user].sub = r.sub, ![r.user].admin = admin] ELSE users
    /\ clobbered' = IF ok /\ \/ users[r.user].admin # r.row.admin
                             \/ users[r.user].sub \notin {NoOne, r.sub}
                    THEN clobbered \cup {r.user} ELSE clobbered
    /\ req' = [req EXCEPT ![p] = IF ok THEN [r EXCEPT !.at = "sso_bound"] ELSE Idle]
    /\ UNCHANGED <<sessions, resets, keys, sps, revoked, changes, admitted>>

\* The account is read back after the write's commit.
bind_sso_read(p) ==
    LET r == req[p] IN
    /\ r.at = "sso_bound"
    /\ req' = [req EXCEPT ![p] = IF Live(r.user) THEN ToToken(r, r.user, users[r.user].tv) ELSE Idle]
    /\ UNCHANGED <<users, sessions, resets, keys, sps, revoked, clobbered, changes, admitted>>

\* The token is handed out whatever has become of the account since; a
\* disabled account gets one too, which _load_user refuses.
sso_callback(p) ==
    LET r == req[p] IN
    /\ r.at = "sso_token"
    /\ sessions' = sessions \cup {[user |-> r.user, tv |-> r.row.tv]}
    /\ Finish(p)
    /\ UNCHANGED <<users, resets, keys, sps, revoked, clobbered, changes, admitted>>

(***************************************************************************)
(* SCIM                                                                    *)
(***************************************************************************)
create_scim_user ==
    \E e \in Emails, active \in BOOLEAN, u \in NewId :
        /\ Bootstrapped /\ CanAdd(e, NoOne)
        /\ Added(u, [Absent EXCEPT !.row = "live", !.email = e, !.active = active])
        /\ UNCHANGED <<sessions, resets, keys, sps, req, revoked, clobbered, changes, admitted>>

\* What SCIM may not do, asked of the row it read and again of the locked row.
ScimMay(row, active) ==
    /\ ~(row.admin /\ ~active)
    /\ ~(active /\ ~row.active /\ row.by = "admin")

\* update_user up to its first write: the guards on the row read.  moved: the
\* sync brings another email or external id.
update_user(p) ==
    Free(p) /\ \E u \in Users, active, moved \in BOOLEAN, e \in Emails :
        LET row == users[u] IN
        /\ Live(u) /\ ScimMay(row, active)
        /\ e # row.email => moved
        /\ moved => ~row.admin
        /\ moved \/ active # row.active
        /\ Start(p, [Idle EXCEPT !.at = IF moved THEN "scim_identity" ELSE "scim",
                                 !.target = u, !.flag = active, !.email = IF moved THEN e ELSE NoOne])
        /\ UNCHANGED <<users, sessions, resets, keys, sps, revoked, clobbered, changes, admitted>>

\* The identity change, a transaction of its own: an email that was taken
\* meanwhile fails the request.
update_scim_identity(p) ==
    LET r == req[p]
        free == ByEmail(r.email) \subseteq {r.target}
    IN
    /\ r.at = "scim_identity"
    /\ users' = IF free /\ Live(r.target) THEN [users EXCEPT ![r.target].email = r.email] ELSE users
    /\ req' = [req EXCEPT ![p] = IF free THEN [r EXCEPT !.at = "scim_moved", !.email = NoOne] ELSE Idle]
    /\ UNCHANGED <<sessions, resets, keys, sps, revoked, clobbered, changes, admitted>>

\* The row is read back after the commit: is there a switch left to make?
update_scim_identity_read(p) ==
    LET r == req[p]
        switch == Live(r.target) /\ users[r.target].active # r.flag
    IN
    /\ r.at = "scim_moved"
    /\ req' = [req EXCEPT ![p] = IF switch THEN [r EXCEPT !.at = "scim"] ELSE Idle]
    /\ UNCHANGED <<users, sessions, resets, keys, sps, revoked, clobbered, changes, admitted>>

ActivateUnchecked(p) ==
    LET r == req[p]
        go == Live(r.target) /\ users[r.target].active # r.flag
    IN
    /\ r.at = "scim"
    /\ \/ /\ go /\ (r.flag \/ CanBump(r.target))
          /\ set_active(r.target, r.flag, "scim")
          /\ IF r.flag THEN UNCHANGED keys ELSE revoke_personal_keys_for_user(r.target)
       \/ ~go /\ UNCHANGED <<users, keys, revoked>>
    /\ Finish(p)
    /\ UNCHANGED <<sessions, resets, sps, clobbered, changes, admitted>>

\* The switch: the row is locked and the guards asked again; another
\* actor's identical transition keeps its provenance.
update_user_active(p) ==
    LET r == req[p]
        row == users[r.target]
        go == Live(r.target) /\ ScimMay(row, r.flag) /\ row.active # r.flag
    IN
    /\ r.at = "scim"
    /\ \/ /\ go /\ (r.flag \/ CanBump(r.target))
          /\ set_active(r.target, r.flag, "scim")
          /\ IF r.flag THEN UNCHANGED keys ELSE revoke_personal_keys_for_user(r.target)
       \/ ~go /\ UNCHANGED <<users, keys, revoked>>
    /\ Finish(p)
    /\ UNCHANGED <<sessions, resets, sps, clobbered, changes, admitted>>

(***************************************************************************)
(* API keys and service principals                                         *)
(***************************************************************************)
NewKey == OneOf({k \in Keys : ~keys[k].row})

_require_active_personal_owner(u) == Live(u) /\ users[u].active

_require_enabled_service_principal(sp) == sps[sp] = "enabled"

MayHold(u, sp) ==
    IF sp = NoOne THEN _require_active_personal_owner(u)
                  ELSE _require_enabled_service_principal(sp)

_stage_issue(u, sp, replaces) ==
    [NoKey EXCEPT !.row = TRUE, !.created_by = u, !.sp = sp, !.replaces = replaces,
                  !.issued_to = IF sp = NoOne THEN "user" ELSE "sp"]

\* The caller is authenticated first; the owner or the principal is checked
\* again, under its row lock, in the transaction that writes the key.
create_key(p) ==
    Free(p) /\ \E s \in sessions, sp \in SPs \cup {NoOne} :
        /\ Valid(s)
        /\ Start(p, [Idle EXCEPT !.at = "issue", !.user = s.user, !.target = sp])
        /\ UNCHANGED <<users, sessions, resets, keys, sps, revoked, clobbered, changes, admitted>>

issue(p) ==
    LET r == req[p] IN
    /\ r.at = "issue"
    /\ \/ ~MayHold(r.user, r.target) /\ UNCHANGED keys
       \/ /\ MayHold(r.user, r.target)
          /\ \E k \in NewKey :
               keys' = [keys EXCEPT ![k] = _stage_issue(r.user, r.target, NoOne)]
    /\ Finish(p)
    /\ UNCHANGED <<users, sessions, resets, sps, revoked, clobbered, changes, admitted>>

\* rotate and revoke both start from a key that was active when it was read.
get_active_for_team(p) ==
    Free(p) /\ \E s \in sessions, k \in Keys, op \in {"rotate", "revoke"} :
        /\ Valid(s) /\ is_active(k)
        /\ Start(p, [Idle EXCEPT !.at = op, !.user = keys[k].created_by,
                                 !.target = keys[k].sp, !.key = k])
        /\ UNCHANGED <<users, sessions, resets, keys, sps, revoked, clobbered, changes, admitted>>

RotatableAsRead(r) == keys[r.key].revoked # "yes"

\* The locked row must still be unrevoked and belong to the same identity.
StillRotatable(r) == keys[r.key].revoked = "no" /\ keys[r.key].sp = r.target

rotate_for_team(p) ==
    LET r == req[p]
        ok == MayHold(r.user, r.target) /\ StillRotatable(r)
    IN
    /\ r.at = "rotate"
    /\ \/ ~ok /\ UNCHANGED keys
       \/ /\ ok
          /\ \E k \in NewKey :
               keys' = [keys EXCEPT
                  ![k] = [_stage_issue(r.user, r.target, r.key) EXCEPT !.expired = keys[r.key].expired],
                  ![r.key].revoked = "grace"]
    /\ Finish(p)
    /\ UNCHANGED <<users, sessions, resets, sps, revoked, clobbered, changes, admitted>>

revoke_for_team(p) ==
    LET r == req[p] IN
    /\ r.at = "revoke"
    /\ keys' = [keys EXCEPT ![r.key].revoked = "yes"]
    /\ Finish(p)
    /\ UNCHANGED <<users, sessions, resets, sps, revoked, clobbered, changes, admitted>>

\* A rotation's grace window closes, or a key's TTL passes.
KeyTimePasses(k) ==
    /\ keys[k].row
    /\ \/ keys[k].revoked = "grace" /\ keys' = [keys EXCEPT ![k].revoked = "yes"]
       \/ ~keys[k].expired /\ keys' = [keys EXCEPT ![k].expired = TRUE]
    /\ UNCHANGED <<users, sessions, resets, sps, req, revoked, clobbered, changes, admitted>>

\* APIKeyService.authenticate: the key is read with its owner or principal ...
authenticate_key(p) ==
    Free(p) /\ \E k \in Keys :
        /\ is_active(k) /\ MayHold(keys[k].created_by, keys[k].sp)
        /\ Start(p, [Idle EXCEPT !.at = "auth", !.key = k])
        /\ UNCHANGED <<users, sessions, resets, keys, sps, revoked, clobbered, changes, admitted>>

\* ... and the whole condition is asked again in one statement.
is_authenticatable(k) ==
    keys[k].revoked # "yes" /\ MayHold(keys[k].created_by, keys[k].sp)

\* (for the history variable)
Good(k) ==
    /\ keys[k].revoked # "yes"
    /\ IF keys[k].sp = NoOne THEN users[keys[k].created_by].active ELSE sps[keys[k].sp] = "enabled"

admit(p) ==
    LET k == req[p].key IN
    /\ req[p].at = "auth"
    /\ admitted' = IF is_authenticatable(k)
                   THEN [key |-> k, good |-> Good(k)]
                   ELSE admitted
    /\ Finish(p)
    /\ UNCHANGED <<users, sessions, resets, keys, sps, revoked, clobbered, changes>>

create_sp(sp) ==
    /\ sps[sp] = "absent" /\ sps' = [sps EXCEPT ![sp] = "enabled"]
    /\ UNCHANGED <<users, sessions, resets, keys, req, revoked, clobbered, changes, admitted>>

set_enabled(sp) ==
    /\ sps[sp] \in {"enabled", "disabled"}
    /\ \E e \in {"enabled", "disabled"} : sps[sp] # e /\ sps' = [sps EXCEPT ![sp] = e]
    /\ UNCHANGED <<users, sessions, resets, keys, req, revoked, clobbered, changes, admitted>>

\* Every key of the principal, one in its grace window included, is revoked
\* and detached from it.
revoke_for_service_principal(sp) ==
    [k \in Keys |-> IF keys[k].sp = sp
                    THEN [keys[k] EXCEPT !.revoked = "yes", !.sp = NoOne] ELSE keys[k]]

delete_sp(sp) ==
    /\ sps[sp] \in {"enabled", "disabled"}
    /\ keys' = revoke_for_service_principal(sp)
    /\ sps' = [sps EXCEPT ![sp] = "deleted"]
    /\ UNCHANGED <<users, sessions, resets, req, revoked, clobbered, changes, admitted>>

(***************************************************************************)
(* The specification                                                       *)
(***************************************************************************)
Init ==
    /\ users = [u \in Users |-> Absent]
    /\ sessions = {}
    /\ resets = [t \in Tokens |-> [user |-> NoOne, state |-> "absent"]]
    /\ keys = [k \in Keys |-> NoKey]
    /\ sps = [s \in SPs |-> "absent"]
    /\ req = [p \in Procs |-> Idle]
    /\ revoked = {} /\ clobbered = {}
    /\ changes = [t \in Tokens |-> 0]
    /\ admitted = [key |-> NoOne, good |-> TRUE]

ResetExpires(t) ==
    /\ resets[t].state = "open" /\ resets' = [resets EXCEPT ![t].state = "expired"]
    /\ UNCHANGED <<users, sessions, keys, sps, req, revoked, clobbered, changes, admitted>>

BootstrapStep == \E p \in Procs : ensure_admin_count(p) \/ ensure_admin_add(p)

AdminStep == \E p \in Procs :
    \/ provide_current_admin(p) \/ set_user_active(p) \/ set_user_admin(p) \/ delete_user(p)

LoginStep ==
    \/ \E p \in Procs :
         \/ authenticate(p) \/ finish_login(p) \/ register_failed_login(p) \/ set_login_lock(p)
    \/ \E u \in Users : LockPasses(u)
    \/ logout

RecoveryStep ==
    \/ \E p \in Procs :
         \/ unlock_user(p) \/ create_password_reset(p) \/ reset_password_read(p) \/ reset_password(p)
    \/ \E t \in Tokens : ResetExpires(t)

SsoStep == \E p \in Procs :
    \/ upsert_sso_user(p) \/ _resolve_or_create_sso_user(p) \/ bind_sso(p) \/ bind_sso_read(p)
    \/ sso_callback(p)

ScimStep ==
    \/ create_scim_user
    \/ \E p \in Procs : \/ update_user(p) \/ update_scim_identity(p) \/ update_scim_identity_read(p)
                        \/ update_user_active(p)

KeyStep ==
    \/ \E p \in Procs :
         \/ create_key(p) \/ issue(p) \/ get_active_for_team(p) \/ rotate_for_team(p)
         \/ revoke_for_team(p) \/ authenticate_key(p) \/ admit(p)
    \/ \E k \in Keys : KeyTimePasses(k)
    \/ \E sp \in SPs : create_sp(sp) \/ set_enabled(sp) \/ delete_sp(sp)

Next == BootstrapStep \/ AdminStep \/ LoginStep \/ RecoveryStep \/ SsoStep \/ ScimStep \/ KeyStep

Spec == Init /\ [][Next]_vars

(***************************************************************************)
(* Properties                                                              *)
(***************************************************************************)
TypeOK ==
    /\ users \in [Users -> User]
    /\ sessions \subseteq [user: Users, tv: 0..MaxTokenVersion]
    /\ \A t \in Tokens : /\ resets[t].user \in Users \cup {NoOne}
                         /\ resets[t].state \in {"absent", "open", "used", "expired", "gone"}
    /\ keys \in [Keys -> APIKey]
    /\ sps \in [SPs -> {"absent", "enabled", "disabled", "deleted"}]
    /\ clobbered \subseteq Users

\* Once the first admin exists an active admin remains, whatever admins do to
\* each other concurrently (user_service.py:141, _lock_and_require_live_admin),
\* unless an SSO login wrote back an account it had read before a change.
AdminRemains ==
    Bootstrapped /\ clobbered = {} => \E u \in Users : Live(u) /\ users[u].admin /\ users[u].active

\* A JWT that was out, or about to be handed out by a login already past its
\* checks, when its account was logged out, disabled, reset or deleted is never
\* accepted again: not after a reactivation either (user_repository.py:58).
RevokedStayDead == \A s \in revoked : ~Valid(s)

\* An account an admin disabled is enabled again by an admin's request only: a
\* SCIM sync that read the account before the admin acted neither resurrects it
\* nor takes over the provenance (scim_service.py:173, 207).
AdminDisableSticks ==
    [][\A u \in Users :
          (users[u].row = "live" /\ users[u].by = "admin" /\ users' # users) =>
              \/ users'[u].by = "admin" /\ ~users'[u].active
              \/ users'[u].row = "deleted"
              \/ \E p \in Procs : req[p].at = "set_active" /\ req[p].target = u /\ req'[p] = Idle]_vars

\* A user who is disabled or gone has no usable personal key: an issue or a
\* rotation that was under way when they were offboarded leaves none either
\* (user_service.py:457, service.py:221).
OffboardedKeysDead ==
    \A k \in Keys :
        LET owner == users[keys[k].created_by] IN
        keys[k].row /\ keys[k].sp = NoOne /\ ~(owner.row = "live" /\ owner.active)
            => keys[k].revoked = "yes"

\* A key issued to a service principal never outlives it as a personal key of
\* the human who minted it (repository.py:193 detaches the keys it revokes).
DetachedKeysDead ==
    \A k \in Keys : keys[k].issued_to = "sp" /\ keys[k].sp = NoOne => keys[k].revoked = "yes"

\* However many rotations of one key race, with revocations in between, at
\* most one replacement is ever issued for it (service.py:229).
OneReplacement ==
    \A j, k \in Keys : keys[j].replaces # NoOne /\ keys[j].replaces = keys[k].replaces => j = k

\* A key is admitted only while it is unrevoked and its owner or principal is
\* in force, even when that changed after the key was read (service.py:185).
AdmittedWhileGood == admitted.good

\* An account whose failures reached the threshold is about to be locked by the
\* request that saw the count: no interleaving of failures, logins and unlocks
\* leaves the threshold crossed and nobody locking (user_service.py:333).
ThresholdLocks ==
    \A u \in Users : Live(u) /\ users[u].failed >= MAX_FAILED_LOGINS
        => \E p \in Procs : req[p].at = "lock" /\ req[p].user = u

\* A reset token changes a password at most once, however many redemptions of
\* it run concurrently (password_reset_repository.py:39).
ResetOnce == \A t \in Tokens : changes[t] <= 1

\* No race of admins, logins, resets and unlocks leaves the platform without an
\* admin, an account unlocked past the threshold, or a reset token used twice
\* (user_service.py:141, 333; password_reset_repository.py:39).
AccountsGuarded == TypeOK /\ AdminRemains /\ ThresholdLocks /\ ResetOnce

\* What was revoked, replaced or offboarded stays dead, tokens and keys alike,
\* whatever issue, rotation or login was under way (service.py:185, 208;
\* user_repository.py:58; repository.py:193).
CredentialsDie ==
    RevokedStayDead /\ OffboardedKeysDead /\ DetachedKeysDead /\ OneReplacement /\ AdmittedWhileGood
=============================================================================

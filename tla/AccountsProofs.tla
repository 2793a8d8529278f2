--------------------------- MODULE AccountsProofs ---------------------------
(***************************************************************************)
(* Proofs about accounts, sessions and API keys: for any number of         *)
(* accounts, keys, principals, reset tokens and concurrent requests, what  *)
(* was revoked stays dead, the platform keeps an admin, and an account an  *)
(* admin disabled stays disabled.                                          *)
(***************************************************************************)
EXTENDS Accounts, TLAPS

-----------------------------------------------------------------------------
(* The invariant.                                                          *)

RequestPlaces ==
    {"idle", "bootstrap", "redeem", "login", "failed", "lock", "sso_create", "sso_bind",
     "sso_bound", "sso_token", "scim", "scim_identity", "scim_moved", "issue", "rotate", "revoke", "auth"} \cup AdminOps

RequestType ==
    [at : RequestPlaces, user : Users \cup {NoOne}, target : Users \cup SPs \cup {NoOne},
     flag : BOOLEAN, row : User, sub : Subjects \cup {NoOne},
     key : Keys \cup Tokens \cup {NoOne}, email : Emails \cup {NoOne}]

ResetType == [user : Users \cup {NoOne}, state : {"absent", "open", "used", "expired", "gone"}]

\* An account an admin disabled is not active.
UsersOK ==
    /\ users \in [Users -> User]
    /\ \A u \in Users : users[u].by = "admin" => ~users[u].active
    /\ clobbered \subseteq Users

TokenType == [user : Users, tv : 0..MaxTokenVersion]

\* A token carries a version its account has had.
Dated(u, tv) == users[u].row = "deleted" \/ (users[u].row = "live" /\ tv <= users[u].tv)

\* A revoked one carries a version its account has left behind.
Outdated(u, tv) == users[u].row = "deleted" \/ (users[u].row = "live" /\ tv < users[u].tv)

SessionsOK ==
    /\ sessions \subseteq TokenType /\ revoked \subseteq TokenType
    /\ \A s \in sessions : Dated(s.user, s.tv)
    /\ \A s \in revoked : Outdated(s.user, s.tv)

\* A reset token that can be redeemed has changed nothing, and is of a live account.
ResetsOK ==
    /\ resets \in [Tokens -> ResetType] /\ changes \in [Tokens -> Nat]
    /\ \A t \in Tokens :
         /\ changes[t] = 0 \/ (changes[t] = 1 /\ resets[t].state \in {"used", "gone"})
         /\ resets[t].state \in {"open", "expired"} => Live(resets[t].user)

\* A key that has a replacement is in its grace window or revoked.
KeysOK ==
    /\ keys \in [Keys -> APIKey]
    /\ sps \in [SPs -> {"absent", "enabled", "disabled", "deleted"}]
    /\ \A k \in Keys :
         /\ keys[k].row => keys[k].created_by \in Users
         /\ keys[k].replaces # NoOne => keys[keys[k].replaces].row /\ keys[keys[k].replaces].revoked # "no"
    /\ OneReplacement /\ DetachedKeysDead

\* What a request relies on of what it read.
ReqOK(r) ==
    /\ r.at \in AdminOps \cup {"scim", "scim_identity", "scim_moved"} => r.target \in Users
    /\ r.at = "scim_identity" => r.email \in Emails
    /\ r.at = "redeem" =>
         /\ r.key \in Tokens /\ r.target \in Users
         /\ resets[r.key].user = r.target /\ resets[r.key].state # "absent"
    /\ r.at \in {"login", "failed", "lock", "sso_bind", "sso_bound", "sso_token", "issue", "rotate"} => r.user \in Users
    /\ r.at \in {"login", "sso_token"} => Dated(r.user, r.row.tv)
    /\ r.at \in {"sso_create", "sso_bind"} => r.sub \in Subjects
    /\ r.at = "sso_create" => r.email \in Emails /\ Bootstrapped
    /\ r.at \in {"issue", "rotate"} => r.target \in SPs \cup {NoOne}
    /\ r.at \in {"rotate", "revoke", "auth"} => r.key \in Keys /\ keys[r.key].row

RequestsOK ==
    /\ req \in [Procs -> RequestType]
    /\ \A p \in Procs : ReqOK(req[p])

AccountsInv ==
    /\ UsersOK /\ SessionsOK /\ ResetsOK /\ KeysOK /\ RequestsOK
    /\ AdminRemains /\ ThresholdLocks /\ OffboardedKeysDead /\ AdmittedWhileGood

-----------------------------------------------------------------------------
(* Rows.                                                                   *)

\* A fresh id is one that is not in use.
LEMMA OneOfIsOne ==
  ASSUME NEW S, NEW x \in OneOf(S)
  PROVE  x \in S
BY DEF OneOf

\* Rows and requests start typed.
LEMMA StartTypes == Absent \in User /\ NoKey \in APIKey /\ Idle \in RequestType
<1>1. Absent \in User BY AccountsAssumption DEF Absent, User, Locks
<1>2. NoKey \in APIKey BY DEF NoKey, APIKey
<1>3. Idle \in RequestType BY <1>1 DEF Idle, RequestType, RequestPlaces
<1> QED BY <1>1, <1>2, <1>3

\* Before anything has happened every part of the invariant holds.
LEMMA AccountsInitInv == Init => AccountsInv
<1> SUFFICES ASSUME Init PROVE AccountsInv OBVIOUS
<1>1. UsersOK BY StartTypes DEF Init, UsersOK, Absent
<1>2. SessionsOK BY DEF Init, SessionsOK
<1>3. ResetsOK BY DEF Init, ResetsOK, ResetType
<1>4. KeysOK BY StartTypes DEF Init, KeysOK, OneReplacement, DetachedKeysDead, NoKey
<1>5. RequestsOK BY StartTypes DEF Init, RequestsOK, ReqOK, Idle, AdminOps
<1>6. AdminRemains BY DEF Init, AdminRemains, Bootstrapped, Absent
<1>7. ThresholdLocks BY DEF Init, ThresholdLocks, Live, Absent
<1>8. OffboardedKeysDead /\ AdmittedWhileGood BY DEF Init, OffboardedKeysDead, AdmittedWhileGood, NoKey
<1> QED BY <1>1, <1>2, <1>3, <1>4, <1>5, <1>6, <1>7, <1>8 DEF AccountsInv

-----------------------------------------------------------------------------
(* What a step may write to an account.                                    *)

OtherAdmin(u) == \E v \in Users : v # u /\ Live(v) /\ users[v].admin /\ users[v].active

\* A first row is an active admin's.
RowAdded(u, b) ==
    /\ users[u].row = "absent" /\ users' = [users EXCEPT ![u] = b] /\ UNCHANGED keys
    /\ b \in User /\ b.row = "live" /\ b.by = "none" /\ b.failed = 0
    /\ Bootstrapped \/ (b.admin /\ b.active)

\* Whoever raises the failures to the threshold is going to lock the account.
FailuresKept(u, b) ==
    \/ b.failed <= users[u].failed \/ b.failed < MAX_FAILED_LOGINS
    \/ \E p \in Procs : req'[p].at = "lock" /\ req'[p].user = u

\* An edit leaves the switch alone, keeps the token version or raises it, and
\* demotes only beside another admin or over a stale read.
RowEdited(u, b) ==
    /\ Live(u) /\ users' = [users EXCEPT ![u] = b] /\ UNCHANGED keys
    /\ b \in User /\ b.row = "live" /\ b.by = users[u].by /\ b.active = users[u].active
    /\ b.tv >= users[u].tv
    /\ b.admin \/ ~users[u].admin \/ clobbered' # {} \/ OtherAdmin(u)
    /\ FailuresKept(u, b)

\* A switch: SCIM's never of an account an admin disabled, nobody's of the
\* last admin.
RowSwitched(u, flag, by) ==
    /\ Live(u) /\ set_active(u, flag, by) /\ (flag \/ CanBump(u))
    /\ IF flag THEN UNCHANGED keys ELSE revoke_personal_keys_for_user(u)
    /\ flag \/ ~users[u].admin \/ OtherAdmin(u)
    /\ \/ by = "scim" /\ users[u].by # "admin"
       \/ by = "admin" /\ \E p \in Procs : req[p].at = "set_active" /\ req[p].target = u /\ req'[p] = Idle

RowDeleted(u) ==
    /\ Live(u) /\ OtherAdmin(u) /\ users' = [users EXCEPT ![u] = [Absent EXCEPT !.row = "deleted"]]
    /\ \A k \in Keys : keys[k].row => keys[k].created_by # u
    /\ UNCHANGED <<keys, changes>>
    /\ resets' = [t \in Tokens |-> IF resets[t].user = u THEN [resets[t] EXCEPT !.state = "gone"] ELSE resets[t]]

UserWrite ==
    \/ UNCHANGED users
    \/ \E u \in Users : \/ \E b \in User : RowAdded(u, b) \/ RowEdited(u, b)
                        \/ \E flag \in BOOLEAN, by \in {"admin", "scim"} : RowSwitched(u, flag, by)
                        \/ RowDeleted(u)

\* The rows that the bootstrap, a login through the identity provider and SCIM add.
LEMMA AddWrites ==
  ASSUME AccountsInv,
         create_scim_user \/ \E p \in Procs : ensure_admin_add(p) \/ _resolve_or_create_sso_user(p)
  PROVE  UserWrite
<1> USE StartTypes
<1>1. ASSUME NEW u \in NewId PROVE u \in Users /\ users[u].row = "absent" BY <1>1, OneOfIsOne DEF NewId
<1>2. ASSUME NEW p \in Procs, ensure_admin_add(p) PROVE UserWrite
  <2>1. CASE UNCHANGED users BY <2>1 DEF UserWrite
  <2>2. CASE ~UNCHANGED users
    <3> DEFINE b == [Absent EXCEPT !.row = "live", !.email = AdminEmail, !.admin = TRUE, !.known = TRUE]
    <3>1. PICK u \in NewId : users' = [users EXCEPT ![u] = b] BY <1>2, <2>2 DEF ensure_admin_add, Added
    <3>2. b \in User BY AccountsAssumption DEF User
    <3>3. b.row = "live" /\ b.by = "none" /\ b.failed = 0 /\ b.admin /\ b.active BY DEF Absent
    <3>4. UNCHANGED keys BY <1>2 DEF ensure_admin_add
    <3> HIDE DEF b
    <3>5. RowAdded(u, b) BY <1>1, <3>1, <3>2, <3>3, <3>4 DEF RowAdded
    <3> QED BY <1>1, <3>2, <3>5 DEF UserWrite
  <2> QED BY <2>1, <2>2
<1>3. ASSUME NEW p \in Procs, _resolve_or_create_sso_user(p) PROVE UserWrite
  <2>1. CASE UNCHANGED users BY <2>1 DEF UserWrite
  <2>2. CASE ~UNCHANGED users
    <3> DEFINE r == req[p]
               b == [Absent EXCEPT !.row = "live", !.email = r.email, !.sub = r.sub, !.admin = r.flag \/ DefaultAdmin]
    <3>1. PICK u \in NewId : users' = [users EXCEPT ![u] = b] BY <1>3, <2>2 DEF _resolve_or_create_sso_user, Added
    <3>2. r \in RequestType /\ ReqOK(r) /\ r.at = "sso_create" BY <1>3 DEF AccountsInv, RequestsOK, _resolve_or_create_sso_user
    <3>3. r.email \in Emails /\ r.sub \in Subjects /\ r.flag \in BOOLEAN /\ Bootstrapped BY <3>2 DEF RequestType, ReqOK
    <3>4. (r.flag \/ DefaultAdmin) \in BOOLEAN BY <3>3, AccountsAssumption
    <3> HIDE DEF r
    <3>5. b \in User BY <3>3, <3>4 DEF User
    <3>6. b.row = "live" /\ b.by = "none" /\ b.failed = 0 BY DEF Absent
    <3>7. UNCHANGED keys BY <1>3 DEF _resolve_or_create_sso_user
    <3> HIDE DEF b
    <3>8. RowAdded(u, b) BY <1>1, <3>1, <3>3, <3>5, <3>6, <3>7 DEF RowAdded
    <3> QED BY <1>1, <3>5, <3>8 DEF UserWrite
  <2> QED BY <2>1, <2>2
<1>4. CASE create_scim_user
  <2>1. PICK e \in Emails, active \in BOOLEAN, u \in NewId :
            /\ Bootstrapped /\ users' = [users EXCEPT ![u] = [Absent EXCEPT !.row = "live", !.email = e, !.active = active]]
            /\ UNCHANGED keys
    BY <1>4 DEF create_scim_user, Added
  <2> DEFINE b == [Absent EXCEPT !.row = "live", !.email = e, !.active = active]
  <2>2. b \in User BY DEF User
  <2>3. b.row = "live" /\ b.by = "none" /\ b.failed = 0 BY DEF Absent
  <2>4. users' = [users EXCEPT ![u] = b] BY <2>1
  <2> HIDE DEF b
  <2>5. RowAdded(u, b) BY <1>1, <2>1, <2>2, <2>3, <2>4 DEF RowAdded
  <2> QED BY <1>1, <2>2, <2>5 DEF UserWrite
<1> QED BY <1>2, <1>3, <1>4

\* The edits: flags, failures and locks, token versions, emails and subjects.
LEMMA EditWrites ==
  ASSUME AccountsInv,
         \/ logout \/ \E u \in Users : LockPasses(u)
         \/ \E p \in Procs :
              \/ set_user_admin(p) \/ unlock_user(p) \/ reset_password(p) \/ finish_login(p)
              \/ register_failed_login(p) \/ set_login_lock(p) \/ bind_sso(p) \/ update_scim_identity(p)
  PROVE  UserWrite
<1>0. users \in [Users -> User] /\ sessions \subseteq TokenType BY DEF AccountsInv, UsersOK, SessionsOK
<1>1. ASSUME NEW u \in Users, NEW b, Live(u), users' = [users EXCEPT ![u] = b], UNCHANGED keys,
             b \in User, b.row = "live", b.by = users[u].by, b.active = users[u].active, b.tv >= users[u].tv,
             b.admin \/ ~users[u].admin \/ clobbered' # {} \/ OtherAdmin(u), FailuresKept(u, b)
      PROVE  UserWrite
  <2>1. RowEdited(u, b) BY <1>1 DEF RowEdited
  <2> QED BY <1>1, <2>1 DEF UserWrite
<1>2. \A p \in Procs : req[p] \in RequestType /\ ReqOK(req[p]) BY DEF AccountsInv, RequestsOK
<1>3. ASSUME NEW u \in Users, Live(u) PROVE users[u] \in User /\ users[u].row = "live" /\ users[u].tv \in 0..MaxTokenVersion /\ users[u].failed \in Nat /\ users[u].cycles \in 0..MaxCycles
  BY <1>0, <1>3 DEF Live, User
<1>4. ASSUME NEW a \in User
      PROVE  /\ clear_login_failures(a) \in User
             /\ LET b == clear_login_failures(a)
                IN b.row = a.row /\ b.by = a.by /\ b.active = a.active /\ b.tv = a.tv /\ b.admin = a.admin /\ b.failed = 0
  <2> DEFINE b == clear_login_failures(a)
  <2>1. 0 \in Nat /\ 0 \in 0..MaxCycles /\ "none" \in Locks BY AccountsAssumption DEF Locks
  <2>2. b.row = a.row /\ b.by = a.by /\ b.active = a.active /\ b.tv = a.tv /\ b.admin = a.admin /\ b.failed = 0 BY DEF clear_login_failures, User
  <2>3. b \in User BY <2>1 DEF clear_login_failures, User
  <2> QED BY <2>2, <2>3
<1>5. ASSUME NEW a \in User, a.tv < MaxTokenVersion
      PROVE  /\ Bump(a) \in User
             /\ LET b == Bump(a)
                IN b.row = a.row /\ b.by = a.by /\ b.active = a.active /\ b.tv = a.tv + 1 /\ b.admin = a.admin /\ b.failed = a.failed
  BY <1>5, AccountsAssumption DEF Bump, User
<1>6. CASE logout
  <2>1. PICK z \in sessions : Valid(z) /\ CanBump(z.user) /\ users' = [users EXCEPT ![z.user] = Bump(@)] /\ UNCHANGED keys
    BY <1>6 DEF logout
  <2>2. z.user \in Users /\ Live(z.user) BY <1>0, <2>1 DEF TokenType, Valid
  <2>3. users[z.user] \in User /\ users[z.user].row = "live" /\ users[z.user].tv \in Nat BY <1>3, <2>2
  <2>4. users[z.user].tv < MaxTokenVersion BY <2>1 DEF CanBump
  <2> DEFINE b == Bump(users[z.user])
  <2>5. b \in User /\ b.row = "live" /\ b.by = users[z.user].by /\ b.active = users[z.user].active
         /\ b.tv >= users[z.user].tv /\ b.admin = users[z.user].admin BY <1>5, <2>3, <2>4
  <2>6. users' = [users EXCEPT ![z.user] = b] BY <2>1
  <2>7. b.admin \/ ~users[z.user].admin BY <2>5
  <2>number. users[z.user].failed \in Nat BY <2>3 DEF User
  <2>failures. b.failed = users[z.user].failed BY <1>5, <2>3, <2>4
  <2>kept. FailuresKept(z.user, b) BY <2>number, <2>failures DEF FailuresKept
  <2> HIDE DEF b
  <2> QED BY <1>1, <2>1, <2>2, <2>5, <2>6, <2>7, <2>kept
<1>7. ASSUME NEW u \in Users, LockPasses(u) PROVE UserWrite
  <2> DEFINE b == [users[u] EXCEPT !.lock = IF @ = "locked" THEN "expired" ELSE "decayed"]
  <2>1. Live(u) /\ users[u] \in User /\ users[u].row = "live" /\ users[u].tv \in Nat BY <1>3, <1>7 DEF LockPasses
  <2>2. b \in User /\ b.row = "live" /\ b.by = users[u].by /\ b.active = users[u].active
         /\ b.tv >= users[u].tv /\ b.admin = users[u].admin BY <2>1 DEF User, Locks
  <2>3. users' = [users EXCEPT ![u] = b] /\ UNCHANGED keys BY <1>7 DEF LockPasses
  <2>4. b.admin \/ ~users[u].admin BY <2>2
  <2>number. users[u].failed \in Nat BY <2>1 DEF User
  <2>failures. b.failed = users[u].failed BY <2>1 DEF User
  <2>kept. FailuresKept(u, b) BY <2>number, <2>failures DEF FailuresKept
  <2> HIDE DEF b
  <2> QED BY <1>1, <2>1, <2>2, <2>3, <2>4, <2>kept
<1>8. ASSUME NEW p \in Procs, set_user_admin(p) PROVE UserWrite
  <2> DEFINE r == req[p]  u == r.target  b == [users[u] EXCEPT !.admin = r.flag]
  <2>1. CASE UNCHANGED users BY <2>1 DEF UserWrite
  <2>2. CASE ~UNCHANGED users
    <3>1. r.user # u /\ _lock_and_require_live_admin(r.user) /\ Live(u) /\ users' = [users EXCEPT ![u] = b] /\ UNCHANGED keys
      BY <1>8, <2>2 DEF set_user_admin
    <3>2. u \in Users /\ r.flag \in BOOLEAN BY <1>2, <3>1 DEF Live, RequestType
    <3>3. users[u] \in User /\ users[u].row = "live" /\ users[u].tv \in Nat BY <1>3, <3>1, <3>2
    <3>4. OtherAdmin(u) BY <3>1 DEF OtherAdmin, _lock_and_require_live_admin, Live
    <3>5. b \in User /\ b.row = "live" /\ b.by = users[u].by /\ b.active = users[u].active /\ b.tv >= users[u].tv
      BY <3>2, <3>3 DEF User
    <3>number. users[u].failed \in Nat BY <3>3 DEF User
    <3>failures. b.failed = users[u].failed BY <3>3 DEF User
    <3>kept. FailuresKept(u, b) BY <3>number, <3>failures DEF FailuresKept
    <3> HIDE DEF b, u
    <3> QED BY <1>1, <3>1, <3>2, <3>4, <3>5, <3>kept
  <2> QED BY <2>1, <2>2
<1>9. ASSUME NEW p \in Procs, unlock_user(p) \/ finish_login(p) PROVE UserWrite
  <2> DEFINE u == IF unlock_user(p) THEN req[p].target ELSE req[p].user
             b == clear_login_failures(users[u])
  <2>1. CASE UNCHANGED users BY <2>1 DEF UserWrite
  <2>2. CASE ~UNCHANGED users
    <3>1. Live(u) /\ users' = [users EXCEPT ![u] = b] /\ UNCHANGED keys BY <1>9, <2>2 DEF unlock_user, finish_login
    <3> HIDE DEF u
    <3>2. u \in Users BY <3>1 DEF Live
    <3>3. users[u] \in User /\ users[u].row = "live" /\ users[u].tv \in Nat BY <1>3, <3>1, <3>2
    <3>4. b \in User /\ b.row = "live" /\ b.by = users[u].by /\ b.active = users[u].active
           /\ b.tv >= users[u].tv /\ b.admin = users[u].admin BY <1>4, <3>3
    <3>5. b.admin \/ ~users[u].admin BY <3>4
    <3>number. users[u].failed \in Nat BY <3>3 DEF User
    <3>failures. b.failed = 0 BY <1>4, <3>3
    <3>kept. FailuresKept(u, b) BY <3>number, <3>failures DEF FailuresKept
    <3> HIDE DEF b
    <3> QED BY <1>1, <3>1, <3>2, <3>4, <3>5, <3>kept
  <2> QED BY <2>1, <2>2
<1>10. ASSUME NEW p \in Procs, reset_password(p) PROVE UserWrite
  <2> DEFINE r == req[p]  u == r.target  a == [users[u] EXCEPT !.known = TRUE]  b == Bump(a)
  <2>1. CASE UNCHANGED users BY <2>1 DEF UserWrite
  <2>2. CASE ~UNCHANGED users
    <3>1. mark_used(r.key) /\ CanBump(u) /\ users' = [users EXCEPT ![u] = b] /\ UNCHANGED keys /\ r.at = "redeem"
      BY <1>10, <2>2 DEF reset_password
    <3>2. u \in Users /\ r.key \in Tokens /\ resets[r.key].user = u BY <1>2, <3>1 DEF ReqOK
    <3>3. Live(u) BY <3>1, <3>2 DEF mark_used, AccountsInv, ResetsOK
    <3>4. users[u] \in User /\ users[u].row = "live" /\ users[u].tv \in Nat BY <1>3, <3>2, <3>3
    <3>5. a \in User /\ a.row = "live" /\ a.by = users[u].by /\ a.active = users[u].active /\ a.tv = users[u].tv /\ a.admin = users[u].admin /\ a.failed = users[u].failed
      BY <3>4 DEF User
    <3>6. a.tv < MaxTokenVersion BY <3>1, <3>5 DEF CanBump
    <3> HIDE DEF a
    <3>7. b \in User /\ b.row = "live" /\ b.by = users[u].by /\ b.active = users[u].active
           /\ b.tv >= users[u].tv /\ b.admin = users[u].admin BY <1>5, <3>4, <3>5, <3>6
    <3>8. b.admin \/ ~users[u].admin BY <3>7
    <3>number. users[u].failed \in Nat BY <3>4 DEF User
    <3>failures. b.failed = users[u].failed BY <1>5, <3>5, <3>6
    <3>kept. FailuresKept(u, b) BY <3>number, <3>failures DEF FailuresKept
    <3> HIDE DEF b, u
    <3> QED BY <1>1, <3>1, <3>2, <3>3, <3>7, <3>8, <3>kept
  <2> QED BY <2>1, <2>2
<1>11. ASSUME NEW p \in Procs, register_failed_login(p) PROVE UserWrite
  <2> DEFINE u == req[p].user  b == [users[u] EXCEPT !.failed = users[u].failed + 1]
  <2>1. CASE UNCHANGED users BY <2>1 DEF UserWrite
  <2>2. CASE ~UNCHANGED users
    <3>1. Live(u) /\ users' = [users EXCEPT ![u] = b] /\ UNCHANGED keys BY <1>11, <2>2 DEF register_failed_login
    <3>2. u \in Users BY <3>1 DEF Live
    <3> HIDE DEF u
    <3>3. users[u] \in User /\ users[u].row = "live" /\ users[u].tv \in Nat /\ users[u].failed \in Nat BY <1>3, <3>1, <3>2
    <3>4. b \in User /\ b.row = "live" /\ b.by = users[u].by /\ b.active = users[u].active
           /\ b.tv >= users[u].tv /\ b.admin = users[u].admin BY <3>3 DEF User
    <3>5. b.admin \/ ~users[u].admin BY <3>4
    <3>number. users[u].failed \in Nat BY <3>3 DEF User
    <3>failures. b.failed = users[u].failed + 1 BY <3>3 DEF User
    <3>kept. FailuresKept(u, b)
      <4>1. CASE b.failed < MAX_FAILED_LOGINS BY <4>1 DEF FailuresKept
      <4>2. CASE b.failed >= MAX_FAILED_LOGINS
        <5>1. req' = [req EXCEPT ![p] = [req[p] EXCEPT !.at = "lock"]]
          BY <1>11, <3>1, <3>failures, <4>2 DEF register_failed_login, u
        <5>2. req'[p].at = "lock" /\ req'[p].user = u BY <1>2, <5>1 DEF u, AccountsInv, RequestsOK, RequestType
        <5> QED BY <5>2 DEF FailuresKept
      <4> QED BY <3>number, <3>failures, <4>1, <4>2, AccountsAssumption
    <3> HIDE DEF b
    <3> QED BY <1>1, <3>1, <3>2, <3>4, <3>5, <3>kept
  <2> QED BY <2>1, <2>2
<1>12. ASSUME NEW p \in Procs, set_login_lock(p) PROVE UserWrite
  <2> DEFINE u == req[p].user
             c == IF req[p].row.lock = "decayed" THEN 1 ELSE Min_(users[u].cycles + 1, MaxCycles)
             b == [users[u] EXCEPT !.lock = "locked", !.failed = 0, !.cycles = c]
  <2>1. CASE UNCHANGED users BY <2>1 DEF UserWrite
  <2>2. CASE ~UNCHANGED users
    <3>1. Live(u) /\ users' = [users EXCEPT ![u] = b] /\ UNCHANGED keys BY <1>12, <2>2 DEF set_login_lock
    <3>2. u \in Users BY <3>1 DEF Live
    <3>3. users[u] \in User /\ users[u].row = "live" /\ users[u].tv \in Nat /\ users[u].cycles \in 0..MaxCycles BY <1>3, <3>1, <3>2
    <3>4. c \in 0..MaxCycles BY <3>3, AccountsAssumption DEF Min_
    <3> HIDE DEF u, c
    <3>5. b.row = "live" /\ b.by = users[u].by /\ b.active = users[u].active
           /\ b.tv >= users[u].tv /\ b.admin = users[u].admin BY <3>3 DEF User
    <3>6. "locked" \in Locks /\ 0 \in Nat BY DEF Locks
    <3>7. b \in User BY <3>3, <3>4, <3>6 DEF User
    <3>8. b.admin \/ ~users[u].admin BY <3>5
    <3>number. users[u].failed \in Nat BY <3>3 DEF User
    <3>failures. b.failed = 0 BY <3>3 DEF User
    <3>kept. FailuresKept(u, b) BY <3>number, <3>failures DEF FailuresKept
    <3> HIDE DEF b
    <3> QED BY <1>1, <3>1, <3>2, <3>5, <3>7, <3>8, <3>kept
  <2> QED BY <2>1, <2>2
<1>13. ASSUME NEW p \in Procs, bind_sso(p) PROVE UserWrite
  <2> DEFINE r == req[p]  u == r.user  adm == r.row.admin \/ r.flag  b == [users[u] EXCEPT !.sub = r.sub, !.admin = adm]
  <2>1. CASE UNCHANGED users BY <2>1 DEF UserWrite
  <2>2. CASE ~UNCHANGED users
    <3>1. Live(u) /\ users' = [users EXCEPT ![u] = b] /\ UNCHANGED keys /\ r.at = "sso_bind"
          /\ (users[u].admin # r.row.admin => u \in clobbered') BY <1>13, <2>2 DEF bind_sso
    <3>2. u \in Users /\ r.sub \in Subjects /\ r.flag \in BOOLEAN /\ r.row.admin \in BOOLEAN BY <1>2, <3>1 DEF ReqOK, RequestType, User
    <3>3. adm \in BOOLEAN BY <3>2
    <3>4. users[u] \in User /\ users[u].row = "live" /\ users[u].tv \in Nat BY <1>3, <3>1, <3>2
    <3>5. adm \/ ~users[u].admin \/ clobbered' # {} BY <3>1, <3>2
    <3> HIDE DEF adm
    <3> HIDE DEF u
    <3>6. b.row = "live" /\ b.by = users[u].by /\ b.active = users[u].active
           /\ b.tv >= users[u].tv /\ b.admin = adm BY <3>4 DEF User
    <3>7. b \in User BY <3>2, <3>3, <3>4 DEF User
    <3>8. b.admin \/ ~users[u].admin \/ clobbered' # {} BY <3>5, <3>6
    <3>number. users[u].failed \in Nat BY <3>4 DEF User
    <3>failures. b.failed = users[u].failed BY <3>4 DEF User
    <3>kept. FailuresKept(u, b) BY <3>number, <3>failures DEF FailuresKept
    <3> HIDE DEF b
    <3> QED BY <1>1, <3>1, <3>2, <3>6, <3>7, <3>8, <3>kept
  <2> QED BY <2>1, <2>2
<1>14. ASSUME NEW p \in Procs, update_scim_identity(p) PROVE UserWrite
  <2> DEFINE u == req[p].target  e == req[p].email  b == [users[u] EXCEPT !.email = e]
  <2>1. CASE UNCHANGED users BY <2>1 DEF UserWrite
  <2>2. CASE ~UNCHANGED users
    <3>1. Live(u) /\ users' = [users EXCEPT ![u].email = e] /\ UNCHANGED keys /\ req[p].at = "scim_identity"
      BY <1>14, <2>2 DEF update_scim_identity
    <3>2. u \in Users /\ e \in Emails BY <3>1 DEF AccountsInv, RequestsOK, ReqOK, Live
    <3>3. users[u] \in User /\ users[u].row = "live" /\ users[u].tv \in Nat BY <1>3, <3>1, <3>2
    <3> HIDE DEF u, e
    <3>4. b \in User /\ b.row = "live" /\ b.by = users[u].by /\ b.active = users[u].active
           /\ b.tv >= users[u].tv /\ b.admin = users[u].admin BY <3>2, <3>3 DEF User
    <3>5. b.admin \/ ~users[u].admin BY <3>3, <3>4 DEF User
    <3>6. users' = [users EXCEPT ![u] = b] BY <3>1
    <3>number. users[u].failed \in Nat BY <3>3 DEF User
    <3>failures. b.failed = users[u].failed BY <3>3 DEF User
    <3>kept. FailuresKept(u, b) BY <3>number, <3>failures DEF FailuresKept
    <3> HIDE DEF b
    <3> QED BY <1>1, <3>1, <3>2, <3>4, <3>5, <3>6, <3>kept
  <2> QED BY <2>1, <2>2
<1> QED BY <1>6, <1>7, <1>8, <1>9, <1>10, <1>11, <1>12, <1>13, <1>14

\* The switch of a row: the version goes up as it goes off.
LEMMA SwitchedRow ==
  ASSUME NEW u \in Users, users \in [Users -> User], NEW flag \in BOOLEAN, NEW by \in {"admin", "scim"},
         set_active(u, flag, by), flag \/ CanBump(u)
  PROVE  /\ users' \in [Users -> User] /\ \A v \in Users \ {u} : users'[v] = users[v]
         /\ users'[u].row = users[u].row /\ users'[u].admin = users[u].admin /\ users'[u].active = flag
         /\ users'[u].failed = users[u].failed
         /\ users'[u].by = IF flag THEN "none" ELSE by
         /\ users'[u].tv = IF flag THEN users[u].tv ELSE users[u].tv + 1
<1>1. users[u] \in User /\ users[u].tv \in 0..MaxTokenVersion BY DEF User
<1>2. CASE flag
  <2> DEFINE b == [users[u] EXCEPT !.active = TRUE, !.by = "none"]
  <2>1. users' = [users EXCEPT ![u] = b] BY <1>2 DEF set_active
  <2>2. b \in User BY <1>1 DEF User
  <2>3. b.row = users[u].row /\ b.admin = users[u].admin /\ b.active = TRUE /\ b.by = "none" /\ b.tv = users[u].tv /\ b.failed = users[u].failed
    BY <1>1 DEF User
  <2> HIDE DEF b
  <2> QED BY <1>2, <2>1, <2>2, <2>3
<1>3. CASE ~flag
  <2> DEFINE a == [users[u] EXCEPT !.active = FALSE, !.by = by]  b == Bump(a)
  <2>1. users' = [users EXCEPT ![u] = b] BY <1>3 DEF set_active
  <2>2. a \in User BY <1>1 DEF User
  <2>3. a.row = users[u].row /\ a.admin = users[u].admin /\ a.active = FALSE /\ a.by = by /\ a.tv = users[u].tv /\ a.failed = users[u].failed
    BY <1>1 DEF User
  <2>4. a.tv < MaxTokenVersion BY <1>3, <2>3 DEF CanBump
  <2> HIDE DEF a
  <2>5. a.tv + 1 \in 0..MaxTokenVersion BY <1>1, <2>3, <2>4, AccountsAssumption
  <2>6. b \in User BY <2>2, <2>5 DEF User, Bump
  <2>7. b.row = a.row /\ b.admin = a.admin /\ b.active = a.active /\ b.by = a.by /\ b.tv = a.tv + 1 /\ b.failed = a.failed
    BY <2>2 DEF User, Bump
  <2> HIDE DEF b
  <2>8. users'[u] = b /\ users' \in [Users -> User] /\ \A v \in Users \ {u} : users'[v] = users[v] BY <2>1, <2>6
  <2>9. users'[u].active = flag BY <1>3, <2>3, <2>7, <2>8, Zenon
  <2> QED BY <1>3, <2>3, <2>7, <2>8, <2>9
<1> QED BY <1>2, <1>3

\* Every step writes to one account at most, in one of these ways.
LEMMA UserWrites ==
  ASSUME AccountsInv, [Next]_vars
  PROVE  UserWrite
<1>0. \A p \in Procs : req[p] \in RequestType /\ ReqOK(req[p]) BY DEF AccountsInv, RequestsOK
<1>1. users \in [Users -> User] /\ \A u \in Users : users[u].by = "admin" => ~users[u].active BY DEF AccountsInv, UsersOK
<1>2. ASSUME NEW p \in Procs, set_user_active(p) PROVE UserWrite
  <2> DEFINE r == req[p]  u == r.target
  <2>1. CASE UNCHANGED users BY <2>1 DEF UserWrite
  <2>2. CASE ~UNCHANGED users
    <3>1. /\ r.at = "set_active" /\ r.user # u /\ _lock_and_require_live_admin(r.user) /\ Live(u)
          /\ r.flag \/ CanBump(u)
          /\ set_active(u, r.flag, "admin")
          /\ IF r.flag THEN UNCHANGED keys ELSE revoke_personal_keys_for_user(u)
          /\ req' = [req EXCEPT ![p] = Idle]
      BY <1>2, <2>2 DEF set_user_active, Finish
    <3>2. u \in Users /\ r.flag \in BOOLEAN BY <1>0, <3>1 DEF Live, RequestType
    <3>3. OtherAdmin(u) BY <3>1 DEF OtherAdmin, _lock_and_require_live_admin, Live
    <3>4. req'[p] = Idle BY <3>1 DEF AccountsInv, RequestsOK
    <3>5. RowSwitched(u, r.flag, "admin") BY <3>1, <3>3, <3>4 DEF RowSwitched
    <3> QED BY <3>2, <3>5 DEF UserWrite
  <2> QED BY <2>1, <2>2
<1>3. ASSUME NEW p \in Procs, update_user_active(p) PROVE UserWrite
  <2> DEFINE r == req[p]  u == r.target
  <2>1. CASE UNCHANGED users BY <2>1 DEF UserWrite
  <2>2. CASE ~UNCHANGED users
    <3>1. /\ Live(u) /\ ScimMay(users[u], r.flag) /\ users[u].active # r.flag
          /\ r.flag \/ CanBump(u)
          /\ set_active(u, r.flag, "scim")
          /\ IF r.flag THEN UNCHANGED keys ELSE revoke_personal_keys_for_user(u)
      BY <1>3, <2>2 DEF update_user_active
    <3>2. u \in Users /\ r.flag \in BOOLEAN BY <1>0, <3>1 DEF Live, RequestType
    <3>3. users[u].active \in BOOLEAN /\ users[u].admin \in BOOLEAN BY <1>1, <3>2 DEF User
    <3>4. r.flag \/ ~users[u].admin BY <3>1 DEF ScimMay
    <3>5. users[u].by # "admin" BY <1>1, <3>1, <3>2, <3>3, Zenon DEF ScimMay
    <3>6. RowSwitched(u, r.flag, "scim") BY <3>1, <3>4, <3>5 DEF RowSwitched
    <3> QED BY <3>2, <3>6 DEF UserWrite
  <2> QED BY <2>1, <2>2
<1>4. ASSUME NEW p \in Procs, delete_user(p) PROVE UserWrite
  <2> DEFINE r == req[p]  u == r.target
  <2>1. CASE UNCHANGED users BY <2>1 DEF UserWrite
  <2>2. CASE ~UNCHANGED users
    <3>1. /\ r.user # u /\ _lock_and_require_live_admin(r.user) /\ Live(u)
          /\ \A k \in Keys : keys[k].row => keys[k].created_by # u
          /\ users' = [users EXCEPT ![u] = [Absent EXCEPT !.row = "deleted"]]
          /\ UNCHANGED <<keys, changes>>
          /\ resets' = [t \in Tokens |-> IF resets[t].user = u THEN [resets[t] EXCEPT !.state = "gone"] ELSE resets[t]]
      BY <1>4, <2>2 DEF delete_user
    <3>2. u \in Users BY <3>1 DEF Live
    <3>3. OtherAdmin(u) BY <3>1 DEF OtherAdmin, _lock_and_require_live_admin, Live
    <3>4. RowDeleted(u) BY <3>1, <3>3 DEF RowDeleted
    <3> QED BY <3>2, <3>4 DEF UserWrite
  <2> QED BY <2>1, <2>2
<1>5. CASE BootstrapStep
  <2>1. ASSUME NEW p \in Procs, ensure_admin_count(p) PROVE UserWrite BY <2>1 DEF ensure_admin_count, UserWrite
  <2> QED BY <1>5, <2>1, AddWrites DEF BootstrapStep
<1>6. CASE AdminStep
  <2>1. ASSUME NEW p \in Procs, provide_current_admin(p) PROVE UserWrite BY <2>1 DEF provide_current_admin, UserWrite
  <2> QED BY <1>2, <1>4, <1>6, <2>1, EditWrites DEF AdminStep
<1>7. CASE LoginStep
  <2>1. ASSUME NEW p \in Procs, authenticate(p) PROVE UserWrite BY <2>1 DEF authenticate, UserWrite
  <2> QED BY <1>7, <2>1, EditWrites DEF LoginStep
<1>8. CASE RecoveryStep
  <2>1. ASSUME NEW p \in Procs, create_password_reset(p) \/ reset_password_read(p) PROVE UserWrite
    BY <2>1 DEF create_password_reset, reset_password_read, UserWrite
  <2>2. ASSUME NEW t \in Tokens, ResetExpires(t) PROVE UserWrite BY <2>2 DEF ResetExpires, UserWrite
  <2> QED BY <1>8, <2>1, <2>2, EditWrites DEF RecoveryStep
<1>9. CASE SsoStep
  <2>1. ASSUME NEW p \in Procs, upsert_sso_user(p) \/ bind_sso_read(p) \/ sso_callback(p) PROVE UserWrite
    BY <2>1 DEF upsert_sso_user, bind_sso_read, sso_callback, UserWrite
  <2> QED BY <1>9, <2>1, AddWrites, EditWrites DEF SsoStep
<1>10. CASE ScimStep
  <2>1. ASSUME NEW p \in Procs, update_user(p) \/ update_scim_identity_read(p) PROVE UserWrite
    BY <2>1 DEF update_user, update_scim_identity_read, UserWrite
  <2> QED BY <1>3, <1>10, <2>1, AddWrites, EditWrites DEF ScimStep
<1>11. CASE KeyStep
  BY <1>11 DEF KeyStep, create_key, issue, get_active_for_team, rotate_for_team, revoke_for_team, authenticate_key, admit,
     KeyTimePasses, create_sp, set_enabled, delete_sp, UserWrite
<1>12. CASE UNCHANGED vars BY <1>12 DEF vars, UserWrite
<1> QED BY <1>5, <1>6, <1>7, <1>8, <1>9, <1>10, <1>11, <1>12 DEF Next

\* Only a bind over a stale read is recorded, and the record is kept.
LEMMA ClobberedGrows ==
  ASSUME AccountsInv, [Next]_vars
  PROVE  clobbered \subseteq clobbered' /\ clobbered' \subseteq Users
<1>0. clobbered \subseteq Users BY DEF AccountsInv, UsersOK
<1>1. ASSUME NEW p \in Procs, bind_sso(p) PROVE clobbered \subseteq clobbered' /\ clobbered' \subseteq Users
  BY <1>0, <1>1 DEF bind_sso, Live
<1>2. ASSUME UNCHANGED clobbered PROVE clobbered \subseteq clobbered' /\ clobbered' \subseteq Users BY <1>0, <1>2
<1>3. CASE BootstrapStep BY <1>2, <1>3 DEF BootstrapStep, ensure_admin_count, ensure_admin_add
<1>4. CASE AdminStep BY <1>2, <1>4 DEF AdminStep, provide_current_admin, set_user_active, set_user_admin, delete_user
<1>5. CASE LoginStep
  BY <1>2, <1>5 DEF LoginStep, authenticate, finish_login, register_failed_login, set_login_lock, LockPasses, logout
<1>6. CASE RecoveryStep
  BY <1>2, <1>6 DEF RecoveryStep, unlock_user, create_password_reset, reset_password_read, reset_password, ResetExpires
<1>7. CASE SsoStep BY <1>1, <1>2, <1>7 DEF SsoStep, upsert_sso_user, _resolve_or_create_sso_user, bind_sso_read, sso_callback
<1>8. CASE ScimStep BY <1>2, <1>8 DEF ScimStep, create_scim_user, update_user, update_scim_identity, update_scim_identity_read, update_user_active
<1>9. CASE KeyStep
  BY <1>2, <1>9 DEF KeyStep, create_key, issue, get_active_for_team, rotate_for_team, revoke_for_team, authenticate_key, admit,
     KeyTimePasses, create_sp, set_enabled, delete_sp
<1>10. CASE UNCHANGED vars BY <1>2, <1>10 DEF vars
<1> QED BY <1>3, <1>4, <1>5, <1>6, <1>7, <1>8, <1>9, <1>10 DEF Next

\* An account is never forgotten, a deleted one never comes back, and the
\* version of a live one never falls.
Ages(u) ==
    /\ users[u].row # "absent" => users'[u].row # "absent"
    /\ users[u].row = "deleted" => users'[u].row = "deleted"
    /\ users[u].row = "live" /\ users'[u].row = "live" => users'[u].tv >= users[u].tv
    /\ users'[u].by = "admin" => ~users'[u].active

\* Accounts age, whatever writes them.
LEMMA AccountsAge ==
  ASSUME AccountsInv, UserWrite
  PROVE  users' \in [Users -> User] /\ \A u \in Users : Ages(u)
<1>0. users \in [Users -> User] /\ \A u \in Users : users[u].by = "admin" => ~users[u].active BY DEF AccountsInv, UsersOK
<1>1. \A u \in Users : users[u].tv \in Nat BY <1>0 DEF User
<1>2. ASSUME NEW u \in Users, NEW b \in User, RowAdded(u, b) PROVE users' \in [Users -> User] /\ \A v \in Users : Ages(v)
  BY <1>0, <1>1, <1>2 DEF RowAdded, Ages
<1>3. ASSUME NEW u \in Users, NEW b \in User, RowEdited(u, b) PROVE users' \in [Users -> User] /\ \A v \in Users : Ages(v)
  <2>1. /\ users[u].row = "live" /\ users' = [users EXCEPT ![u] = b] /\ b.row = "live"
        /\ b.by = users[u].by /\ b.active = users[u].active /\ b.tv >= users[u].tv BY <1>3 DEF RowEdited, Live
  <2>2. users' \in [Users -> User] /\ users'[u] = b /\ \A v \in Users \ {u} : users'[v] = users[v] BY <1>0, <2>1
  <2>3. b.by = "admin" => ~b.active
    <3>1. users[u].by = "admin" => ~users[u].active BY <1>0
    <3> QED BY <2>1, <3>1, Zenon
  <2>4. Ages(u) BY <2>1, <2>2, <2>3 DEF Ages
  <2>5. ASSUME NEW v \in Users, v # u PROVE Ages(v) BY <1>0, <1>1, <2>2, <2>5 DEF Ages
  <2> QED BY <2>2, <2>4, <2>5
<1>4. ASSUME NEW u \in Users, NEW flag \in BOOLEAN, NEW by \in {"admin", "scim"}, RowSwitched(u, flag, by)
      PROVE  users' \in [Users -> User] /\ \A v \in Users : Ages(v)
  <2>1. /\ users' \in [Users -> User] /\ \A v \in Users \ {u} : users'[v] = users[v]
        /\ users'[u].row = users[u].row /\ users'[u].active = flag
        /\ users'[u].by = (IF flag THEN "none" ELSE by)
        /\ users'[u].tv = IF flag THEN users[u].tv ELSE users[u].tv + 1
    BY <1>0, <1>4, SwitchedRow DEF RowSwitched
  <2>2. users'[u].tv >= users[u].tv BY <1>1, <2>1
  <2>3. users'[u].by = "admin" => ~users'[u].active BY <2>1
  <2>4. Ages(u) BY <2>1, <2>2, <2>3 DEF Ages
  <2>5. ASSUME NEW v \in Users, v # u PROVE Ages(v) BY <1>0, <1>1, <2>1, <2>5 DEF Ages
  <2> QED BY <2>1, <2>4, <2>5
<1>5. ASSUME NEW u \in Users, RowDeleted(u) PROVE users' \in [Users -> User] /\ \A v \in Users : Ages(v)
  <2> DEFINE b == [Absent EXCEPT !.row = "deleted"]
  <2>1. b \in User /\ b.row = "deleted" /\ b.by = "none" BY StartTypes DEF User, Absent
  <2>2. users' = [users EXCEPT ![u] = b] /\ users[u].row = "live" BY <1>5 DEF RowDeleted, Live
  <2> HIDE DEF b
  <2> QED BY <1>0, <1>1, <2>1, <2>2 DEF Ages
<1>6. CASE UNCHANGED users BY <1>0, <1>1, <1>6 DEF Ages
<1> QED BY <1>2, <1>3, <1>4, <1>5, <1>6 DEF UserWrite

-----------------------------------------------------------------------------
(* What the writes keep.                                                   *)

\* Once there is an admin, one remains.
LEMMA AdminStays ==
  ASSUME AccountsInv, UserWrite, clobbered \subseteq clobbered'
  PROVE  AdminRemains'
<1>0. users \in [Users -> User] BY DEF AccountsInv, UsersOK
<1> SUFFICES ASSUME Bootstrapped', clobbered' = {}
             PROVE  \E v \in Users : Live(v)' /\ users'[v].admin /\ users'[v].active
  BY DEF AdminRemains
<1>1. clobbered = {} OBVIOUS
<1>2. Bootstrapped => \E v \in Users : Live(v) /\ users[v].admin /\ users[v].active BY <1>1 DEF AccountsInv, AdminRemains
<1>3. CASE UNCHANGED users BY <1>2, <1>3 DEF Bootstrapped, Live
<1>4. ASSUME NEW u \in Users, NEW v \in Users, v # u, Live(v), users[v].admin, users[v].active, users'[v] = users[v]
      PROVE  \E w \in Users : Live(w)' /\ users'[w].admin /\ users'[w].active
  BY <1>4 DEF Live
<1>5. ASSUME NEW u \in Users, NEW b \in User, RowAdded(u, b) PROVE \E v \in Users : Live(v)' /\ users'[v].admin /\ users'[v].active
  <2>1. users'[u] = b /\ \A v \in Users \ {u} : users'[v] = users[v] BY <1>0, <1>5 DEF RowAdded
  <2>2. users[u].row = "absent" /\ b.row = "live" BY <1>5 DEF RowAdded
  <2>3. CASE Bootstrapped
    <3>1. PICK v \in Users : Live(v) /\ users[v].admin /\ users[v].active BY <1>2, <2>3
    <3>2. v # u BY <2>2, <3>1 DEF Live
    <3> QED BY <1>4, <2>1, <3>1, <3>2
  <2>4. CASE ~Bootstrapped BY <1>5, <2>1, <2>2, <2>4 DEF RowAdded, Live
  <2> QED BY <2>3, <2>4
<1>6. ASSUME NEW u \in Users, RowDeleted(u) \/ OtherAdmin(u), \A v \in Users \ {u} : users'[v] = users[v]
      PROVE  \E v \in Users : Live(v)' /\ users'[v].admin /\ users'[v].active
  <2>1. PICK v \in Users : v # u /\ Live(v) /\ users[v].admin /\ users[v].active BY <1>6 DEF RowDeleted, OtherAdmin
  <2> QED BY <1>4, <1>6, <2>1
<1>7. ASSUME NEW u \in Users, Live(u), users'[u].row = "live", \A v \in Users \ {u} : users'[v] = users[v],
             OtherAdmin(u) \/ ~(users[u].admin /\ users[u].active) \/ (users'[u].admin /\ users'[u].active)
      PROVE  \E v \in Users : Live(v)' /\ users'[v].admin /\ users'[v].active
  <2>1. Bootstrapped BY <1>7 DEF Bootstrapped, Live
  <2>2. PICK v \in Users : Live(v) /\ users[v].admin /\ users[v].active BY <1>2, <2>1
  <2>3. CASE v # u BY <1>4, <1>7, <2>2, <2>3
  <2>4. CASE OtherAdmin(u) BY <1>6, <1>7, <2>4
  <2>5. CASE v = u /\ ~OtherAdmin(u) BY <1>7, <2>2, <2>5 DEF Live
  <2> QED BY <2>3, <2>4, <2>5
<1>8. ASSUME NEW u \in Users, NEW b \in User, RowEdited(u, b) PROVE \E v \in Users : Live(v)' /\ users'[v].admin /\ users'[v].active
  <2>1. users'[u] = b /\ \A v \in Users \ {u} : users'[v] = users[v] BY <1>0, <1>8 DEF RowEdited
  <2>2. Live(u) /\ b.row = "live" /\ b.active = users[u].active /\ (b.admin \/ ~users[u].admin \/ OtherAdmin(u))
    BY <1>8 DEF RowEdited
  <2>3. OtherAdmin(u) \/ ~(users[u].admin /\ users[u].active) \/ (users'[u].admin /\ users'[u].active) BY <2>1, <2>2, Zenon
  <2> QED BY <1>7, <2>1, <2>2, <2>3
<1>9. ASSUME NEW u \in Users, NEW flag \in BOOLEAN, NEW by \in {"admin", "scim"}, RowSwitched(u, flag, by)
      PROVE  \E v \in Users : Live(v)' /\ users'[v].admin /\ users'[v].active
  <2>1. /\ \A v \in Users \ {u} : users'[v] = users[v]
        /\ users'[u].row = users[u].row /\ users'[u].admin = users[u].admin /\ users'[u].active = flag
    BY <1>0, <1>9, SwitchedRow DEF RowSwitched
  <2>2. Live(u) /\ (flag \/ ~users[u].admin \/ OtherAdmin(u)) BY <1>9 DEF RowSwitched
  <2>3. users'[u].row = "live" BY <2>1, <2>2 DEF Live
  <2>4. OtherAdmin(u) \/ ~(users[u].admin /\ users[u].active) \/ (users'[u].admin /\ users'[u].active) BY <2>1, <2>2, Zenon
  <2> QED BY <1>7, <2>1, <2>2, <2>3, <2>4
<1>10. ASSUME NEW u \in Users, RowDeleted(u) PROVE \E v \in Users : Live(v)' /\ users'[v].admin /\ users'[v].active
  <2>1. \A v \in Users \ {u} : users'[v] = users[v] BY <1>0, <1>10 DEF RowDeleted
  <2> QED BY <1>6, <1>10, <2>1
<1> QED BY <1>3, <1>5, <1>8, <1>9, <1>10 DEF UserWrite

\* An account an admin disabled is switched back by an admin only.
LEMMA DisableSticks ==
  ASSUME AccountsInv, UserWrite, NEW v \in Users, users[v].row = "live", users[v].by = "admin"
  PROVE  \/ users'[v].by = "admin" /\ ~users'[v].active
         \/ users'[v].row = "deleted"
         \/ \E p \in Procs : req[p].at = "set_active" /\ req[p].target = v /\ req'[p] = Idle
<1>0. users \in [Users -> User] /\ ~users[v].active BY DEF AccountsInv, UsersOK
<1>1. CASE users'[v] = users[v] BY <1>0, <1>1
<1>2. ASSUME NEW u \in Users, u # v, \/ \E b \in User : RowAdded(u, b) \/ RowEdited(u, b)
                                     \/ \E flag \in BOOLEAN, by \in {"admin", "scim"} : RowSwitched(u, flag, by)
                                     \/ RowDeleted(u)
      PROVE  users'[v] = users[v]
  <2>1. CASE \E b \in User : RowAdded(u, b) \/ RowEdited(u, b) BY <1>0, <1>2, <2>1 DEF RowAdded, RowEdited
  <2>2. CASE \E flag \in BOOLEAN, by \in {"admin", "scim"} : RowSwitched(u, flag, by)
    BY <1>0, <1>2, <2>2, SwitchedRow DEF RowSwitched
  <2>3. CASE RowDeleted(u) BY <1>0, <1>2, <2>3 DEF RowDeleted
  <2> QED BY <1>2, <2>1, <2>2, <2>3
<1>3. ASSUME NEW b \in User, RowAdded(v, b) PROVE FALSE BY <1>3 DEF RowAdded
<1>4. ASSUME NEW b \in User, RowEdited(v, b) PROVE users'[v].by = "admin" /\ ~users'[v].active
  <2>1. users'[v] = b /\ b.by = users[v].by /\ b.active = users[v].active BY <1>0, <1>4 DEF RowEdited
  <2> QED BY <1>0, <2>1, Zenon
<1>5. ASSUME NEW flag \in BOOLEAN, NEW by \in {"admin", "scim"}, RowSwitched(v, flag, by)
      PROVE  \E p \in Procs : req[p].at = "set_active" /\ req[p].target = v /\ req'[p] = Idle
  BY <1>5 DEF RowSwitched
<1>6. ASSUME RowDeleted(v) PROVE users'[v].row = "deleted" BY <1>0, <1>6 DEF RowDeleted, Absent
<1> QED BY <1>1, <1>2, <1>3, <1>4, <1>5, <1>6 DEF UserWrite

\* Whoever goes off or goes leaves no usable personal key.
LEMMA OffboardingKills ==
  ASSUME AccountsInv, UserWrite, ~UNCHANGED users
  PROVE  OffboardedKeysDead'
<1>0. /\ users \in [Users -> User] /\ keys \in [Keys -> APIKey]
      /\ \A k \in Keys : keys[k].row => keys[k].created_by \in Users
  BY DEF AccountsInv, UsersOK, KeysOK
<1>1. \A k \in Keys : keys[k].row /\ keys[k].sp = NoOne /\ ~(users[keys[k].created_by].row = "live" /\ users[keys[k].created_by].active)
                        => keys[k].revoked = "yes"
  BY DEF AccountsInv, OffboardedKeysDead
<1>2. ASSUME UNCHANGED keys,
             \A k \in Keys : keys[k].row =>
                 LET a == users[keys[k].created_by]
                     b == users'[keys[k].created_by]
                 IN  (a.row = "live" /\ a.active) => (b.row = "live" /\ b.active)
      PROVE  OffboardedKeysDead'
  BY <1>1, <1>2 DEF OffboardedKeysDead
<1>3. ASSUME NEW u \in Users, NEW b \in User, RowAdded(u, b) PROVE OffboardedKeysDead'
  <2>1. users' = [users EXCEPT ![u] = b] /\ users[u].row = "absent" /\ UNCHANGED keys BY <1>3 DEF RowAdded
  <2> QED BY <1>0, <1>2, <2>1
<1>4. ASSUME NEW u \in Users, NEW b \in User, RowEdited(u, b) PROVE OffboardedKeysDead'
  <2>1. users' = [users EXCEPT ![u] = b] /\ b.row = "live" /\ b.active = users[u].active /\ UNCHANGED keys BY <1>4 DEF RowEdited
  <2>2. ASSUME NEW w \in Users, users[w].row = "live", users[w].active PROVE users'[w].row = "live" /\ users'[w].active
    <3>1. CASE w = u
      <4>1. users'[w] = b BY <1>0, <2>1, <3>1
      <4> QED BY <2>1, <2>2, <3>1, <4>1, Zenon
    <3>2. CASE w # u BY <1>0, <2>1, <2>2, <3>2
    <3> QED BY <3>1, <3>2
  <2> QED BY <1>0, <1>2, <2>1, <2>2
<1>5. ASSUME NEW u \in Users, NEW flag \in BOOLEAN, NEW by \in {"admin", "scim"}, RowSwitched(u, flag, by) PROVE OffboardedKeysDead'
  <2>1. /\ \A v \in Users \ {u} : users'[v] = users[v]
        /\ users'[u].row = users[u].row /\ users'[u].active = flag
    BY <1>0, <1>5, SwitchedRow DEF RowSwitched
  <2>2. Live(u) /\ users'[u].row = "live" BY <1>5, <2>1 DEF RowSwitched, Live
  <2>3. CASE flag
    <3>1. UNCHANGED keys BY <1>5, <2>3 DEF RowSwitched
    <3>2. users'[u].active BY <2>1, <2>3, Zenon
    <3>3. ASSUME NEW w \in Users, users[w].row = "live", users[w].active PROVE users'[w].row = "live" /\ users'[w].active
      BY <2>1, <2>2, <3>2, <3>3
    <3> QED BY <1>0, <1>2, <3>1, <3>3
  <2>4. CASE ~flag
    <3>1. keys' = [k \in Keys |-> IF keys[k].created_by = u /\ keys[k].sp = NoOne
                                  THEN [keys[k] EXCEPT !.revoked = "yes"] ELSE keys[k]]
      BY <1>5, <2>4 DEF RowSwitched, revoke_personal_keys_for_user
    <3> SUFFICES ASSUME NEW k \in Keys, keys'[k].row, keys'[k].sp = NoOne,
                        ~(users'[keys'[k].created_by].row = "live" /\ users'[keys'[k].created_by].active)
                 PROVE  keys'[k].revoked = "yes"
      BY DEF OffboardedKeysDead
    <3>2. CASE keys[k].created_by = u /\ keys[k].sp = NoOne BY <1>0, <3>1, <3>2 DEF APIKey
    <3>3. CASE ~(keys[k].created_by = u /\ keys[k].sp = NoOne)
      <4>1. keys'[k] = keys[k] BY <3>1, <3>3
      <4>2. keys[k].created_by \in Users \ {u} BY <1>0, <3>3, <4>1
      <4>3. users'[keys[k].created_by] = users[keys[k].created_by] BY <2>1, <4>2
      <4> QED BY <1>1, <4>1, <4>3
    <3> QED BY <3>2, <3>3
  <2> QED BY <2>3, <2>4
<1>6. ASSUME NEW u \in Users, RowDeleted(u) PROVE OffboardedKeysDead'
  <2>1. UNCHANGED keys /\ (\A k \in Keys : keys[k].row => keys[k].created_by # u) /\ \A v \in Users \ {u} : users'[v] = users[v]
    BY <1>0, <1>6 DEF RowDeleted
  <2> QED BY <1>0, <1>2, <2>1
<1> QED BY <1>3, <1>4, <1>5, <1>6 DEF UserWrite

-----------------------------------------------------------------------------
(* Sessions.                                                               *)

\* Versions only go up: a token stays dated, a revoked one outdated.
LEMMA DatesStay ==
  ASSUME users \in [Users -> User], users' \in [Users -> User], NEW u \in Users, NEW tv \in Nat, Ages(u)
  PROVE  (Dated(u, tv) => Dated(u, tv)') /\ (Outdated(u, tv) => Outdated(u, tv)')
<1>1. users[u].tv \in Nat /\ users'[u].tv \in Nat /\ users'[u].row \in {"absent", "live", "deleted"} BY DEF User
<1> QED BY <1>1 DEF Dated, Outdated, Ages

\* A revocation outdates every token that is out or about to be.
LEMMA RevocationOutdates ==
  ASSUME AccountsInv, NEW u \in Users, users' \in [Users -> User],
         \/ users'[u].row = "deleted"
         \/ users[u].row = "live" /\ users'[u].row = "live" /\ users'[u].tv > users[u].tv,
         NEW z \in Outstanding(u)
  PROVE  z \in TokenType /\ Outdated(z.user, z.tv)'
<1>0. users[u].tv \in Nat /\ users'[u].tv \in Nat BY DEF AccountsInv, UsersOK, User
<1>1. z \in TokenType /\ z.user = u /\ Dated(u, z.tv)
  <2>1. CASE z \in sessions /\ z.user = u BY <2>1 DEF AccountsInv, SessionsOK
  <2>2. ASSUME NEW p \in Procs, req[p].at \in {"login", "sso_token"}, req[p].user = u, z = [user |-> u, tv |-> req[p].row.tv]
        PROVE  z \in TokenType /\ z.user = u /\ Dated(u, z.tv)
    <3>1. req[p] \in RequestType /\ ReqOK(req[p]) BY DEF AccountsInv, RequestsOK
    <3>2. req[p].row.tv \in 0..MaxTokenVersion BY <3>1 DEF RequestType, User
    <3>3. Dated(u, req[p].row.tv) BY <2>2, <3>1 DEF ReqOK
    <3> QED BY <2>2, <3>2, <3>3 DEF TokenType
  <2> QED BY <2>1, <2>2 DEF Outstanding
<1>2. z.tv \in Nat BY <1>1 DEF TokenType
<1>3. Outdated(u, z.tv)' BY <1>0, <1>1, <1>2 DEF Dated, Outdated
<1> QED BY <1>1, <1>3

\* Sessions stay dated and what was revoked stays outdated.
LEMMA SessionsStep ==
  ASSUME AccountsInv, [Next]_vars, users' \in [Users -> User], \A u \in Users : Ages(u)
  PROVE  SessionsOK'
<1>0. /\ users \in [Users -> User] /\ sessions \subseteq TokenType /\ revoked \subseteq TokenType
      /\ \A z \in sessions : Dated(z.user, z.tv)
      /\ \A z \in revoked : Outdated(z.user, z.tv)
  BY DEF AccountsInv, UsersOK, SessionsOK
<1>1. \A z \in TokenType : z.user \in Users /\ z.tv \in Nat BY DEF TokenType
<1>2. \A z \in sessions : Dated(z.user, z.tv)' BY <1>0, <1>1, DatesStay
<1>3. \A z \in revoked : Outdated(z.user, z.tv)' BY <1>0, <1>1, DatesStay
<1>4. ASSUME \A z \in sessions' : z \in sessions \/ (z \in TokenType /\ Dated(z.user, z.tv)'),
             \A z \in revoked' : z \in revoked \/ (z \in TokenType /\ Outdated(z.user, z.tv)')
      PROVE  SessionsOK'
  BY <1>0, <1>2, <1>3, <1>4 DEF SessionsOK
<1>5. ASSUME UNCHANGED <<sessions, revoked>> PROVE SessionsOK'
  BY <1>4, <1>5
<1>6. ASSUME NEW z \in TokenType, sessions' = sessions \cup {z}, UNCHANGED revoked, Dated(z.user, z.tv) PROVE SessionsOK'
  <2>1. Dated(z.user, z.tv)' BY <1>0, <1>1, <1>6, DatesStay
  <2> QED BY <1>4, <1>6, <2>1
<1>7. ASSUME NEW u \in Users, UNCHANGED sessions, Revokes(u),
             \/ users'[u].row = "deleted"
             \/ users[u].row = "live" /\ users'[u].row = "live" /\ users'[u].tv > users[u].tv
      PROVE  SessionsOK'
  <2>1. revoked' = revoked \cup Outstanding(u) BY <1>7 DEF Revokes
  <2>2. \A z \in Outstanding(u) : z \in TokenType /\ Outdated(z.user, z.tv)' BY <1>7, RevocationOutdates
  <2> QED BY <1>4, <1>7, <2>1, <2>2
<1>8. ASSUME NEW a \in User PROVE Bump(a).tv = a.tv + 1 /\ Bump(a).row = a.row /\ a.tv \in Nat BY DEF Bump, User
<1>9. \A p \in Procs : req[p] \in RequestType /\ ReqOK(req[p]) BY DEF AccountsInv, RequestsOK
<1>10. CASE logout
  <2>1. PICK z \in sessions : Valid(z) /\ users' = [users EXCEPT ![z.user] = Bump(@)] /\ Revokes(z.user) /\ UNCHANGED sessions
    BY <1>10 DEF logout
  <2>2. z.user \in Users /\ users[z.user].row = "live" /\ users[z.user] \in User BY <1>0, <1>1, <2>1 DEF Valid, Live
  <2>3. users'[z.user] = Bump(users[z.user]) BY <1>0, <2>1, <2>2
  <2>4. users'[z.user].row = "live" /\ users'[z.user].tv > users[z.user].tv BY <1>8, <2>2, <2>3
  <2> QED BY <1>7, <2>1, <2>2, <2>4
<1>11. ASSUME NEW u \in Users, NEW flag \in BOOLEAN, NEW by \in {"admin", "scim"}, Live(u), set_active(u, flag, by),
              flag \/ CanBump(u), UNCHANGED sessions
       PROVE  SessionsOK'
  <2>1. CASE flag BY <1>5, <1>11, <2>1 DEF set_active
  <2>2. CASE ~flag
    <3>1. users'[u].row = users[u].row /\ users'[u].tv = users[u].tv + 1 BY <1>0, <1>11, <2>2, SwitchedRow
    <3>2. users[u].row = "live" /\ users[u].tv \in Nat BY <1>0, <1>11 DEF Live, User
    <3>3. Revokes(u) BY <1>11, <2>2 DEF set_active
    <3> QED BY <1>7, <1>11, <3>1, <3>2, <3>3
  <2> QED BY <2>1, <2>2
<1>12. ASSUME NEW p \in Procs, set_user_active(p) \/ update_user_active(p) PROVE SessionsOK'
  <2> DEFINE r == req[p]  u == r.target
  <2>1. CASE UNCHANGED <<sessions, revoked>> BY <1>5, <2>1
  <2>2. CASE ~UNCHANGED <<sessions, revoked>>
    <3>1. /\ Live(u) /\ (r.flag \/ CanBump(u)) /\ UNCHANGED sessions
          /\ set_active(u, r.flag, "admin") \/ set_active(u, r.flag, "scim")
      BY <1>12, <2>2 DEF set_user_active, update_user_active
    <3>2. u \in Users /\ r.flag \in BOOLEAN BY <1>9, <3>1 DEF Live, RequestType
    <3> QED BY <1>11, <3>1, <3>2
  <2> QED BY <2>1, <2>2
<1>13. ASSUME NEW p \in Procs, delete_user(p) PROVE SessionsOK'
  <2> DEFINE u == req[p].target
  <2>1. CASE UNCHANGED revoked BY <1>5, <1>13, <2>1 DEF delete_user
  <2>2. CASE ~UNCHANGED revoked
    <3>1. Live(u) /\ users' = [users EXCEPT ![u] = [Absent EXCEPT !.row = "deleted"]] /\ Revokes(u) /\ UNCHANGED sessions
      BY <1>13, <2>2 DEF delete_user
    <3>2. u \in Users /\ users'[u].row = "deleted" BY <1>0, <3>1 DEF Live, Absent
    <3> QED BY <1>7, <3>1, <3>2
  <2> QED BY <2>1, <2>2
<1>14. ASSUME NEW p \in Procs, reset_password(p) PROVE SessionsOK'
  <2> DEFINE r == req[p]  u == r.target  a == [users[u] EXCEPT !.known = TRUE]
  <2>1. CASE UNCHANGED revoked BY <1>5, <1>14, <2>1 DEF reset_password
  <2>2. CASE ~UNCHANGED revoked
    <3>1. mark_used(r.key) /\ users' = [users EXCEPT ![u] = Bump(a)] /\ Revokes(u) /\ UNCHANGED sessions /\ r.at = "redeem"
      BY <1>14, <2>2 DEF reset_password
    <3>2. u \in Users /\ r.key \in Tokens /\ resets[r.key].user = u BY <1>9, <3>1 DEF ReqOK
    <3>3. Live(u) BY <3>1, <3>2 DEF mark_used, AccountsInv, ResetsOK
    <3>4. users[u] \in User /\ users[u].row = "live" BY <1>0, <3>3 DEF Live
    <3>5. a \in User /\ a.row = "live" /\ a.tv = users[u].tv BY <3>4 DEF User
    <3> HIDE DEF a
    <3>6. users'[u] = Bump(a) BY <1>0, <3>1, <3>2
    <3>7. users'[u].row = "live" /\ users'[u].tv > users[u].tv BY <1>8, <3>5, <3>6
    <3> QED BY <1>7, <3>1, <3>2, <3>4, <3>7
  <2> QED BY <2>1, <2>2
<1>15. ASSUME NEW p \in Procs, finish_login(p) PROVE SessionsOK'
  <2> DEFINE r == req[p]  z == [user |-> r.user, tv |-> r.row.tv]
  <2>1. r.at = "login" /\ sessions' = sessions \cup {z} /\ UNCHANGED revoked BY <1>15 DEF finish_login
  <2>2. r.user \in Users /\ Dated(r.user, r.row.tv) /\ r.row.tv \in 0..MaxTokenVersion BY <1>9, <2>1 DEF ReqOK, RequestType, User
  <2>3. z \in TokenType /\ z.user = r.user /\ z.tv = r.row.tv BY <2>2 DEF TokenType
  <2> HIDE DEF z
  <2>4. Dated(z.user, z.tv) BY <2>2, <2>3
  <2> QED BY <1>6, <2>1, <2>3, <2>4
<1>16. ASSUME NEW p \in Procs, sso_callback(p) PROVE SessionsOK'
  <2> DEFINE r == req[p]  z == [user |-> r.user, tv |-> r.row.tv]
  <2>1. r.at = "sso_token" /\ sessions' = sessions \cup {z} /\ UNCHANGED revoked BY <1>16 DEF sso_callback
  <2>2. r.user \in Users /\ Dated(r.user, r.row.tv) /\ r.row.tv \in 0..MaxTokenVersion BY <1>9, <2>1 DEF ReqOK, RequestType, User
  <2>3. z \in TokenType /\ z.user = r.user /\ z.tv = r.row.tv BY <2>2 DEF TokenType
  <2> HIDE DEF z
  <2>4. Dated(z.user, z.tv) BY <2>2, <2>3
  <2> QED BY <1>6, <2>1, <2>3, <2>4
<1>17. CASE BootstrapStep BY <1>5, <1>17 DEF BootstrapStep, ensure_admin_count, ensure_admin_add
<1>18. CASE AdminStep
  <2>1. ASSUME NEW p \in Procs, provide_current_admin(p) \/ set_user_admin(p) PROVE SessionsOK'
    BY <1>5, <2>1 DEF provide_current_admin, set_user_admin
  <2> QED BY <1>12, <1>13, <1>18, <2>1 DEF AdminStep
<1>19. CASE LoginStep
  <2>1. ASSUME NEW p \in Procs, authenticate(p) \/ register_failed_login(p) \/ set_login_lock(p) PROVE SessionsOK'
    BY <1>5, <2>1 DEF authenticate, register_failed_login, set_login_lock
  <2>2. ASSUME NEW u \in Users, LockPasses(u) PROVE SessionsOK' BY <1>5, <2>2 DEF LockPasses
  <2> QED BY <1>10, <1>15, <1>19, <2>1, <2>2 DEF LoginStep
<1>20. CASE RecoveryStep
  <2>1. ASSUME NEW p \in Procs, unlock_user(p) \/ create_password_reset(p) \/ reset_password_read(p) PROVE SessionsOK'
    BY <1>5, <2>1 DEF unlock_user, create_password_reset, reset_password_read
  <2>2. ASSUME NEW t \in Tokens, ResetExpires(t) PROVE SessionsOK' BY <1>5, <2>2 DEF ResetExpires
  <2> QED BY <1>14, <1>20, <2>1, <2>2 DEF RecoveryStep
<1>21. CASE SsoStep
  <2>1. ASSUME NEW p \in Procs, \/ upsert_sso_user(p) \/ _resolve_or_create_sso_user(p)
                               \/ bind_sso(p) \/ bind_sso_read(p)
        PROVE  SessionsOK'
    BY <1>5, <2>1 DEF upsert_sso_user, _resolve_or_create_sso_user, bind_sso, bind_sso_read
  <2> QED BY <1>16, <1>21, <2>1 DEF SsoStep
<1>22. CASE ScimStep
  <2>1. ASSUME NEW p \in Procs, update_user(p) \/ update_scim_identity(p) \/ update_scim_identity_read(p) PROVE SessionsOK'
    BY <1>5, <2>1 DEF update_user, update_scim_identity, update_scim_identity_read
  <2>2. CASE create_scim_user BY <1>5, <2>2 DEF create_scim_user
  <2> QED BY <1>12, <1>22, <2>1, <2>2 DEF ScimStep
<1>23. CASE KeyStep
  BY <1>5, <1>23 DEF KeyStep, create_key, issue, get_active_for_team, rotate_for_team, revoke_for_team, authenticate_key, admit,
     KeyTimePasses, create_sp, set_enabled, delete_sp
<1>24. CASE UNCHANGED vars BY <1>5, <1>24 DEF vars
<1> QED BY <1>17, <1>18, <1>19, <1>20, <1>21, <1>22, <1>23, <1>24 DEF Next

-----------------------------------------------------------------------------
(* Reset tokens.                                                           *)

\* Unless it is deleted, a live account stays live.
LEMMA LiveStays ==
  ASSUME AccountsInv, UserWrite, \A u \in Users : ~RowDeleted(u), NEW v, Live(v)
  PROVE  Live(v)'
<1>0. users \in [Users -> User] /\ v \in Users /\ users[v].row = "live" BY DEF AccountsInv, UsersOK, Live
<1>1. ASSUME NEW u \in Users, NEW b \in User, RowAdded(u, b) \/ RowEdited(u, b) PROVE users'[v].row = "live"
  BY <1>0, <1>1 DEF RowAdded, RowEdited
<1>2. ASSUME NEW u \in Users, NEW flag \in BOOLEAN, NEW by \in {"admin", "scim"}, RowSwitched(u, flag, by) PROVE users'[v].row = "live"
  <2>1. (\A w \in Users \ {u} : users'[w] = users[w]) /\ users'[u].row = users[u].row
    BY <1>0, <1>2, SwitchedRow DEF RowSwitched
  <2> QED BY <1>0, <2>1
<1>3. CASE UNCHANGED users BY <1>0, <1>3 DEF Live
<1> QED BY <1>0, <1>1, <1>2, <1>3 DEF UserWrite, Live

\* A token is redeemed once, and dies with its account.
LEMMA ResetsStep ==
  ASSUME AccountsInv, [Next]_vars, UserWrite
  PROVE  ResetsOK' /\ \A t \in Tokens : resets[t].state # "absent" => resets'[t].state # "absent" /\ resets'[t].user = resets[t].user
<1> DEFINE Kept == \A t \in Tokens : resets[t].state # "absent" => resets'[t].state # "absent" /\ resets'[t].user = resets[t].user
<1>0. /\ resets \in [Tokens -> ResetType] /\ changes \in [Tokens -> Nat]
      /\ \A t \in Tokens : changes[t] = 0 \/ (changes[t] = 1 /\ resets[t].state \in {"used", "gone"})
      /\ \A t \in Tokens : resets[t].state \in {"open", "expired"} => Live(resets[t].user)
  BY DEF AccountsInv, ResetsOK
<1>1. \A p \in Procs : req[p] \in RequestType /\ ReqOK(req[p]) BY DEF AccountsInv, RequestsOK
<1>2. ASSUME NEW u \in Users, RowDeleted(u) PROVE ResetsOK' /\ Kept
  <2>1. /\ resets' = [t \in Tokens |-> IF resets[t].user = u THEN [resets[t] EXCEPT !.state = "gone"] ELSE resets[t]]
        /\ UNCHANGED changes
    BY <1>2 DEF RowDeleted
  <2>2. ASSUME NEW t \in Tokens
        PROVE  /\ resets'[t] \in ResetType /\ resets'[t].user = resets[t].user
               /\ resets[t].user = u => resets'[t].state = "gone"
               /\ resets[t].user # u => resets'[t] = resets[t]
    BY <1>0, <2>1 DEF ResetType
  <2>3. resets' \in [Tokens -> ResetType] BY <2>1, <2>2
  <2>4. users \in [Users -> User] /\ \A v \in Users \ {u} : users'[v] = users[v] BY <1>2 DEF RowDeleted, AccountsInv, UsersOK
  <2>5. ASSUME NEW v, v # u, Live(v) PROVE Live(v)' BY <2>4, <2>5 DEF Live
  <2>6. \A t \in Tokens : changes'[t] = 0 \/ (changes'[t] = 1 /\ resets'[t].state \in {"used", "gone"}) BY <1>0, <2>1, <2>2
  <2>7. \A t \in Tokens : resets'[t].state \in {"open", "expired"} => Live(resets[t].user)'
    <3> SUFFICES ASSUME NEW t \in Tokens, resets'[t].state \in {"open", "expired"} PROVE Live(resets[t].user)' OBVIOUS
    <3>1. resets[t].user # u /\ resets'[t] = resets[t] BY <2>2
    <3>2. PICK v : v = resets[t].user OBVIOUS
    <3>3. Live(v)' BY <1>0, <2>5, <3>1, <3>2
    <3> QED BY <3>1, <3>2, <3>3 DEF Live
  <2>8. Kept BY <2>2
  <2> QED BY <1>0, <2>1, <2>3, <2>6, <2>7, <2>8 DEF ResetsOK
<1>3. ASSUME \A u \in Users : ~RowDeleted(u) PROVE ResetsOK' /\ Kept
  <2>1. \A v : Live(v) => Live(v)' BY <1>3, LiveStays
  <2>2. ASSUME NEW t \in Tokens, NEW x \in ResetType, NEW n \in Nat,
               resets' = [resets EXCEPT ![t] = x], changes' = [changes EXCEPT ![t] = n],
               n = 0 \/ (n = 1 /\ x.state \in {"used", "gone"}),
               x.state \in {"open", "expired"} => Live(x.user),
               resets[t].state # "absent" => x.state # "absent" /\ x.user = resets[t].user
        PROVE  ResetsOK' /\ Kept
    <3>1. resets' \in [Tokens -> ResetType] /\ changes' \in [Tokens -> Nat] BY <1>0, <2>2
    <3>2. \A i \in Tokens : changes'[i] = 0 \/ (changes'[i] = 1 /\ resets'[i].state \in {"used", "gone"}) BY <1>0, <2>2
    <3>3. \A i \in Tokens : resets'[i].state \in {"open", "expired"} => Live(resets[i].user)'
      <4> SUFFICES ASSUME NEW i \in Tokens, resets'[i].state \in {"open", "expired"} PROVE Live(resets[i].user)' OBVIOUS
      <4>1. PICK v : v = resets'[i].user OBVIOUS
      <4>2. Live(v) BY <1>0, <2>2, <4>1
      <4>3. Live(v)' BY <2>1, <4>2
      <4> QED BY <4>1, <4>3 DEF Live
    <3>4. Kept BY <1>0, <2>2
    <3> QED BY <3>1, <3>2, <3>3, <3>4 DEF ResetsOK
  <2>3. ASSUME UNCHANGED <<resets, changes>> PROVE ResetsOK' /\ Kept
    <3>1. \A i \in Tokens : resets'[i].state \in {"open", "expired"} => Live(resets[i].user)'
      <4> SUFFICES ASSUME NEW i \in Tokens, resets'[i].state \in {"open", "expired"} PROVE Live(resets[i].user)' OBVIOUS
      <4>1. PICK v : v = resets'[i].user OBVIOUS
      <4>2. Live(v)' BY <1>0, <2>1, <2>3, <4>1
      <4> QED BY <4>1, <4>2 DEF Live
    <3> QED BY <1>0, <2>3, <3>1 DEF ResetsOK
  <2>4. ASSUME NEW p \in Procs, create_password_reset(p) PROVE ResetsOK' /\ Kept
    <3> DEFINE u == req[p].target  x == [user |-> u, state |-> "open"]
    <3>1. CASE UNCHANGED resets BY <2>3, <2>4, <3>1 DEF create_password_reset
    <3>2. CASE ~UNCHANGED resets
      <4>1. PICK t \in OneOf({i \in Tokens : resets[i].state = "absent"}) : Live(u) /\ resets' = [resets EXCEPT ![t] = x] /\ UNCHANGED changes
        BY <2>4, <3>2 DEF create_password_reset
      <4>2. t \in Tokens /\ resets[t].state = "absent" BY <4>1, OneOfIsOne
      <4>3. x \in ResetType /\ x.state = "open" /\ x.user = u BY <4>1 DEF ResetType, Live
      <4> DEFINE n == 0
      <4>4. n \in Nat /\ n = 0 /\ changes' = [changes EXCEPT ![t] = n] BY <1>0, <4>1, <4>2
      <4> HIDE DEF x, n
      <4> QED BY <2>2, <4>1, <4>2, <4>3, <4>4
    <3> QED BY <3>1, <3>2
  <2>5. ASSUME NEW p \in Procs, reset_password(p) PROVE ResetsOK' /\ Kept
    <3> DEFINE t == req[p].key  x == [resets[t] EXCEPT !.state = "used"]
    <3>1. CASE UNCHANGED <<resets, changes>> BY <2>3, <3>1
    <3>2. CASE ~UNCHANGED <<resets, changes>>
      <4>1. /\ mark_used(t) /\ resets' = [resets EXCEPT ![t] = x] /\ changes' = [changes EXCEPT ![t] = changes[t] + 1]
            /\ req[p].at = "redeem"
        BY <2>5, <3>2 DEF reset_password
      <4>2. t \in Tokens BY <1>1, <4>1 DEF ReqOK
      <4>3. resets[t] \in ResetType /\ resets[t].state \in {"open", "expired"} BY <1>0, <4>1, <4>2 DEF mark_used
      <4>4. x \in ResetType /\ x.state = "used" /\ x.user = resets[t].user BY <4>3 DEF ResetType
      <4>5. changes[t] + 1 = 1 BY <1>0, <4>2, <4>3
      <4>6. changes' = [changes EXCEPT ![t] = 1] BY <4>1, <4>5
      <4> HIDE DEF x, t
      <4> QED BY <2>2, <4>1, <4>2, <4>4, <4>6
    <3> QED BY <3>1, <3>2
  <2>6. ASSUME NEW t \in Tokens, ResetExpires(t) PROVE ResetsOK' /\ Kept
    <3> DEFINE x == [resets[t] EXCEPT !.state = "expired"]
    <3>1. resets[t].state = "open" /\ resets' = [resets EXCEPT ![t] = x] /\ UNCHANGED changes BY <2>6 DEF ResetExpires
    <3>2. x \in ResetType /\ x.state = "expired" /\ x.user = resets[t].user BY <1>0 DEF ResetType
    <3> DEFINE n == 0
    <3>3. n \in Nat /\ n = 0 /\ changes' = [changes EXCEPT ![t] = n] /\ Live(resets[t].user) BY <1>0, <3>1
    <3> HIDE DEF x, n
    <3> QED BY <2>2, <3>1, <3>2, <3>3
  <2>7. ASSUME NEW p \in Procs, delete_user(p) PROVE UNCHANGED <<resets, changes>>
    <3> DEFINE r == req[p]  u == r.target
               ok == /\ r.user # u /\ _lock_and_require_live_admin(r.user) /\ Live(u)
                     /\ \A k \in Keys : keys[k].row => keys[k].created_by # u
    <3>1. CASE ok
      <4>1. OtherAdmin(u) BY <3>1 DEF OtherAdmin, _lock_and_require_live_admin, Live
      <4>2. u \in Users BY <3>1 DEF Live
      <4>3. RowDeleted(u) BY <2>7, <3>1, <4>1 DEF delete_user, RowDeleted
      <4> QED BY <1>3, <4>2, <4>3
    <3>2. CASE ~ok BY <2>7, <3>2 DEF delete_user
    <3> QED BY <3>1, <3>2
  <2>8. CASE BootstrapStep BY <2>3, <2>8 DEF BootstrapStep, ensure_admin_count, ensure_admin_add
  <2>9. CASE AdminStep
    <3>1. ASSUME NEW p \in Procs, provide_current_admin(p) \/ set_user_active(p) \/ set_user_admin(p) PROVE UNCHANGED <<resets, changes>>
      BY <3>1 DEF provide_current_admin, set_user_active, set_user_admin
    <3> QED BY <2>3, <2>7, <2>9, <3>1 DEF AdminStep
  <2>10. CASE LoginStep
    BY <2>3, <2>10 DEF LoginStep, authenticate, finish_login, register_failed_login, set_login_lock, LockPasses, logout
  <2>11. CASE RecoveryStep
    <3>1. ASSUME NEW p \in Procs, unlock_user(p) \/ reset_password_read(p) PROVE UNCHANGED <<resets, changes>>
      BY <3>1 DEF unlock_user, reset_password_read
    <3> QED BY <2>3, <2>4, <2>5, <2>6, <2>11, <3>1 DEF RecoveryStep
  <2>12. CASE SsoStep BY <2>3, <2>12 DEF SsoStep, upsert_sso_user, _resolve_or_create_sso_user, bind_sso, bind_sso_read, sso_callback
  <2>13. CASE ScimStep BY <2>3, <2>13 DEF ScimStep, create_scim_user, update_user, update_scim_identity, update_scim_identity_read, update_user_active
  <2>14. CASE KeyStep
    BY <2>3, <2>14 DEF KeyStep, create_key, issue, get_active_for_team, rotate_for_team, revoke_for_team, authenticate_key, admit,
       KeyTimePasses, create_sp, set_enabled, delete_sp
  <2>15. CASE UNCHANGED vars BY <2>3, <2>15 DEF vars
  <2> QED BY <2>8, <2>9, <2>10, <2>11, <2>12, <2>13, <2>14, <2>15 DEF Next
<1> QED BY <1>2, <1>3

-----------------------------------------------------------------------------
(* Keys.                                                                   *)

SpStates == {"absent", "enabled", "disabled", "deleted"}

\* What a step that issues nothing does to a key: at most it ends it.
Tightened(k) ==
    /\ keys'[k].row = keys[k].row /\ keys'[k].created_by = keys[k].created_by
    /\ keys'[k].issued_to = keys[k].issued_to /\ keys'[k].replaces = keys[k].replaces
    /\ \/ keys'[k].revoked = "yes"
       \/ keys'[k].sp = keys[k].sp /\ keys'[k].revoked = keys[k].revoked

\* What a step keeps of the keys.
KeysKept ==
    /\ KeysOK' /\ (UNCHANGED users => OffboardedKeysDead')
    /\ \A k \in Keys : keys[k].row => keys'[k].row

\* What the invariant says of the keys, part by part.
LEMMA KeysFacts ==
  ASSUME AccountsInv
  PROVE  /\ keys \in [Keys -> APIKey] /\ sps \in [SPs -> SpStates]
         /\ \A k \in Keys : keys[k].row => keys[k].created_by \in Users
         /\ \A k \in Keys : keys[k].replaces # NoOne =>
              /\ keys[k].replaces \in Keys
              /\ keys[keys[k].replaces].row /\ keys[keys[k].replaces].revoked # "no"
         /\ \A j, k \in Keys : keys[j].replaces # NoOne /\ keys[j].replaces = keys[k].replaces => j = k
         /\ \A k \in Keys : keys[k].issued_to = "sp" /\ keys[k].sp = NoOne => keys[k].revoked = "yes"
         /\ \A k \in Keys : keys[k].row /\ keys[k].sp = NoOne
                               /\ ~(users[keys[k].created_by].row = "live" /\ users[keys[k].created_by].active)
                               => keys[k].revoked = "yes"
<1>1. keys \in [Keys -> APIKey] /\ sps \in [SPs -> SpStates] BY DEF AccountsInv, KeysOK, SpStates
<1>2. \A k \in Keys : keys[k].replaces \in Keys \cup {NoOne} BY <1>1 DEF APIKey
<1> QED BY <1>1, <1>2 DEF AccountsInv, KeysOK, OneReplacement, DetachedKeysDead, OffboardedKeysDead

\* Ending keys keeps what holds of them.
LEMMA TighteningKeeps ==
  ASSUME AccountsInv, keys' \in [Keys -> APIKey], sps' \in [SPs -> SpStates], \A k \in Keys : Tightened(k)
  PROVE  KeysKept
<1> USE KeysFacts DEF Tightened
<1>1. \A k \in Keys : keys'[k].row => keys'[k].created_by \in Users OBVIOUS
<1>2. ASSUME NEW k \in Keys, keys'[k].replaces # NoOne
      PROVE  keys'[keys'[k].replaces].row /\ keys'[keys'[k].replaces].revoked # "no"
  <2>1. PICK j : j = keys[k].replaces OBVIOUS
  <2>2. keys'[k].replaces = j /\ j \in Keys /\ keys[j].row /\ keys[j].revoked # "no" BY <1>2, <2>1
  <2>3. keys'[j].row = keys[j].row /\ keys'[j].revoked \in {"yes", keys[j].revoked} BY <2>2
  <2> QED BY <2>2, <2>3
<1>3. OneReplacement' BY DEF OneReplacement
<1>4. DetachedKeysDead' BY DEF DetachedKeysDead
<1>5. KeysOK' BY <1>1, <1>2, <1>3, <1>4 DEF KeysOK, SpStates
<1>6. UNCHANGED users => OffboardedKeysDead' BY DEF OffboardedKeysDead
<1>7. \A k \in Keys : keys[k].row => keys'[k].row OBVIOUS
<1> QED BY <1>5, <1>6, <1>7 DEF KeysKept

\* So does issuing one, to whoever may hold it, and putting the key it
\* replaces into its grace window.
LEMMA IssuingKeeps ==
  ASSUME AccountsInv, UNCHANGED sps, keys' \in [Keys -> APIKey],
         NEW n \in Keys, ~keys[n].row, NEW b \in APIKey, keys'[n] = b,
         b.row, b.created_by \in Users, b.issued_to = "sp" => b.sp # NoOne,
         b.sp = NoOne => users[b.created_by].row = "live" /\ users[b.created_by].active,
         NEW old \in Keys \cup {NoOne}, b.replaces = old, old # n,
         \A k \in Keys \ {n, old} : keys'[k] = keys[k],
         old # NoOne => /\ keys[old].row /\ keys[old].revoked = "no"
                        /\ keys'[old] = [keys[old] EXCEPT !.revoked = "grace"]
  PROVE  KeysKept
<1> USE KeysFacts
<1>0. ASSUME NEW k \in Keys, k # n
      PROVE  /\ keys'[k].row = keys[k].row /\ keys'[k].created_by = keys[k].created_by /\ keys'[k].sp = keys[k].sp
             /\ keys'[k].issued_to = keys[k].issued_to /\ keys'[k].replaces = keys[k].replaces
             /\ keys'[k].revoked = keys[k].revoked \/ (k = old /\ keys[k].revoked = "no" /\ keys'[k].revoked = "grace")
  <2>1. CASE k = old
    <3>1. keys[k] \in APIKey /\ keys[k].revoked = "no" /\ keys'[k] = [keys[k] EXCEPT !.revoked = "grace"] BY <2>1, AccountsAssumption
    <3> QED BY <2>1, <3>1 DEF APIKey
  <2>2. CASE k # old BY <1>0, <2>2
  <2> QED BY <2>1, <2>2
<1>1. \A k \in Keys : keys'[k].row => keys'[k].created_by \in Users BY <1>0
<1>2. \A k \in Keys : k # n /\ keys[k].replaces # NoOne => keys[k].replaces \notin {n, old} OBVIOUS
<1>3. ASSUME NEW k \in Keys, keys'[k].replaces # NoOne
      PROVE  keys'[keys'[k].replaces].row /\ keys'[keys'[k].replaces].revoked # "no"
  <2>1. CASE k = n
    <3>1. keys'[k].replaces = old /\ old \in Keys BY <1>3, <2>1
    <3>2. keys[old] \in APIKey /\ keys[old].row /\ keys'[old] = [keys[old] EXCEPT !.revoked = "grace"] BY <1>3, <2>1, <3>1
    <3>3. keys'[old].row = keys[old].row /\ keys'[old].revoked = "grace" BY <3>2 DEF APIKey
    <3> QED BY <3>1, <3>2, <3>3
  <2>2. CASE k # n
    <3>1. PICK j : j = keys[k].replaces OBVIOUS
    <3>2. keys'[k].replaces = j /\ j \in Keys \ {n, old} /\ keys[j].row /\ keys[j].revoked # "no" BY <1>0, <1>2, <1>3, <2>2, <3>1
    <3> QED BY <3>2
  <2> QED BY <2>1, <2>2
<1>4. OneReplacement'
  <2> SUFFICES ASSUME NEW j \in Keys, NEW k \in Keys, keys'[j].replaces # NoOne, keys'[j].replaces = keys'[k].replaces PROVE j = k
    BY DEF OneReplacement
  <2>1. CASE j # n /\ k # n BY <1>0, <2>1
  <2>2. CASE j = n /\ k # n BY <1>0, <1>2, <2>2
  <2>3. CASE j # n /\ k = n BY <1>0, <1>2, <2>3
  <2> QED BY <2>1, <2>2, <2>3
<1>5. DetachedKeysDead' BY <1>0 DEF DetachedKeysDead
<1>6. KeysOK' BY <1>1, <1>3, <1>4, <1>5 DEF KeysOK, SpStates
<1>7. ASSUME UNCHANGED users PROVE OffboardedKeysDead'
  <2> SUFFICES ASSUME NEW k \in Keys, keys'[k].row, keys'[k].sp = NoOne,
                      ~(users[keys'[k].created_by].row = "live" /\ users[keys'[k].created_by].active)
               PROVE  keys'[k].revoked = "yes"
    BY <1>7 DEF OffboardedKeysDead
  <2>1. k # n OBVIOUS
  <2> QED BY <1>0, <2>1
<1>8. \A k \in Keys : keys[k].row => keys'[k].row BY <1>0
<1> QED BY <1>6, <1>7, <1>8 DEF KeysKept

\* Every step tightens the keys or issues one.
LEMMA KeysStep ==
  ASSUME AccountsInv, [Next]_vars
  PROVE  KeysKept
<1>0. keys \in [Keys -> APIKey] /\ sps \in [SPs -> SpStates] BY KeysFacts
<1>1. \A p \in Procs : req[p] \in RequestType /\ ReqOK(req[p]) BY DEF AccountsInv, RequestsOK
<1>2. ASSUME UNCHANGED keys, sps' \in [SPs -> SpStates] PROVE KeysKept
  <2>1. \A k \in Keys : Tightened(k) BY <1>2 DEF Tightened
  <2> QED BY <1>0, <1>2, <2>1, TighteningKeeps
<1>3. ASSUME NEW k \in Keys, NEW x \in APIKey, keys' = [keys EXCEPT ![k] = x], UNCHANGED sps,
             x.row = keys[k].row, x.created_by = keys[k].created_by, x.issued_to = keys[k].issued_to, x.replaces = keys[k].replaces,
             x.revoked = "yes" \/ (x.sp = keys[k].sp /\ x.revoked = keys[k].revoked)
      PROVE  KeysKept
  <2>1. keys' \in [Keys -> APIKey] /\ keys'[k] = x /\ \A j \in Keys \ {k} : keys'[j] = keys[j] BY <1>0, <1>3
  <2>2. Tightened(k) BY <1>3, <2>1 DEF Tightened
  <2>3. \A j \in Keys : Tightened(j) BY <2>1, <2>2 DEF Tightened
  <2> QED BY <1>0, <1>3, <2>1, <2>3, TighteningKeeps
<1>4. ASSUME NEW p \in Procs, revoke_for_team(p) PROVE KeysKept
  <2> DEFINE k == req[p].key  x == [keys[k] EXCEPT !.revoked = "yes"]
  <2>1. req[p].at = "revoke" /\ keys' = [keys EXCEPT ![k] = x] /\ UNCHANGED sps BY <1>4 DEF revoke_for_team
  <2>2. k \in Keys BY <1>1, <2>1 DEF ReqOK
  <2>3. x \in APIKey /\ x.row = keys[k].row /\ x.created_by = keys[k].created_by /\ x.issued_to = keys[k].issued_to
         /\ x.replaces = keys[k].replaces /\ x.revoked = "yes"
    BY <1>0, <2>2 DEF APIKey
  <2> HIDE DEF x, k
  <2> QED BY <1>3, <2>1, <2>2, <2>3
<1>5. ASSUME NEW k \in Keys, KeyTimePasses(k) PROVE KeysKept
  <2>1. CASE keys' = [keys EXCEPT ![k].revoked = "yes"]
    <3> DEFINE x == [keys[k] EXCEPT !.revoked = "yes"]
    <3>1. keys' = [keys EXCEPT ![k] = x] /\ UNCHANGED sps BY <1>5, <2>1 DEF KeyTimePasses
    <3>2. x \in APIKey /\ x.row = keys[k].row /\ x.created_by = keys[k].created_by /\ x.issued_to = keys[k].issued_to
           /\ x.replaces = keys[k].replaces /\ x.revoked = "yes"
      BY <1>0 DEF APIKey
    <3> HIDE DEF x
    <3> QED BY <1>3, <3>1, <3>2
  <2>2. CASE keys' = [keys EXCEPT ![k].expired = TRUE]
    <3> DEFINE x == [keys[k] EXCEPT !.expired = TRUE]
    <3>1. keys' = [keys EXCEPT ![k] = x] /\ UNCHANGED sps BY <1>5, <2>2 DEF KeyTimePasses
    <3>2. x \in APIKey /\ x.row = keys[k].row /\ x.created_by = keys[k].created_by /\ x.issued_to = keys[k].issued_to
           /\ x.replaces = keys[k].replaces /\ x.sp = keys[k].sp /\ x.revoked = keys[k].revoked
      BY <1>0 DEF APIKey
    <3> HIDE DEF x
    <3> QED BY <1>3, <3>1, <3>2
  <2> QED BY <1>5, <2>1, <2>2 DEF KeyTimePasses
<1>6. ASSUME NEW u, revoke_personal_keys_for_user(u), UNCHANGED sps PROVE KeysKept
  <2>1. ASSUME NEW k \in Keys PROVE keys'[k] \in APIKey /\ Tightened(k)
    <3>1. keys[k] \in APIKey /\ keys'[k] \in {keys[k], [keys[k] EXCEPT !.revoked = "yes"]}
      BY <1>0, <1>6 DEF revoke_personal_keys_for_user
    <3> QED BY <3>1 DEF APIKey, Tightened
  <2>2. keys' \in [Keys -> APIKey] BY <1>6, <2>1 DEF revoke_personal_keys_for_user
  <2> QED BY <1>0, <1>6, <2>1, <2>2, TighteningKeeps
<1>7. ASSUME NEW sp \in SPs, delete_sp(sp) PROVE KeysKept
  <2>1. keys' = [k \in Keys |-> IF keys[k].sp = sp THEN [keys[k] EXCEPT !.revoked = "yes", !.sp = NoOne] ELSE keys[k]]
         /\ sps' = [sps EXCEPT ![sp] = "deleted"]
    BY <1>7 DEF delete_sp, revoke_for_service_principal
  <2>2. ASSUME NEW k \in Keys PROVE keys'[k] \in APIKey /\ Tightened(k)
    <3>1. keys[k] \in APIKey /\ keys'[k] \in {keys[k], [keys[k] EXCEPT !.revoked = "yes", !.sp = NoOne]} BY <1>0, <2>1
    <3>2. CASE keys'[k] = keys[k] BY <3>1, <3>2 DEF Tightened
    <3>3. CASE keys'[k] = [keys[k] EXCEPT !.revoked = "yes", !.sp = NoOne] BY <3>1, <3>3 DEF APIKey, Tightened
    <3> QED BY <3>1, <3>2, <3>3
  <2>3. keys' \in [Keys -> APIKey] BY <2>1, <2>2
  <2>4. sps' \in [SPs -> SpStates] BY <1>0, <2>1 DEF SpStates
  <2> QED BY <2>2, <2>3, <2>4, TighteningKeeps
<1>8. ASSUME NEW sp \in SPs, create_sp(sp) \/ set_enabled(sp) PROVE KeysKept
  <2>1. UNCHANGED keys /\ \E e \in {"enabled", "disabled"} : sps' = [sps EXCEPT ![sp] = e] BY <1>8 DEF create_sp, set_enabled
  <2>2. sps' \in [SPs -> SpStates] BY <1>0, <2>1 DEF SpStates
  <2> QED BY <1>2, <2>1, <2>2
<1>9. ASSUME NEW u \in Users, NEW sp \in SPs \cup {NoOne}, MayHold(u, sp), NEW old \in Keys \cup {NoOne}
      PROVE  LET b == _stage_issue(u, sp, old)
             IN  /\ b \in APIKey /\ b.row /\ b.created_by = u /\ b.sp = sp /\ b.replaces = old
                 /\ b.issued_to = "sp" => b.sp # NoOne
                 /\ b.sp = NoOne => users[u].row = "live" /\ users[u].active
  <2> DEFINE who == IF sp = NoOne THEN "user" ELSE "sp"
             b == [NoKey EXCEPT !.row = TRUE, !.created_by = u, !.sp = sp, !.replaces = old, !.issued_to = who]
  <2>1. who \in {"none", "user", "sp"} /\ (who = "sp" => sp # NoOne) OBVIOUS
  <2>2. b = _stage_issue(u, sp, old) BY DEF _stage_issue
  <2>3. sp = NoOne => users[u].row = "live" /\ users[u].active BY <1>9 DEF MayHold, _require_active_personal_owner, Live
  <2> HIDE DEF who
  <2>4. b \in APIKey BY <2>1, StartTypes DEF APIKey
  <2>5. b.row /\ b.created_by = u /\ b.sp = sp /\ b.replaces = old /\ b.issued_to = who BY DEF NoKey
  <2> HIDE DEF b
  <2> QED BY <2>1, <2>2, <2>3, <2>4, <2>5
<1>10. ASSUME NEW k \in NewKey PROVE k \in Keys /\ ~keys[k].row BY <1>10, OneOfIsOne DEF NewKey
<1>11. ASSUME NEW p \in Procs, issue(p) PROVE KeysKept
  <2> DEFINE r == req[p]  b == _stage_issue(r.user, r.target, NoOne)
  <2>1. CASE UNCHANGED keys BY <1>0, <1>2, <1>11, <2>1 DEF issue
  <2>2. CASE ~UNCHANGED keys
    <3>1. PICK k \in NewKey : r.at = "issue" /\ MayHold(r.user, r.target) /\ keys' = [keys EXCEPT ![k] = b] /\ UNCHANGED sps
      BY <1>11, <2>2 DEF issue
    <3>2. r.user \in Users /\ r.target \in SPs \cup {NoOne} BY <1>1, <3>1 DEF ReqOK
    <3>4. /\ b \in APIKey /\ b.row /\ b.created_by = r.user /\ b.sp = r.target /\ b.replaces = NoOne
          /\ b.issued_to = "sp" => b.sp # NoOne
          /\ b.sp = NoOne => users[r.user].row = "live" /\ users[r.user].active
      BY <1>9, <3>1, <3>2
    <3>5. keys' = [keys EXCEPT ![k] = b] /\ k \in Keys /\ ~keys[k].row BY <1>10, <3>1
    <3> HIDE DEF b, r
    <3>6. keys' \in [Keys -> APIKey] /\ keys'[k] = b /\ \A j \in Keys \ {k, NoOne} : keys'[j] = keys[j] BY <1>0, <3>4, <3>5
    <3> DEFINE old == NoOne
    <3>7. old \in Keys \cup {NoOne} /\ b.replaces = old /\ old # k /\ old = NoOne BY <3>4, <3>5, AccountsAssumption
    <3>8. \A j \in Keys \ {k, old} : keys'[j] = keys[j] BY <3>6
    <3>9. b.created_by \in Users /\ (b.sp = NoOne => users[b.created_by].row = "live" /\ users[b.created_by].active) BY <3>2, <3>4
    <3>10. old # NoOne => keys[old].row /\ keys[old].revoked = "no" /\ keys'[old] = [keys[old] EXCEPT !.revoked = "grace"] OBVIOUS
    <3>3. UNCHANGED sps /\ keys' \in [Keys -> APIKey] /\ k \in Keys /\ ~keys[k].row /\ b \in APIKey /\ keys'[k] = b
           /\ b.row /\ (b.issued_to = "sp" => b.sp # NoOne)
      BY <3>1, <3>4, <3>5, <3>6
    <3> HIDE DEF old
    <3> QED BY <3>3, <3>7, <3>8, <3>9, <3>10, IssuingKeeps
  <2> QED BY <2>1, <2>2
<1>12. ASSUME NEW p \in Procs, rotate_for_team(p) PROVE KeysKept
  <2> DEFINE r == req[p]  old == r.key  ex == keys[old].expired  a == _stage_issue(r.user, r.target, old)  b == [a EXCEPT !.expired = ex]
  <2>1. CASE UNCHANGED keys BY <1>0, <1>2, <1>12, <2>1 DEF rotate_for_team
  <2>2. CASE ~UNCHANGED keys
    <3>1. PICK k \in NewKey : /\ r.at = "rotate" /\ MayHold(r.user, r.target) /\ StillRotatable(r) /\ UNCHANGED sps
                              /\ keys' = [keys EXCEPT ![k] = b, ![old].revoked = "grace"]
      BY <1>12, <2>2 DEF rotate_for_team
    <3>2. r.user \in Users /\ r.target \in SPs \cup {NoOne} /\ old \in Keys /\ keys[old].row BY <1>1, <3>1 DEF ReqOK
    <3>3. keys[old].revoked = "no" BY <3>1 DEF StillRotatable
    <3>4. ex \in BOOLEAN BY <1>0, <3>2 DEF APIKey
    <3> HIDE DEF ex
    <3>11. /\ a \in APIKey /\ a.row /\ a.created_by = r.user /\ a.sp = r.target /\ a.replaces = old
           /\ a.issued_to = "sp" => a.sp # NoOne
           /\ a.sp = NoOne => users[r.user].row = "live" /\ users[r.user].active
      BY <1>9, <3>1, <3>2
    <3> HIDE DEF a
    <3>5. /\ b \in APIKey /\ b.row /\ b.created_by = r.user /\ b.sp = r.target /\ b.replaces = old
          /\ b.issued_to = "sp" => b.sp # NoOne
          /\ b.sp = NoOne => users[r.user].row = "live" /\ users[r.user].active
      BY <3>4, <3>11 DEF APIKey
    <3>6. k \in Keys /\ ~keys[k].row BY <1>10
    <3>7. old # k BY <3>2, <3>6
    <3> HIDE DEF b, r, old
    <3> DEFINE x == [keys[old] EXCEPT !.revoked = "grace"]
    <3>8. x \in APIKey BY <1>0, <3>2 DEF APIKey
    <3>9. keys'[k] = b /\ keys'[old] = x /\ \A j \in Keys \ {k, old} : keys'[j] = keys[j] BY <1>0, <3>1, <3>2, <3>6, <3>7
    <3>10. keys' \in [Keys -> APIKey]
      <4>1. keys' = [j \in Keys |-> keys'[j]] BY <1>0, <3>1
      <4>2. \A j \in Keys : keys'[j] \in APIKey BY <1>0, <3>5, <3>8, <3>9
      <4> QED BY <4>1, <4>2
    <3> QED BY <3>1, <3>2, <3>3, <3>5, <3>6, <3>7, <3>9, <3>10, IssuingKeeps
  <2> QED BY <2>1, <2>2
<1>13. ASSUME UNCHANGED <<keys, sps>> PROVE KeysKept BY <1>0, <1>2, <1>13
<1>14. ASSUME NEW p \in Procs, set_user_active(p) \/ update_user_active(p) PROVE KeysKept
  BY <1>6, <1>13, <1>14 DEF set_user_active, update_user_active
<1>15. CASE BootstrapStep BY <1>13, <1>15 DEF BootstrapStep, ensure_admin_count, ensure_admin_add
<1>16. CASE AdminStep BY <1>13, <1>14, <1>16 DEF AdminStep, provide_current_admin, set_user_admin, delete_user
<1>17. CASE LoginStep
  BY <1>13, <1>17 DEF LoginStep, authenticate, finish_login, register_failed_login, set_login_lock, LockPasses, logout
<1>18. CASE RecoveryStep
  BY <1>13, <1>18 DEF RecoveryStep, unlock_user, create_password_reset, reset_password_read, reset_password, ResetExpires
<1>19. CASE SsoStep BY <1>13, <1>19 DEF SsoStep, upsert_sso_user, _resolve_or_create_sso_user, bind_sso, bind_sso_read, sso_callback
<1>20. CASE ScimStep BY <1>13, <1>14, <1>20 DEF ScimStep, create_scim_user, update_user, update_scim_identity,
     update_scim_identity_read
<1>21. CASE KeyStep
  <2>1. ASSUME NEW p \in Procs, create_key(p) \/ get_active_for_team(p) \/ authenticate_key(p) \/ admit(p) PROVE KeysKept
    BY <1>13, <2>1 DEF create_key, get_active_for_team, authenticate_key, admit
  <2> QED BY <1>4, <1>5, <1>7, <1>8, <1>11, <1>12, <1>21, <2>1 DEF KeyStep
<1>22. CASE UNCHANGED vars BY <1>13, <1>22 DEF vars
<1> QED BY <1>15, <1>16, <1>17, <1>18, <1>19, <1>20, <1>21, <1>22 DEF Next

-----------------------------------------------------------------------------
(* Requests under way.                                                     *)

\* Reset tokens are neither forgotten nor given to another account.
ResetsKept ==
    \A t \in Tokens : resets[t].state # "absent" => resets'[t].state # "absent" /\ resets'[t].user = resets[t].user

\* What a request relies on outlives the steps of the others.
LEMMA ReqStays ==
  ASSUME AccountsInv, users' \in [Users -> User], \A u \in Users : Ages(u), KeysKept, ResetsKept,
         NEW x \in RequestType, ReqOK(x)
  PROVE  ReqOK(x)'
<1>1. users \in [Users -> User] BY DEF AccountsInv, UsersOK
<1>2. x.row.tv \in Nat BY DEF RequestType, User
<1>3. x.at \in {"login", "sso_token"} => Dated(x.user, x.row.tv)'
  <2> SUFFICES ASSUME x.at \in {"login", "sso_token"} PROVE Dated(x.user, x.row.tv)' OBVIOUS
  <2>1. x.user \in Users /\ Dated(x.user, x.row.tv) BY DEF ReqOK
  <2> QED BY <1>1, <1>2, <2>1, DatesStay
<1>4. Bootstrapped => Bootstrapped' BY DEF Bootstrapped, Ages
<1>5. \A k \in Keys : keys[k].row => keys'[k].row BY DEF KeysKept
<1> QED BY <1>3, <1>4, <1>5 DEF ReqOK, ResetsKept

\* Every request is started on what the code has read, and keeps it.
LEMMA RequestsStep ==
  ASSUME AccountsInv, [Next]_vars, users' \in [Users -> User], \A u \in Users : Ages(u), KeysKept, ResetsKept
  PROVE  RequestsOK'
<1>0. req \in [Procs -> RequestType] /\ \A p \in Procs : ReqOK(req[p]) BY DEF AccountsInv, RequestsOK
<1>1. users \in [Users -> User] /\ sessions \subseteq TokenType /\ keys \in [Keys -> APIKey]
  BY KeysFacts DEF AccountsInv, UsersOK, SessionsOK
<1>2. ASSUME NEW u \in Users, Live(u) PROVE users[u] \in User /\ users[u].row = "live" BY <1>1, <1>2 DEF Live
<1>set. ASSUME NEW p \in Procs, NEW x \in RequestType, ReqOK(x)', req' = [req EXCEPT ![p] = x] PROVE RequestsOK'
  <2>1. req' \in [Procs -> RequestType] BY <1>0, <1>set
  <2>2. ASSUME NEW q \in Procs PROVE ReqOK(req[q])'
    <3>1. PICK y \in RequestType : y = req'[q] BY <2>1
    <3>2. y = x \/ ReqOK(y) BY <1>0, <1>set, <3>1
    <3>3. ReqOK(y)' BY <1>set, <3>2, ReqStays
    <3> QED BY <3>1, <3>3 DEF ReqOK
  <2> QED BY <2>1, <2>2 DEF RequestsOK
<1>3. ASSUME NEW p \in Procs, NEW x \in RequestType, ReqOK(x), req' = [req EXCEPT ![p] = x] PROVE RequestsOK'
  <2>1. ReqOK(x)' BY <1>3, ReqStays
  <2> QED BY <1>3, <1>set, <2>1
<1>4. ASSUME UNCHANGED req PROVE RequestsOK'
  <2>1. ASSUME NEW q \in Procs PROVE ReqOK(req[q])'
    <3>1. PICK y \in RequestType : y = req[q] BY <1>0
    <3>2. ReqOK(y)' BY <1>0, <3>1, ReqStays
    <3> QED BY <1>4, <3>1, <3>2 DEF ReqOK
  <2> QED BY <1>0, <1>4, <2>1 DEF RequestsOK
<1>5. ASSUME NEW p \in Procs, Finish(p) PROVE RequestsOK'
  <2>1. Idle \in RequestType /\ ReqOK(Idle) BY StartTypes DEF ReqOK, Idle, AdminOps
  <2> QED BY <1>3, <1>5, <2>1 DEF Finish
<1>6. ASSUME NEW p \in Procs, provide_current_admin(p) PROVE RequestsOK'
  <2>1. PICK z \in sessions, op \in AdminOps, t \in Users, f \in BOOLEAN :
            Start(p, [Idle EXCEPT !.at = op, !.user = z.user, !.target = t, !.flag = f])
    BY <1>6 DEF provide_current_admin
  <2> DEFINE x == [Idle EXCEPT !.at = op, !.user = z.user, !.target = t, !.flag = f]
  <2>2. z.user \in Users /\ op \in RequestPlaces BY <1>1 DEF TokenType, RequestPlaces
  <2>3. x \in RequestType BY <2>2, StartTypes DEF RequestType
  <2>4. x.at = op /\ x.target = t BY DEF Idle
  <2> HIDE DEF x
  <2>5. ReqOK(x) BY <2>4 DEF ReqOK, AdminOps
  <2>6. req' = [req EXCEPT ![p] = x] BY <2>1 DEF Start, x
  <2> QED BY <1>3, <2>3, <2>5, <2>6
<1>7. ASSUME NEW p \in Procs, ensure_admin_count(p) PROVE RequestsOK'
  <2> DEFINE x == [Idle EXCEPT !.at = "bootstrap"]
  <2>1. x \in RequestType BY StartTypes DEF RequestType, RequestPlaces
  <2>2. x.at = "bootstrap" BY DEF Idle
  <2>3. req' = [req EXCEPT ![p] = x] BY <1>7 DEF ensure_admin_count, Start
  <2> HIDE DEF x
  <2>4. ReqOK(x) BY <2>2 DEF ReqOK, AdminOps
  <2> QED BY <1>3, <2>1, <2>3, <2>4
<1>8. ASSUME NEW p \in Procs, reset_password_read(p) PROVE RequestsOK'
  <2>1. PICK t \in Tokens : resets[t].state = "open" /\ req' = [req EXCEPT ![p] = [Idle EXCEPT !.at = "redeem", !.target = resets[t].user, !.key = t]]
    BY <1>8 DEF reset_password_read, Start
  <2> DEFINE v == resets[t].user  x == [Idle EXCEPT !.at = "redeem", !.target = v, !.key = t]
  <2>2. v \in Users BY <2>1 DEF AccountsInv, ResetsOK, Live
  <2>3. x \in RequestType BY <2>2, StartTypes DEF RequestType, RequestPlaces
  <2>4. x.at = "redeem" /\ x.target = v /\ x.key = t BY DEF Idle
  <2>5. req' = [req EXCEPT ![p] = x] BY <2>1
  <2> HIDE DEF x
  <2>6. ReqOK(x) BY <2>1, <2>2, <2>4 DEF ReqOK, AdminOps
  <2> QED BY <1>3, <2>3, <2>5, <2>6
<1>9. ASSUME NEW p \in Procs, authenticate(p) PROVE RequestsOK'
  <2>1. PICK u \in Users, right \in BOOLEAN :
            Live(u) /\ req' = [req EXCEPT ![p] = [Idle EXCEPT !.at = IF right THEN "login" ELSE "failed", !.user = u, !.row = Read(u)]]
    BY <1>9 DEF authenticate, Start
  <2> DEFINE at == IF right THEN "login" ELSE "failed"
             x == [Idle EXCEPT !.at = at, !.user = u, !.row = Read(u)]
  <2>2. users[u] \in User /\ users[u].row = "live" BY <1>2, <2>1
  <2>3. users[u].tv \in 0..MaxTokenVersion /\ users[u].failed \in Nat /\ users[u].lock \in Locks BY <2>2 DEF User
  <2>4. Read(u) \in User BY <2>3, StartTypes DEF Read, User
  <2>5. Read(u).tv = users[u].tv BY DEF Read, Absent
  <2>6. at \in {"login", "failed"} OBVIOUS
  <2> HIDE DEF at
  <2>7. x \in RequestType BY <2>4, <2>6, StartTypes DEF RequestType, RequestPlaces
  <2>8. x.at = at /\ x.user = u /\ x.row = Read(u) BY DEF Idle
  <2>9. req' = [req EXCEPT ![p] = x] BY <2>1 DEF at
  <2> HIDE DEF x
  <2>10. Dated(u, users[u].tv) BY <2>2, <2>3 DEF Dated
  <2>11. ReqOK(x) BY <2>5, <2>6, <2>8, <2>10 DEF ReqOK, AdminOps
  <2> QED BY <1>3, <2>7, <2>9, <2>11
<1>10. ASSUME NEW p \in Procs, register_failed_login(p) PROVE RequestsOK'
  <2> DEFINE r == req[p]  x == [r EXCEPT !.at = "lock"]
  <2>1. r \in RequestType /\ ReqOK(r) /\ r.at = "failed" BY <1>0, <1>10 DEF register_failed_login
  <2>2. x \in RequestType /\ x.at = "lock" /\ x.user = r.user BY <2>1 DEF RequestType, RequestPlaces
  <2>3. r.user \in Users BY <2>1 DEF ReqOK
  <2>4. Finish(p) \/ req' = [req EXCEPT ![p] = x] BY <1>10 DEF register_failed_login, Finish
  <2> HIDE DEF x, r
  <2>5. ReqOK(x) BY <2>2, <2>3 DEF ReqOK, AdminOps
  <2> QED BY <1>3, <1>5, <2>2, <2>4, <2>5
<1>11. ASSUME NEW p \in Procs, bind_sso(p) PROVE RequestsOK'
  <2> DEFINE r == req[p]  x == [r EXCEPT !.at = "sso_bound"]
  <2>1. r \in RequestType /\ ReqOK(r) /\ r.at = "sso_bind" BY <1>0, <1>11 DEF bind_sso
  <2>2. x \in RequestType /\ x.at = "sso_bound" /\ x.user = r.user BY <2>1 DEF RequestType, RequestPlaces
  <2>3. r.user \in Users BY <2>1 DEF ReqOK
  <2>4. Finish(p) \/ req' = [req EXCEPT ![p] = x] BY <1>11 DEF bind_sso, Finish
  <2> HIDE DEF x, r
  <2>5. ReqOK(x) BY <2>2, <2>3 DEF ReqOK, AdminOps
  <2> QED BY <1>3, <1>5, <2>2, <2>4, <2>5
<1>token. ASSUME NEW r \in RequestType, NEW u \in Users, NEW version \in 0..MaxTokenVersion
       PROVE  LET x == ToToken(r, u, version)
              IN  x \in RequestType /\ x.at = "sso_token" /\ x.user = u /\ x.row.tv = version
  <2> DEFINE a == [Absent EXCEPT !.tv = version]  x == [r EXCEPT !.at = "sso_token", !.user = u, !.row = a]
  <2>1. a \in User /\ a.tv = version BY StartTypes DEF User, Absent
  <2>2. ToToken(r, u, version) = x BY DEF ToToken
  <2> HIDE DEF a
  <2>3. x \in RequestType /\ x.at = "sso_token" /\ x.user = u /\ x.row = a BY <2>1 DEF RequestType, RequestPlaces
  <2> HIDE DEF x
  <2> QED BY <2>1, <2>2, <2>3
<1>dated. ASSUME NEW p \in Procs, NEW r \in RequestType, NEW u \in Users, Live(u), req' = [req EXCEPT ![p] = ToToken(r, u, users[u].tv)]
       PROVE  RequestsOK'
  <2> DEFINE v == users[u].tv  x == ToToken(r, u, v)
  <2>1. users[u].row = "live" /\ v \in 0..MaxTokenVersion /\ v \in Nat BY <1>2, <1>dated DEF User
  <2>2. Dated(u, v) BY <2>1 DEF Dated
  <2>3. req' = [req EXCEPT ![p] = x] BY <1>dated
  <2> HIDE DEF v
  <2>4. x \in RequestType /\ x.at = "sso_token" /\ x.user = u /\ x.row.tv = v BY <1>token, <2>1
  <2> HIDE DEF x
  <2>5. ReqOK(x) BY <2>2, <2>4 DEF ReqOK, AdminOps
  <2> QED BY <1>3, <2>3, <2>4, <2>5
<1>readback. ASSUME NEW p \in Procs, bind_sso_read(p) PROVE RequestsOK'
  <2> DEFINE r == req[p]
  <2>1. r \in RequestType /\ r.user \in Users BY <1>0, <1>readback DEF bind_sso_read, ReqOK
  <2>2. Finish(p) \/ (Live(r.user) /\ req' = [req EXCEPT ![p] = ToToken(r, r.user, users[r.user].tv)])
    BY <1>readback DEF bind_sso_read, Finish
  <2> HIDE DEF r
  <2> QED BY <1>5, <1>dated, <2>1, <2>2
<1>12. ASSUME NEW a \in RequestType, NEW u \in Users, a.sub \in Subjects
       PROVE  ToBind(a, u) \in RequestType /\ ReqOK(ToBind(a, u))
  <2> DEFINE f == users[u].admin  b == [a.row EXCEPT !.admin = f]  x == [a EXCEPT !.at = "sso_bind", !.user = u, !.row = b]
  <2>1. a.row \in User /\ f \in BOOLEAN BY <1>1 DEF RequestType, User
  <2>2. ToBind(a, u) = x BY DEF ToBind
  <2> HIDE DEF f
  <2>3. b \in User BY <2>1 DEF User
  <2> HIDE DEF b
  <2>4. x \in RequestType BY <2>3 DEF RequestType, RequestPlaces
  <2>5. x.at = "sso_bind" /\ x.user = u /\ x.sub = a.sub BY DEF RequestType
  <2> HIDE DEF x
  <2>6. ReqOK(x) BY <1>12, <2>5 DEF ReqOK, AdminOps
  <2> QED BY <2>2, <2>4, <2>6
<1>13. ASSUME NEW p \in Procs, upsert_sso_user(p) PROVE RequestsOK'
  <2>1. PICK s \in Subjects, e \in Emails, group_admin \in BOOLEAN :
            LET found == IF BySubject(s) # {} THEN BySubject(s) ELSE ByEmail(e)
                next == [Idle EXCEPT !.sub = s, !.email = e, !.flag = group_admin]
            IN  /\ Bootstrapped
                /\ \/ found = {} /\ Start(p, [next EXCEPT !.at = "sso_create"])
                   \/ \E u \in found : Start(p, ToBind(next, u))
    BY <1>13 DEF upsert_sso_user
  <2> DEFINE found == IF BySubject(s) # {} THEN BySubject(s) ELSE ByEmail(e)
             next == [Idle EXCEPT !.sub = s, !.email = e, !.flag = group_admin]
             x == [next EXCEPT !.at = "sso_create"]
  <2>2. next \in RequestType /\ next.sub = s /\ next.email = e BY StartTypes DEF RequestType, Idle
  <2>3. found \subseteq Users BY DEF BySubject, ByEmail
  <2>4. Start(p, x) \/ \E u \in found : Start(p, ToBind(next, u)) BY <2>1
  <2> HIDE DEF next, found
  <2>5. CASE Start(p, x)
    <3>1. x \in RequestType /\ x.at = "sso_create" /\ x.sub = s /\ x.email = e BY <2>2 DEF RequestType, RequestPlaces
    <3> HIDE DEF x
    <3>2. ReqOK(x) BY <2>1, <3>1 DEF ReqOK, AdminOps
    <3> QED BY <1>3, <2>5, <3>1, <3>2 DEF Start
  <2>6. ASSUME NEW u \in Users, Start(p, ToBind(next, u)) PROVE RequestsOK' BY <1>3, <1>12, <2>2, <2>6 DEF Start
  <2> QED BY <2>3, <2>4, <2>5, <2>6
<1>14. ASSUME NEW p \in Procs, _resolve_or_create_sso_user(p) PROVE RequestsOK'
  <2> DEFINE r == req[p]
  <2>1. r \in RequestType /\ r.sub \in Subjects BY <1>0, <1>14 DEF _resolve_or_create_sso_user, ReqOK
  <2>2. \/ Finish(p)
        \/ \E u \in Users : users'[u].row = "live" /\ users'[u].tv = 0 /\ req' = [req EXCEPT ![p] = ToToken(r, u, 0)]
        \/ \E u \in Users : Live(u) /\ req' = [req EXCEPT ![p] = ToToken(r, u, users[u].tv)]
        \/ \E u \in Users : req' = [req EXCEPT ![p] = ToBind(r, u)]
    <3> DEFINE b == [Absent EXCEPT !.row = "live", !.email = r.email, !.sub = r.sub, !.admin = r.flag \/ DefaultAdmin]
    <3>1. NewId \subseteq Users BY OneOfIsOne DEF NewId
    <3>2. b.row = "live" /\ b.tv = 0 BY DEF Absent
    <3>3. CASE CanAdd(r.email, r.sub)
      <4>1. PICK u \in NewId : users' = [users EXCEPT ![u] = b] /\ req' = [req EXCEPT ![p] = ToToken(r, u, 0)]
        BY <1>14, <3>3 DEF _resolve_or_create_sso_user, Added
      <4>2. u \in Users /\ users'[u] = b BY <1>1, <3>1, <4>1
      <4> HIDE DEF b
      <4> QED BY <3>2, <4>1, <4>2
    <3>4. CASE ~CanAdd(r.email, r.sub)
      BY <1>14, <3>4 DEF _resolve_or_create_sso_user, Finish, BySubject, ByEmail
    <3> QED BY <3>3, <3>4
  <2> HIDE DEF r
  <2>3. ASSUME NEW u \in Users, users'[u].row = "live", users'[u].tv = 0, req' = [req EXCEPT ![p] = ToToken(r, u, 0)] PROVE RequestsOK'
    <3>1. 0 \in 0..MaxTokenVersion BY AccountsAssumption
    <3>2. PICK x \in RequestType : x = ToToken(r, u, 0) /\ x.at = "sso_token" /\ x.user = u /\ x.row.tv = 0
      BY <1>token, <2>1, <3>1
    <3>3. req' = [req EXCEPT ![p] = x] BY <2>3, <3>2
    <3>4. Dated(u, 0)' BY <2>3 DEF Dated
    <3>5. ReqOK(x)' BY <3>2, <3>4 DEF ReqOK, AdminOps
    <3> QED BY <1>set, <3>2, <3>3, <3>5
  <2>4. ASSUME NEW u \in Users, req' = [req EXCEPT ![p] = ToBind(r, u)] PROVE RequestsOK' BY <1>3, <1>12, <2>1, <2>4
  <2> QED BY <1>5, <1>dated, <2>1, <2>2, <2>3, <2>4
<1>15. ASSUME NEW p \in Procs, update_user(p) PROVE RequestsOK'
  <2>1. PICK u \in Users, active \in BOOLEAN, moved \in BOOLEAN, e \in Emails :
            Start(p, [Idle EXCEPT !.at = IF moved THEN "scim_identity" ELSE "scim",
                                 !.target = u, !.flag = active, !.email = IF moved THEN e ELSE NoOne])
    BY <1>15 DEF update_user
  <2> DEFINE at == IF moved THEN "scim_identity" ELSE "scim"  to == IF moved THEN e ELSE NoOne
             x == [Idle EXCEPT !.at = at, !.target = u, !.flag = active, !.email = to]
  <2>2. at \in {"scim_identity", "scim"} /\ to \in Emails \cup {NoOne} /\ (at = "scim_identity" => to \in Emails) OBVIOUS
  <2>3. req' = [req EXCEPT ![p] = x] BY <2>1 DEF Start
  <2> HIDE DEF at, to
  <2>4. x \in RequestType BY <2>2, StartTypes DEF RequestType, RequestPlaces
  <2>5. x.at = at /\ x.target = u /\ x.email = to BY DEF Idle
  <2> HIDE DEF x
  <2>6. ReqOK(x) BY <2>2, <2>5 DEF ReqOK, AdminOps
  <2> QED BY <1>3, <2>3, <2>4, <2>6
<1>identity. ASSUME NEW p \in Procs, update_scim_identity(p) PROVE RequestsOK'
  <2> DEFINE r == req[p]  x == [r EXCEPT !.at = "scim_moved", !.email = NoOne]
  <2>1. r \in RequestType /\ ReqOK(r) /\ r.at = "scim_identity" BY <1>0, <1>identity DEF update_scim_identity
  <2>2. x \in RequestType /\ x.at = "scim_moved" /\ x.target = r.target BY <2>1 DEF RequestType, RequestPlaces
  <2>3. r.target \in Users BY <2>1 DEF ReqOK
  <2>4. Finish(p) \/ req' = [req EXCEPT ![p] = x] BY <1>identity DEF update_scim_identity, Finish
  <2> HIDE DEF x, r
  <2>5. ReqOK(x) BY <2>2, <2>3 DEF ReqOK, AdminOps
  <2> QED BY <1>3, <1>5, <2>2, <2>4, <2>5
<1>identityread. ASSUME NEW p \in Procs, update_scim_identity_read(p) PROVE RequestsOK'
  <2> DEFINE r == req[p]  x == [r EXCEPT !.at = "scim"]
  <2>1. r \in RequestType /\ ReqOK(r) /\ r.at = "scim_moved" BY <1>0, <1>identityread DEF update_scim_identity_read
  <2>2. x \in RequestType /\ x.at = "scim" /\ x.target = r.target BY <2>1 DEF RequestType, RequestPlaces
  <2>3. r.target \in Users BY <2>1 DEF ReqOK
  <2>4. Finish(p) \/ req' = [req EXCEPT ![p] = x] BY <1>identityread DEF update_scim_identity_read, Finish
  <2> HIDE DEF x, r
  <2>5. ReqOK(x) BY <2>2, <2>3 DEF ReqOK, AdminOps
  <2> QED BY <1>3, <1>5, <2>2, <2>4, <2>5
<1>16. ASSUME NEW p \in Procs, create_key(p) PROVE RequestsOK'
  <2>1. PICK z \in sessions, sp \in SPs \cup {NoOne} : req' = [req EXCEPT ![p] = [Idle EXCEPT !.at = "issue", !.user = z.user, !.target = sp]]
    BY <1>16 DEF create_key, Start
  <2> DEFINE x == [Idle EXCEPT !.at = "issue", !.user = z.user, !.target = sp]
  <2>2. z.user \in Users BY <1>1 DEF TokenType
  <2>3. x \in RequestType BY <2>2, StartTypes DEF RequestType, RequestPlaces
  <2>4. x.at = "issue" /\ x.user = z.user /\ x.target = sp BY DEF Idle
  <2>5. req' = [req EXCEPT ![p] = x] BY <2>1
  <2> HIDE DEF x
  <2>6. ReqOK(x) BY <2>2, <2>4 DEF ReqOK, AdminOps
  <2> QED BY <1>3, <2>3, <2>5, <2>6
<1>17. ASSUME NEW p \in Procs, get_active_for_team(p) PROVE RequestsOK'
  <2>1. PICK k \in Keys, op \in {"rotate", "revoke"} :
            is_active(k) /\ req' = [req EXCEPT ![p] = [Idle EXCEPT !.at = op, !.user = keys[k].created_by, !.target = keys[k].sp, !.key = k]]
    BY <1>17 DEF get_active_for_team, Start
  <2> DEFINE u == keys[k].created_by  sp == keys[k].sp  x == [Idle EXCEPT !.at = op, !.user = u, !.target = sp, !.key = k]
  <2>2. keys[k].row /\ u \in Users /\ sp \in SPs \cup {NoOne} BY <1>1, <2>1, KeysFacts DEF is_active, APIKey
  <2>3. req' = [req EXCEPT ![p] = x] BY <2>1
  <2> HIDE DEF u, sp
  <2>4. x \in RequestType BY <2>2, StartTypes DEF RequestType, RequestPlaces
  <2>5. x.at = op /\ x.user = u /\ x.target = sp /\ x.key = k BY DEF Idle
  <2> HIDE DEF x
  <2>6. ReqOK(x) BY <2>2, <2>5 DEF ReqOK, AdminOps
  <2> QED BY <1>3, <2>3, <2>4, <2>6
<1>18. ASSUME NEW p \in Procs, authenticate_key(p) PROVE RequestsOK'
  <2>1. PICK k \in Keys : is_active(k) /\ req' = [req EXCEPT ![p] = [Idle EXCEPT !.at = "auth", !.key = k]]
    BY <1>18 DEF authenticate_key, Start
  <2> DEFINE x == [Idle EXCEPT !.at = "auth", !.key = k]
  <2>2. x \in RequestType BY StartTypes DEF RequestType, RequestPlaces
  <2>3. x.at = "auth" /\ x.key = k BY DEF Idle
  <2>4. req' = [req EXCEPT ![p] = x] BY <2>1
  <2> HIDE DEF x
  <2>5. ReqOK(x) BY <2>1, <2>3 DEF ReqOK, AdminOps, is_active
  <2> QED BY <1>3, <2>2, <2>4, <2>5
<1>19. CASE BootstrapStep BY <1>5, <1>7, <1>19 DEF BootstrapStep, ensure_admin_add
<1>20. CASE AdminStep BY <1>5, <1>6, <1>20 DEF AdminStep, set_user_active, set_user_admin, delete_user
<1>21. CASE LoginStep BY <1>4, <1>5, <1>9, <1>10, <1>21 DEF LoginStep, finish_login, set_login_lock, LockPasses, logout
<1>22. CASE RecoveryStep BY <1>4, <1>5, <1>8, <1>22 DEF RecoveryStep, unlock_user, create_password_reset, reset_password, ResetExpires
<1>23. CASE SsoStep BY <1>5, <1>11, <1>13, <1>14, <1>23, <1>readback DEF SsoStep, sso_callback
<1>24. CASE ScimStep BY <1>4, <1>5, <1>15, <1>24, <1>identity, <1>identityread DEF ScimStep, create_scim_user, update_user_active
<1>25. CASE KeyStep
  BY <1>4, <1>5, <1>16, <1>17, <1>18, <1>25 DEF KeyStep, issue, rotate_for_team, revoke_for_team, admit, KeyTimePasses,
     create_sp, set_enabled, delete_sp
<1>26. CASE UNCHANGED vars BY <1>4, <1>26 DEF vars
<1> QED BY <1>19, <1>20, <1>21, <1>22, <1>23, <1>24, <1>25, <1>26 DEF Next

-----------------------------------------------------------------------------
(* The lockout.                                                            *)

\* An account at the threshold was there before, or its last failure left a
\* request to lock it.
LEMMA FailuresStep ==
  ASSUME AccountsInv, UserWrite, NEW v \in Users, Live(v)'
  PROVE  \/ Live(v) /\ users'[v].failed <= users[v].failed
         \/ users'[v].failed < MAX_FAILED_LOGINS
         \/ \E p \in Procs : req'[p].at = "lock" /\ req'[p].user = v
<1>0. users \in [Users -> User] /\ users[v].failed \in Nat BY DEF AccountsInv, UsersOK, User
<1>1. CASE users'[v] = users[v] BY <1>0, <1>1 DEF Live
<1>2. ASSUME NEW u \in Users, NEW b \in User, RowAdded(u, b), users'[v] # users[v] PROVE users'[v].failed < MAX_FAILED_LOGINS
  <2>1. users' = [users EXCEPT ![u] = b] /\ b.failed = 0 BY <1>2 DEF RowAdded
  <2>2. users'[v] = b BY <1>0, <1>2, <2>1
  <2> QED BY <2>1, <2>2, AccountsAssumption
<1>3. ASSUME NEW u \in Users, NEW b \in User, RowEdited(u, b), users'[v] # users[v]
      PROVE  \/ Live(v) /\ users'[v].failed <= users[v].failed
             \/ users'[v].failed < MAX_FAILED_LOGINS
             \/ \E p \in Procs : req'[p].at = "lock" /\ req'[p].user = v
  <2>1. Live(u) /\ users' = [users EXCEPT ![u] = b] /\ FailuresKept(u, b) BY <1>3 DEF RowEdited
  <2>2. v = u /\ users'[v] = b BY <1>0, <1>3, <2>1
  <2> QED BY <2>1, <2>2 DEF FailuresKept
<1>4. ASSUME NEW u \in Users, NEW flag \in BOOLEAN, NEW by \in {"admin", "scim"}, RowSwitched(u, flag, by), users'[v] # users[v]
      PROVE  Live(v) /\ users'[v].failed <= users[v].failed
  <2>1. Live(u) /\ (\A w \in Users \ {u} : users'[w] = users[w]) /\ users'[u].failed = users[u].failed
    BY <1>0, <1>4, SwitchedRow DEF RowSwitched
  <2> QED BY <1>0, <1>4, <2>1
<1>5. ASSUME NEW u \in Users, RowDeleted(u), users'[v] # users[v] PROVE FALSE
  <2>1. users' = [users EXCEPT ![u] = [Absent EXCEPT !.row = "deleted"]] BY <1>5 DEF RowDeleted
  <2>2. users'[v].row = "deleted" BY <1>0, <1>5, <2>1 DEF Absent
  <2> QED BY <2>2 DEF Live
<1> QED BY <1>1, <1>2, <1>3, <1>4, <1>5 DEF UserWrite

\* A request that is about to lock is interrupted by nobody.
LEMMA LocksStay ==
  ASSUME AccountsInv, [Next]_vars, NEW q \in Procs, req[q].at = "lock"
  PROVE  req'[q] = req[q] \/ set_login_lock(q)
<1>0. req \in [Procs -> RequestType] BY DEF AccountsInv, RequestsOK
<1>1. ASSUME NEW p \in Procs, NEW x, req' = [req EXCEPT ![p] = x], req[p].at # "lock" PROVE req'[q] = req[q] BY <1>0, <1>1
<1>2. ASSUME NEW p \in Procs, NEW x, Start(p, x), Free(p) PROVE req'[q] = req[q] BY <1>1, <1>2 DEF Start, Free
<1>3. ASSUME NEW p \in Procs, Finish(p), req[p].at # "lock" PROVE req'[q] = req[q] BY <1>1, <1>3 DEF Finish
<1>4. CASE BootstrapStep BY <1>2, <1>3, <1>4 DEF BootstrapStep, ensure_admin_count, ensure_admin_add
<1>5. CASE AdminStep BY <1>2, <1>3, <1>5 DEF AdminStep, provide_current_admin, set_user_active, set_user_admin, delete_user
<1>6. CASE LoginStep
  <2>1. ASSUME NEW p \in Procs, set_login_lock(p) PROVE req'[q] = req[q] \/ set_login_lock(q)
    BY <1>0, <2>1 DEF set_login_lock, Finish
  <2>2. ASSUME NEW p \in Procs, register_failed_login(p) PROVE req'[q] = req[q] BY <1>1, <2>2 DEF register_failed_login
  <2>3. ASSUME NEW p \in Procs, authenticate(p) PROVE req'[q] = req[q] BY <1>2, <2>3 DEF authenticate
  <2> QED BY <1>3, <1>6, <2>1, <2>2, <2>3 DEF LoginStep, finish_login, LockPasses, logout
<1>7. CASE RecoveryStep
  BY <1>2, <1>3, <1>7 DEF RecoveryStep, unlock_user, create_password_reset, reset_password_read, reset_password, ResetExpires
<1>8. CASE SsoStep
  <2>1. ASSUME NEW p \in Procs, upsert_sso_user(p) PROVE req'[q] = req[q] BY <1>2, <2>1 DEF upsert_sso_user
  <2>2. ASSUME NEW p \in Procs, _resolve_or_create_sso_user(p) PROVE req'[q] = req[q] BY <1>1, <2>2 DEF _resolve_or_create_sso_user
  <2>3. ASSUME NEW p \in Procs, bind_sso(p) PROVE req'[q] = req[q] BY <1>1, <2>3 DEF bind_sso
  <2>4. ASSUME NEW p \in Procs, bind_sso_read(p) PROVE req'[q] = req[q] BY <1>1, <2>4 DEF bind_sso_read
  <2> QED BY <1>3, <1>8, <2>1, <2>2, <2>3, <2>4 DEF SsoStep, sso_callback
<1>9. CASE ScimStep
  <2>1. ASSUME NEW p \in Procs, update_scim_identity(p) \/ update_scim_identity_read(p) PROVE req'[q] = req[q]
    BY <1>1, <2>1 DEF update_scim_identity, update_scim_identity_read
  <2> QED BY <1>2, <1>3, <1>9, <2>1 DEF ScimStep, create_scim_user, update_user, update_user_active
<1>10. CASE KeyStep
  BY <1>2, <1>3, <1>10 DEF KeyStep, create_key, issue, get_active_for_team, rotate_for_team, revoke_for_team, authenticate_key, admit,
     KeyTimePasses, create_sp, set_enabled, delete_sp
<1>11. CASE UNCHANGED vars BY <1>11 DEF vars
<1> QED BY <1>4, <1>5, <1>6, <1>7, <1>8, <1>9, <1>10, <1>11 DEF Next

\* Whoever is at the threshold is about to be locked.
LEMMA ThresholdStep ==
  ASSUME AccountsInv, [Next]_vars, UserWrite, users' \in [Users -> User]
  PROVE  ThresholdLocks'
<1> SUFFICES ASSUME NEW v \in Users, Live(v)', users'[v].failed >= MAX_FAILED_LOGINS
             PROVE  \E p \in Procs : req'[p].at = "lock" /\ req'[p].user = v
  BY DEF ThresholdLocks
<1>0. users \in [Users -> User] /\ users[v].failed \in Nat /\ users'[v].failed \in Nat BY DEF AccountsInv, UsersOK, User
<1>1. CASE Live(v) /\ users'[v].failed <= users[v].failed
  <2>1. users[v].failed >= MAX_FAILED_LOGINS BY <1>0, <1>1, AccountsAssumption
  <2>2. PICK q \in Procs : req[q].at = "lock" /\ req[q].user = v BY <1>1, <2>1 DEF AccountsInv, ThresholdLocks
  <2>3. CASE req'[q] = req[q] BY <2>2, <2>3
  <2>4. CASE set_login_lock(q)
    <3>1. users'[v].failed = 0 BY <1>0, <1>1, <2>2, <2>4 DEF set_login_lock, User
    <3> QED BY <3>1, AccountsAssumption
  <2> QED BY <2>2, <2>3, <2>4, LocksStay
<1>2. CASE ~(Live(v) /\ users'[v].failed <= users[v].failed) BY <1>0, <1>2, FailuresStep, AccountsAssumption
<1> QED BY <1>1, <1>2

-----------------------------------------------------------------------------
(* The theorems.                                                           *)

\* A key is admitted by the second look only.
LEMMA AdmittedStep ==
  ASSUME AccountsInv, [Next]_vars
  PROVE  AdmittedWhileGood'
<1> SUFFICES admitted'.good BY DEF AdmittedWhileGood
<1>0. admitted.good BY DEF AccountsInv, AdmittedWhileGood
<1>1. ASSUME NEW p \in Procs, admit(p) PROVE admitted'.good
  <2> DEFINE k == req[p].key
  <2>1. CASE is_authenticatable(k)
    <3>1. Good(k) BY <2>1 DEF is_authenticatable, Good, MayHold, _require_active_personal_owner, _require_enabled_service_principal
    <3> HIDE DEF k
    <3>2. admitted' = [key |-> k, good |-> Good(k)] BY <1>1, <2>1 DEF admit, k
    <3> QED BY <3>1, <3>2, Zenon
  <2>2. CASE ~is_authenticatable(k) BY <1>0, <1>1, <2>2 DEF admit
  <2> QED BY <2>1, <2>2
<1>2. ASSUME UNCHANGED admitted PROVE admitted'.good BY <1>0, <1>2
<1>3. CASE BootstrapStep BY <1>2, <1>3 DEF BootstrapStep, ensure_admin_count, ensure_admin_add
<1>4. CASE AdminStep BY <1>2, <1>4 DEF AdminStep, provide_current_admin, set_user_active, set_user_admin, delete_user
<1>5. CASE LoginStep
  BY <1>2, <1>5 DEF LoginStep, authenticate, finish_login, register_failed_login, set_login_lock, LockPasses, logout
<1>6. CASE RecoveryStep
  BY <1>2, <1>6 DEF RecoveryStep, unlock_user, create_password_reset, reset_password_read, reset_password, ResetExpires
<1>7. CASE SsoStep BY <1>2, <1>7 DEF SsoStep, upsert_sso_user, _resolve_or_create_sso_user, bind_sso, bind_sso_read, sso_callback
<1>8. CASE ScimStep BY <1>2, <1>8 DEF ScimStep, create_scim_user, update_user, update_scim_identity, update_scim_identity_read, update_user_active
<1>9. CASE KeyStep
  BY <1>1, <1>2, <1>9 DEF KeyStep, create_key, issue, get_active_for_team, rotate_for_team, revoke_for_team, authenticate_key,
     KeyTimePasses, create_sp, set_enabled, delete_sp
<1>10. CASE UNCHANGED vars BY <1>2, <1>10 DEF vars
<1> QED BY <1>3, <1>4, <1>5, <1>6, <1>7, <1>8, <1>9, <1>10 DEF Next

\* The invariant is inductive.
LEMMA AccountsInvStep == AccountsInv /\ [Next]_vars => AccountsInv'
<1> SUFFICES ASSUME AccountsInv, [Next]_vars PROVE AccountsInv' OBVIOUS
<1>1. UserWrite BY UserWrites
<1>2. clobbered \subseteq clobbered' /\ clobbered' \subseteq Users BY ClobberedGrows
<1>3. users' \in [Users -> User] /\ \A u \in Users : Ages(u) BY <1>1, AccountsAge
<1>4. UsersOK' BY <1>2, <1>3 DEF UsersOK, Ages
<1>5. SessionsOK' BY <1>3, SessionsStep
<1>6. ResetsOK' /\ ResetsKept BY <1>1, ResetsStep DEF ResetsKept
<1>7. KeysKept BY KeysStep
<1>8. RequestsOK' BY <1>3, <1>6, <1>7, RequestsStep
<1>9. AdminRemains' BY <1>1, <1>2, AdminStays
<1>10. ThresholdLocks' BY <1>1, <1>3, ThresholdStep
<1>11. OffboardedKeysDead' BY <1>1, <1>7, OffboardingKills DEF KeysKept
<1>12. AdmittedWhileGood' BY AdmittedStep
<1> QED BY <1>4, <1>5, <1>6, <1>7, <1>8, <1>9, <1>10, <1>11, <1>12 DEF AccountsInv, KeysKept

\* The inductive invariant of accounts, sessions, reset tokens and keys, for
\* every set of accounts, keys and principals and any number of concurrent
\* requests (user_service.py, scim_service.py, api_keys/service.py).
THEOREM AccountsInvariant == Spec => []AccountsInv
<1>1. Init => AccountsInv BY AccountsInitInv
<1>2. AccountsInv /\ [Next]_vars => AccountsInv' BY AccountsInvStep
<1> QED BY <1>1, <1>2, PTL DEF Spec

\* No interleaving of admins, logins, resets and unlocks takes the last admin
\* away, leaves a crossed threshold unattended or lets a reset token be used
\* twice (user_service.py:141, 333; password_reset_repository.py:39).
THEOREM AccountsGuardedHolds == Spec => []AccountsGuarded
<1>1. AccountsInv => AccountsGuarded
  <2> SUFFICES ASSUME AccountsInv PROVE AccountsGuarded OBVIOUS
  <2>1. TypeOK
    <3>1. \A t \in Tokens : resets[t].user \in Users \cup {NoOne} /\ resets[t].state \in {"absent", "open", "used", "expired", "gone"}
      BY DEF AccountsInv, ResetsOK, ResetType
    <3> QED BY <3>1 DEF TypeOK, AccountsInv, UsersOK, SessionsOK, TokenType, KeysOK
  <2>2. ResetOnce BY DEF AccountsInv, ResetsOK, ResetOnce
  <2> QED BY <2>1, <2>2 DEF AccountsInv, AccountsGuarded
<1> QED BY <1>1, AccountsInvariant, PTL

\* A token or key that was revoked, replaced or whose owner was offboarded is
\* never usable again, whatever login, issue or rotation was under way
\* (api_keys/service.py:185, 208; user_repository.py:58; repository.py:193).
THEOREM CredentialsDieHolds == Spec => []CredentialsDie
<1>1. AccountsInv => CredentialsDie
  <2> SUFFICES ASSUME AccountsInv PROVE CredentialsDie OBVIOUS
  <2>1. RevokedStayDead
    <3> SUFFICES ASSUME NEW z \in revoked, Valid(z) PROVE FALSE BY DEF RevokedStayDead
    <3>1. z \in TokenType /\ Outdated(z.user, z.tv) BY DEF AccountsInv, SessionsOK
    <3>2. z.user \in Users /\ z.tv \in Nat BY <3>1 DEF TokenType
    <3>3. users[z.user].row = "live" /\ z.tv = users[z.user].tv BY DEF Valid, Live
    <3> QED BY <3>1, <3>2, <3>3 DEF Outdated
  <2> QED BY <2>1 DEF AccountsInv, KeysOK, CredentialsDie
<1> QED BY <1>1, AccountsInvariant, PTL

\* An account an admin disabled is enabled again by an admin's request only: no
\* SCIM sync, however stale its read, undoes it (scim_service.py:173, 207).
THEOREM AdminDisableSticksHolds == Spec => AdminDisableSticks
<1>1. AccountsInv /\ [Next]_vars =>
        [\A u \in Users :
          (users[u].row = "live" /\ users[u].by = "admin" /\ users' # users) =>
              \/ users'[u].by = "admin" /\ ~users'[u].active
              \/ users'[u].row = "deleted"
              \/ \E p \in Procs : req[p].at = "set_active" /\ req[p].target = u /\ req'[p] = Idle]_vars
  BY UserWrites, DisableSticks
<1> QED BY <1>1, AccountsInvariant, PTL DEF Spec, AdminDisableSticks
=============================================================================
